\* Reaping a finished thread while another process still uses its buffers.
CONSTANTS
    Threads = {t1, t2}
    PuidValues <- MCPuidValues
    Displays = {}
    MaxHandle = 3
    HandleWraps = FALSE
    MaxRef = 2
    RefBits = 3
    GuestApiLevel = 30
    NoDelayClose = FALSE
    ExplicitHandles = FALSE
    BindCalls = FALSE
    Images = {}
    MaxSpawns = 2
    StartCanFail = FALSE
SPECIFICATION Spec
CHECK_DEADLOCK FALSE
INVARIANT AttachedBufferLive
