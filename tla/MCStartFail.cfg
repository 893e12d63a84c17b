\* One connection whose render thread fails to start.
CONSTANTS
    Threads = {t1}
    PuidValues <- MCOnePuid
    Displays = {}
    MaxHandle = 2
    HandleWraps = FALSE
    MaxRef = 2
    RefBits = 3
    GuestApiLevel = 30
    NoDelayClose = FALSE
    ExplicitHandles = FALSE
    BindCalls = FALSE
    Images = {}
    MaxSpawns = 1
    StartCanFail = TRUE
SPECIFICATION Spec
CHECK_DEADLOCK FALSE
INVARIANT ThreadsLive
