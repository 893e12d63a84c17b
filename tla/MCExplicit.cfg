\* A guest that chooses colour-buffer handles itself
\* (createColorBufferWithHandle) on a single connection that is never reaped.
CONSTANTS
    Threads = {t1}
    PuidValues <- MCOnePuid
    Displays = {}
    MaxHandle = 2
    HandleWraps = FALSE
    MaxRef = 2
    RefBits = 3
    GuestApiLevel = 30
    NoDelayClose = FALSE
    ExplicitHandles = TRUE
    BindCalls = TRUE
    Images = {i1}
    MaxSpawns = 1
    StartCanFail = FALSE
SPECIFICATION Spec
CHECK_DEADLOCK FALSE
INVARIANT ProcImagesLive
