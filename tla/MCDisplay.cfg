\* One guest process, one display: posting against display changes and
\* reaping, and server shutdown.
CONSTANTS
    Threads = {t1, t2}
    PuidValues <- MCOnePuid
    Displays = {d1}
    MaxHandle = 2
    HandleWraps = FALSE
    MaxRef = 2
    RefBits = 3
    GuestApiLevel = 30
    NoDelayClose = FALSE
    ExplicitHandles = FALSE
    BindCalls = FALSE
    Images = {}
    MaxSpawns = 2
    StartCanFail = FALSE
SPECIFICATION Spec
CHECK_DEADLOCK FALSE

PROPERTY ShutdownDrains
