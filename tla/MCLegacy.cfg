\* Legacy guests (no process id): ownership by render thread and a
\* handle counter that wraps, so ids of destroyed resources are reused.
CONSTANTS
    Threads = {t1, t2}
    PuidValues <- MCLegacyPuidValues
    Displays = {}
    MaxHandle = 3
    HandleWraps = TRUE
    MaxRef = 2
    RefBits = 3
    GuestApiLevel = 30
    NoDelayClose = FALSE
    ExplicitHandles = FALSE
    BindCalls = FALSE
    Images = {}
    MaxSpawns = 2
    StartCanFail = FALSE
SPECIFICATION Spec
SYMMETRY MCThreadSymmetry
CHECK_DEADLOCK FALSE
INVARIANT HandleUnique NoOrphanContext
