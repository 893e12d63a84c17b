\* app_stream writes two frame shapes and an invalid frame and may die once,
\* outside its critical section, and restart;
\* the grabber is created, grabs through both entry points, is destroyed.
CONSTANTS
    Shapes = {s1, s2}
    NoShape = none
    MaxCrashes = 1
    CrashInCritical = FALSE
SPECIFICATION Spec
INVARIANT GrabTypeOK
PROPERTY ImplementsShmMutex
PROPERTY GrabCompletes
