\* app_stream may die once, also while it holds sem_shm.
CONSTANTS
    Shapes = {s1, s2}
    NoShape = none
    MaxCrashes = 1
    CrashInCritical = TRUE
SPECIFICATION Spec
CHECK_DEADLOCK FALSE
PROPERTY GrabCompletes
