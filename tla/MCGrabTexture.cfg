\* app_stream changes the frame shape after the grabber sized its texture,
\* writes while a grab renders, and may die once and restart.
CONSTANTS
    Shapes = {s1, s2}
    NoShape = none
    MaxCrashes = 1
    CrashInCritical = FALSE
SPECIFICATION Spec
PROPERTY GrabShowsCurrentFrame
