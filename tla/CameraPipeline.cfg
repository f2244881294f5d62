SPECIFICATION Spec
CONSTANTS
    MaxFrames = 3
    MaxRestarts = 1
    MaxFrameAge = 2
    FrameInterval = 1
    Detecting = TRUE
CHECK_DEADLOCK FALSE
INVARIANTS
    TypeOK
    FramesAreAccountedFor
PROPERTIES
    StalledCamerasGoDark
    FailureIsSurvived
    PreviewNeverBlocks
