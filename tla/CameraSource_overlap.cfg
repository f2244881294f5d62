CONSTANTS
    forward = forward
    downward = downward
    Sources = {forward, downward}
    Rpicam = {downward}
    Program = Program
    StopOrder <- ForwardFirst
    MaxFrames = 1
    ForksOverlap = TRUE
SPECIFICATION FairSpec
PROPERTIES
    FailuresAreReported
CHECK_DEADLOCK FALSE
