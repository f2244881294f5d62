CONSTANTS
    forward = forward
    downward = downward
    Sources = {forward, downward}
    Rpicam = {downward}
    Program = Program
    StopOrder <- ForwardFirst
    MaxFrames = 1
    ForksOverlap = FALSE
SPECIFICATION FairSpec
INVARIANTS
    TypeOK
    AttemptsAreSeparate
    TimestampsBelong
PROPERTIES
    SourcesAreFeeds
    FailuresAreReported
    ShutdownFinishes
CHECK_DEADLOCK FALSE
