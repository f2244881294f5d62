CONSTANTS
    NumStreams = 2
    MaxAttempts = 3
    AckTimeout = 2
    Vehicles = {v1}
    NoVehicle = NoVehicle
    Refusals = {unsupported}
    NoResult = NoResult
    HeartbeatTimeout = 3
    BootTime <- ShortestBoot
    MaxRoundTrip <- SlowRoundTrip
    OutagesAreTotal = TRUE
SPECIFICATION Spec
INVARIANTS
    CountedMeansGranted
