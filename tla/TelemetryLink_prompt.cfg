CONSTANTS
    NumStreams = 2
    MaxAttempts = 3
    AckTimeout = 2
    Vehicles = {v1, v2}
    NoVehicle = NoVehicle
    Refusals = {unsupported}
    NoResult = NoResult
    HeartbeatTimeout = 3
    BootTime <- ShortestBoot
    MaxRoundTrip <- PromptRoundTrip
    OutagesAreTotal = TRUE
SPECIFICATION FairSpec
INVARIANTS
    TypeOK
    CountedMeansGranted
    RefusalNamesTheStream
    OneOpenExchange
    IInv
PROPERTIES
    OutcomeIsFinal
    SetupSettles
