CONSTANTS
    Names = {"FS_GCS_ENABLE"}
    Vehicles = {1, 2}
    NoVehicle = 999
    Values <- FiveAndOne
    MaxOptions = 1
    NumStreams = 1
    MaxAttempts = 1
    AckTimeout = 1
    Refusals = {"denied"}
    NoResult = "none"
    HeartbeatTimeout = 2
    HeartbeatInterval = 2
    ParameterSpacing = 1
    RetryInterval = 1
    RefreshInterval = 2
    Metadata = {"version", "armingVoltage"}
    MetadataInterval = 1
    MaxRoundTrip = 1
    MaxInFlight = 2
    SettingsChange = FALSE
    OthersAsk = TRUE
    OutagesAreSeen = FALSE
SPECIFICATION Spec
INVARIANTS
    TypeOK
    PartsAgree
    EvidenceIsTheVehiclesOwn
    HeartbeatOnTime
