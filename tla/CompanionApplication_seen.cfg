CONSTANTS
    Names = {"FS_GCS_ENABLE", "SYSID_MYGCS"}
    Vehicles = {1}
    NoVehicle = 999
    Values <- FiveAndOne
    MaxOptions = 1
    NumStreams = 1
    MaxAttempts = 1
    AckTimeout = 1
    Refusals = {"denied"}
    NoResult = "none"
    HeartbeatTimeout = 2
    HeartbeatInterval = 1
    ParameterSpacing = 1
    RetryInterval = 1
    RefreshInterval = 2
    Metadata = {}
    MetadataInterval = 0
    MaxRoundTrip = 1
    MaxInFlight = 2
    SettingsChange = TRUE
    OthersAsk = FALSE
    OutagesAreSeen = TRUE
SPECIFICATION FairSpec
INVARIANTS
    NothingFromBefore
PROPERTIES
    EvidenceConverges
