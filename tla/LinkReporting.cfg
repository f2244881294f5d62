SPECIFICATION Spec
CONSTANTS
    ReconnectInterval = 2
    Peers = {operator}
    NoPeer = NoPeer
    FrameSize = 2
    HeartbeatTimeout = 2
    Vehicles = {v1}
    NoVehicle = NoVehicle
    HeartbeatInterval = 1
    Attributes = {mode}
    Values = {a, b}
    Unset = Unset
    Phases = {"reading", "accepted"}
    MaxFaults = 2
CHECK_DEADLOCK FALSE
INVARIANTS
    TypeOK
    LogIsConsistent
    LogIsComplete
    HeartbeatClaimIsEarned
    FramesAreNotSplit
PROPERTIES
    DeviceIsReopened
    StopIsHonoured
