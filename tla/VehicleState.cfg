CONSTANTS
    v1 = v1
    v2 = v2
    Vehicles = {v1, v2}
    NoVehicle = NoVehicle
    HeartbeatTimeout = 1
    Channels <- AllChannels
    Timeout <- Timeouts
    WarningTimeout = 1
    BlockingWarningTimeout = 0
    Fixes = {2, 3}
    FixNeeded = 3
    Voltages = {1, 2}
    Charges = {10, 20}
    MinimumCharge = 20
    NoReading = NoReading
    Thresholds <- ArmingVoltages
    NotANumber = NotANumber
    SensorStates <- SomeSensors
    Texts = {"battery", "other"}
    BatteryTexts = {"battery"}
    PrearmTexts = {"battery"}
    Troubles <- OneTrouble
SPECIFICATION Spec
INVARIANTS
    TypeOK
    ReadinessFollowsVehicle
    WarningsBlock
PROPERTIES
    NothingSurvivesReconnection
SYMMETRY Controllers
