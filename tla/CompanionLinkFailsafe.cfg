CONSTANTS
    Names <- AllNames
    Vehicles = {0, 1}
    NoVehicle = 999
    Values <- EveryBoundary
    MaxOptions = 63
SPECIFICATION FailsafeSpec
INVARIANTS
    PhaseFitsEvidence
