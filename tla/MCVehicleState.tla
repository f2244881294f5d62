--------------------------- MODULE MCVehicleState ---------------------------
(***************************************************************************)
(* Two flight controllers, timeouts of at most one tick, and one kind of   *)
(* trouble in each behaviour.  Of the channels without influence on        *)
(* readiness there is one.                                                 *)
(***************************************************************************)
EXTENDS VehicleState, TLC

CONSTANTS v1, v2

Controllers == Permutations(Vehicles)

AllChannels == {"gps", "localPosition", "voltage", "remaining", "systemStatus"}
Timeouts    == [c \in AllChannels |-> IF c \in {"localPosition", "remaining"} THEN 0 ELSE 1]

ArmingVoltages == {2, NotANumber}

Sensors      == {"battery", "compass"}
SomeSensors  ==
    {[enabled |-> Sensors, healthy |-> Sensors],
     [enabled |-> Sensors, healthy |-> {"battery"}],
     [enabled |-> {"compass"}, healthy |-> Sensors]}

OneTrouble == {{"gps"}, {"voltage"}, {"systemStatus"}, {"battery"}, {"other"}}
==============================================================================
