-------------------------- MODULE VehicleConnection --------------------------
(***************************************************************************)
(* Which vehicle the program believes it is connected to: the heartbeat    *)
(* part of src/mission/flight/VehicleState.cpp behind the filter of        *)
(* src/hardware/mavlink/MavlinkDecoder.cpp.                                *)
(*                                                                         *)
(* silence is the age of last_heartbeat_ in ticks, counted up to           *)
(* SilenceLimit; nothing depends on a larger age.                          *)
(***************************************************************************)
EXTENDS Naturals

CONSTANTS
    HeartbeatTimeout,  \* kHeartbeatTimeout, in ticks
    Vehicles,          \* MAVLink system ids an autopilot may have
    NoVehicle          \* an empty system_id_

VARIABLES
    systemId,  \* system_id_
    silence    \* now - last_heartbeat_

connectionVars == <<systemId, silence>>

SilenceLimit == HeartbeatTimeout + 1

ConnectionTypeOK ==
    /\ systemId \in Vehicles \cup {NoVehicle}
    /\ silence \in 0 .. SilenceLimit

ConnectionInit == systemId = NoVehicle /\ silence = SilenceLimit

\* snapshot().connected: a heartbeat was seen and is_fresh() holds for it.
Connected == systemId # NoVehicle /\ silence <= HeartbeatTimeout

\* What poll() passes on: the id, if there is one and it is connected.
ReportedVehicle == IF Connected THEN systemId ELSE NoVehicle

(***************************************************************************)
(* handle_message(): only heartbeats are looked at before a vehicle is     *)
(* connected, and only the connected vehicle's messages after that.        *)
(***************************************************************************)
Admitted(source) == Connected /\ source = systemId

\* handle_heartbeat(): another vehicle's heartbeat is ignored while connected.
HeartbeatAdmitted(v) == Connected => v = systemId

\* on_heartbeat() is about to drop everything learnt from the vehicle.
StartsAfresh(v) ==
    systemId # NoVehicle /\ (silence > HeartbeatTimeout \/ v # systemId)

OnHeartbeat(v) ==
    IF HeartbeatAdmitted(v)
    THEN systemId' = v /\ silence' = 0
    ELSE UNCHANGED connectionVars

ConnectionTick ==
    /\ silence' = IF silence < SilenceLimit THEN silence + 1 ELSE silence
    /\ UNCHANGED systemId
==============================================================================
