------------------------ MODULE CompanionLinkFailsafe ------------------------
(***************************************************************************)
(* src/mission/safety/CompanionLinkFailsafe.cpp: the read-only check of    *)
(* the parameters that make ArduPilot act when the companion falls silent. *)
(*                                                                         *)
(* A PARAM_VALUE carries a floating-point number.  It is a record here:    *)
(* finite tells NaN and the infinities from numbers, halves counts half    *)
(* units, so that 2.5 is a number of its own between 2 and 3.              *)
(***************************************************************************)
EXTENDS Integers, FiniteSets

CONSTANTS
    Names,       \* the parameters read: AllNames, or fewer in small instances
    Vehicles,    \* MAVLink system ids an autopilot may have, as numbers
    NoVehicle,   \* an empty heartbeat_system_id
    Values,      \* the numbers a PARAM_VALUE may carry
    MaxOptions   \* the largest FS_OPTIONS, of 32 bits

AllNames == {"FS_GCS_ENABLE", "FS_GCS_TIMEOUT", "FS_OPTIONS", "SYSID_MYGCS"}

Number(n) == [finite |-> TRUE, halves |-> 2 * n]
NaN       == [finite |-> FALSE, halves |-> 0]
NoValue   == [finite |-> FALSE, halves |-> -1]

ASSUME FailsafeAssumption ==
    /\ Names \subseteq AllNames /\ Names # {}
    /\ Vehicles \subseteq 0 .. 255 /\ NoVehicle \in Int \ (0 .. 255)
    /\ Values \subseteq [finite : BOOLEAN, halves : Int]
    /\ NoValue \notin Values
    /\ MaxOptions \in Nat

VARIABLES
    failsafePhase,      \* snapshot_.phase
    heartbeatSystemId,  \* snapshot_.heartbeat_system_id
    raw                 \* raw_action_, raw_timeout_s_, raw_options_, raw_gcs_system_id_

failsafeVars == <<failsafePhase, heartbeatSystemId, raw>>

FailsafePhases == {"waiting_for_vehicle", "reading_parameters", "accepted", "rejected"}

FailsafeTypeOK ==
    /\ failsafePhase \in FailsafePhases
    /\ heartbeatSystemId \in Vehicles \cup {NoVehicle}
    /\ raw \in [Names -> Values \cup {NoValue}]

NothingRead == [n \in Names |-> NoValue]

FailsafeInit ==
    /\ failsafePhase = "waiting_for_vehicle"
    /\ heartbeatSystemId = NoVehicle
    /\ raw = NothingRead

(***************************************************************************)
(* validate().                                                             *)
(***************************************************************************)
\* exact_integer<T>(): a whole number that fits, or -1 for nullopt.
ExactInteger(value, maximum) ==
    IF value.finite /\ value.halves \in 0 .. 2 * maximum /\ value.halves % 2 = 0
    THEN value.halves \div 2
    ELSE -1

\* The bit of this weight is clear.
Clear(options, weight) == (options \div weight) % 2 = 0

\* The checks, each passed by a parameter that the instance leaves out.
ActionLands(r) ==
    "FS_GCS_ENABLE" \in Names => ExactInteger(r["FS_GCS_ENABLE"], 255) = 5

TimeoutInRange(r) ==
    "FS_GCS_TIMEOUT" \in Names =>
        r["FS_GCS_TIMEOUT"].finite /\ r["FS_GCS_TIMEOUT"].halves \in 4 .. 20

\* Mutant: only the bit for Auto missions is looked at.
OptionsEnforceAuto(r) ==
    "FS_OPTIONS" \in Names =>
        LET options == ExactInteger(r["FS_OPTIONS"], MaxOptions)
        IN  options >= 0 /\ Clear(options, 2)

OptionsEnforce(r) ==
    "FS_OPTIONS" \in Names =>
        LET options == ExactInteger(r["FS_OPTIONS"], MaxOptions)
        IN  options >= 0 /\ Clear(options, 2) /\ Clear(options, 16)

GcsIdMatches(r, v) ==
    "SYSID_MYGCS" \in Names =>
        LET id == ExactInteger(r["SYSID_MYGCS"], 255)
        IN  id >= 1 /\ id = v

Complete(r) == \A n \in Names : r[n] # NoValue

Accepts(r, v) ==
    /\ Complete(r)
    /\ ActionLands(r)
    /\ TimeoutInRange(r)
    /\ OptionsEnforce(r)
    /\ GcsIdMatches(r, v)

Verdict(r, v) ==
    IF Complete(r)
    THEN IF Accepts(r, v) THEN "accepted" ELSE "rejected"
    ELSE "reading_parameters"

(***************************************************************************)
(* reset(), observe_vehicle() and on_parameter().                          *)
(***************************************************************************)
ResetFor(v) ==
    /\ heartbeatSystemId' = v
    /\ failsafePhase' = IF v = NoVehicle THEN "waiting_for_vehicle"
                                         ELSE "reading_parameters"
    /\ raw' = NothingRead

\* Mutant: only a disconnection starts over.
ObserveConnection(v) ==
    IF (v = NoVehicle) # (heartbeatSystemId = NoVehicle)
    THEN ResetFor(v)
    ELSE UNCHANGED failsafeVars

\* v is NoVehicle when the vehicle is not connected or has no id.  A vehicle
\* already known keeps its evidence.
ObserveVehicle(v) ==
    IF v # heartbeatSystemId
    THEN ResetFor(v)
    ELSE UNCHANGED failsafeVars

\* Mutant: the decoder is relied on to admit the right vehicle only.
FromAnyone(source, component) ==
    /\ heartbeatSystemId # NoVehicle
    /\ component = "autopilot"

FromObserved(source, component) ==
    /\ heartbeatSystemId # NoVehicle
    /\ source = heartbeatSystemId
    /\ component = "autopilot"

OnParameter(source, component, name, value) ==
    IF FromObserved(source, component) /\ name \in Names
    THEN /\ raw' = [raw EXCEPT ![name] = value]
         /\ failsafePhase' = Verdict(raw', heartbeatSystemId)
         /\ UNCHANGED heartbeatSystemId
    ELSE UNCHANGED failsafeVars

(***************************************************************************)
(* On its own: any vehicle may come or go and any component of any vehicle *)
(* may report any number under any name.                                   *)
(***************************************************************************)
FailsafeNext ==
    \/ \E v \in Vehicles \cup {NoVehicle} : ObserveVehicle(v)
    \/ \E v \in Vehicles, component \in {"autopilot", "other"},
          name \in AllNames \cup {"OTHER"}, value \in Values :
            OnParameter(v, component, name, value)

FailsafeSpec == FailsafeInit /\ [][FailsafeNext]_failsafeVars

(***************************************************************************)
(* The policy an autopilot has to follow for the companion to be watched:  *)
(* it lands, within two to ten seconds, whatever mode it flies in, when    *)
(* this companion, and no other station, falls silent.                     *)
(***************************************************************************)
SafePolicy(r, v) ==
    /\ "FS_GCS_ENABLE" \in Names => r["FS_GCS_ENABLE"] = Number(5)
    /\ "FS_GCS_TIMEOUT" \in Names =>
           \E h \in 4 .. 20 : r["FS_GCS_TIMEOUT"] = [finite |-> TRUE, halves |-> h]
    /\ "FS_OPTIONS" \in Names =>
           \E low \in {0, 1}, middle \in 0 .. 3, high \in 0 .. MaxOptions \div 32 :
               LET options == low + 4 * middle + 32 * high
               IN  options <= MaxOptions /\ r["FS_OPTIONS"] = Number(options)
    /\ "SYSID_MYGCS" \in Names => v # 0 /\ r["SYSID_MYGCS"] = Number(v)

\* The phase always is the verdict on the evidence at hand: nothing is
\* accepted that the policy forbids and nothing rejected that it allows,
\* whatever the order in which values and vehicles come and go.
PhaseFitsEvidence ==
    /\ failsafePhase = "waiting_for_vehicle" <=> heartbeatSystemId = NoVehicle
    /\ failsafePhase = "waiting_for_vehicle" => raw = NothingRead
    /\ failsafePhase = "reading_parameters" => \E n \in Names : raw[n] = NoValue
    /\ failsafePhase \in {"accepted", "rejected"} =>
           /\ \A n \in Names : raw[n] # NoValue
           /\ failsafePhase = "accepted" <=> SafePolicy(raw, heartbeatSystemId)
==============================================================================
