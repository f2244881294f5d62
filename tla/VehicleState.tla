---------------------------- MODULE VehicleState ----------------------------
(***************************************************************************)
(* src/mission/flight/VehicleState.cpp and the message handlers of         *)
(* src/hardware/mavlink/MavlinkDecoder.cpp: what the program believes of   *)
(* the connected vehicle and whether it calls the vehicle ready to arm.    *)
(*                                                                         *)
(* Beside the program stands the vehicle with the id systemId.  Its        *)
(* condition (truth) and its BATT_ARM_VOLT may change at any moment, and   *)
(* another vehicle that takes over has its own; messages say what is true  *)
(* when they are sent, may be lost, and are read within a tick.  Values    *)
(* that decide nothing (altitudes, angles, satellites) are left out of the *)
(* readings, and so is the lock: every function holds it from start to end. *)
(***************************************************************************)
EXTENDS VehicleConnection, Integers

CONSTANTS
    Channels,       \* what has a timestamp of its own: last_gps_, ...
    Timeout,        \* the freshness timeout of each, in ticks
    WarningTimeout, BlockingWarningTimeout,
                    \* kWarningTimeout, kBlockingWarningTimeout
    Fixes, FixNeeded,             \* GPS fix types, and 3
    Voltages,                     \* battery voltages above 0
    Charges, MinimumCharge,       \* percentages in 0 .. 100, and 20
    NoReading,                    \* a field that a message leaves unset
    Thresholds, NotANumber,       \* values of BATT_ARM_VOLT, NaN among them
    SensorStates,                 \* records of the sensors enabled and healthy
    Texts, BatteryTexts, PrearmTexts,
                    \* status texts; those naming the battery; the pre-arm ones
    Troubles        \* what may be wrong with a vehicle in one behaviour

Conditions == {"gps", "systemStatus"}
Watched    == Conditions \cup {"voltage"}

ASSUME ReadinessAssumption ==
    /\ HeartbeatTimeout \in Nat /\ NoVehicle \notin Vehicles
    /\ Watched \cup {"remaining"} \subseteq Channels
    /\ Timeout \in [Channels -> Nat]
    /\ WarningTimeout \in Nat
    /\ BlockingWarningTimeout \in 0 .. WarningTimeout
    /\ Fixes \subseteq Nat /\ FixNeeded \in Nat
    /\ Voltages \subseteq Nat \ {0}
    /\ Charges \subseteq 0 .. 100 /\ MinimumCharge \in Nat
    /\ Thresholds \subseteq Int \cup {NotANumber}
    /\ NoReading \notin Int /\ NotANumber \notin Int \cup {NoReading}
    /\ BatteryTexts \subseteq Texts /\ PrearmTexts \subseteq Texts

VARIABLES
    age,           \* now - last_..._ of each channel, up to its timeout + 1
    fix,           \* gps_fix_type_
    voltage,       \* battery_voltage_v_
    charge,        \* battery_remaining_pct_
    sensors,       \* sensors_enabled_, sensors_healthy_
    threshold,     \* battery_arming_voltage_v_
    metadata,      \* autopilot_metadata_ is there
    warnings,      \* now - last_seen of the entry of warnings_ for each text
    truth,         \* the vehicle's own fix, voltage and sensors
    armingVoltage, \* the vehicle's BATT_ARM_VOLT
    trouble,       \* what may be wrong with it
    badFor,        \* ticks for which each of Conditions has been wrong
    had,           \* ticks since it last had each voltage
    said,          \* ticks since it last sent each warning
    told           \* the BATT_ARM_VOLT it last told since it came on line

readings == <<fix, voltage, charge, sensors>>
learnt   == <<threshold, metadata>>
vehicle  == <<truth, armingVoltage, trouble, badFor, had>>
history  == <<said, told>>
vars     == <<systemId, silence, age, fix, voltage, charge, sensors, threshold,
              metadata, warnings, truth, armingVoltage, trouble, badFor, had,
              said, told>>

Never(c)    == Timeout[c] + 1  \* older than anything that counts, or unset
NoWarning   == WarningTimeout + 1
Unset       == [c \in Channels |-> Never(c)]
NoSensors   == [enabled |-> {}, healthy |-> {}]
NoWarnings  == [text \in Texts |-> NoWarning]
Older(n, limit) == IF n < limit THEN n + 1 ELSE n

(***************************************************************************)
(* snapshot().                                                             *)
(***************************************************************************)
Fresh(c) == Connected /\ age[c] <= Timeout[c]

\* Mutant: the fix is looked at without its age.
GpsReadyOnce == Connected /\ fix # NoReading /\ fix >= FixNeeded

GpsReady == Fresh("gps") /\ fix # NoReading /\ fix >= FixNeeded

\* IEEE comparisons with NaN are false.
VoltageMeets(v, limit) == limit = 0 \/ v >= limit

SensorOk(state, sensor) == sensor \in state.enabled /\ sensor \in state.healthy

BatteryReady ==
    /\ Fresh("voltage") /\ voltage # NoReading /\ threshold # NoReading
    /\ VoltageMeets(voltage, threshold)
    /\ Fresh("systemStatus") /\ SensorOk(sensors, "battery")
    /\ \A text \in BatteryTexts : warnings[text] > WarningTimeout
    /\ Fresh("remaining") /\ charge # NoReading => charge >= MinimumCharge

AllHealthy(state) == state.enabled \subseteq state.healthy

SystemHealthOk == Fresh("systemStatus") /\ AllHealthy(sensors)

RecentWarning ==
    \E text \in Texts : warnings[text] <= BlockingWarningTimeout

Armable == GpsReady /\ BatteryReady /\ SystemHealthOk /\ ~RecentWarning

\* What a snapshot of a connected vehicle tells of it, and the arming voltage,
\* which it compares with and tells once a voltage is known.
Reported ==
    IF Connected
    THEN {c \in Channels : Fresh(c)}
         \cup {text \in Texts : warnings[text] <= WarningTimeout}
         \cup (IF threshold # NoReading THEN {"threshold"} ELSE {})
         \cup (IF metadata THEN {"metadata"} ELSE {})
    ELSE {}

(***************************************************************************)
(* The vehicle.                                                            *)
(***************************************************************************)
Truth == [fix : Fixes, voltage : Voltages, sensors : SensorStates]

Wrong(state, c) ==
    CASE c = "gps" -> state.fix < FixNeeded
      [] c = "systemStatus" ->
             ~SensorOk(state.sensors, "battery") \/ ~AllHealthy(state.sensors)

VoltageWrong(limit, v) == limit # NotANumber /\ limit > v

\* Only what is in trouble goes wrong; a voltage, by any BATT_ARM_VOLT.
Possible(state) ==
    /\ \A c \in Conditions : Wrong(state, c) => c \in trouble
    /\ \A limit \in Thresholds :
         VoltageWrong(limit, state.voltage) => "voltage" \in trouble

\* A condition that was wrong, or a voltage that was not there, for longer than
\* anything counts.
AlwaysSo(state) ==
    /\ badFor' = [c \in Conditions |-> IF Wrong(state, c) THEN Never(c) ELSE 0]
    /\ had' = [u \in Voltages |-> IF u = state.voltage THEN 0 ELSE Never("voltage")]

TypeOK ==
    /\ ConnectionTypeOK
    /\ \A c \in Channels : age[c] \in 0 .. Never(c)
    /\ DOMAIN age = Channels
    /\ fix \in Fixes \cup {NoReading} /\ voltage \in Voltages \cup {NoReading}
    /\ charge \in Charges \cup {NoReading}
    /\ sensors \in SensorStates \cup {NoSensors}
    /\ threshold \in Nat \cup {NoReading}
    /\ metadata \in BOOLEAN
    /\ warnings \in [Texts -> 0 .. NoWarning]
    /\ truth \in Truth
    /\ armingVoltage \in Thresholds
    /\ trouble \in Troubles
    /\ DOMAIN badFor = Conditions
    /\ \A c \in Conditions : badFor[c] \in 0 .. Never(c)
    /\ had \in [Voltages -> 0 .. Never("voltage")]
    /\ said \in [Texts -> 0 .. NoWarning]
    /\ told \in Thresholds \cup {NoReading}

Init ==
    /\ ConnectionInit
    /\ age = Unset
    /\ fix = NoReading /\ voltage = NoReading /\ charge = NoReading
    /\ sensors = NoSensors
    /\ threshold = NoReading /\ metadata = FALSE
    /\ warnings = NoWarnings
    /\ armingVoltage \in Thresholds /\ trouble \in Troubles
    /\ truth \in Truth /\ Possible(truth)
    /\ badFor = [c \in Conditions |-> 0]
    /\ had = [u \in Voltages |-> IF u = truth.voltage THEN 0 ELSE Never("voltage")]
    /\ said = NoWarnings /\ told = NoReading

(***************************************************************************)
(* What the program reads, one message at a time.                          *)
(***************************************************************************)
Hear(heard) == age' = [c \in Channels |-> IF c \in heard THEN 0 ELSE age[c]]

\* Mutant: the arming voltage is not among what a reconnection forgets.
ForgetKeepsThreshold ==
    /\ age' = Unset /\ threshold' = threshold /\ metadata' = FALSE
    /\ warnings' = NoWarnings

\* reset_telemetry_locked().
Forget ==
    /\ age' = Unset /\ threshold' = NoReading /\ metadata' = FALSE
    /\ warnings' = NoWarnings

\* The vehicle that takes over has a BATT_ARM_VOLT of its own, is in any possible
\* condition, and may long have been.
AnotherVehicle ==
    /\ truth' \in {state \in Truth : Possible(state)}
    /\ armingVoltage' \in Thresholds
    /\ AlwaysSo(truth')
    /\ UNCHANGED trouble

\* handle_heartbeat() and on_heartbeat().
ReceiveHeartbeat(v) ==
    /\ OnHeartbeat(v)
    /\ IF HeartbeatAdmitted(v) /\ StartsAfresh(v)
       THEN Forget /\ said' = NoWarnings /\ told' = NoReading
       ELSE UNCHANGED <<age, learnt, warnings, history>>
    /\ IF HeartbeatAdmitted(v) /\ systemId \notin {v, NoVehicle}
       THEN AnotherVehicle
       ELSE UNCHANGED vehicle
    /\ UNCHANGED readings

\* handle_gps() and on_gps().
ReceiveGps(v) ==
    /\ Admitted(v)
    /\ Hear({"gps"}) /\ fix' = truth.fix
    /\ UNCHANGED <<connectionVars, voltage, charge, sensors, learnt, warnings,
                   vehicle, history>>

\* Positions and attitude.
ReceiveMotion(v, c) ==
    /\ Admitted(v)
    /\ c \notin Watched \cup {"remaining", "current"}
    /\ Hear({c})
    /\ UNCHANGED <<connectionVars, readings, learnt, warnings, vehicle, history>>

\* update_battery_locked(): fields are those that the message sets and that
\* are in range; the others keep their value and their age.
UpdateBattery(fields, percentage) ==
    /\ voltage' = IF "voltage" \in fields THEN truth.voltage ELSE voltage
    /\ charge' = IF "remaining" \in fields THEN percentage ELSE charge

BatteryFields == {"voltage", "current", "remaining"}

\* BATTERY_STATUS.
ReceiveBattery(v, fields, percentage) ==
    /\ Admitted(v)
    /\ Hear(fields) /\ UpdateBattery(fields, percentage)
    /\ UNCHANGED <<connectionVars, fix, sensors, learnt, warnings, vehicle,
                   history>>

\* SYS_STATUS, which carries the battery's fields as well.
ReceiveSystemStatus(v, fields, percentage) ==
    /\ Admitted(v)
    /\ Hear({"systemStatus"} \cup fields) /\ UpdateBattery(fields, percentage)
    /\ sensors' = truth.sensors
    /\ UNCHANGED <<connectionVars, fix, learnt, warnings, vehicle, history>>

\* Mutant: the parameter is stored as it comes.
ThresholdAsSent(value) == value

\* std::max(0.0, value): 0.0 for a value below it, and for NaN.
AtLeastZero(value) == IF value # NotANumber /\ value > 0 THEN value ELSE 0

\* PARAM_VALUE of BATT_ARM_VOLT.
ReceiveArmingVoltage(v) ==
    /\ Admitted(v)
    /\ threshold' = AtLeastZero(armingVoltage) /\ told' = armingVoltage
    /\ UNCHANGED <<connectionVars, age, readings, metadata, warnings, vehicle, said>>

\* AUTOPILOT_VERSION.
ReceiveVersion(v) ==
    /\ Admitted(v)
    /\ metadata' = TRUE
    /\ UNCHANGED <<connectionVars, age, readings, threshold, warnings, vehicle,
                   history>>

Counts(severity, text) == severity = "warning" \/ text \in PrearmTexts

\* Mutant: a warning that is there already is left as it is.
RecordOnce(text) ==
    warnings' = [warnings EXCEPT ![text] = IF @ <= WarningTimeout THEN @ ELSE 0]

\* A new entry, or an entry that is seen again.
Record(text) == warnings' = [warnings EXCEPT ![text] = 0]

\* on_status_text().
ReceiveStatusText(v, severity, text) ==
    /\ Admitted(v)
    /\ text \in trouble
    /\ IF Counts(severity, text)
       THEN Record(text) /\ said' = [said EXCEPT ![text] = 0]
       ELSE UNCHANGED <<warnings, said>>
    /\ UNCHANGED <<connectionVars, age, readings, learnt, vehicle, told>>

(***************************************************************************)
(* The vehicle changes, and time passes.  Entries of warnings_ that are    *)
(* too old are erased by the next snapshot, before anything looks at them. *)
(***************************************************************************)
VehicleChanges(state) ==
    /\ Possible(state) /\ state # truth
    /\ truth' = state
    /\ badFor' = [c \in Conditions |-> IF Wrong(state, c) THEN badFor[c] ELSE 0]
    /\ had' = [had EXCEPT ![state.voltage] = 0]
    /\ UNCHANGED <<connectionVars, age, readings, learnt, warnings, armingVoltage,
                   trouble, history>>

\* Somebody sets BATT_ARM_VOLT.  The program is told by the PARAM_VALUE that
\* follows, if that arrives (ReceiveArmingVoltage), and otherwise not: it asks
\* again only while a snapshot does not tell the value.
ArmingVoltageChanges(limit) ==
    /\ limit # armingVoltage
    /\ armingVoltage' = limit
    /\ UNCHANGED <<connectionVars, age, readings, learnt, warnings, truth, trouble,
                   badFor, had, history>>

Tick ==
    /\ ConnectionTick
    /\ age' = [c \in Channels |-> Older(age[c], Never(c))]
    /\ warnings' = [text \in Texts |-> Older(warnings[text], NoWarning)]
    /\ said' = [text \in Texts |-> Older(said[text], NoWarning)]
    /\ badFor' = [c \in Conditions |->
                    IF Wrong(truth, c) THEN Older(badFor[c], Never(c)) ELSE 0]
    /\ had' = [u \in Voltages |->
                 IF u = truth.voltage THEN 0 ELSE Older(had[u], Never("voltage"))]
    /\ UNCHANGED <<readings, learnt, truth, armingVoltage, trouble, told>>

Receive(v) ==
    \/ ReceiveHeartbeat(v) \/ ReceiveGps(v)
    \/ \E c \in Channels : ReceiveMotion(v, c)
    \/ \E fields \in SUBSET (BatteryFields \cap Channels), percentage \in Charges :
         ReceiveBattery(v, fields, percentage)
         \/ ReceiveSystemStatus(v, fields, percentage)
    \/ ReceiveArmingVoltage(v) \/ ReceiveVersion(v)
    \/ \E severity \in {"warning", "info"}, text \in Texts :
         ReceiveStatusText(v, severity, text)

Next ==
    \/ \E v \in Vehicles : Receive(v)
    \/ \E state \in Truth : VehicleChanges(state)
    \/ \E limit \in Thresholds : ArmingVoltageChanges(limit)
    \/ Tick

Spec == Init /\ [][Next]_vars

(***************************************************************************)
(* Properties.                                                             *)
(***************************************************************************)
\* A vehicle is called ready to arm only if what the call rests on was true of
\* that very vehicle a timeout ago at most: a GPS fix, healthy sensors, and a
\* voltage that is not below the BATT_ARM_VOLT that this vehicle told, last and
\* since it came on line, whatever messages were lost or left a field out.
\* Of a BATT_ARM_VOLT that was changed since, and whose PARAM_VALUE was lost,
\* nothing is said: the program does not know of it.
ReadinessFollowsVehicle ==
    Armable =>
        /\ \A c \in Conditions : badFor[c] <= Timeout[c]
        /\ told # NoReading
        /\ \E u \in Voltages :
             had[u] <= Timeout["voltage"] /\ ~VoltageWrong(told, u)

\* A warning blocks for as long as it was promised since it was last sent, not
\* since it was first sent; one about the battery for as long as it is shown.
WarningsBlock ==
    Armable => \A text \in Texts :
        /\ said[text] > BlockingWarningTimeout
        /\ text \in BatteryTexts => said[text] > WarningTimeout

\* When a vehicle comes on line again, or another takes over, nothing of what
\* was known before is reported of it: neither readings that are still fresh,
\* nor warnings, nor its arming voltage, nor its version.
NothingSurvivesReconnection ==
    [][Connected' /\ (~Connected \/ systemId' # systemId) => Reported' = {}]_vars
==============================================================================
