------------------------- MODULE VehicleState_proofs -------------------------
(***************************************************************************)
(* Theorems about VehicleState, for any vehicles, timeouts, texts and      *)
(* readings, and however the vehicle's condition changes.                  *)
(***************************************************************************)
EXTENDS VehicleState, TLAPS

(***************************************************************************)
(* What Wrong and the limits mean, one channel at a time.                  *)
(***************************************************************************)
SensorsWrong(state) == ~SensorOk(state, "battery") \/ ~AllHealthy(state)

LEMMA WrongByChannel ==
    ASSUME NEW state
    PROVE  /\ Wrong(state, "gps") <=> state.fix < FixNeeded
           /\ Wrong(state, "systemStatus") <=> SensorsWrong(state.sensors)
  BY DEF Wrong, SensorsWrong

LEMMA WatchedChannels ==
    ASSUME NEW c \in Watched
    PROVE  c \in Channels /\ Timeout[c] \in Nat /\ Never(c) \in Nat \ {0}
  BY ReadinessAssumption DEF Watched, Conditions, Never

LEMMA NeverIsNatural ==
    ASSUME NEW c \in Channels
    PROVE  Timeout[c] \in Nat /\ Never(c) \in Nat /\ Never(c) = Timeout[c] + 1
  BY ReadinessAssumption DEF Never

LEMMA OlderStays ==
    ASSUME NEW limit \in Nat, NEW n \in 0 .. limit
    PROVE  Older(n, limit) \in 0 .. limit
  BY DEF Older

\* What two ages are to each other they stay when time passes.
LEMMA OlderKeepsOrder ==
    ASSUME NEW limit \in Nat, NEW m \in 0 .. limit, NEW n \in 0 .. limit, m <= n
    PROVE  Older(m, limit) <= Older(n, limit)
  BY DEF Older

\* A voltage that passes the check against the stored threshold is not below the
\* one the vehicle told, whatever std::max() made of it.
LEMMA ThresholdIsHonest ==
    ASSUME NEW limit \in Thresholds, NEW v \in Voltages,
           VoltageMeets(v, AtLeastZero(limit))
    PROVE  ~VoltageWrong(limit, v)
  BY ReadinessAssumption DEF VoltageMeets, AtLeastZero, VoltageWrong

(***************************************************************************)
(* Types.                                                                  *)
(***************************************************************************)
AgesTyped ==
    /\ DOMAIN age = Channels
    /\ \A c \in Channels : age[c] \in 0 .. Never(c)

ReadingsTyped ==
    /\ fix \in Fixes \cup {NoReading} /\ voltage \in Voltages \cup {NoReading}
    /\ charge \in Charges \cup {NoReading}
    /\ sensors \in SensorStates \cup {NoSensors}
    /\ threshold \in Nat \cup {NoReading}
    /\ told \in Thresholds \cup {NoReading}

WarningsTyped ==
    /\ warnings \in [Texts -> 0 .. NoWarning]
    /\ said \in [Texts -> 0 .. NoWarning]

VehicleTyped ==
    /\ truth \in Truth
    /\ armingVoltage \in Thresholds
    /\ trouble \in Troubles
    /\ DOMAIN badFor = Conditions
    /\ \A c \in Conditions : badFor[c] \in 0 .. Never(c)
    /\ had \in [Voltages -> 0 .. Never("voltage")]

LEMMA TypeOKParts ==
    TypeOK <=> /\ ConnectionTypeOK /\ AgesTyped /\ ReadingsTyped
               /\ WarningsTyped /\ VehicleTyped /\ metadata \in BOOLEAN
  BY DEF TypeOK, AgesTyped, ReadingsTyped, WarningsTyped, VehicleTyped

LEMMA WarningLimits ==
    NoWarning \in Nat /\ WarningTimeout < NoWarning /\ WarningTimeout \in Nat
    /\ BlockingWarningTimeout \in Nat /\ BlockingWarningTimeout <= WarningTimeout
  BY ReadinessAssumption DEF NoWarning

LEMMA ConnectionTyped ==
    ASSUME ConnectionTypeOK
    PROVE  /\ ConnectionTick => ConnectionTypeOK'
           /\ \A v \in Vehicles : OnHeartbeat(v) => ConnectionTypeOK'
           /\ UNCHANGED connectionVars => ConnectionTypeOK'
  <1>1. HeartbeatTimeout \in Nat /\ SilenceLimit = HeartbeatTimeout + 1
    BY ReadinessAssumption DEF SilenceLimit
  <1> QED
    BY <1>1 DEF ConnectionTypeOK, ConnectionTick, OnHeartbeat, connectionVars

(***************************************************************************)
(* The invariant.  A reading that looks well was well when it was read: the *)
(* vehicle cannot have been wrong for longer than the reading is old, and  *)
(* it had the voltage that was read when it was read.                      *)
(***************************************************************************)
LooksWell(c) ==
    IF c = "gps" THEN fix # NoReading /\ fix >= FixNeeded ELSE ~SensorsWrong(sensors)

WellIsNotBad == \A c \in Conditions : ~Wrong(truth, c) => badFor[c] = 0

VoltageIsNow == had[truth.voltage] = 0

ReadingsAreHonest == \A c \in Conditions : LooksWell(c) => badFor[c] <= age[c]

VoltageWasThere == voltage # NoReading => had[voltage] <= age["voltage"]

Honest == WellIsNotBad /\ VoltageIsNow /\ ReadingsAreHonest /\ VoltageWasThere

ThresholdIsTold ==
    threshold = IF told = NoReading THEN NoReading ELSE AtLeastZero(told)

WarningsAreRemembered == warnings = said

Inv == TypeOK /\ Honest /\ ThresholdIsTold /\ WarningsAreRemembered

LEMMA Initially == Init => Inv
  <1> SUFFICES ASSUME Init
               PROVE  Inv
    OBVIOUS
  <1>1. ConnectionTypeOK
    BY ReadinessAssumption DEF Init, ConnectionInit, ConnectionTypeOK, SilenceLimit
  <1>2. AgesTyped
    BY NeverIsNatural DEF Init, AgesTyped, Unset
  <1>3. ReadingsTyped
    BY DEF Init, ReadingsTyped
  <1>4. WarningsTyped
    BY WarningLimits DEF Init, WarningsTyped, NoWarnings
  <1>5. VehicleTyped
    BY WatchedChannels DEF Init, VehicleTyped, Watched
  <1>6. metadata \in BOOLEAN
    BY DEF Init
  <1>7. WellIsNotBad /\ VoltageIsNow
    BY DEF Init, WellIsNotBad, VoltageIsNow, Truth
  <1>8. ReadingsAreHonest /\ VoltageWasThere
    <2>1. \A c \in Conditions : badFor[c] = 0 /\ age[c] \in Nat
      BY WatchedChannels DEF Init, Unset, Watched
    <2> QED
      BY <2>1 DEF Init, ReadingsAreHonest, VoltageWasThere
  <1>9. ThresholdIsTold /\ WarningsAreRemembered
    BY DEF Init, ThresholdIsTold, WarningsAreRemembered
  <1> QED
    BY <1>1, <1>2, <1>3, <1>4, <1>5, <1>6, <1>7, <1>8, <1>9, TypeOKParts DEF Inv, Honest

(***************************************************************************)
(* Steps that only hear some channels: what is heard has the vehicle's     *)
(* reading in it, or keeps the one it had.                                 *)
(***************************************************************************)
HearsHonestly(heard) ==
    \A c \in Watched \cap heard :
        /\ c = "gps" => fix' = truth.fix
        /\ c = "voltage" => voltage' = truth.voltage
        /\ c = "systemStatus" => sensors' = truth.sensors

KeepsTheRest(heard) ==
    \A c \in Watched \ heard :
        /\ c = "gps" => fix' = fix
        /\ c = "voltage" => voltage' = voltage
        /\ c = "systemStatus" => sensors' = sensors

LEMMA HearingIsHonest ==
    ASSUME Inv, NEW heard, Hear(heard),
           HearsHonestly(heard), KeepsTheRest(heard), UNCHANGED vehicle
    PROVE  Honest' /\ AgesTyped' /\ VehicleTyped'
  <1>1. UNCHANGED <<truth, armingVoltage, trouble, badFor, had>>
    BY DEF vehicle
  <1>2. AgesTyped /\ ReadingsTyped /\ VehicleTyped /\ Honest
    BY TypeOKParts DEF Inv
  <1>3. AgesTyped'
    BY <1>2, NeverIsNatural DEF AgesTyped, Hear
  <1>4. VehicleTyped'
    BY <1>1, <1>2 DEF VehicleTyped
  <1>5. WellIsNotBad' /\ VoltageIsNow'
    BY <1>1, <1>2 DEF Honest, WellIsNotBad, VoltageIsNow, Wrong
  <1>6. ASSUME NEW c \in Conditions, LooksWell(c)'
        PROVE  badFor'[c] <= age'[c]
    <2>1. /\ age'[c] = IF c \in heard THEN 0 ELSE age[c]
          /\ badFor[c] \in Nat /\ age[c] \in Nat
      BY <1>2, WatchedChannels DEF Hear, AgesTyped, VehicleTyped, Watched
    <2>2. CASE c \in heard
      <3>1. truth.fix \in Fixes
        BY <1>2 DEF VehicleTyped, Truth
      <3>2. ~Wrong(truth, c)
        <4>1. CASE c = "gps"
          <5>1. fix' = truth.fix /\ fix' >= FixNeeded
            BY <1>6, <2>2, <4>1 DEF HearsHonestly, LooksWell, Watched
          <5>2. ~(truth.fix < FixNeeded)
            <6>1. truth.fix \in Nat /\ FixNeeded \in Nat /\ truth.fix >= FixNeeded
              BY <3>1, <5>1, ReadinessAssumption
            <6> QED
              BY <6>1
          <5> QED
            BY <4>1, <5>2, WrongByChannel
        <4>2. CASE c = "systemStatus"
          BY <1>6, <2>2, <4>2, WrongByChannel DEF HearsHonestly, LooksWell, Watched
        <4> QED
          BY <4>1, <4>2 DEF Conditions
      <3> QED
        BY <1>1, <1>2, <2>1, <2>2, <3>2 DEF Honest, WellIsNotBad
    <2>3. CASE c \notin heard
      <3>1. LooksWell(c)
        <4>1. CASE c = "gps"
          BY <1>6, <2>3, <4>1 DEF KeepsTheRest, LooksWell, Watched
        <4>2. CASE c = "systemStatus"
          BY <1>6, <2>3, <4>2 DEF KeepsTheRest, LooksWell, Watched
        <4> QED
          BY <4>1, <4>2 DEF Conditions
      <3> QED
        BY <1>1, <1>2, <2>1, <2>3, <3>1 DEF Honest, ReadingsAreHonest
    <2> QED
      BY <2>2, <2>3
  <1>7. VoltageWasThere'
    <2>1. /\ "voltage" \in Watched
          /\ age'["voltage"] = IF "voltage" \in heard THEN 0 ELSE age["voltage"]
      BY WatchedChannels DEF Hear, Watched
    <2>2. CASE "voltage" \in heard
      <3>1. voltage' = truth.voltage
        BY <2>1, <2>2 DEF HearsHonestly
      <3> QED
        BY <1>1, <1>2, <2>1, <2>2, <3>1 DEF Honest, VoltageIsNow, VoltageWasThere
    <2>3. CASE "voltage" \notin heard
      <3>1. voltage' = voltage
        BY <2>1, <2>3 DEF KeepsTheRest
      <3> QED
        BY <1>1, <1>2, <2>1, <2>3, <3>1 DEF Honest, VoltageWasThere
    <2> QED
      BY <2>2, <2>3
  <1> QED
    BY <1>3, <1>4, <1>5, <1>6, <1>7 DEF Honest, ReadingsAreHonest

LEMMA InvParts ==
    ASSUME ConnectionTypeOK', AgesTyped', ReadingsTyped', WarningsTyped',
           VehicleTyped', metadata' \in BOOLEAN, Honest', ThresholdIsTold',
           WarningsAreRemembered'
    PROVE  Inv'
  BY DEF Inv, TypeOK, AgesTyped, ReadingsTyped, WarningsTyped, VehicleTyped

(***************************************************************************)
(* Every step keeps the invariant.                                         *)
(***************************************************************************)
LEMMA SameReadings ==
    ASSUME Inv, UNCHANGED <<age, fix, voltage, sensors, vehicle>>
    PROVE  Honest' /\ AgesTyped' /\ VehicleTyped'
  <1>1. AgesTyped /\ VehicleTyped /\ Honest
    BY TypeOKParts DEF Inv
  <1>2. AgesTyped' /\ VehicleTyped'
    BY <1>1 DEF AgesTyped, VehicleTyped, vehicle
  <1>3. WellIsNotBad' /\ VoltageIsNow'
    BY <1>1 DEF Honest, WellIsNotBad, VoltageIsNow, Wrong, vehicle
  <1>4. ReadingsAreHonest' /\ VoltageWasThere'
    BY <1>1 DEF Honest, ReadingsAreHonest, VoltageWasThere, LooksWell, vehicle
  <1> QED
    BY <1>2, <1>3, <1>4 DEF Honest

LEMMA RecordKeepsTypes ==
    ASSUME WarningsTyped, WarningsAreRemembered, NEW text \in Texts,
           Record(text), said' = [said EXCEPT ![text] = 0]
    PROVE  WarningsTyped' /\ WarningsAreRemembered'
  BY WarningLimits DEF WarningsTyped, WarningsAreRemembered, Record

\* Before its first messages a vehicle may have been in any condition: what the
\* program has of earlier ones is older than anything that counts.
LEMMA ForgottenIsHonest ==
    ASSUME ReadingsTyped', age' = Unset, VehicleTyped', WellIsNotBad', VoltageIsNow'
    PROVE  Honest'
  <1>1. \A c \in Watched : age'[c] = Never(c) /\ Never(c) \in Nat
    BY WatchedChannels DEF Unset
  <1>2. \A c \in Conditions : badFor'[c] <= age'[c]
    BY <1>1 DEF VehicleTyped, Watched
  <1>3. VoltageWasThere'
    BY <1>1 DEF VehicleTyped, ReadingsTyped, VoltageWasThere, Watched
  <1> QED
    BY <1>2, <1>3 DEF Honest, ReadingsAreHonest

\* The condition of the vehicle that is connected then, the same or another.
LEMMA VehicleComesOnLine ==
    ASSUME Inv, UNCHANGED vehicle \/ AnotherVehicle
    PROVE  VehicleTyped' /\ WellIsNotBad' /\ VoltageIsNow'
  <1>0. VehicleTyped /\ Honest
    BY TypeOKParts DEF Inv
  <1>1. CASE UNCHANGED vehicle
    BY <1>0, <1>1 DEF VehicleTyped, Honest, WellIsNotBad, VoltageIsNow, Wrong, vehicle
  <1>2. CASE AnotherVehicle
    <2>1. /\ truth' \in Truth /\ truth'.voltage \in Voltages
          /\ armingVoltage' \in Thresholds /\ trouble' = trouble
          /\ badFor' = [c \in Conditions |-> IF Wrong(truth', c) THEN Never(c) ELSE 0]
          /\ had' = [u \in Voltages |->
                       IF u = truth'.voltage THEN 0 ELSE Never("voltage")]
      BY <1>2 DEF AnotherVehicle, AlwaysSo, Truth
    <2>2. VehicleTyped'
      BY <1>0, <2>1, WatchedChannels DEF VehicleTyped, Watched
    <2>3. WellIsNotBad' /\ VoltageIsNow'
      BY <2>1 DEF WellIsNotBad, VoltageIsNow, Wrong
    <2> QED
      BY <2>2, <2>3
  <1> QED
    BY <1>1, <1>2

LEMMA ForgetKeepsInv ==
    ASSUME Inv, Forget, said' = NoWarnings, told' = NoReading, UNCHANGED readings,
           UNCHANGED vehicle \/ AnotherVehicle
    PROVE  /\ Honest' /\ AgesTyped' /\ ReadingsTyped' /\ VehicleTyped'
           /\ WarningsTyped' /\ WarningsAreRemembered' /\ ThresholdIsTold'
           /\ metadata' \in BOOLEAN
  <1>1. age' = Unset
    BY DEF Forget
  <1>2. AgesTyped'
    BY <1>1, NeverIsNatural DEF AgesTyped, Unset
  <1>3. ReadingsTyped' /\ ThresholdIsTold' /\ metadata' \in BOOLEAN
    BY TypeOKParts DEF Inv, Forget, ReadingsTyped, readings, ThresholdIsTold
  <1>4. VehicleTyped' /\ WellIsNotBad' /\ VoltageIsNow'
    BY VehicleComesOnLine
  <1>5. Honest'
    BY <1>1, <1>3, <1>4, ForgottenIsHonest
  <1>6. WarningsTyped' /\ WarningsAreRemembered'
    BY WarningLimits DEF Forget, NoWarnings, WarningsTyped, WarningsAreRemembered
  <1> QED
    BY <1>2, <1>3, <1>4, <1>5, <1>6

LEMMA BatteryTyped ==
    ASSUME ReadingsTyped, VehicleTyped, NEW fields, NEW percentage \in Charges,
           UpdateBattery(fields, percentage)
    PROVE  /\ voltage' \in Voltages \cup {NoReading}
           /\ charge' \in Charges \cup {NoReading}
  BY DEF ReadingsTyped, VehicleTyped, Truth, UpdateBattery

LEMMA TruthTyped ==
    ASSUME VehicleTyped
    PROVE  truth.fix \in Fixes /\ truth.voltage \in Voltages
           /\ truth.sensors \in SensorStates
  BY DEF VehicleTyped, Truth

LEMMA ReceiveKeepsInv ==
    ASSUME Inv, NEW v \in Vehicles, Receive(v)
    PROVE  Inv'
  <1>0. /\ ConnectionTypeOK /\ AgesTyped /\ ReadingsTyped
        /\ WarningsTyped /\ VehicleTyped /\ metadata \in BOOLEAN
        /\ ThresholdIsTold /\ WarningsAreRemembered
    BY TypeOKParts DEF Inv
  <1>1. ASSUME ReceiveHeartbeat(v)
        PROVE  Inv'
    <2>1. /\ OnHeartbeat(v) /\ UNCHANGED readings
          /\ UNCHANGED vehicle \/ AnotherVehicle
      BY <1>1 DEF ReceiveHeartbeat
    <2>2. ConnectionTypeOK'
      BY <1>0, <2>1, ConnectionTyped
    <2>3. CASE HeartbeatAdmitted(v) /\ StartsAfresh(v)
      <3>1. Forget /\ said' = NoWarnings /\ told' = NoReading
        BY <1>1, <2>3 DEF ReceiveHeartbeat
      <3> QED
        BY <2>1, <2>2, <3>1, ForgetKeepsInv, InvParts
    <2>4. CASE ~(HeartbeatAdmitted(v) /\ StartsAfresh(v))
      <3>1. UNCHANGED <<age, learnt, warnings, history, vehicle>>
        BY <1>1, <2>4 DEF ReceiveHeartbeat, StartsAfresh
      <3>2. Honest' /\ AgesTyped' /\ VehicleTyped'
        BY <2>1, <3>1, SameReadings DEF readings
      <3>3. ReadingsTyped' /\ ThresholdIsTold'
        BY <1>0, <2>1, <3>1
           DEF ReadingsTyped, readings, learnt, history, ThresholdIsTold
      <3>4. WarningsTyped' /\ WarningsAreRemembered' /\ metadata' \in BOOLEAN
        BY <1>0, <3>1 DEF WarningsTyped, WarningsAreRemembered, learnt, history
      <3> QED
        BY <2>2, <3>2, <3>3, <3>4, InvParts
    <2> QED
      BY <2>3, <2>4
  <1>2. ASSUME ReceiveGps(v)
        PROVE  Inv'
    <2>1. /\ Hear({"gps"}) /\ fix' = truth.fix
          /\ UNCHANGED <<connectionVars, voltage, charge, sensors, learnt, warnings,
                         vehicle, history>>
      BY <1>2 DEF ReceiveGps
    <2>2. HearsHonestly({"gps"}) /\ KeepsTheRest({"gps"})
      BY <2>1 DEF HearsHonestly, KeepsTheRest
    <2>3. Honest' /\ AgesTyped' /\ VehicleTyped'
      BY <2>1, <2>2, HearingIsHonest
    <2>4. ReadingsTyped' /\ ThresholdIsTold'
      BY <1>0, <2>1, TruthTyped
         DEF ReadingsTyped, learnt, history, ThresholdIsTold
    <2>5. WarningsTyped' /\ WarningsAreRemembered' /\ metadata' \in BOOLEAN
      BY <1>0, <2>1 DEF WarningsTyped, WarningsAreRemembered, learnt, history
    <2>6. ConnectionTypeOK'
      BY <1>0, <2>1, ConnectionTyped
    <2> QED
      BY <2>3, <2>4, <2>5, <2>6, InvParts
  <1>3. ASSUME NEW c \in Channels, ReceiveMotion(v, c)
        PROVE  Inv'
    <2>1. /\ c \notin Watched /\ Hear({c})
          /\ UNCHANGED <<connectionVars, readings, learnt, warnings, vehicle, history>>
      BY <1>3 DEF ReceiveMotion
    <2>2. HearsHonestly({c}) /\ KeepsTheRest({c})
      BY <2>1 DEF HearsHonestly, KeepsTheRest, readings
    <2>3. Honest' /\ AgesTyped' /\ VehicleTyped'
      BY <2>1, <2>2, HearingIsHonest
    <2>4. ReadingsTyped' /\ ThresholdIsTold'
      BY <1>0, <2>1
         DEF ReadingsTyped, readings, learnt, history, ThresholdIsTold
    <2>5. WarningsTyped' /\ WarningsAreRemembered' /\ metadata' \in BOOLEAN
      BY <1>0, <2>1 DEF WarningsTyped, WarningsAreRemembered, learnt, history
    <2>6. ConnectionTypeOK'
      BY <1>0, <2>1, ConnectionTyped
    <2> QED
      BY <2>3, <2>4, <2>5, <2>6, InvParts
  <1>4. ASSUME NEW fields \in SUBSET (BatteryFields \cap Channels),
               NEW percentage \in Charges, ReceiveBattery(v, fields, percentage)
        PROVE  Inv'
    <2>1. /\ Hear(fields) /\ UpdateBattery(fields, percentage)
          /\ UNCHANGED <<connectionVars, fix, sensors, learnt, warnings, vehicle, history>>
      BY <1>4 DEF ReceiveBattery
    <2>2. HearsHonestly(fields) /\ KeepsTheRest(fields)
      BY <2>1 DEF HearsHonestly, KeepsTheRest, UpdateBattery, BatteryFields
    <2>3. Honest' /\ AgesTyped' /\ VehicleTyped'
      BY <2>1, <2>2, HearingIsHonest
    <2>4. ReadingsTyped' /\ ThresholdIsTold'
      BY <1>0, <2>1, BatteryTyped
         DEF ReadingsTyped, learnt, history, ThresholdIsTold
    <2>5. WarningsTyped' /\ WarningsAreRemembered' /\ metadata' \in BOOLEAN
      BY <1>0, <2>1 DEF WarningsTyped, WarningsAreRemembered, learnt, history
    <2>6. ConnectionTypeOK'
      BY <1>0, <2>1, ConnectionTyped
    <2> QED
      BY <2>3, <2>4, <2>5, <2>6, InvParts
  <1>5. ASSUME NEW fields \in SUBSET (BatteryFields \cap Channels),
               NEW percentage \in Charges, ReceiveSystemStatus(v, fields, percentage)
        PROVE  Inv'
    <2> DEFINE heard == {"systemStatus"} \cup fields
    <2>1. /\ Hear(heard) /\ UpdateBattery(fields, percentage)
          /\ sensors' = truth.sensors
          /\ UNCHANGED <<connectionVars, fix, learnt, warnings, vehicle, history>>
      BY <1>5 DEF ReceiveSystemStatus
    <2>2. HearsHonestly(heard) /\ KeepsTheRest(heard)
      BY <2>1 DEF HearsHonestly, KeepsTheRest, UpdateBattery, BatteryFields
    <2>3. Honest' /\ AgesTyped' /\ VehicleTyped'
      BY <2>1, <2>2, HearingIsHonest
    <2>4. ReadingsTyped' /\ ThresholdIsTold'
      BY <1>0, <2>1, BatteryTyped, TruthTyped
         DEF ReadingsTyped, learnt, history, ThresholdIsTold
    <2>5. WarningsTyped' /\ WarningsAreRemembered' /\ metadata' \in BOOLEAN
      BY <1>0, <2>1 DEF WarningsTyped, WarningsAreRemembered, learnt, history
    <2>6. ConnectionTypeOK'
      BY <1>0, <2>1, ConnectionTyped
    <2> QED
      BY <2>3, <2>4, <2>5, <2>6, InvParts
  <1>6. ASSUME ReceiveArmingVoltage(v)
        PROVE  Inv'
    <2>1. /\ threshold' = AtLeastZero(armingVoltage) /\ told' = armingVoltage
          /\ UNCHANGED <<connectionVars, age, readings, metadata, warnings, vehicle, said>>
      BY <1>6 DEF ReceiveArmingVoltage
    <2>2. Honest' /\ AgesTyped' /\ VehicleTyped'
      BY <2>1, SameReadings DEF readings
    <2>3. /\ armingVoltage \in Thresholds /\ armingVoltage # NoReading
          /\ AtLeastZero(armingVoltage) \in Nat
      BY <1>0, ReadinessAssumption DEF VehicleTyped, AtLeastZero
    <2>4. ReadingsTyped'
      BY <1>0, <2>1, <2>3 DEF ReadingsTyped, readings
    <2>7. ThresholdIsTold'
      BY <2>1, <2>3 DEF ThresholdIsTold, AtLeastZero
    <2>5. WarningsTyped' /\ WarningsAreRemembered' /\ metadata' \in BOOLEAN
      BY <1>0, <2>1 DEF WarningsTyped, WarningsAreRemembered
    <2>6. ConnectionTypeOK'
      BY <1>0, <2>1, ConnectionTyped
    <2> QED
      BY <2>2, <2>4, <2>5, <2>6, <2>7, InvParts
  <1>7. ASSUME ReceiveVersion(v)
        PROVE  Inv'
    <2>1. /\ metadata' = TRUE
          /\ UNCHANGED <<connectionVars, age, readings, threshold, warnings, vehicle,
                         history>>
      BY <1>7 DEF ReceiveVersion
    <2>2. Honest' /\ AgesTyped' /\ VehicleTyped'
      BY <2>1, SameReadings DEF readings
    <2>3. ReadingsTyped' /\ ThresholdIsTold'
      BY <1>0, <2>1 DEF ReadingsTyped, readings, history, ThresholdIsTold
    <2>4. WarningsTyped' /\ WarningsAreRemembered' /\ metadata' \in BOOLEAN
      BY <1>0, <2>1 DEF WarningsTyped, WarningsAreRemembered, history
    <2>5. ConnectionTypeOK'
      BY <1>0, <2>1, ConnectionTyped
    <2> QED
      BY <2>2, <2>3, <2>4, <2>5, InvParts
  <1>8. ASSUME NEW severity \in {"warning", "info"}, NEW text \in Texts,
               ReceiveStatusText(v, severity, text)
        PROVE  Inv'
    <2>1. UNCHANGED <<connectionVars, age, readings, learnt, vehicle, told>>
      BY <1>8 DEF ReceiveStatusText
    <2>2. Honest' /\ AgesTyped' /\ VehicleTyped'
      BY <2>1, SameReadings DEF readings
    <2>3. ReadingsTyped' /\ ThresholdIsTold' /\ metadata' \in BOOLEAN
      BY <1>0, <2>1
         DEF ReadingsTyped, readings, learnt, ThresholdIsTold
    <2>4. WarningsTyped' /\ WarningsAreRemembered'
      <3>1. CASE Counts(severity, text)
        BY <1>0, <1>8, <3>1, RecordKeepsTypes DEF ReceiveStatusText
      <3>2. CASE ~Counts(severity, text)
        BY <1>0, <1>8, <3>2 DEF ReceiveStatusText, WarningsTyped, WarningsAreRemembered
      <3> QED
        BY <3>1, <3>2
    <2>5. ConnectionTypeOK'
      BY <1>0, <2>1, ConnectionTyped
    <2> QED
      BY <2>2, <2>3, <2>4, <2>5, InvParts
  <1> QED
    BY <1>1, <1>2, <1>3, <1>4, <1>5, <1>6, <1>7, <1>8 DEF Receive

LEMMA VehicleChangesKeepsInv ==
    ASSUME Inv, NEW state \in Truth, VehicleChanges(state)
    PROVE  Inv'
  <1>0. /\ ConnectionTypeOK /\ AgesTyped /\ ReadingsTyped
        /\ WarningsTyped /\ VehicleTyped /\ metadata \in BOOLEAN
        /\ ThresholdIsTold /\ WarningsAreRemembered
    BY TypeOKParts DEF Inv
  <1>1. /\ truth' = state
        /\ badFor' = [c \in Conditions |-> IF Wrong(state, c) THEN badFor[c] ELSE 0]
        /\ had' = [had EXCEPT ![state.voltage] = 0]
        /\ UNCHANGED <<connectionVars, age, readings, learnt, warnings,
                       armingVoltage, trouble, history>>
    BY DEF VehicleChanges
  <1>2. ConnectionTypeOK'
    BY <1>0, <1>1, ConnectionTyped
  <1>3. /\ AgesTyped' /\ ReadingsTyped' /\ WarningsTyped' /\ metadata' \in BOOLEAN
        /\ ThresholdIsTold' /\ WarningsAreRemembered'
    BY <1>0, <1>1 DEF AgesTyped, ReadingsTyped, WarningsTyped, readings, learnt, history,
                      ThresholdIsTold, WarningsAreRemembered
  <1>4. state.voltage \in Voltages /\ had \in [Voltages -> 0 .. Never("voltage")]
    BY <1>0 DEF Truth, VehicleTyped
  <1>5. VehicleTyped'
    BY <1>0, <1>1, <1>4, WatchedChannels DEF VehicleTyped, Watched
  <1>6. WellIsNotBad' /\ VoltageIsNow'
    BY <1>1, <1>4 DEF WellIsNotBad, VoltageIsNow, Wrong
  <1>7. ReadingsAreHonest'
    <2>1. ASSUME NEW c \in Conditions, LooksWell(c)'
          PROVE  badFor'[c] <= age'[c]
      <3>1. badFor[c] <= age[c]
        BY <1>1, <2>1 DEF Inv, Honest, ReadingsAreHonest, LooksWell, readings
      <3>2. age[c] \in Nat /\ age' = age
        BY <1>0, <1>1, WatchedChannels DEF AgesTyped, Watched
      <3> QED
        BY <1>1, <3>1, <3>2
    <2> QED
      BY <2>1 DEF ReadingsAreHonest
  <1>8. VoltageWasThere'
    <2>1. \A u \in Voltages : had'[u] <= had[u]
      BY <1>1, <1>4, WatchedChannels DEF Watched
    <2>2. age["voltage"] \in Nat /\ age' = age /\ voltage' = voltage
      BY <1>0, <1>1, WatchedChannels DEF AgesTyped, Watched, readings
    <2> QED
      BY <1>0, <1>5, <2>1, <2>2
         DEF Inv, Honest, VoltageWasThere, ReadingsTyped, VehicleTyped
  <1> QED
    BY <1>2, <1>3, <1>5, <1>6, <1>7, <1>8, InvParts DEF Honest

\* What the vehicle told stays told when its BATT_ARM_VOLT is changed.
LEMMA ArmingVoltageChangesKeepsInv ==
    ASSUME Inv, NEW limit \in Thresholds, ArmingVoltageChanges(limit)
    PROVE  Inv'
  <1>0. /\ ConnectionTypeOK /\ AgesTyped /\ ReadingsTyped
        /\ WarningsTyped /\ VehicleTyped /\ metadata \in BOOLEAN
        /\ ThresholdIsTold /\ WarningsAreRemembered /\ Honest
    BY TypeOKParts DEF Inv
  <1>1. /\ armingVoltage' = limit
        /\ UNCHANGED <<connectionVars, age, readings, learnt, warnings, truth, trouble,
                       badFor, had, history>>
    BY DEF ArmingVoltageChanges
  <1>2. ConnectionTypeOK'
    BY <1>0, <1>1, ConnectionTyped
  <1>3. /\ AgesTyped' /\ ReadingsTyped' /\ WarningsTyped' /\ metadata' \in BOOLEAN
        /\ ThresholdIsTold' /\ WarningsAreRemembered' /\ VehicleTyped'
    BY <1>0, <1>1 DEF AgesTyped, ReadingsTyped, WarningsTyped, VehicleTyped, readings,
                      learnt, history, ThresholdIsTold, WarningsAreRemembered
  <1>4. WellIsNotBad' /\ VoltageIsNow'
    BY <1>0, <1>1 DEF Honest, WellIsNotBad, VoltageIsNow, Wrong
  <1>5. ReadingsAreHonest' /\ VoltageWasThere'
    BY <1>0, <1>1 DEF Honest, ReadingsAreHonest, VoltageWasThere, LooksWell, readings
  <1> QED
    BY <1>2, <1>3, <1>4, <1>5, InvParts DEF Honest

LEMMA TickKeepsInv ==
    ASSUME Inv, Tick
    PROVE  Inv'
  <1>0. /\ ConnectionTypeOK /\ AgesTyped /\ ReadingsTyped
        /\ WarningsTyped /\ VehicleTyped /\ metadata \in BOOLEAN
        /\ ThresholdIsTold /\ WarningsAreRemembered
    BY TypeOKParts DEF Inv
  <1>1. /\ ConnectionTick
        /\ age' = [c \in Channels |-> Older(age[c], Never(c))]
        /\ warnings' = [text \in Texts |-> Older(warnings[text], NoWarning)]
        /\ said' = [text \in Texts |-> Older(said[text], NoWarning)]
        /\ badFor' = [c \in Conditions |->
                        IF Wrong(truth, c) THEN Older(badFor[c], Never(c)) ELSE 0]
        /\ had' = [u \in Voltages |->
                     IF u = truth.voltage THEN 0 ELSE Older(had[u], Never("voltage"))]
        /\ UNCHANGED <<readings, learnt, truth, armingVoltage, trouble, told>>
    BY DEF Tick
  <1>2. ConnectionTypeOK'
    BY <1>0, <1>1, ConnectionTyped
  <1>3. AgesTyped'
    BY <1>0, <1>1, NeverIsNatural, OlderStays DEF AgesTyped
  <1>4. ReadingsTyped' /\ metadata' \in BOOLEAN
    BY <1>0, <1>1 DEF ReadingsTyped, readings, learnt
  <1>5. WarningsTyped'
    BY <1>0, <1>1, WarningLimits, OlderStays DEF WarningsTyped
  <1>6. VehicleTyped'
    <2>1. ASSUME NEW c \in Conditions
          PROVE  badFor'[c] \in 0 .. Never(c)
      BY <1>0, <1>1, WatchedChannels, OlderStays DEF VehicleTyped, Watched
    <2>2. ASSUME NEW u \in Voltages
          PROVE  had'[u] \in 0 .. Never("voltage")
      <3>1. Never("voltage") \in Nat /\ had[u] \in 0 .. Never("voltage")
        BY <1>0, WatchedChannels DEF VehicleTyped, Watched
      <3>2. Older(had[u], Never("voltage")) \in 0 .. Never("voltage")
        BY <3>1, OlderStays
      <3> QED
        BY <1>1, <3>1, <3>2
    <2>3. had' \in [Voltages -> 0 .. Never("voltage")]
      BY <1>1, <2>2
    <2> QED
      BY <1>0, <1>1, <2>1, <2>3 DEF VehicleTyped
  <1>7. WellIsNotBad' /\ VoltageIsNow'
    BY <1>0, <1>1 DEF WellIsNotBad, VoltageIsNow, Wrong, VehicleTyped, Truth
  <1>8. ReadingsAreHonest'
    <2>1. ASSUME NEW c \in Conditions, LooksWell(c)'
          PROVE  badFor'[c] <= age'[c]
      <3>1. badFor[c] <= age[c]
        BY <1>1, <2>1 DEF Inv, Honest, ReadingsAreHonest, LooksWell, readings
      <3>2. age[c] \in 0 .. Never(c) /\ badFor[c] \in 0 .. Never(c) /\ Never(c) \in Nat
        BY <1>0, WatchedChannels DEF AgesTyped, VehicleTyped, Watched
      <3>3. /\ Older(badFor[c], Never(c)) <= Older(age[c], Never(c))
            /\ Older(age[c], Never(c)) \in Nat
        BY <3>1, <3>2, OlderKeepsOrder DEF Older
      <3>4. age'[c] = Older(age[c], Never(c))
        BY <1>1, WatchedChannels DEF Watched
      <3> QED
        BY <1>1, <3>3, <3>4
    <2> QED
      BY <2>1 DEF ReadingsAreHonest
  <1>9. VoltageWasThere'
    <2> SUFFICES ASSUME voltage # NoReading
                 PROVE  had'[voltage] <= age'["voltage"]
      BY <1>1 DEF VoltageWasThere, readings
    <2> DEFINE never == Never("voltage")
    <2>1. /\ voltage \in Voltages /\ had[voltage] \in 0 .. never
          /\ age["voltage"] \in 0 .. never /\ never \in Nat
          /\ had[voltage] <= age["voltage"]
      BY <1>0, WatchedChannels
         DEF ReadingsTyped, VehicleTyped, AgesTyped, Watched, Inv, Honest, VoltageWasThere
    <2>2. /\ had'[voltage] = IF voltage = truth.voltage THEN 0
                             ELSE Older(had[voltage], never)
          /\ age'["voltage"] = Older(age["voltage"], never)
      BY <1>1, <2>1, WatchedChannels DEF Watched
    <2> HIDE DEF never
    <2>3. /\ Older(had[voltage], never) <= Older(age["voltage"], never)
          /\ Older(age["voltage"], never) \in 0 .. never
      BY <2>1, OlderKeepsOrder, OlderStays
    <2> QED
      BY <2>1, <2>2, <2>3
  <1>10. ThresholdIsTold' /\ WarningsAreRemembered'
    BY <1>0, <1>1 DEF ThresholdIsTold, WarningsAreRemembered, learnt
  <1> QED
    BY <1>2, <1>3, <1>4, <1>5, <1>6, <1>7, <1>8, <1>9, <1>10, InvParts DEF Honest

LEMMA StutterKeepsInv ==
    ASSUME Inv, UNCHANGED vars
    PROVE  Inv'
  <1>1. /\ ConnectionTypeOK /\ AgesTyped /\ ReadingsTyped
        /\ WarningsTyped /\ VehicleTyped /\ metadata \in BOOLEAN
        /\ ThresholdIsTold /\ WarningsAreRemembered
    BY TypeOKParts DEF Inv
  <1>2. Honest' /\ AgesTyped' /\ VehicleTyped'
    BY SameReadings DEF vars, vehicle
  <1>3. ConnectionTypeOK'
    BY <1>1, ConnectionTyped DEF vars, connectionVars
  <1>4. /\ ReadingsTyped' /\ ThresholdIsTold' /\ metadata' \in BOOLEAN
        /\ WarningsTyped' /\ WarningsAreRemembered'
    BY <1>1 DEF vars, ReadingsTyped, ThresholdIsTold, WarningsTyped,
                WarningsAreRemembered
  <1> QED
    BY <1>2, <1>3, <1>4, InvParts

LEMMA Invariance == Inv /\ [Next]_vars => Inv'
  BY ReceiveKeepsInv, VehicleChangesKeepsInv, ArmingVoltageChangesKeepsInv,
     TickKeepsInv, StutterKeepsInv DEF Next

LEMMA InvAlways == Spec => []Inv
  BY Initially, Invariance, PTL DEF Spec

(***************************************************************************)
(* The theorems.                                                           *)
(***************************************************************************)
\* The variables keep their types, whatever is received and lost.
THEOREM TypeCorrect == Spec => []TypeOK
  <1>1. Inv => TypeOK
    BY DEF Inv
  <1> QED
    BY <1>1, InvAlways, PTL

LEMMA InvMakesReadinessFollow == Inv => ReadinessFollowsVehicle
  <1> SUFFICES ASSUME Inv, Armable
               PROVE  /\ \A c \in Conditions : badFor[c] <= Timeout[c]
                      /\ told # NoReading
                      /\ \E u \in Voltages :
                           had[u] <= Timeout["voltage"] /\ ~VoltageWrong(told, u)
    BY DEF ReadinessFollowsVehicle
  <1>1. AgesTyped /\ ReadingsTyped /\ VehicleTyped /\ Honest /\ ThresholdIsTold
    BY TypeOKParts DEF Inv
  <1>2. ASSUME NEW c \in Conditions
        PROVE  badFor[c] <= Timeout[c]
    <2>1. LooksWell(c)
      <3>1. CASE c = "gps"
        BY <3>1 DEF Armable, GpsReady, LooksWell
      <3>2. CASE c = "systemStatus"
        BY <3>2 DEF Armable, BatteryReady, SystemHealthOk, LooksWell, SensorsWrong
      <3> QED
        BY <3>1, <3>2 DEF Conditions
    <2>2. age[c] <= Timeout[c]
      BY DEF Armable, GpsReady, BatteryReady, Fresh, Conditions
    <2>3. badFor[c] <= age[c]
      BY <1>1, <2>1 DEF Honest, ReadingsAreHonest
    <2> QED
      BY <1>1, <2>2, <2>3, WatchedChannels DEF AgesTyped, VehicleTyped, Watched
  <1>3. /\ voltage \in Voltages /\ told \in Thresholds /\ told # NoReading
        /\ VoltageMeets(voltage, AtLeastZero(told))
    BY <1>1 DEF Armable, BatteryReady, ReadingsTyped, ThresholdIsTold
  <1>4. had[voltage] <= Timeout["voltage"]
    <2>1. had[voltage] <= age["voltage"] /\ age["voltage"] <= Timeout["voltage"]
      BY <1>1 DEF Armable, BatteryReady, Fresh, Honest, VoltageWasThere
    <2>2. had[voltage] \in Nat /\ age["voltage"] \in Nat /\ Timeout["voltage"] \in Nat
      BY <1>1, <1>3, WatchedChannels DEF AgesTyped, VehicleTyped, Watched
    <2> QED
      BY <2>1, <2>2
  <1>5. ~VoltageWrong(told, voltage)
    BY <1>3, ThresholdIsHonest
  <1> QED
    BY <1>2, <1>3, <1>4, <1>5

\* A vehicle that the program calls ready to arm had a GPS fix, healthy sensors and
\* a voltage not below the BATT_ARM_VOLT it told, each a timeout ago at most:
\* whatever is lost or left out, whatever number BATT_ARM_VOLT is, and however
\* vehicles take over from each other and change.  It is the BATT_ARM_VOLT that
\* this vehicle told last since it came on line; one it has now may be another.
THEOREM ReadinessIsEarned == Spec => []ReadinessFollowsVehicle
  BY InvMakesReadinessFollow, InvAlways, PTL

LEMMA InvMakesWarningsBlock == Inv => WarningsBlock
  <1> SUFFICES ASSUME Inv, Armable, NEW text \in Texts
               PROVE  /\ said[text] > BlockingWarningTimeout
                      /\ text \in BatteryTexts => said[text] > WarningTimeout
    BY DEF WarningsBlock
  <1>1. warnings = said /\ said[text] \in Nat
    BY TypeOKParts, WarningLimits DEF Inv, WarningsTyped, WarningsAreRemembered
  <1>2. ~(said[text] <= BlockingWarningTimeout)
    BY <1>1 DEF Armable, RecentWarning
  <1>3. text \in BatteryTexts => said[text] > WarningTimeout
    BY <1>1 DEF Armable, BatteryReady
  <1> QED
    BY <1>1, <1>2, <1>3, WarningLimits

\* A warning that was sent blocks arming for its whole time, counted from when
\* it was sent last.
THEOREM WarningsAlwaysBlock == Spec => []WarningsBlock
  BY InvMakesWarningsBlock, InvAlways, PTL

\* Before the first heartbeat nothing is known.
NothingBeforeTheFirst ==
    systemId = NoVehicle =>
        /\ age = Unset /\ threshold = NoReading /\ metadata = FALSE
        /\ warnings = NoWarnings

LEMMA TimeLeavesUnset ==
    /\ [c \in Channels |-> Older(Unset[c], Never(c))] = Unset
    /\ [text \in Texts |-> Older(NoWarnings[text], NoWarning)] = NoWarnings
  <1>1. \A c \in Channels : Older(Never(c), Never(c)) = Never(c)
    BY NeverIsNatural DEF Older
  <1>2. Older(NoWarning, NoWarning) = NoWarning
    BY WarningLimits DEF Older
  <1> QED
    BY <1>1, <1>2 DEF Unset, NoWarnings

LEMMA NothingBeforeTheFirstStays ==
    ASSUME NothingBeforeTheFirst, [Next]_vars
    PROVE  NothingBeforeTheFirst'
  <1>1. ASSUME NEW v \in Vehicles, Receive(v)
        PROVE  systemId' # NoVehicle \/ UNCHANGED <<systemId, age, learnt, warnings>>
    <2>1. Admitted(v) => systemId # NoVehicle
      BY DEF Admitted, Connected
    <2>2. ASSUME ReceiveHeartbeat(v)
          PROVE  systemId' # NoVehicle \/ UNCHANGED <<systemId, age, learnt, warnings>>
      BY <2>2, ReadinessAssumption
         DEF ReceiveHeartbeat, OnHeartbeat, connectionVars, HeartbeatAdmitted
    <2>3. ReceiveGps(v) => systemId' # NoVehicle
      BY <2>1 DEF ReceiveGps, connectionVars
    <2>4. \A c : ReceiveMotion(v, c) => systemId' # NoVehicle
      BY <2>1 DEF ReceiveMotion, connectionVars
    <2>5. \A fields, percentage :
            /\ ReceiveBattery(v, fields, percentage) => systemId' # NoVehicle
            /\ ReceiveSystemStatus(v, fields, percentage) => systemId' # NoVehicle
      BY <2>1 DEF ReceiveBattery, ReceiveSystemStatus, connectionVars
    <2>6. ReceiveArmingVoltage(v) \/ ReceiveVersion(v) => systemId' # NoVehicle
      BY <2>1 DEF ReceiveArmingVoltage, ReceiveVersion, connectionVars
    <2>7. \A severity, text :
            ReceiveStatusText(v, severity, text) => systemId' # NoVehicle
      BY <2>1 DEF ReceiveStatusText, connectionVars
    <2> QED
      BY <1>1, <2>2, <2>3, <2>4, <2>5, <2>6, <2>7 DEF Receive
  <1>2. /\ \A state : VehicleChanges(state)
                       => UNCHANGED <<systemId, age, learnt, warnings>>
        /\ \A limit : ArmingVoltageChanges(limit)
                       => UNCHANGED <<systemId, age, learnt, warnings>>
    BY DEF VehicleChanges, ArmingVoltageChanges, connectionVars
  <1>3. ASSUME Tick
        PROVE  NothingBeforeTheFirst'
    BY <1>3, TimeLeavesUnset DEF Tick, ConnectionTick, NothingBeforeTheFirst, learnt
  <1>4. UNCHANGED vars => UNCHANGED <<systemId, age, learnt, warnings>>
    BY DEF vars, learnt
  <1>5. systemId' # NoVehicle \/ UNCHANGED <<systemId, age, learnt, warnings>>
          => NothingBeforeTheFirst'
    BY DEF NothingBeforeTheFirst, learnt
  <1> QED
    BY <1>1, <1>2, <1>3, <1>4, <1>5 DEF Next

LEMMA NothingIsReportedAfterForgetting ==
    ASSUME Forget
    PROVE  Reported' = {}
  <1>1. \A c \in Channels : ~(Fresh(c)')
    BY NeverIsNatural DEF Forget, Unset, Fresh
  <1>2. \A text \in Texts : ~(warnings'[text] <= WarningTimeout)
    BY WarningLimits DEF Forget, NoWarnings
  <1> QED
    BY <1>1, <1>2 DEF Reported, Forget

LEMMA UnknownIsNotReported ==
    ASSUME age' = Unset, threshold' = NoReading, metadata' = FALSE,
           warnings' = NoWarnings
    PROVE  Reported' = {}
  BY NothingIsReportedAfterForgetting DEF Forget

\* Only a heartbeat makes a vehicle the connected one.
LEMMA ReconnectionIsAHeartbeat ==
    ASSUME Inv, [Next]_vars, Connected', ~Connected \/ systemId' # systemId
    PROVE  \E v \in Vehicles : ReceiveHeartbeat(v)
  <1>1. silence \in Nat /\ silence <= SilenceLimit /\ HeartbeatTimeout \in Nat
    BY ReadinessAssumption DEF Inv, TypeOK, ConnectionTypeOK, SilenceLimit
  <1>2. ~(UNCHANGED connectionVars)
    BY DEF Connected, connectionVars
  <1>3. ~Tick
    <2> SUFFICES ASSUME Tick
                 PROVE  FALSE
      OBVIOUS
    <2>1. systemId' = systemId
      BY DEF Tick, ConnectionTick
    <2>2. silence' = IF silence < SilenceLimit THEN silence + 1 ELSE silence
      BY DEF Tick, ConnectionTick
    <2>3. silence <= silence'
      BY <1>1, <2>2
    <2>4. silence <= HeartbeatTimeout
      BY <1>1, <2>2, <2>3 DEF Connected
    <2> QED
      BY <2>1, <2>4 DEF Connected
  <1>4. ASSUME NEW v \in Vehicles, Receive(v)
        PROVE  ReceiveHeartbeat(v) \/ UNCHANGED connectionVars
    BY <1>4 DEF Receive, ReceiveGps, ReceiveMotion, ReceiveBattery,
                ReceiveSystemStatus, ReceiveArmingVoltage, ReceiveVersion,
                ReceiveStatusText
  <1>5. /\ \A state : VehicleChanges(state) => UNCHANGED connectionVars
        /\ \A limit : ArmingVoltageChanges(limit) => UNCHANGED connectionVars
    BY DEF VehicleChanges, ArmingVoltageChanges
  <1>6. UNCHANGED vars => UNCHANGED connectionVars
    BY DEF vars, connectionVars
  <1> QED
    BY <1>2, <1>3, <1>4, <1>5, <1>6 DEF Next

\* A vehicle that comes on line, or takes over, is reported with nothing of what
\* was known before, whatever that was and however recent.
THEOREM ReconnectionForgets == Spec => NothingSurvivesReconnection
  <1>1. Init => NothingBeforeTheFirst
    BY DEF Init, NothingBeforeTheFirst
  <1>2. NothingBeforeTheFirst /\ [Next]_vars => NothingBeforeTheFirst'
    BY NothingBeforeTheFirstStays
  <1>3. Inv /\ NothingBeforeTheFirst /\ [Next]_vars
          => [Connected' /\ (~Connected \/ systemId' # systemId)
                => Reported' = {}]_vars
    <2> SUFFICES ASSUME Inv, NothingBeforeTheFirst, [Next]_vars, Connected',
                        ~Connected \/ systemId' # systemId
                 PROVE  Reported' = {}
      OBVIOUS
    <2>1. PICK v \in Vehicles : ReceiveHeartbeat(v)
      BY ReconnectionIsAHeartbeat
    <2>2. HeartbeatAdmitted(v) /\ systemId' = v
      BY <2>1 DEF ReceiveHeartbeat, OnHeartbeat, Connected, connectionVars
    <2>3. CASE StartsAfresh(v)
      BY <2>1, <2>2, <2>3, NothingIsReportedAfterForgetting DEF ReceiveHeartbeat
    <2>4. CASE ~StartsAfresh(v)
      <3>1. systemId = NoVehicle
        <4>1. silence \in Nat /\ HeartbeatTimeout \in Nat
          BY ReadinessAssumption DEF Inv, TypeOK, ConnectionTypeOK, SilenceLimit
        <4> QED
          BY <2>2, <2>4, <4>1 DEF StartsAfresh, Connected
      <3>2. UNCHANGED <<age, learnt, warnings>>
        BY <2>1, <2>4 DEF ReceiveHeartbeat
      <3> QED
        BY <3>1, <3>2, UnknownIsNotReported DEF NothingBeforeTheFirst, learnt
    <2> QED
      BY <2>3, <2>4
  <1> QED
    BY <1>1, <1>2, <1>3, InvAlways, PTL DEF Spec, NothingSurvivesReconnection
==============================================================================
