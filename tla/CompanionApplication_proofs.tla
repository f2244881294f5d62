--------------------- MODULE CompanionApplication_proofs ---------------------
(***************************************************************************)
(* The parts of the application agree after every poll, heartbeats are on  *)
(* time, evidence is that of the vehicle it is filed under, what is known  *)
(* from before an outage is forgotten, and the failsafe check decides as   *)
(* it does on its own: for all sets of parameters, vehicles and values and *)
(* all timeouts, whatever messages are lost and whatever writes fail.      *)
(*                                                                         *)
(* PartsAgree is inductive as it stands.  The others are not:              *)
(*   - a heartbeat is on time because the ticks since the last one and the *)
(*     ticks left to the next never make more than an interval, and because*)
(*     time passes only after a poll, which leaves no heartbeat due (Paced)*)
(*   - evidence fits the autopilot because every value on its way does     *)
(*     (AnswersAreTrue)                                                    *)
(*   - nothing is left from before an outage because a poll saw it, and    *)
(*     without a vehicle there is nothing to forget (GoneIsForgotten)      *)
(*   - the failsafe check is given nothing but values an autopilot has     *)
(*     (ValuesAreReal), and so keeps to its own specification              *)
(*   - an outcome of the telemetry setup stands because the setup waits for*)
(*     a vehicle exactly when it has none (SessionHasPhase).               *)
(***************************************************************************)
EXTENDS CompanionApplication, CompanionLinkFailsafe_proofs, TLAPS

Paced ==
    /\ quiet \in Nat /\ nextHeartbeat \in 0 .. HeartbeatInterval
    /\ quiet + nextHeartbeat <= HeartbeatInterval
    /\ polled => nextHeartbeat > 0

\* m is a message, whatever is in it.
Formed(m) ==
    m = [kind |-> m.kind, vehicle |-> m.vehicle, name |-> m.name, value |-> m.value,
         age |-> m.age]

AnswersAreTrue ==
    /\ raw = [n \in Names |-> raw[n]]
    /\ \A m \in inFlight : Formed(m)
    /\ ~SettingsChange =>
         \A m \in inFlight : m.kind = "value" => m.value = settings[m.vehicle][m.name]

(***************************************************************************)
(* PartsAgree.                                                             *)
(***************************************************************************)
LEMMA UpdateFollows ==
    ASSUME NEW v, Setup!Update(v)
    PROVE  vehicleSystemId' = v
  BY DEF Setup!Update, Setup!Reset, Setup!BeginSession, Setup!NothingToSend,
     Setup!GiveUp, Setup!SendRequest

LEMMA ObserveFollows ==
    ASSUME NEW v, ObserveVehicle(v)
    PROVE  heartbeatSystemId' = v
  BY DEF ObserveVehicle, ResetFor, failsafeVars

LEMMA ReportedMeansConnected ==
    (Connection!ReportedVehicle # NoVehicle) = Connection!Connected
  BY DEF Connection!ReportedVehicle, Connection!Connected

LEMMA PollMakesThemAgree ==
    ASSUME Poll
    PROVE  PartsAgree'
  <1> DEFINE v == Connection!ReportedVehicle
  <1>1. Setup!Update(v) /\ UpdateVehicleConnection(v) /\ UNCHANGED <<systemId, silence>>
    BY DEF Poll
  <1>2. v' = v /\ Connection!Connected' = Connection!Connected
    BY <1>1 DEF Connection!ReportedVehicle, Connection!Connected
  <1>3. vehicleSystemId' = v
    BY <1>1, UpdateFollows
  <1>4. heartbeatSystemId' = v
    BY <1>1, ObserveFollows DEF UpdateVehicleConnection
  <1>5. vehicleWasConnected' = Connection!Connected'
    BY <1>1, <1>2, ReportedMeansConnected DEF UpdateVehicleConnection
  <1>6. previousFailsafePhase' = failsafePhase'
    BY <1>1 DEF UpdateVehicleConnection
  <1> QED
    BY <1>2, <1>3, <1>4, <1>5, <1>6 DEF PartsAgree

LEMMA NextKeepsAgreement ==
    ASSUME PartsAgree, [Next]_vars
    PROVE  PartsAgree'
  <1>1. ASSUME ~polled'
        PROVE  PartsAgree'
    BY <1>1 DEF PartsAgree
  <1>2. ASSUME UNCHANGED <<polled, setupVars, failsafeVars, systemId, silence, reportVars>>
        PROVE  PartsAgree'
    BY <1>2 DEF PartsAgree, setupVars, failsafeVars, reportVars,
       Connection!ReportedVehicle, Connection!Connected
  <1>3. CASE \/ \E v \in Vehicles : ReceiveHeartbeat(v)
             \/ \E v \in Vehicles, result \in Setup!Results : ReceiveAck(v, result)
             \/ \E v \in Vehicles, item \in Metadata : ReceiveMetadata(v, item)
             \/ Tick
    BY <1>1, <1>3 DEF ReceiveHeartbeat, ReceiveAck, ReceiveMetadata, Tick
  <1>4. CASE \/ \E m \in inFlight : ReceiveValue(m)
             \/ \E v \in Vehicles, name \in Names : ReceiveReport(v, name)
    BY <1>1, <1>4 DEF ReceiveValue, ReceiveReport, OnValue
  <1>5. CASE Poll
    BY <1>5, PollMakesThemAgree
  <1>6. CASE \/ \E m \in inFlight : Answer(m)
             \/ \E v \in Vehicles, name \in Names, value \in Values :
                  ChangeSetting(v, name, value)
    BY <1>2, <1>6 DEF Answer, ChangeSetting
  <1>7. CASE UNCHANGED vars
    BY <1>2, <1>7 DEF vars
  <1> QED
    BY <1>3, <1>4, <1>5, <1>6, <1>7 DEF Next

\* After every poll the failsafe check, the telemetry setup and the report of
\* the connection are about the vehicle of the snapshot, and the sinks know the
\* verdict.
THEOREM PartsAlwaysAgree == Spec => []PartsAgree
  <1>1. Init => PartsAgree
    BY DEF Init, PartsAgree
  <1> QED
    BY <1>1, NextKeepsAgreement, PTL DEF Spec

(***************************************************************************)
(* HeartbeatOnTime.                                                        *)
(***************************************************************************)
LEMMA NextKeepsPace ==
    ASSUME Paced, [Next]_vars
    PROVE  Paced'
  <1> USE ApplicationAssumption DEF Paced
  <1>1. ASSUME UNCHANGED <<nextHeartbeat, quiet>>, polled' => polled
        PROVE  Paced'
    BY <1>1
  <1>2. CASE \/ \E v \in Vehicles : ReceiveHeartbeat(v)
             \/ \E v \in Vehicles, result \in Setup!Results : ReceiveAck(v, result)
             \/ \E v \in Vehicles, item \in Metadata : ReceiveMetadata(v, item)
    BY <1>1, <1>2 DEF ReceiveHeartbeat, ReceiveAck, ReceiveMetadata, scheduleVars
  <1>3. CASE \/ \E m \in inFlight : ReceiveValue(m)
             \/ \E v \in Vehicles, name \in Names : ReceiveReport(v, name)
    BY <1>1, <1>3 DEF ReceiveValue, ReceiveReport, OnValue, scheduleVars
  <1>4. CASE Poll
    <2>1. nextHeartbeat' = IF nextHeartbeat = 0 THEN HeartbeatInterval ELSE nextHeartbeat
      BY <1>4 DEF Poll, SendCompanionHeartbeat, HeartbeatDue
    <2>2. quiet' \in {0, quiet} /\ (nextHeartbeat = 0 => quiet' = 0)
      BY <1>4, Zenon DEF Poll, HeartbeatDue
    <2> QED
      BY <2>1, <2>2
  <1>5. CASE \/ \E m \in inFlight : Answer(m)
             \/ \E v \in Vehicles, name \in Names, value \in Values :
                  ChangeSetting(v, name, value)
    BY <1>1, <1>5 DEF Answer, ChangeSetting, scheduleVars
  <1>6. CASE Tick
    <2>1. polled /\ ~polled'
      BY <1>6 DEF Tick
    <2>2. /\ nextHeartbeat' = IF nextHeartbeat > 0 THEN nextHeartbeat - 1 ELSE 0
          /\ quiet' \in {quiet, quiet + 1}
      BY <1>6 DEF Tick, Sooner
    <2> QED
      BY <2>1, <2>2
  <1>7. CASE UNCHANGED vars
    BY <1>1, <1>7 DEF vars, scheduleVars
  <1> QED
    BY <1>2, <1>3, <1>4, <1>5, <1>6, <1>7 DEF Next

\* However the link is lost and found and whatever writes fail, a connected
\* vehicle is offered a heartbeat every HeartbeatInterval.
THEOREM HeartbeatsAreOnTime == Spec => []HeartbeatOnTime
  <1>1. Init => Paced
    BY ApplicationAssumption DEF Init, Paced
  <1>2. Paced => HeartbeatOnTime
    BY ApplicationAssumption DEF Paced, HeartbeatOnTime
  <1> QED
    BY <1>1, <1>2, NextKeepsPace, PTL DEF Spec

(***************************************************************************)
(* EvidenceIsTheVehiclesOwn.                                               *)
(***************************************************************************)
LEMMA ElsewhereKeepsTruth ==
    ASSUME AnswersAreTrue, UNCHANGED <<raw, settings>>, inFlight' \subseteq inFlight
    PROVE  AnswersAreTrue'
  BY DEF AnswersAreTrue, Formed

LEMMA ObserveKeepsRead ==
    ASSUME AnswersAreTrue, EvidenceIsTheVehiclesOwn, NEW v, ObserveVehicle(v),
           settings' = settings
    PROVE  EvidenceIsTheVehiclesOwn' /\ raw' = [n \in Names |-> raw'[n]]
  <1>1. CASE raw' = NothingRead
    BY <1>1 DEF NothingRead, EvidenceIsTheVehiclesOwn
  <1>2. CASE UNCHANGED failsafeVars
    BY <1>2 DEF failsafeVars, EvidenceIsTheVehiclesOwn, AnswersAreTrue
  <1> QED
    BY <1>1, <1>2 DEF ObserveVehicle, ResetFor

LEMMA ValueKeepsTruth ==
    ASSUME AnswersAreTrue, EvidenceIsTheVehiclesOwn, NEW v, NEW name, NEW value,
           ~SettingsChange => value = settings[v][name],
           OnValue(v, name, value), inFlight' \subseteq inFlight
    PROVE  AnswersAreTrue' /\ EvidenceIsTheVehiclesOwn'
  <1>0. settings' = settings
    BY DEF OnValue
  <1>1. CASE UNCHANGED failsafeVars
    BY <1>0, <1>1, ElsewhereKeepsTruth DEF failsafeVars, EvidenceIsTheVehiclesOwn
  <1>2. CASE /\ FromObserved(v, "autopilot") /\ name \in Names
             /\ raw' = [raw EXCEPT ![name] = value]
             /\ UNCHANGED heartbeatSystemId
    <2>1. v = heartbeatSystemId
      BY <1>2 DEF FromObserved
    <2>2. raw' = [n \in Names |-> IF n = name THEN value ELSE raw[n]]
      BY <1>2 DEF AnswersAreTrue
    <2>3. ASSUME ~SettingsChange, NEW n \in Names, raw'[n] # NoValue
          PROVE  raw'[n] = settings[heartbeatSystemId][n]
      <3>1. CASE n = name
        BY <2>1, <2>2, <2>3, <3>1
      <3>2. CASE n # name
        BY <2>2, <2>3, <3>2 DEF EvidenceIsTheVehiclesOwn
      <3> QED
        BY <3>1, <3>2
    <2>4. EvidenceIsTheVehiclesOwn'
      BY <1>0, <1>2, <2>3 DEF EvidenceIsTheVehiclesOwn
    <2>5. AnswersAreTrue'
      BY <1>0, <2>2 DEF AnswersAreTrue, Formed
    <2> QED
      BY <2>4, <2>5
  <1> QED
    BY <1>1, <1>2 DEF OnValue, OnParameter

LEMMA PollKeepsTruth ==
    ASSUME AnswersAreTrue, EvidenceIsTheVehiclesOwn, Poll
    PROVE  AnswersAreTrue' /\ EvidenceIsTheVehiclesOwn'
  <1> DEFINE v == Connection!ReportedVehicle
  <1>1. ObserveVehicle(v) /\ settings' = settings
    BY DEF Poll, UpdateVehicleConnection
  <1>2. EvidenceIsTheVehiclesOwn' /\ raw' = [n \in Names |-> raw'[n]]
    BY <1>1, ObserveKeepsRead
  <1>3. PICK gone \in BOOLEAN : RequestFailsafeParameter(v, gone)
    BY DEF Poll
  <1>4. \A m \in inFlight' : m \in inFlight \/ \E name : m = RequestMessage(v, name)
    BY <1>3, Zenon DEF RequestFailsafeParameter
  <1>5. \A m \in inFlight' : Formed(m) /\ (m.kind = "value" => m \in inFlight)
    BY <1>4 DEF AnswersAreTrue, Formed, RequestMessage
  <1> QED
    BY <1>1, <1>2, <1>5 DEF AnswersAreTrue, Formed

LEMMA Answered ==
    ASSUME NEW m, Formed(m), NEW x
    PROVE  [m EXCEPT !.kind = "value", !.value = x, !.age = 0] =
           [kind |-> "value", vehicle |-> m.vehicle, name |-> m.name, value |-> x, age |-> 0]
  <1>1. PICK a : a = [m EXCEPT !.kind = "value"]
    OBVIOUS
  <1>2. a = [kind |-> "value", vehicle |-> m.vehicle, name |-> m.name,
             value |-> m.value, age |-> m.age]
    BY <1>1 DEF Formed
  <1>3. PICK b : b = [a EXCEPT !.value = x]
    OBVIOUS
  <1>4. b = [kind |-> "value", vehicle |-> m.vehicle, name |-> m.name,
             value |-> x, age |-> m.age]
    BY <1>2, <1>3
  <1>5. [b EXCEPT !.age = 0] =
        [kind |-> "value", vehicle |-> m.vehicle, name |-> m.name, value |-> x, age |-> 0]
    BY <1>4
  <1> QED
    BY <1>1, <1>3, <1>5

LEMMA AnswerKeepsTruth ==
    ASSUME AnswersAreTrue, NEW m \in inFlight, Answer(m)
    PROVE  AnswersAreTrue'
  <1>1. /\ inFlight' = (inFlight \ {m}) \cup
             {[m EXCEPT !.kind = "value", !.value = settings[m.vehicle][m.name], !.age = 0]}
        /\ UNCHANGED <<raw, settings>>
    BY DEF Answer, failsafeVars
  <1>2. [m EXCEPT !.kind = "value", !.value = settings[m.vehicle][m.name], !.age = 0] =
        [kind |-> "value", vehicle |-> m.vehicle, name |-> m.name,
         value |-> settings[m.vehicle][m.name], age |-> 0]
    BY Answered DEF AnswersAreTrue
  <1> QED
    BY <1>1, <1>2 DEF AnswersAreTrue, Formed

LEMMA TickKeepsTruth ==
    ASSUME AnswersAreTrue, Tick
    PROVE  AnswersAreTrue'
  <1>1. /\ inFlight' = {[m EXCEPT !.age = @ + 1] : m \in {n \in inFlight : n.age < MaxRoundTrip}}
        /\ UNCHANGED <<raw, settings>>
    BY DEF Tick, failsafeVars
  <1>2. ASSUME NEW m \in inFlight
        PROVE  [m EXCEPT !.age = @ + 1] =
               [kind |-> m.kind, vehicle |-> m.vehicle, name |-> m.name,
                value |-> m.value, age |-> m.age + 1]
    BY DEF AnswersAreTrue, Formed
  <1>3. \A m \in inFlight' : \E n \in inFlight :
            m = [kind |-> n.kind, vehicle |-> n.vehicle, name |-> n.name,
                 value |-> n.value, age |-> n.age + 1]
    BY <1>1, <1>2
  <1> QED
    BY <1>1, <1>3 DEF AnswersAreTrue, Formed

LEMMA NextKeepsTruth ==
    ASSUME AnswersAreTrue, EvidenceIsTheVehiclesOwn, [Next]_vars
    PROVE  AnswersAreTrue' /\ EvidenceIsTheVehiclesOwn'
  <1>1. ASSUME UNCHANGED <<failsafeVars, channelVars>>
        PROVE  AnswersAreTrue' /\ EvidenceIsTheVehiclesOwn'
    BY <1>1, ElsewhereKeepsTruth DEF failsafeVars, channelVars, EvidenceIsTheVehiclesOwn
  <1>2. ASSUME UNCHANGED <<failsafeVars, settings>>
        PROVE  EvidenceIsTheVehiclesOwn'
    BY <1>2 DEF failsafeVars, EvidenceIsTheVehiclesOwn
  <1>3. CASE \/ \E v \in Vehicles : ReceiveHeartbeat(v)
             \/ \E v \in Vehicles, result \in Setup!Results : ReceiveAck(v, result)
             \/ \E v \in Vehicles, item \in Metadata : ReceiveMetadata(v, item)
    BY <1>1, <1>3 DEF ReceiveHeartbeat, ReceiveAck, ReceiveMetadata
  <1>4. ASSUME NEW m \in inFlight, ReceiveValue(m)
        PROVE  AnswersAreTrue' /\ EvidenceIsTheVehiclesOwn'
    <2>1. ~SettingsChange => m.value = settings[m.vehicle][m.name]
      BY <1>4 DEF ReceiveValue, AnswersAreTrue
    <2> QED
      BY <1>4, <2>1, ValueKeepsTruth DEF ReceiveValue
  <1>5. ASSUME NEW v \in Vehicles, NEW name \in Names, ReceiveReport(v, name)
        PROVE  AnswersAreTrue' /\ EvidenceIsTheVehiclesOwn'
    BY <1>5, ValueKeepsTruth DEF ReceiveReport
  <1>6. CASE Poll
    BY <1>6, PollKeepsTruth
  <1>7. ASSUME NEW m \in inFlight, Answer(m)
        PROVE  AnswersAreTrue' /\ EvidenceIsTheVehiclesOwn'
    BY <1>2, <1>7, AnswerKeepsTruth DEF Answer
  <1>8. ASSUME NEW v \in Vehicles, NEW name \in Names, NEW value \in Values,
               ChangeSetting(v, name, value)
        PROVE  AnswersAreTrue' /\ EvidenceIsTheVehiclesOwn'
    BY <1>8 DEF ChangeSetting, AnswersAreTrue, Formed, EvidenceIsTheVehiclesOwn, failsafeVars
  <1>9. CASE Tick
    BY <1>2, <1>9, TickKeepsTruth DEF Tick
  <1>10. CASE UNCHANGED vars
    BY <1>1, <1>10 DEF vars
  <1> QED
    BY <1>3, <1>4, <1>5, <1>6, <1>7, <1>8, <1>9, <1>10 DEF Next

\* While nobody changes an autopilot's parameters, the evidence held for it is
\* what its parameters are, also while another vehicle takes over the link.
THEOREM EvidenceIsNeverMixed == Spec => []EvidenceIsTheVehiclesOwn
  <1>1. Init => AnswersAreTrue /\ EvidenceIsTheVehiclesOwn
    BY DEF Init, FailsafeInit, NothingRead, AnswersAreTrue, EvidenceIsTheVehiclesOwn
  <1> QED
    BY <1>1, NextKeepsTruth, PTL DEF Spec

(***************************************************************************)
(* NothingFromBefore, if every outage is seen by a poll.                   *)
(***************************************************************************)
\* Nothing is kept of a vehicle that is gone: the poll that sees it go resets
\* every part, and no part takes anything in without a vehicle.
GoneIsForgotten ==
    /\ before = {}
    /\ heartbeatSystemId = NoVehicle => raw = NothingRead
    /\ ~vehicleWasConnected =>
         /\ heartbeatSystemId = NoVehicle
         /\ phase = "waiting_for_vehicle"
         /\ ~companionHeartbeatActive

LEMMA NothingHeldWhenGone ==
    ASSUME GoneIsForgotten, ~vehicleWasConnected
    PROVE  Held = {}
  <1>1. {n \in Names : raw[n] # NoValue} = {}
    BY DEF GoneIsForgotten, NothingRead
  <1>2. ASSUME NEW part \in {"setup", "heartbeat", "report"}
        PROVE  ~(CASE part = "setup"     -> phase # "waiting_for_vehicle"
                   [] part = "heartbeat" -> companionHeartbeatActive
                   [] part = "report"    -> vehicleWasConnected)
    <2>1. CASE part = "setup"
      BY <2>1 DEF GoneIsForgotten
    <2>2. CASE part = "heartbeat"
      BY <2>2 DEF GoneIsForgotten
    <2>3. CASE part = "report"
      BY <2>3
    <2> QED
      BY <2>1, <2>2, <2>3
  <1> QED
    BY <1>1, <1>2 DEF Held

LEMMA ReceivingForgets ==
    ASSUME OutagesAreSeen, GoneIsForgotten,
           \/ \E v \in Vehicles : ReceiveHeartbeat(v)
           \/ \E v \in Vehicles, result \in Setup!Results : ReceiveAck(v, result)
           \/ \E m \in inFlight : ReceiveValue(m)
           \/ \E v \in Vehicles, name \in Names : ReceiveReport(v, name)
    PROVE  GoneIsForgotten'
  <1>1. ASSUME NEW v \in Vehicles, ReceiveHeartbeat(v)
        PROVE  GoneIsForgotten'
    <2>1. before' = {}
      BY <1>1, NothingHeldWhenGone DEF ReceiveHeartbeat, GoneIsForgotten
    <2> QED
      BY <1>1, <2>1 DEF ReceiveHeartbeat, GoneIsForgotten, NothingRead,
         setupVars, failsafeVars, reportVars
  <1>2. ASSUME NEW v \in Vehicles, NEW result \in Setup!Results, ReceiveAck(v, result)
        PROVE  GoneIsForgotten'
    <2>1. phase = "waiting_for_vehicle" => phase' = phase
      BY <1>2 DEF ReceiveAck, Setup!OnCommandAck, Setup!AnswersRequest,
         Setup!configuratorVars
    <2> QED
      BY <1>2, <2>1 DEF ReceiveAck, GoneIsForgotten, NothingRead, failsafeVars, reportVars
  <1>3. ASSUME NEW v, NEW name, NEW value, OnValue(v, name, value)
        PROVE  GoneIsForgotten'
    <2>1. before' = {} /\ heartbeatSystemId' = heartbeatSystemId
      BY <1>3 DEF OnValue, OnParameter, GoneIsForgotten, failsafeVars
    <2>2. heartbeatSystemId = NoVehicle => raw' = raw
      BY <1>3 DEF OnValue, OnParameter, FromObserved, failsafeVars
    <2> QED
      BY <1>3, <2>1, <2>2 DEF OnValue, GoneIsForgotten, NothingRead, setupVars
  <1> QED
    BY <1>1, <1>2, <1>3 DEF ReceiveValue, ReceiveReport

LEMMA PollForgets ==
    ASSUME GoneIsForgotten, Poll
    PROVE  GoneIsForgotten'
  <1> DEFINE v == Connection!ReportedVehicle
  <1>1. Setup!Update(v) /\ ObserveVehicle(v) /\ vehicleWasConnected' = (v # NoVehicle)
    BY DEF Poll, UpdateVehicleConnection
  <1>2. PICK written \in BOOLEAN :
          SendCompanionHeartbeat(v, written) /\ before' = before \ Renewed(v, written)
    BY Zenon DEF Poll
  <1>3. before' = {}
    BY <1>2 DEF GoneIsForgotten
  <1>4. v = NoVehicle => ~companionHeartbeatActive'
    BY <1>2, Zenon DEF SendCompanionHeartbeat
  <1>5. v = NoVehicle => phase' = "waiting_for_vehicle"
    BY <1>1 DEF Setup!Update, Setup!Reset
  <1>6. heartbeatSystemId' = v
    BY <1>1, ObserveFollows
  <1>7. heartbeatSystemId' = NoVehicle => raw' = NothingRead
    BY <1>1, <1>6 DEF ObserveVehicle, ResetFor, failsafeVars, GoneIsForgotten
  <1> QED
    BY <1>1, <1>3, <1>4, <1>5, <1>6, <1>7 DEF GoneIsForgotten, NothingRead

LEMMA NextForgets ==
    ASSUME OutagesAreSeen, GoneIsForgotten, [Next]_vars
    PROVE  GoneIsForgotten'
  <1>1. ASSUME UNCHANGED <<before, raw, heartbeatSystemId, phase, reportVars>>
        PROVE  GoneIsForgotten'
    BY <1>1 DEF GoneIsForgotten, NothingRead, reportVars
  <1>2. CASE \/ \E v \in Vehicles : ReceiveHeartbeat(v)
             \/ \E v \in Vehicles, result \in Setup!Results : ReceiveAck(v, result)
             \/ \E m \in inFlight : ReceiveValue(m)
             \/ \E v \in Vehicles, name \in Names : ReceiveReport(v, name)
    BY <1>2, ReceivingForgets
  <1>3. CASE \E v \in Vehicles, item \in Metadata : ReceiveMetadata(v, item)
    BY <1>1, <1>3 DEF ReceiveMetadata, setupVars, failsafeVars
  <1>4. CASE Poll
    BY <1>4, PollForgets
  <1>5. CASE \/ \E m \in inFlight : Answer(m)
             \/ \E v \in Vehicles, name \in Names, value \in Values :
                  ChangeSetting(v, name, value)
    BY <1>1, <1>5 DEF Answer, ChangeSetting, setupVars, failsafeVars
  <1>6. CASE Tick
    BY <1>1, <1>6 DEF Tick, Setup!ConfiguratorTick, failsafeVars
  <1>7. CASE UNCHANGED vars
    BY <1>1, <1>7 DEF vars, setupVars, failsafeVars
  <1> QED
    BY <1>2, <1>3, <1>4, <1>5, <1>6, <1>7 DEF Next

\* If a poll comes between the end of a connection and the next one, no part of
\* the program works with what it learnt in the earlier connection.
THEOREM SeenOutagesAreForgotten ==
    ASSUME OutagesAreSeen
    PROVE  Spec => []NothingFromBefore
  <1>1. Init => GoneIsForgotten
    BY DEF Init, FailsafeInit, GoneIsForgotten, Setup!ConfiguratorInit
  <1>2. GoneIsForgotten => NothingFromBefore
    BY DEF GoneIsForgotten, NothingFromBefore
  <1>3. GoneIsForgotten /\ [Next]_vars => GoneIsForgotten'
    BY NextForgets
  <1> QED
    BY <1>1, <1>2, <1>3, PTL DEF Spec

(***************************************************************************)
(* TypeOK, part by part.                                                   *)
(***************************************************************************)
\* A request names a stream and counts its transmissions below MaxAttempts: while
\* the setup goes on there is a stream left, and an attempt was made only if an
\* answer is awaited.
SetupFits ==
    /\ Setup!ConfiguratorTypeOK
    /\ phase = "configuring" =>
         /\ currentRequest < NumStreams /\ completedRequests = currentRequest
         /\ ~awaitingAck => attempt = 0

ScheduleTyped ==
    /\ nextHeartbeat \in 0 .. HeartbeatInterval
    /\ parameterIndex \in 0 .. Len(ParameterNames) - 1
    /\ nextParameter \in 0 .. RefreshInterval
    /\ nextMetadata \in [Metadata -> 0 .. MetadataInterval]

ReportTyped ==
    /\ vehicleWasConnected \in BOOLEAN /\ companionHeartbeatActive \in BOOLEAN
    /\ polled \in BOOLEAN
    /\ knownMetadata \subseteq Metadata
    /\ before \subseteq Remembered

ChannelTyped ==
    /\ settings \in [Vehicles -> [Names -> Values]]
    /\ inFlight \subseteq Message

ObserverTyped ==
    /\ FailsafeTypeOK
    /\ previousFailsafePhase \in FailsafePhases

TypeInv ==
    /\ SetupFits /\ Connection!ConnectionTypeOK /\ ObserverTyped
    /\ ScheduleTyped /\ ReportTyped /\ ChannelTyped /\ Paced

LEMMA TypeInvTypes == TypeInv => TypeOK
  <1> SUFFICES ASSUME TypeInv PROVE TypeOK
    OBVIOUS
  <1>1. {vehicleWasConnected, companionHeartbeatActive, polled} \subseteq BOOLEAN
    BY Zenon DEF TypeInv, ReportTyped
  <1>2. quiet \in 0 .. HeartbeatInterval + 1
    BY ApplicationAssumption DEF TypeInv, Paced
  <1> QED
    BY <1>1, <1>2 DEF TypeInv, TypeOK, SetupFits, ObserverTyped, ScheduleTyped,
       ReportTyped, ChannelTyped

\* The parameters are asked for under their names, and there is one to ask for.
LEMMA NamesAreAsked ==
    /\ ParameterNames \in Seq(Names)
    /\ Len(ParameterNames) \in Nat \ {0}
  <1> DEFINE IfRead(name) == IF name \in Names THEN <<name>> ELSE <<>>
  <1>1. \A name : IfRead(name) \in Seq(Names)
    OBVIOUS
  <1>2. \A name \in Names : Len(IfRead(name)) = 1
    OBVIOUS
  <1>3. ParameterNames = IfRead("FS_GCS_ENABLE") \o IfRead("FS_GCS_TIMEOUT")
                         \o IfRead("FS_OPTIONS") \o IfRead("SYSID_MYGCS")
    BY DEF ParameterNames
  <1>4. \E name \in AllNames : name \in Names
    BY FailsafeAssumption
  <1> HIDE DEF IfRead
  <1>5. \A name : Len(IfRead(name)) \in Nat
    BY <1>1
  <1>6. \E name \in AllNames : Len(IfRead(name)) = 1
    BY <1>2, <1>4
  <1>7. /\ ParameterNames \in Seq(Names)
        /\ Len(ParameterNames) =
             Len(IfRead("FS_GCS_ENABLE")) + Len(IfRead("FS_GCS_TIMEOUT"))
             + Len(IfRead("FS_OPTIONS")) + Len(IfRead("SYSID_MYGCS"))
    BY <1>1, <1>3
  <1> QED
    BY <1>5, <1>6, <1>7 DEF AllNames

LEMMA SetupBounds ==
    NumStreams \in Nat \ {0} /\ MaxAttempts \in Nat \ {0} /\ AckTimeout \in Nat \ {0}
  BY ApplicationAssumption

LEMMA FreshSetupFits ==
    /\ Setup!ConfiguratorInit => SetupFits
    /\ Setup!Reset => SetupFits'
  <1>1. 0 \in 0 .. NumStreams /\ 0 \in 0 .. MaxAttempts /\ 0 \in 0 .. AckTimeout
    BY SetupBounds
  <1>2. Setup!ConfiguratorInit => SetupFits
    BY <1>1, Zenon DEF SetupFits, Setup!ConfiguratorInit, Setup!ConfiguratorTypeOK,
       Setup!Phases
  <1>3. Setup!Reset => SetupFits'
    BY <1>1, Zenon DEF SetupFits, Setup!Reset, Setup!ConfiguratorTypeOK, Setup!Phases
  <1> QED
    BY <1>2, <1>3

LEMMA InitTyped == Init => TypeInv
  <1> SUFFICES ASSUME Init PROVE TypeInv
    OBVIOUS
  <1>1. SetupFits
    BY FreshSetupFits DEF Init
  <1>2. Connection!ConnectionTypeOK
    BY ApplicationAssumption DEF Init, Connection!ConnectionInit,
       Connection!ConnectionTypeOK, Connection!SilenceLimit
  <1>3. ObserverTyped
    BY DEF Init, FailsafeInit, NothingRead, ObserverTyped, FailsafeTypeOK, FailsafePhases
  <1>4. ScheduleTyped
    BY NamesAreAsked, ApplicationAssumption DEF Init, ScheduleTyped
  <1>5. ReportTyped /\ ChannelTyped
    BY DEF Init, ReportTyped, ChannelTyped
  <1>6. Paced
    BY ApplicationAssumption DEF Init, Paced
  <1> QED
    BY <1>1, <1>2, <1>3, <1>4, <1>5, <1>6 DEF TypeInv

LEMMA UpdateFits ==
    ASSUME SetupFits, NEW v \in Vehicles \cup {NoVehicle}, Setup!Update(v)
    PROVE  SetupFits'
  <1> USE SetupBounds
  <1>1. CASE Setup!Reset
    BY <1>1, FreshSetupFits
  <1>2. CASE v \in Vehicles /\ Setup!BeginSession(v)
    BY <1>2 DEF Setup!BeginSession, Setup!Emit, SetupFits, Setup!ConfiguratorTypeOK,
       Setup!Phases, Setup!Requests, Setup!Streams
  <1>3. CASE Setup!NothingToSend
    BY <1>3 DEF Setup!NothingToSend, SetupFits, Setup!ConfiguratorTypeOK
  <1>4. CASE Setup!GiveUp
    BY <1>4 DEF Setup!GiveUp, SetupFits, Setup!ConfiguratorTypeOK, Setup!Phases
  <1>5. CASE Setup!SendRequest
    <2>1. currentRequest \in 0 .. NumStreams - 1 /\ attempt \in 0 .. MaxAttempts - 1
      BY <1>5 DEF Setup!SendRequest, Setup!Waiting, Setup!Exhausted, SetupFits,
         Setup!ConfiguratorTypeOK
    <2> QED
      BY <1>5, <2>1 DEF Setup!SendRequest, Setup!Emit, SetupFits,
         Setup!ConfiguratorTypeOK, Setup!Requests, Setup!Streams
  <1> QED
    BY <1>1, <1>2, <1>3, <1>4, <1>5 DEF Setup!Update

LEMMA AckFits ==
    ASSUME SetupFits, NEW ack, Setup!OnCommandAck(ack)
    PROVE  SetupFits'
  <1> USE SetupBounds
  <1>1. CASE UNCHANGED Setup!configuratorVars
    BY <1>1 DEF Setup!configuratorVars, SetupFits, Setup!ConfiguratorTypeOK
  <1>2. CASE Setup!Extend
    BY <1>2 DEF Setup!OnCommandAck, Setup!Extend, SetupFits, Setup!ConfiguratorTypeOK
  <1>3. CASE ack.result \in Refusals /\ Setup!Refuse(ack.result)
    BY <1>3 DEF Setup!OnCommandAck, Setup!Refuse, SetupFits, Setup!ConfiguratorTypeOK,
       Setup!Phases
  <1>4. CASE phase = "configuring" /\ Setup!Advance
    <2>1. request' = request
      BY DEF Setup!OnCommandAck
    <2>2. awaitingAck' = FALSE /\ awaitingAck' \in BOOLEAN
      BY <1>4 DEF Setup!Advance
    <2>3. currentRequest + 1 \in 0 .. NumStreams /\ completedRequests = currentRequest
      BY <1>4 DEF SetupFits, Setup!ConfiguratorTypeOK
    <2>4. /\ phase' \in {"active", "configuring"}
          /\ phase' = "configuring" => currentRequest + 1 # NumStreams
      BY <1>4 DEF Setup!Advance
    <2> QED
      BY <1>4, <2>1, <2>2, <2>3, <2>4 DEF Setup!Advance, SetupFits,
         Setup!ConfiguratorTypeOK, Setup!Phases
  <1> QED
    BY <1>1, <1>2, <1>3, <1>4 DEF Setup!OnCommandAck, Setup!AnswersRequest

LEMMA ReportedVehicleTyped ==
    Connection!ConnectionTypeOK => Connection!ReportedVehicle \in Vehicles \cup {NoVehicle}
  BY DEF Connection!ConnectionTypeOK, Connection!ReportedVehicle

LEMMA NextKeepsSetup ==
    ASSUME SetupFits, Connection!ConnectionTypeOK, [Next]_vars
    PROVE  SetupFits'
  <1>1. ASSUME UNCHANGED setupVars
        PROVE  SetupFits'
    BY <1>1 DEF setupVars, SetupFits, Setup!ConfiguratorTypeOK
  <1>2. ASSUME NEW v \in Vehicles, NEW result, ReceiveAck(v, result)
        PROVE  SetupFits'
    BY <1>2, AckFits DEF ReceiveAck
  <1>3. CASE Poll
    BY <1>3, UpdateFits, ReportedVehicleTyped DEF Poll
  <1>4. CASE Tick
    BY <1>4, ApplicationAssumption DEF Tick, Setup!ConfiguratorTick, SetupFits,
       Setup!ConfiguratorTypeOK
  <1> QED
    BY <1>1, <1>2, <1>3, <1>4 DEF Next, vars, ReceiveHeartbeat, ReceiveValue, ReceiveReport,
       OnValue, ReceiveMetadata, Answer, ChangeSetting

LEMMA NextKeepsConnection ==
    ASSUME Connection!ConnectionTypeOK, [Next]_vars
    PROVE  Connection!ConnectionTypeOK'
  <1>1. ASSUME UNCHANGED <<systemId, silence>>
        PROVE  Connection!ConnectionTypeOK'
    BY <1>1 DEF Connection!ConnectionTypeOK
  <1>2. ASSUME NEW v \in Vehicles, ReceiveHeartbeat(v)
        PROVE  Connection!ConnectionTypeOK'
    BY <1>2, ApplicationAssumption DEF ReceiveHeartbeat, Connection!OnHeartbeat,
       Connection!connectionVars, Connection!ConnectionTypeOK, Connection!SilenceLimit
  <1>3. CASE Tick
    BY <1>3, ApplicationAssumption DEF Tick, Connection!ConnectionTick,
       Connection!ConnectionTypeOK, Connection!SilenceLimit
  <1> QED
    BY <1>1, <1>2, <1>3 DEF Next, vars, ReceiveAck, ReceiveValue, ReceiveReport, OnValue,
       ReceiveMetadata, Poll, Answer, ChangeSetting

LEMMA VerdictIsAPhase ==
    \A r, v : Verdict(r, v) \in FailsafePhases
  BY DEF Verdict, FailsafePhases

LEMMA ValueKeepsObserver ==
    ASSUME ObserverTyped, NEW v, NEW name, NEW value \in Values \cup {NoValue},
           OnValue(v, name, value)
    PROVE  ObserverTyped'
  <1>1. CASE UNCHANGED failsafeVars
    BY <1>1 DEF OnValue, failsafeVars, ObserverTyped, FailsafeTypeOK
  <1>2. CASE OnParameter(v, "autopilot", name, value) /\ ~UNCHANGED failsafeVars
    <2>1. /\ name \in Names
          /\ raw' = [raw EXCEPT ![name] = value]
          /\ failsafePhase' \in FailsafePhases
          /\ UNCHANGED heartbeatSystemId
      BY <1>2, VerdictIsAPhase DEF OnParameter
    <2>2. previousFailsafePhase' \in FailsafePhases
      BY <2>1 DEF OnValue, ObserverTyped
    <2> QED
      BY <2>1, <2>2 DEF ObserverTyped, FailsafeTypeOK
  <1> QED
    BY <1>1, <1>2 DEF OnValue

LEMMA NextKeepsObserver ==
    ASSUME ObserverTyped, Connection!ConnectionTypeOK, ChannelTyped, [Next]_vars
    PROVE  ObserverTyped'
  <1>1. ASSUME UNCHANGED <<failsafeVars, previousFailsafePhase>>
        PROVE  ObserverTyped'
    BY <1>1 DEF failsafeVars, ObserverTyped, FailsafeTypeOK
  <1>2. ASSUME NEW m \in inFlight, ReceiveValue(m)
        PROVE  ObserverTyped'
    <2>1. m.value \in Values \cup {NoValue}
      BY DEF ChannelTyped, Message
    <2> QED
      BY <1>2, <2>1, ValueKeepsObserver DEF ReceiveValue
  <1>3. ASSUME NEW v \in Vehicles, NEW name \in Names, ReceiveReport(v, name)
        PROVE  ObserverTyped'
    <2>1. settings[v][name] \in Values \cup {NoValue}
      BY DEF ChannelTyped
    <2> QED
      BY <1>3, <2>1, ValueKeepsObserver DEF ReceiveReport
  <1>4. CASE Poll
    <2> DEFINE v == Connection!ReportedVehicle
    <2>1. ObserveVehicle(v) /\ previousFailsafePhase' = failsafePhase'
      BY <1>4 DEF Poll, UpdateVehicleConnection
    <2>2. FailsafeTypeOK'
      BY <2>1, ReportedVehicleTyped DEF ObserveVehicle, ResetFor, NothingRead,
         failsafeVars, ObserverTyped, FailsafeTypeOK, FailsafePhases
    <2> QED
      BY <2>1, <2>2 DEF ObserverTyped, FailsafeTypeOK
  <1> QED
    BY <1>1, <1>2, <1>3, <1>4 DEF Next, vars, ReceiveHeartbeat, ReceiveAck, ReceiveMetadata,
       Answer, ChangeSetting, Tick, reportVars

\* Where the schedule of the parameter requests goes from a place in it.
LEMMA ParametersStayInOrder ==
    ASSUME ScheduleTyped, NEW v, NEW gone, RequestFailsafeParameter(v, gone)
    PROVE  /\ parameterIndex' \in 0 .. Len(ParameterNames) - 1
           /\ nextParameter' \in 0 .. RefreshInterval
  <1> DEFINE index == IF NewlyConnected(v) THEN 0 ELSE parameterIndex
             last  == IsLast(index)
  <1>1. /\ {ParameterSpacing, RetryInterval, RefreshInterval} \subseteq 0 .. RefreshInterval
        /\ 0 \in 0 .. RefreshInterval
    BY ApplicationAssumption
  <1>2. index \in 0 .. Len(ParameterNames) - 1 /\ 0 \in 0 .. Len(ParameterNames) - 1
    BY NamesAreAsked DEF ScheduleTyped
  <1> HIDE DEF index
  <1>3. ~last => index + 1 \in 0 .. Len(ParameterNames) - 1
    <2>1. \A n \in Nat : \A i \in 0 .. n - 1 : i + 1 # n => i + 1 \in 0 .. n - 1
      OBVIOUS
    <2> QED
      BY <1>2, <2>1, NamesAreAsked DEF IsLast
  <1> HIDE DEF last
  <1>4. \/ parameterIndex' \in {0, index}
        \/ ~last /\ parameterIndex' = index + 1
    BY DEF RequestFailsafeParameter, index, last
  <1>5. nextParameter' \in {ParameterSpacing, RetryInterval, RefreshInterval, 0, nextParameter}
    <2>1. CASE ~ParameterDue(v)
      BY <2>1 DEF RequestFailsafeParameter
    <2>2. CASE ParameterDue(v) /\ ~last
      BY <2>2 DEF RequestFailsafeParameter, index, last
    <2>3. CASE ParameterDue(v) /\ last /\ failsafePhase' = "accepted"
      BY <2>3 DEF RequestFailsafeParameter, index, last
    <2>4. CASE ParameterDue(v) /\ last /\ failsafePhase' # "accepted"
      BY <2>4 DEF RequestFailsafeParameter, index, last
    <2> QED
      BY <2>1, <2>2, <2>3, <2>4
  <1> QED
    BY <1>1, <1>2, <1>3, <1>4, <1>5 DEF ScheduleTyped

LEMMA NextKeepsSchedule ==
    ASSUME ScheduleTyped, Paced', [Next]_vars
    PROVE  ScheduleTyped'
  <1>1. ASSUME UNCHANGED scheduleVars
        PROVE  ScheduleTyped'
    BY <1>1 DEF scheduleVars, ScheduleTyped
  <1>2. nextHeartbeat' \in 0 .. HeartbeatInterval
    BY DEF Paced
  <1>3. CASE Poll
    <2> DEFINE v == Connection!ReportedVehicle
    <2>1. PICK gone \in BOOLEAN : RequestFailsafeParameter(v, gone)
      BY <1>3 DEF Poll
    <2>2. nextMetadata' \in [Metadata -> 0 .. MetadataInterval]
      <3>1. PICK reported \in SUBSET knownMetadata :
              nextMetadata' =
                [item \in Metadata |->
                   IF /\ phase' = "active" /\ v # NoVehicle
                      /\ item \notin reported /\ nextMetadata[item] = 0
                   THEN MetadataInterval
                   ELSE nextMetadata[item]]
        BY <1>3 DEF Poll, RequestVehicleMetadata
      <3>2. MetadataInterval \in 0 .. MetadataInterval
        BY ApplicationAssumption
      <3> QED
        BY <3>1, <3>2 DEF ScheduleTyped
    <2> QED
      BY <1>2, <2>1, <2>2, ParametersStayInOrder DEF ScheduleTyped
  <1>4. CASE Tick
    <2>1. \A limit \in Nat : \A n \in 0 .. limit : Sooner(n) \in 0 .. limit
      BY DEF Sooner
    <2>2. RefreshInterval \in Nat /\ MetadataInterval \in Nat
      BY ApplicationAssumption
    <2> QED
      BY <1>2, <1>4, <2>1, <2>2 DEF Tick, ScheduleTyped
  <1> QED
    BY <1>1, <1>3, <1>4 DEF Next, vars, ReceiveHeartbeat, ReceiveAck, ReceiveValue,
       ReceiveReport, OnValue, ReceiveMetadata, Answer, ChangeSetting

LEMMA HeldIsRemembered == Held \subseteq Remembered
  BY DEF Held, Remembered

LEMMA NextKeepsReport ==
    ASSUME ReportTyped, [Next]_vars
    PROVE  ReportTyped'
  <1>0. FALSE \in BOOLEAN /\ TRUE \in BOOLEAN
    OBVIOUS
  <1>1. ASSUME UNCHANGED <<vehicleWasConnected, companionHeartbeatActive>>,
               polled' \in {FALSE, polled}, knownMetadata' \subseteq Metadata,
               before' \subseteq Remembered
        PROVE  ReportTyped'
    BY <1>0, <1>1, Zenon DEF ReportTyped
  <1>2. ASSUME NEW v \in Vehicles, ReceiveHeartbeat(v)
        PROVE  ReportTyped'
    <2>1. before' \subseteq Remembered /\ knownMetadata' \subseteq Metadata
      BY <1>2, HeldIsRemembered DEF ReceiveHeartbeat, ReportTyped
    <2> QED
      BY <1>1, <1>2, <2>1 DEF ReceiveHeartbeat, reportVars
  <1>3. ASSUME NEW v, NEW name, NEW value, OnValue(v, name, value)
        PROVE  ReportTyped'
    BY <1>1, <1>3 DEF OnValue, ReportTyped
  <1>4. ASSUME NEW v \in Vehicles, NEW item \in Metadata, ReceiveMetadata(v, item)
        PROVE  ReportTyped'
    BY <1>1, <1>4 DEF ReceiveMetadata, ReportTyped, reportVars
  <1>5. CASE Poll
    <2> DEFINE v == Connection!ReportedVehicle
    <2>1. PICK written \in BOOLEAN :
            SendCompanionHeartbeat(v, written) /\ before' = before \ Renewed(v, written)
      BY <1>5, Zenon DEF Poll
    <2>2. companionHeartbeatActive' \in BOOLEAN
      BY <2>1, Zenon DEF SendCompanionHeartbeat
    <2>3. vehicleWasConnected' \in BOOLEAN /\ polled' \in BOOLEAN
      BY <1>5, Zenon DEF Poll, UpdateVehicleConnection
    <2>4. before' \subseteq Remembered /\ knownMetadata' \subseteq Metadata
      BY <1>5, <2>1 DEF Poll, ReportTyped
    <2> QED
      BY <2>2, <2>3, <2>4 DEF ReportTyped
  <1>6. CASE \/ \E v \in Vehicles, result \in Setup!Results : ReceiveAck(v, result)
             \/ \E m \in inFlight : Answer(m)
             \/ \E v \in Vehicles, name \in Names, value \in Values :
                  ChangeSetting(v, name, value)
             \/ Tick
    BY <1>1, <1>6 DEF ReceiveAck, Answer, ChangeSetting, Tick, ReportTyped, reportVars
  <1>7. CASE UNCHANGED vars
    BY <1>1, <1>7 DEF vars, ReportTyped, reportVars
  <1> QED
    BY <1>2, <1>3, <1>4, <1>5, <1>6, <1>7 DEF Next, ReceiveValue, ReceiveReport

\* A message is a record of its fields.
LEMMA MessageFormed ==
    ASSUME NEW m \in Message
    PROVE  /\ Formed(m)
           /\ m.kind \in {"request", "value"} /\ m.vehicle \in Vehicles /\ m.name \in Names
           /\ m.value \in Values \cup {NoValue} /\ m.age \in 0 .. MaxRoundTrip
  BY DEF Message, Formed

LEMMA NextKeepsChannel ==
    ASSUME ChannelTyped, ScheduleTyped, Connection!ConnectionTypeOK, [Next]_vars
    PROVE  ChannelTyped'
  <1>0. MaxRoundTrip \in Nat /\ 0 \in 0 .. MaxRoundTrip
    BY ApplicationAssumption
  <1>1. ASSUME settings' = settings, inFlight' \subseteq inFlight
        PROVE  ChannelTyped'
    BY <1>1 DEF ChannelTyped
  <1>2. CASE \/ \E v \in Vehicles : ReceiveHeartbeat(v)
             \/ \E v \in Vehicles, result \in Setup!Results : ReceiveAck(v, result)
             \/ \E v \in Vehicles, item \in Metadata : ReceiveMetadata(v, item)
             \/ UNCHANGED vars
    BY <1>1, <1>2 DEF ReceiveHeartbeat, ReceiveAck, ReceiveMetadata, channelVars, vars
  <1>3. CASE \/ \E m \in inFlight : ReceiveValue(m)
             \/ \E v \in Vehicles, name \in Names : ReceiveReport(v, name)
    BY <1>1, <1>3 DEF ReceiveValue, ReceiveReport, OnValue
  <1>4. CASE Poll
    <2> DEFINE v     == Connection!ReportedVehicle
               index == IF NewlyConnected(v) THEN 0 ELSE parameterIndex
    <2>1. PICK gone \in BOOLEAN : RequestFailsafeParameter(v, gone)
      BY <1>4 DEF Poll
    <2>2. \/ inFlight' = inFlight
          \/ /\ v # NoVehicle
             /\ inFlight' = inFlight \cup {RequestMessage(v, ParameterNames[index + 1])}
      BY <2>1, Zenon DEF RequestFailsafeParameter, ParameterDue
    <2>3. index + 1 \in 1 .. Len(ParameterNames)
      BY NamesAreAsked DEF ScheduleTyped
    <2> HIDE DEF index
    <2>4. ParameterNames[index + 1] \in Names
      BY <2>3, NamesAreAsked
    <2>5. v # NoVehicle => v \in Vehicles
      BY ReportedVehicleTyped
    <2>6. v # NoVehicle => RequestMessage(v, ParameterNames[index + 1]) \in Message
      BY <1>0, <2>4, <2>5 DEF RequestMessage, Message
    <2> QED
      BY <1>4, <2>2, <2>6 DEF Poll, ChannelTyped
  <1>5. ASSUME NEW m \in inFlight, Answer(m)
        PROVE  ChannelTyped'
    <2>1. m \in Message /\ settings[m.vehicle][m.name] \in Values
      BY MessageFormed DEF ChannelTyped
    <2>2. [m EXCEPT !.kind = "value", !.value = settings[m.vehicle][m.name], !.age = 0]
            \in Message
      BY <1>0, <2>1, MessageFormed, Answered DEF Message
    <2> QED
      BY <1>5, <2>2 DEF Answer, ChannelTyped
  <1>6. ASSUME NEW v \in Vehicles, NEW name \in Names, NEW value \in Values,
               ChangeSetting(v, name, value)
        PROVE  ChannelTyped'
    BY <1>6 DEF ChangeSetting, ChannelTyped
  <1>7. CASE Tick
    <2>1. ASSUME NEW m \in inFlight, m.age < MaxRoundTrip
          PROVE  [m EXCEPT !.age = @ + 1] \in Message
      <3>1. m \in Message /\ m.age + 1 \in 0 .. MaxRoundTrip
        BY <1>0, <2>1, MessageFormed DEF ChannelTyped
      <3> QED
        BY <3>1 DEF Message
    <2> QED
      BY <1>7, <2>1 DEF Tick, ChannelTyped
  <1> QED
    BY <1>2, <1>3, <1>4, <1>5, <1>6, <1>7 DEF Next

LEMMA TypeInvAlways == Spec => []TypeInv
  <1>1. TypeInv /\ [Next]_vars => TypeInv'
    BY NextKeepsSetup, NextKeepsConnection, NextKeepsObserver, NextKeepsPace,
       NextKeepsSchedule, NextKeepsReport, NextKeepsChannel DEF TypeInv
  <1> QED
    BY <1>1, InitTyped, PTL DEF Spec

\* However messages and polls interleave, every part keeps to its type: the setup
\* has a stream for every request it sends and no more than MaxAttempts of them,
\* the schedule of the parameters never leaves the list of their names, and
\* nothing is on its way but requests for parameters there are.
THEOREM TypeCorrect == Spec => []TypeOK
  BY TypeInvAlways, TypeInvTypes, PTL

(***************************************************************************)
(* The failsafe check in the application.                                  *)
(***************************************************************************)
\* Only what an autopilot has set comes back as a value.
ValuesAreReal == \A m \in inFlight : m.kind = "value" => m.value \in Values

LEMMA NextKeepsValuesReal ==
    ASSUME ValuesAreReal, ChannelTyped, [Next]_vars
    PROVE  ValuesAreReal'
  <1>1. ASSUME inFlight' \subseteq inFlight
        PROVE  ValuesAreReal'
    BY <1>1 DEF ValuesAreReal
  <1>2. CASE Poll
    <2>1. PICK gone \in BOOLEAN : RequestFailsafeParameter(Connection!ReportedVehicle, gone)
      BY <1>2 DEF Poll
    <2>2. \A m \in inFlight' :
            m \in inFlight \/ \E v, name : m = RequestMessage(v, name)
      BY <2>1, Zenon DEF RequestFailsafeParameter
    <2> QED
      BY <2>2 DEF ValuesAreReal, RequestMessage
  <1>3. ASSUME NEW m \in inFlight, Answer(m)
        PROVE  ValuesAreReal'
    <2>1. m \in Message /\ settings[m.vehicle][m.name] \in Values
      BY MessageFormed DEF ChannelTyped
    <2> DEFINE answer == [m EXCEPT !.kind = "value", !.value = settings[m.vehicle][m.name],
                                   !.age = 0]
    <2>2. answer = [kind |-> "value", vehicle |-> m.vehicle, name |-> m.name,
                    value |-> settings[m.vehicle][m.name], age |-> 0]
      BY <2>1, MessageFormed, Answered
    <2>3. answer.value \in Values
      BY <2>1, <2>2
    <2>4. inFlight' \subseteq inFlight \cup {answer}
      BY <1>3 DEF Answer
    <2> HIDE DEF answer
    <2> QED
      BY <2>3, <2>4 DEF ValuesAreReal
  <1>4. CASE Tick
    <2>1. ASSUME NEW m \in inFlight
          PROVE  /\ [m EXCEPT !.age = @ + 1].kind = m.kind
                 /\ [m EXCEPT !.age = @ + 1].value = m.value
      <3>1. m = [kind |-> m.kind, vehicle |-> m.vehicle, name |-> m.name,
                 value |-> m.value, age |-> m.age]
        BY MessageFormed DEF ChannelTyped, Formed
      <3> QED
        BY <3>1
    <2>2. \A m \in inFlight' : \E n \in inFlight : m = [n EXCEPT !.age = @ + 1]
      BY <1>4 DEF Tick
    <2>3. \A m \in inFlight' : \E n \in inFlight : m.kind = n.kind /\ m.value = n.value
      <3> SUFFICES ASSUME NEW m \in inFlight'
                   PROVE  \E n \in inFlight : m.kind = n.kind /\ m.value = n.value
        OBVIOUS
      <3>1. PICK n \in inFlight : m = [n EXCEPT !.age = @ + 1]
        BY <2>2
      <3>2. m.kind = n.kind /\ m.value = n.value
        BY <2>1, <3>1, Zenon
      <3> QED
        BY <3>2
    <2> QED
      BY <2>3 DEF ValuesAreReal
  <1> QED
    BY <1>1, <1>2, <1>3, <1>4 DEF Next, vars, ReceiveHeartbeat, ReceiveAck, ReceiveValue,
       ReceiveReport, OnValue, ReceiveMetadata, ChangeSetting, channelVars

LEMMA ValueReachesCheck ==
    ASSUME NEW v \in Vehicles, NEW name \in Names, NEW value \in Values,
           OnValue(v, name, value)
    PROVE  [FailsafeNext]_failsafeVars
  <1>1. name \in AllNames
    BY FailsafeAssumption
  <1>2. OnParameter(v, "autopilot", name, value) \/ UNCHANGED failsafeVars
    BY Zenon DEF OnValue
  <1> QED
    BY <1>1, <1>2 DEF FailsafeNext

LEMMA NextReachesCheck ==
    ASSUME ValuesAreReal, ChannelTyped, Connection!ConnectionTypeOK, [Next]_vars
    PROVE  [FailsafeNext]_failsafeVars
  <1>1. ASSUME NEW m \in inFlight, ReceiveValue(m)
        PROVE  [FailsafeNext]_failsafeVars
    <2>1. m.vehicle \in Vehicles /\ m.name \in Names
      BY MessageFormed DEF ChannelTyped
    <2>2. m.value \in Values
      BY <1>1 DEF ReceiveValue, ValuesAreReal
    <2> QED
      BY <1>1, <2>1, <2>2, ValueReachesCheck DEF ReceiveValue
  <1>2. ASSUME NEW v \in Vehicles, NEW name \in Names, ReceiveReport(v, name)
        PROVE  [FailsafeNext]_failsafeVars
    <2>1. settings[v][name] \in Values
      BY DEF ChannelTyped
    <2> QED
      BY <1>2, <2>1, ValueReachesCheck DEF ReceiveReport
  <1>3. CASE Poll
    <2>1. ObserveVehicle(Connection!ReportedVehicle)
      BY <1>3 DEF Poll, UpdateVehicleConnection
    <2> QED
      BY <2>1, ReportedVehicleTyped, Zenon DEF FailsafeNext
  <1> QED
    BY <1>1, <1>2, <1>3 DEF Next, vars, ReceiveHeartbeat, ReceiveAck, ReceiveMetadata,
       Answer, ChangeSetting, Tick

\* Inside the application the failsafe check does only what CompanionLinkFailsafe
\* lets it do on its own: each poll observes one vehicle of the snapshot, each
\* message that is admitted is one value of one parameter, and nothing else
\* touches it.
THEOREM ApplicationKeepsToCheck == Spec => FailsafeSpec
  <1>1. Init => FailsafeInit /\ ValuesAreReal
    BY DEF Init, ValuesAreReal
  <1>2. TypeInv /\ ValuesAreReal /\ [Next]_vars => ValuesAreReal'
    BY NextKeepsValuesReal DEF TypeInv
  <1>3. TypeInv /\ ValuesAreReal /\ [Next]_vars => [FailsafeNext]_failsafeVars
    BY NextReachesCheck DEF TypeInv
  <1> QED
    BY <1>1, <1>2, <1>3, TypeInvAlways, PTL DEF Spec, FailsafeSpec

\* So the verdict the application reports is the policy's on the evidence it has,
\* however polls, values, outages and other vehicles interleave.
THEOREM ReportedVerdictFollowsPolicy == Spec => []PhaseFitsEvidence
  BY ApplicationKeepsToCheck, VerdictFollowsPolicy, PTL

(***************************************************************************)
(* The telemetry setup inside the application.                             *)
(***************************************************************************)
SessionHasPhase == phase = "waiting_for_vehicle" <=> vehicleSystemId = NoVehicle

\* An outcome of the setup stands as long as the setup keeps its vehicle,
\* whatever is read between two polls: heartbeats of another connection,
\* acknowledgements, values of parameters.
SetupOutcomeIsFinal ==
    [][(phase \in {"active", "failed"} /\ vehicleSystemId' = vehicleSystemId)
          => (UNCHANGED <<phase, completedRequests, failureResult>>)]_vars

\* Every step calls one operation of the setup at most.
LEMMA NextReachesSetup ==
    ASSUME [Next]_vars
    PROVE  \/ \E v : Setup!Update(v)
           \/ \E ack : Setup!OnCommandAck(ack)
           \/ UNCHANGED <<phase, vehicleSystemId, completedRequests, failureResult>>
  <1>1. CASE Poll
    BY <1>1 DEF Poll
  <1>2. ASSUME NEW v \in Vehicles, NEW result \in Setup!Results, ReceiveAck(v, result)
        PROVE  \E ack : Setup!OnCommandAck(ack)
    BY <1>2, Zenon DEF ReceiveAck
  <1> QED
    BY <1>1, <1>2 DEF Next, vars, setupVars, ReceiveHeartbeat, ReceiveValue,
       ReceiveReport, OnValue, ReceiveMetadata, Answer, ChangeSetting, Tick,
       Setup!ConfiguratorTick

\* Only a poll that finds its vehicle gone, or another one connected, undoes an
\* outcome of the telemetry setup.
THEOREM SetupOutcomesAreFinal == Spec => SetupOutcomeIsFinal
  <1>1. Init => SessionHasPhase
    BY DEF Init, Setup!ConfiguratorInit, SessionHasPhase
  <1>2. ASSUME SessionHasPhase, [Next]_vars
        PROVE  SessionHasPhase'
    <2>1. ASSUME NEW v, Setup!Update(v)
          PROVE  SessionHasPhase'
      BY <1>2, <2>1 DEF SessionHasPhase, Setup!Update, Setup!Reset,
         Setup!BeginSession, Setup!NothingToSend, Setup!GiveUp, Setup!SendRequest
    <2>2. ASSUME NEW ack, Setup!OnCommandAck(ack)
          PROVE  SessionHasPhase'
      BY <1>2, <2>2 DEF SessionHasPhase, Setup!OnCommandAck, Setup!AnswersRequest,
         Setup!Extend, Setup!Refuse, Setup!Advance, Setup!configuratorVars
    <2> QED
      BY <1>2, <2>1, <2>2, NextReachesSetup DEF SessionHasPhase
  <1>3. ASSUME SessionHasPhase, [Next]_vars,
               phase \in {"active", "failed"}, vehicleSystemId' = vehicleSystemId
        PROVE  UNCHANGED <<phase, completedRequests, failureResult>>
    <2>1. ASSUME NEW v, Setup!Update(v)
          PROVE  UNCHANGED <<phase, completedRequests, failureResult>>
      BY <1>3, <2>1 DEF SessionHasPhase, Setup!Update, Setup!Reset,
         Setup!BeginSession, Setup!NothingToSend, Setup!GiveUp, Setup!SendRequest
    <2>2. ASSUME NEW ack, Setup!OnCommandAck(ack)
          PROVE  UNCHANGED <<phase, completedRequests, failureResult>>
      BY <1>3, <2>2 DEF Setup!OnCommandAck, Setup!AnswersRequest,
         Setup!configuratorVars
    <2> QED
      BY <1>3, <2>1, <2>2, NextReachesSetup
  <1> QED
    BY <1>1, <1>2, <1>3, PTL DEF Spec, SetupOutcomeIsFinal
===============================================================================
