------------------------ MODULE CompanionApplication ------------------------
(***************************************************************************)
(* src/mission/CompanionApplication.cpp: one poll() reads what arrived,    *)
(* takes one snapshot of the vehicle and hands it to every part of the     *)
(* program in turn: the failsafe check, the companion's own heartbeat, the *)
(* telemetry setup, the parameter requests and the metadata requests.      *)
(* Each part keeps its own idea of the vehicle.                            *)
(*                                                                         *)
(* The program is single-threaded, so a message is handled as soon as it   *)
(* is read (the Receive actions) and the rest of poll() is one step.       *)
(***************************************************************************)
EXTENDS CompanionLinkFailsafe, Sequences

CONSTANTS
    NumStreams, MaxAttempts, AckTimeout, Refusals, NoResult,
                         \* see TelemetryStreamConfigurator
    HeartbeatTimeout,    \* kHeartbeatTimeout, in ticks
    HeartbeatInterval,   \* kHeartbeatInterval
    ParameterSpacing,    \* kFailsafeParameterSpacing
    RetryInterval,       \* kRejectedFailsafeRetryInterval
    RefreshInterval,     \* kAcceptedFailsafeRefreshInterval
    Metadata,            \* "version", "armingVoltage": what is asked for
    MetadataInterval,    \* kAutopilotVersionRetryInterval and the battery's
    MaxRoundTrip,        \* bound on the age of a parameter message, in ticks
    MaxInFlight,         \* bound on the parameter messages on their way
    SettingsChange,      \* somebody changes the autopilots' parameters
    OthersAsk,           \* other stations read the parameters as well
    OutagesAreSeen       \* poll() runs between an expiry and a new heartbeat

ASSUME ApplicationAssumption ==
    /\ {NumStreams, MaxAttempts, AckTimeout} \subseteq Nat \ {0}
    /\ {HeartbeatTimeout, HeartbeatInterval} \subseteq Nat \ {0}
    /\ {ParameterSpacing, RetryInterval, RefreshInterval, MetadataInterval}
         \subseteq Nat
    /\ ParameterSpacing <= RetryInterval /\ RetryInterval <= RefreshInterval
    /\ Metadata \subseteq {"version", "armingVoltage"}
    /\ {MaxRoundTrip, MaxInFlight} \subseteq Nat
    /\ {SettingsChange, OthersAsk, OutagesAreSeen} \subseteq BOOLEAN

VARIABLES
    phase, vehicleSystemId, currentRequest, completedRequests, attempt,
    awaitingAck, ackTimer, failureResult, request,
                              \* see TelemetryStreamConfigurator
    systemId, silence,        \* see VehicleConnection
    vehicleWasConnected,      \* vehicle_was_connected_
    companionHeartbeatActive, \* companion_heartbeat_active_
    nextHeartbeat,            \* next_heartbeat_, as ticks left
    parameterIndex,           \* failsafe_parameter_index_
    nextParameter,            \* next_failsafe_parameter_request_, as ticks left
    previousFailsafePhase,    \* previous_failsafe_phase_: what the sinks know
    knownMetadata,            \* metadata the vehicle state has and reports
    nextMetadata,             \* next_..._request_ of each, as ticks left
    polled,                   \* the rest of poll() has run on what was read
    settings,                 \* the autopilots' parameters
    inFlight,                 \* parameter requests and values on their way
    before,                   \* what is left from before the last reconnection
    quiet                     \* ticks since a heartbeat was due or not needed

Setup      == INSTANCE TelemetryStreamConfigurator
Connection == INSTANCE VehicleConnection

setupVars ==
    <<phase, vehicleSystemId, currentRequest, completedRequests, attempt,
      awaitingAck, ackTimer, failureResult, request>>
scheduleVars == <<nextHeartbeat, parameterIndex, nextParameter, nextMetadata>>
reportVars ==
    <<vehicleWasConnected, companionHeartbeatActive, previousFailsafePhase>>
channelVars == <<settings, inFlight>>
vars == <<setupVars, failsafeVars, systemId, silence, scheduleVars, reportVars,
          knownMetadata, polled, channelVars, before, quiet>>

\* CompanionLinkFailsafe::parameter_names, in order, less what the instance
\* leaves out.
ParameterNames ==
    LET IfRead(name) == IF name \in Names THEN <<name>> ELSE <<>>
    IN  IfRead("FS_GCS_ENABLE") \o IfRead("FS_GCS_TIMEOUT")
        \o IfRead("FS_OPTIONS") \o IfRead("SYSID_MYGCS")

Message ==
    [kind : {"request", "value"}, vehicle : Vehicles, name : Names,
     value : Values \cup {NoValue}, age : 0 .. MaxRoundTrip]

\* What can outlive the connection it was learnt in.
Remembered == Names \cup {"setup", "heartbeat", "report"}

TypeOK ==
    /\ Setup!ConfiguratorTypeOK
    /\ Connection!ConnectionTypeOK
    /\ FailsafeTypeOK
    /\ {vehicleWasConnected, companionHeartbeatActive, polled} \subseteq BOOLEAN
    /\ nextHeartbeat \in 0 .. HeartbeatInterval
    /\ parameterIndex \in 0 .. Len(ParameterNames) - 1
    /\ nextParameter \in 0 .. RefreshInterval
    /\ previousFailsafePhase \in FailsafePhases
    /\ knownMetadata \subseteq Metadata
    /\ nextMetadata \in [Metadata -> 0 .. MetadataInterval]
    /\ settings \in [Vehicles -> [Names -> Values]]
    /\ inFlight \subseteq Message
    /\ before \subseteq Remembered
    /\ quiet \in 0 .. HeartbeatInterval + 1

Init ==
    /\ Setup!ConfiguratorInit
    /\ Connection!ConnectionInit
    /\ FailsafeInit
    /\ vehicleWasConnected = FALSE /\ companionHeartbeatActive = FALSE
    /\ nextHeartbeat = 0
    /\ parameterIndex = 0 /\ nextParameter = 0
    /\ previousFailsafePhase = "waiting_for_vehicle"
    /\ knownMetadata = {} /\ nextMetadata = [item \in Metadata |-> 0]
    /\ polled = FALSE
    /\ settings \in [Vehicles -> [Names -> Values]]
    /\ inFlight = {}
    /\ before = {}
    /\ quiet = 0

(***************************************************************************)
(* What poll_inputs() reads.                                               *)
(***************************************************************************)
Held ==
    {n \in Names : raw[n] # NoValue}
    \cup {part \in {"setup", "heartbeat", "report"} :
            CASE part = "setup"     -> phase # "waiting_for_vehicle"
              [] part = "heartbeat" -> companionHeartbeatActive
              [] part = "report"    -> vehicleWasConnected}

\* on_heartbeat() forgets the telemetry of the earlier connection; the parts
\* of the application hear of it in the rest of poll(), if at all.
ReceiveHeartbeat(v) ==
    LET afresh == Connection!StartsAfresh(v) /\ Connection!HeartbeatAdmitted(v)
    IN  /\ OutagesAreSeen /\ afresh => ~vehicleWasConnected
        /\ Connection!OnHeartbeat(v)
        /\ before' = IF afresh THEN before \cup Held ELSE before
        /\ knownMetadata' = IF afresh THEN {} ELSE knownMetadata
        /\ polled' = FALSE
        /\ UNCHANGED <<setupVars, failsafeVars, scheduleVars, reportVars,
                       channelVars, quiet>>

\* COMMAND_ACK; which ones may come is the business of TelemetryLink.
ReceiveAck(v, result) ==
    /\ Connection!Admitted(v)
    /\ Setup!OnCommandAck(
           [command |-> "SET_MESSAGE_INTERVAL", source |-> v, targetSystem |-> v,
            targetComponent |-> "companion", result |-> result])
    /\ polled' = FALSE
    /\ UNCHANGED <<failsafeVars, systemId, silence, scheduleVars, reportVars,
                   knownMetadata, channelVars, before, quiet>>

\* PARAM_VALUE: on_parameter() and observe_failsafe_phase().
OnValue(v, name, value) ==
    /\ IF Connection!Admitted(v)
       THEN /\ OnParameter(v, "autopilot", name, value)
            /\ previousFailsafePhase' = failsafePhase'
            /\ before' = IF FromObserved(v, "autopilot")
                         THEN before \ {name} ELSE before
       ELSE UNCHANGED <<failsafeVars, previousFailsafePhase, before>>
    /\ polled' = FALSE
    /\ UNCHANGED <<setupVars, systemId, silence, scheduleVars, vehicleWasConnected,
                   companionHeartbeatActive, knownMetadata, settings, quiet>>

ReceiveValue(m) ==
    /\ m.kind = "value"
    /\ OnValue(m.vehicle, m.name, m.value)
    /\ inFlight' = inFlight \ {m}

\* A value that another station has asked for is sent to everybody.
ReceiveReport(v, name) ==
    /\ OthersAsk
    /\ OnValue(v, name, settings[v][name])
    /\ UNCHANGED inFlight

\* AUTOPILOT_VERSION, and BATT_ARM_VOLT.
ReceiveMetadata(v, item) ==
    /\ Connection!Admitted(v)
    /\ knownMetadata' = knownMetadata \cup {item}
    /\ polled' = FALSE
    /\ UNCHANGED <<setupVars, failsafeVars, systemId, silence, scheduleVars,
                   reportVars, channelVars, before, quiet>>

(***************************************************************************)
(* The rest of poll().  v is the vehicle of the snapshot, or NoVehicle     *)
(* when it is not connected.                                               *)
(***************************************************************************)
NewlyConnected(v) == v # NoVehicle /\ ~vehicleWasConnected

\* update_vehicle_connection(), but for the schedule and the active flag.
UpdateVehicleConnection(v) ==
    /\ ObserveVehicle(v)
    /\ previousFailsafePhase' = failsafePhase'
    /\ vehicleWasConnected' = (v # NoVehicle)

HeartbeatDue == nextHeartbeat = 0

\* Mutant: the claim of an active heartbeat outlives the connection.
SendHeartbeatKeepsClaim(v, written) ==
    /\ nextHeartbeat' = IF HeartbeatDue THEN HeartbeatInterval ELSE nextHeartbeat
    /\ companionHeartbeatActive' =
         (companionHeartbeatActive \/ (v # NoVehicle /\ HeartbeatDue /\ written))

\* Mutant: a telemetry request starts the interval again.
SendHeartbeatAfterRequest(v, written) ==
    /\ nextHeartbeat' = IF HeartbeatDue \/ request' # Setup!NoRequest
                        THEN HeartbeatInterval ELSE nextHeartbeat
    /\ companionHeartbeatActive' =
         (v # NoVehicle /\ (companionHeartbeatActive \/ (HeartbeatDue /\ written)))

\* send_companion_heartbeat(): a frame that cannot be written is not written
\* again before the next one is due.
SendCompanionHeartbeat(v, written) ==
    /\ nextHeartbeat' = IF HeartbeatDue THEN HeartbeatInterval ELSE nextHeartbeat
    /\ companionHeartbeatActive' =
         (v # NoVehicle /\ (companionHeartbeatActive \/ (HeartbeatDue /\ written)))

RequestMessage(v, name) ==
    [kind |-> "request", vehicle |-> v, name |-> name, value |-> NoValue, age |-> 0]

\* Mutant: what was accepted is not read again.
ParameterDueOnce(v) ==
    /\ phase' = "active" /\ v # NoVehicle
    /\ NewlyConnected(v) \/ nextParameter = 0
    /\ failsafePhase' # "accepted"

ParameterDue(v) ==
    /\ phase' = "active" /\ v # NoVehicle
    /\ NewlyConnected(v) \/ nextParameter = 0

\* Mutant: one name too many.
IsLastPlusOne(index) == index = Len(ParameterNames)

IsLast(index) == index + 1 = Len(ParameterNames)

\* request_failsafe_parameter(), after the schedule is reset for a vehicle
\* that is newly connected.  A request that is not written is as good as lost.
RequestFailsafeParameter(v, gone) ==
    LET index == IF NewlyConnected(v) THEN 0 ELSE parameterIndex
        last  == IsLast(index)
    IN  IF ParameterDue(v)
        THEN /\ parameterIndex' = IF last THEN 0 ELSE index + 1
             /\ nextParameter' = CASE ~last -> ParameterSpacing
                                   [] last /\ failsafePhase' = "accepted" ->
                                        RefreshInterval
                                   [] last /\ failsafePhase' # "accepted" ->
                                        RetryInterval
             /\ IF gone \/ Cardinality(inFlight) >= MaxInFlight
                THEN inFlight' = inFlight
                ELSE inFlight' = inFlight \cup
                                   {RequestMessage(v, ParameterNames[index + 1])}
        ELSE /\ parameterIndex' = index
             /\ nextParameter' = IF NewlyConnected(v) THEN 0 ELSE nextParameter
             /\ UNCHANGED inFlight

\* request_vehicle_metadata().  The arming voltage is only reported with a
\* fresh battery voltage, and asked for again without one.
RequestVehicleMetadata(v) ==
    \E reported \in SUBSET knownMetadata :
        /\ "version" \in knownMetadata => "version" \in reported
        /\ nextMetadata' =
             [item \in Metadata |->
                IF /\ phase' = "active" /\ v # NoVehicle
                   /\ item \notin reported /\ nextMetadata[item] = 0
                THEN MetadataInterval
                ELSE nextMetadata[item]]

\* What the parts have dropped or learnt anew in this poll.
Renewed(v, written) ==
    CASE v = NoVehicle -> Remembered
      [] v # NoVehicle ->
           {part \in Remembered :
              \/ part \in Names /\ heartbeatSystemId' # heartbeatSystemId
              \/ part = "setup" /\ vehicleSystemId' # vehicleSystemId
              \/ part = "heartbeat" /\ HeartbeatDue /\ written
              \/ part = "report" /\ NewlyConnected(v)}

Poll ==
    LET v == Connection!ReportedVehicle
    IN  /\ UpdateVehicleConnection(v)
        /\ Setup!Update(v)
        /\ \E written \in BOOLEAN :
             /\ SendCompanionHeartbeat(v, written)
             /\ before' = before \ Renewed(v, written)
        /\ \E gone \in BOOLEAN : RequestFailsafeParameter(v, gone)
        /\ RequestVehicleMetadata(v)
        /\ quiet' = IF v = NoVehicle \/ HeartbeatDue \/ NewlyConnected(v)
                    THEN 0 ELSE quiet
        /\ polled' = TRUE
        /\ UNCHANGED <<systemId, silence, knownMetadata, settings>>

(***************************************************************************)
(* The autopilots: each answers with the value it has when it is asked,    *)
(* and somebody else may change its parameters at any time.                *)
(***************************************************************************)
Answer(m) ==
    /\ m.kind = "request"
    /\ inFlight' = (inFlight \ {m}) \cup
         {[m EXCEPT !.kind = "value", !.value = settings[m.vehicle][m.name],
                    !.age = 0]}
    /\ UNCHANGED <<setupVars, failsafeVars, systemId, silence, scheduleVars,
                   reportVars, knownMetadata, polled, settings, before, quiet>>

ChangeSetting(v, name, value) ==
    /\ SettingsChange
    /\ settings[v][name] # value
    /\ settings' = [settings EXCEPT ![v][name] = value]
    /\ UNCHANGED <<setupVars, failsafeVars, systemId, silence, scheduleVars,
                   reportVars, knownMetadata, polled, inFlight, before, quiet>>

(***************************************************************************)
(* Time passes when poll() has dealt with everything read.  A message that *)
(* is not delivered within MaxRoundTrip is lost.                           *)
(***************************************************************************)
Sooner(n) == IF n > 0 THEN n - 1 ELSE 0

Tick ==
    /\ polled
    /\ polled' = FALSE
    /\ Setup!ConfiguratorTick
    /\ Connection!ConnectionTick
    /\ nextHeartbeat' = Sooner(nextHeartbeat)
    /\ nextParameter' = Sooner(nextParameter)
    /\ nextMetadata' = [item \in Metadata |-> Sooner(nextMetadata[item])]
    /\ inFlight' = {[m EXCEPT !.age = @ + 1] :
                      m \in {n \in inFlight : n.age < MaxRoundTrip}}
    /\ quiet' = IF vehicleWasConnected /\ quiet <= HeartbeatInterval
                THEN quiet + 1 ELSE quiet
    /\ UNCHANGED <<failsafeVars, parameterIndex, reportVars, knownMetadata,
                   settings, before>>

Next ==
    \/ \E v \in Vehicles : ReceiveHeartbeat(v)
    \/ \E v \in Vehicles, result \in Setup!Results : ReceiveAck(v, result)
    \/ \E m \in inFlight : ReceiveValue(m)
    \/ \E v \in Vehicles, name \in Names : ReceiveReport(v, name)
    \/ \E v \in Vehicles, item \in Metadata : ReceiveMetadata(v, item)
    \/ Poll
    \/ \E m \in inFlight : Answer(m)
    \/ \E v \in Vehicles, name \in Names, value \in Values :
         ChangeSetting(v, name, value)
    \/ Tick

Spec == Init /\ [][Next]_vars

(***************************************************************************)
(* Fairness.  The main loop polls again and again and time passes.  The    *)
(* link is not dead: of the requests for a name that are made infinitely   *)
(* often some are written, of those written some are answered, and of the  *)
(* answers some arrive.                                                    *)
(***************************************************************************)
RequestGoesOut(v, name) ==
    Poll /\ RequestMessage(v, name) \in inFlight' \ inFlight

AnswerArrives(v, name) ==
    \E m \in inFlight : m.vehicle = v /\ m.name = name /\ ReceiveValue(m)

RequestAnswered(v, name) ==
    \E m \in inFlight : m.vehicle = v /\ m.name = name /\ Answer(m)

Fairness ==
    /\ WF_vars(Poll)
    /\ SF_vars(Tick)
    /\ \A v \in Vehicles, name \in Names :
         /\ SF_vars(RequestGoesOut(v, name))
         /\ SF_vars(RequestAnswered(v, name))
         /\ SF_vars(AnswerArrives(v, name))

FairSpec == Spec /\ Fairness

(***************************************************************************)
(* Properties.                                                             *)
(***************************************************************************)
\* When poll() returns with a vehicle connected, no part of the program works
\* with what it learnt before the vehicle state last started afresh: not the
\* telemetry setup, not the failsafe evidence, not the claim that a heartbeat
\* was sent, not the report that the controller came online.  Each part resets
\* on its own, from what its own copy of the connection tells it.
NothingFromBefore == polled /\ Connection!Connected => before = {}

\* The same of the failsafe evidence alone: a lost link invalidates it.
LinkLossInvalidatesEvidence ==
    polled /\ Connection!Connected => before \cap Names = {}

\* The evidence is that of the vehicle it is filed under, also while the
\* program has yet to notice that another vehicle has taken over the link.
EvidenceIsTheVehiclesOwn ==
    ~SettingsChange =>
        \A n \in Names :
            raw[n] # NoValue => raw[n] = settings[heartbeatSystemId][n]

\* After every poll the parts agree on the vehicle, whatever they missed.
PartsAgree ==
    polled => /\ heartbeatSystemId = Connection!ReportedVehicle
              /\ vehicleSystemId = Connection!ReportedVehicle
              /\ vehicleWasConnected = Connection!Connected
              /\ previousFailsafePhase = failsafePhase

\* A connected vehicle is offered a heartbeat every HeartbeatInterval, however
\* the link was lost and found: ArduPilot lands when heartbeats stay away.
HeartbeatOnTime == quiet <= HeartbeatInterval

\* While a vehicle stays connected and set up and its parameters stay as they
\* are, the evidence ends up being those parameters and stays so, even if the
\* evidence was complete and accepted before they changed.
EvidenceConverges ==
    \A v \in Vehicles :
        (/\ <>[](phase = "active" /\ Connection!ReportedVehicle = v)
         /\ <>[][UNCHANGED settings]_settings)
            => <>[](raw = settings[v])
==============================================================================
