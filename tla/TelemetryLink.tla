---------------------------- MODULE TelemetryLink ----------------------------
(***************************************************************************)
(* Telemetry setup over a MAVLink connection: the configurator, the        *)
(* connection it is told about, the channel and the vehicles' autopilots.  *)
(* The program polls (CompanionApplication::poll) at least once per tick.  *)
(*                                                                         *)
(* The channel loses and delays messages.  MaxRoundTrip bounds the ticks   *)
(* between a request (or an IN_PROGRESS report) and the answer to it;      *)
(* OutagesAreTotal says that when heartbeats stay away for the heartbeat   *)
(* timeout, whatever else was on its way is lost too.                      *)
(***************************************************************************)
EXTENDS TelemetryStreamConfigurator

CONSTANTS
    HeartbeatTimeout,  \* kHeartbeatTimeout, in ticks
    BootTime,          \* ticks an autopilot is silent when it restarts
    MaxRoundTrip,      \* bound on the age of a message, in ticks
    OutagesAreTotal    \* an outage that loses heartbeats loses messages too

ASSUME LinkAssumption ==
    /\ HeartbeatTimeout \in Nat \ {0}
    /\ BootTime \in Nat /\ BootTime >= HeartbeatTimeout + 2
    /\ MaxRoundTrip \in Nat \ {0}
    /\ OutagesAreTotal \in BOOLEAN

VARIABLES
    systemId, silence,  \* see VehicleConnection
    polled,             \* poll() has run in this tick
    inFlight,           \* requests and acknowledgements on their way
    booting,            \* ticks until the autopilot runs again; 0: it runs
    verdict             \* what each autopilot last decided on each stream

Connection == INSTANCE VehicleConnection

channelVars == <<inFlight, booting, verdict>>
vars == <<configuratorVars, systemId, silence, polled, channelVars>>

Message ==
    [kind : {"request", "ack"}, vehicle : Vehicles, stream : Streams,
     result : Results \cup {NoResult}, age : 0 .. MaxRoundTrip]

TypeOK ==
    /\ ConfiguratorTypeOK
    /\ Connection!ConnectionTypeOK
    /\ polled \in BOOLEAN
    /\ inFlight \subseteq Message
    /\ booting \in [Vehicles -> 0 .. BootTime]
    /\ verdict \in [Vehicles -> [Streams -> {"default", "granted", "refused"}]]

Default == [s \in Streams |-> "default"]

Init ==
    /\ ConfiguratorInit
    /\ Connection!ConnectionInit
    /\ polled = FALSE
    /\ inFlight = {}
    /\ booting = [v \in Vehicles |-> 0]
    /\ verdict = [v \in Vehicles |-> Default]

(***************************************************************************)
(* The program.                                                            *)
(***************************************************************************)
RequestMessage(v, s) ==
    [kind |-> "request", vehicle |-> v, stream |-> s, result |-> NoResult,
     age |-> 0]

\* One poll(): update() and, when it returns a frame, write_frame(), which
\* may fail.
Poll ==
    /\ Update(Connection!ReportedVehicle)
    /\ polled' = TRUE
    /\ \/ inFlight' = inFlight
       \/ /\ request' # NoRequest
          /\ inFlight' = inFlight \cup {RequestMessage(vehicleSystemId', request'.stream)}
    /\ UNCHANGED <<systemId, silence, booting, verdict>>

\* A vehicle's COMMAND_ACK, as the decoder hands it over.
Ack(v, result) ==
    [command |-> "SET_MESSAGE_INTERVAL", source |-> v, targetSystem |-> v,
     targetComponent |-> "companion", result |-> result]

Receive(ack) ==
    IF Connection!Admitted(ack.source)
    THEN OnCommandAck(ack)
    ELSE UNCHANGED configuratorVars

\* An IN_PROGRESS report is delivered while the autopilot goes on working.
Deliver(m) ==
    /\ m.kind = "ack"
    /\ Receive(Ack(m.vehicle, m.result))
    /\ inFlight' = IF m.result = "in_progress"
                   THEN (inFlight \ {m})
                        \cup {[m EXCEPT !.kind = "request", !.result = NoResult,
                                        !.age = 0]}
                   ELSE inFlight \ {m}
    /\ UNCHANGED <<systemId, silence, polled, booting, verdict>>

\* Acknowledgements of other commands, and of other programs' commands.
StrayAcks(v) ==
    {[Ack(v, r) EXCEPT !.command = "REQUEST_MESSAGE"] : r \in Results}
    \cup {[Ack(v, r) EXCEPT !.targetComponent = "other"] : r \in Results}

ReceiveStrayAck(v) ==
    /\ booting[v] = 0
    /\ \E ack \in StrayAcks(v) : Receive(ack)
    /\ UNCHANGED <<systemId, silence, polled, channelVars>>

ReceiveHeartbeat(v) ==
    /\ booting[v] = 0
    /\ Connection!OnHeartbeat(v)
    /\ UNCHANGED <<configuratorVars, polled, channelVars>>

(***************************************************************************)
(* The autopilots.                                                         *)
(***************************************************************************)
\* An autopilot acts on a request, or reports that it is still working on it:
\* as often as it likes.
Answer(m, result) ==
    /\ m.kind = "request" /\ booting[m.vehicle] = 0
    /\ inFlight' = (inFlight \ {m}) \cup {[m EXCEPT !.kind = "ack", !.result = result]}
    /\ verdict' = CASE result = "accepted" ->
                         [verdict EXCEPT ![m.vehicle][m.stream] = "granted"]
                    [] result \in Refusals ->
                         [verdict EXCEPT ![m.vehicle][m.stream] = "refused"]
                    [] OTHER -> verdict
    /\ UNCHANGED <<configuratorVars, systemId, silence, polled, booting>>

\* The autopilot restarts: it forgets the rates it was asked for.
PowerLoss(v) ==
    /\ booting[v] = 0
    /\ booting' = [booting EXCEPT ![v] = BootTime]
    /\ verdict' = [verdict EXCEPT ![v] = Default]
    /\ UNCHANGED <<configuratorVars, systemId, silence, polled, inFlight>>

(***************************************************************************)
(* Time.  A message that is not delivered within MaxRoundTrip is lost.     *)
(***************************************************************************)
OutageBegins == systemId # NoVehicle /\ silence = HeartbeatTimeout

Older(m) == [m EXCEPT !.age = @ + 1]

Tick ==
    /\ polled
    /\ polled' = FALSE
    /\ ConfiguratorTick
    /\ Connection!ConnectionTick
    /\ inFlight' = IF OutagesAreTotal /\ OutageBegins
                   THEN {}
                   ELSE {Older(m) : m \in {n \in inFlight : n.age < MaxRoundTrip}}
    /\ booting' = [v \in Vehicles |-> IF booting[v] > 0 THEN booting[v] - 1 ELSE 0]
    /\ UNCHANGED verdict

Next ==
    \/ Poll
    \/ \E m \in inFlight : Deliver(m)
    \/ \E v \in Vehicles : ReceiveStrayAck(v)
    \/ \E v \in Vehicles : ReceiveHeartbeat(v)
    \/ \E m \in inFlight, result \in Results : Answer(m, result)
    \/ \E v \in Vehicles : PowerLoss(v)
    \/ Tick

\* The main loop polls again and again, and time passes.
Fairness == WF_vars(Poll) /\ WF_vars(Tick)

Spec     == Init /\ [][Next]_vars
FairSpec == Spec /\ Fairness

(***************************************************************************)
(* Properties.                                                             *)
(***************************************************************************)
InSession(v) == v # NoVehicle /\ vehicleSystemId = v

\* A stream counts as configured only when the autopilot it was asked of has
\* granted it and has not restarted since: COMMAND_ACK does not name the
\* stream (TelemetryStreamConfigurator.cpp:103-140), so this depends on which
\* acknowledgements can still be on their way when one arrives.
CountedMeansGranted ==
    \A v \in Vehicles :
        InSession(v) /\ booting[v] = 0 =>
            \A s \in 0 .. completedRequests - 1 : verdict[v][s] = "granted"

\* A setup that failed with a MAV_RESULT failed on the stream the autopilot
\* refused, not on another one's late answer.
RefusalNamesTheStream ==
    \A v \in Vehicles :
        InSession(v) /\ booting[v] = 0 /\ failureResult # NoResult =>
            phase = "failed" /\ verdict[v][currentRequest] = "refused"

\* At most one exchange with the vehicle is ever open, and it belongs to the
\* session and the stream the configurator is working on: nothing of an earlier
\* attempt or an earlier session can still arrive.
OneOpenExchange ==
    \A m \in inFlight :
        /\ inFlight = {m}
        /\ InSession(m.vehicle)
        /\ phase = "configuring" /\ awaitingAck
        /\ m.stream = currentRequest

\* Once a session's setup is active or failed, no acknowledgement and no
\* timeout changes the outcome: only losing the vehicle does.
OutcomeIsFinal ==
    [][(phase \in {"active", "failed"} /\ vehicleSystemId' = vehicleSystemId)
          => (UNCHANGED <<phase, completedRequests, failureResult>>)]_vars

\* Setup of a session becomes active, fails or loses its vehicle, whatever
\* messages are lost, unless reports of progress from that vehicle go on
\* arriving for ever: each starts the timeout anew, without a limit
\* (TelemetryStreamConfigurator.cpp:119-122), so they can keep setup open.
\* Nothing else can: not retries, not the move to the next stream, and not the
\* acknowledgements of other commands and of other vehicles.
ProgressArrives(v) ==
    \E m \in inFlight : m.vehicle = v /\ m.result = "in_progress" /\ Deliver(m)

SetupSettles ==
    \A v \in Vehicles :
        (<>[][~ProgressArrives(v)]_vars) =>
            ((phase = "configuring" /\ InSession(v))
                ~> ~(phase = "configuring" /\ InSession(v)))

(***************************************************************************)
(* The inductive invariant behind CountedMeansGranted, for a channel that  *)
(* answers within the timeout and whose outages are total.                 *)
(***************************************************************************)
PromptChannel == MaxRoundTrip < AckTimeout /\ OutagesAreTotal

\* update() keeps its counters in step.
CountersAgree ==
    /\ completedRequests = currentRequest
    /\ phase \in {"configuring", "failed"} => currentRequest < NumStreams
    /\ phase = "configuring" /\ ~awaitingAck => attempt = 0
    /\ phase = "waiting_for_vehicle" <=> vehicleSystemId = NoVehicle
    /\ phase = "waiting_for_vehicle" => currentRequest = 0
    /\ failureResult # NoResult => phase = "failed"

\* After a poll the session is with the vehicle that is connected.
SessionIsCurrent ==
    polled /\ vehicleSystemId # NoVehicle => Connection!Admitted(vehicleSystemId)

\* An autopilot that restarts has been silent since.
RestartIsSilent ==
    \A v \in Vehicles :
        booting[v] > 0 /\ Connection!Admitted(v) => booting[v] + silence >= BootTime

\* The timer of the open exchange was started when its message was sent.
TimerCoversExchange ==
    \A m \in inFlight :
        /\ Connection!Admitted(m.vehicle)
        /\ ackTimer + m.age >= AckTimeout

\* An acknowledgement on its way still says what its autopilot decided.
AckTellsVerdict ==
    \A m \in inFlight :
        m.kind = "ack" /\ booting[m.vehicle] = 0 =>
            /\ m.result = "accepted" => verdict[m.vehicle][m.stream] = "granted"
            /\ m.result \in Refusals => verdict[m.vehicle][m.stream] = "refused"

IInv ==
    /\ TypeOK
    /\ CountersAgree
    /\ SessionIsCurrent
    /\ RestartIsSilent
    /\ TimerCoversExchange
    /\ AckTellsVerdict
    /\ OneOpenExchange
    /\ CountedMeansGranted
    /\ RefusalNamesTheStream
==============================================================================
