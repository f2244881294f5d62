--------------------- MODULE TelemetryStreamConfigurator ---------------------
(***************************************************************************)
(* The telemetry setup state machine of                                    *)
(* src/hardware/mavlink/TelemetryStreamConfigurator.cpp: one request per   *)
(* telemetry stream, each sent again until the vehicle acknowledges it,    *)
(* at most MaxAttempts times.                                              *)
(*                                                                         *)
(* Time is a countdown: ackTimer holds the ticks left until                *)
(* acknowledgement_deadline_, so "now < deadline" reads ackTimer > 0.      *)
(***************************************************************************)
EXTENDS Naturals

CONSTANTS
    NumStreams,   \* number of entries of kStreamRequests
    MaxAttempts,  \* kMaximumAttempts
    AckTimeout,   \* kAcknowledgementTimeout, in ticks
    Vehicles,     \* MAVLink system ids an autopilot may have
    NoVehicle,    \* no vehicle: disconnected, or no id seen yet
    Refusals,     \* MAV_RESULTs that are neither ACCEPTED nor IN_PROGRESS
    NoResult      \* an empty failure_result_

ASSUME StreamsAssumption  == NumStreams \in Nat \ {0}
ASSUME AttemptsAssumption == MaxAttempts \in Nat \ {0}
ASSUME TimeoutAssumption  == AckTimeout \in Nat \ {0}
ASSUME VehicleAssumption  == NoVehicle \notin Vehicles
ASSUME ResultAssumption   ==
    /\ NoResult \notin Refusals
    /\ {"accepted", "in_progress"} \cap Refusals = {}

VARIABLES
    phase,              \* phase_
    vehicleSystemId,    \* vehicle_system_id_
    currentRequest,     \* current_request_
    completedRequests,  \* completed_requests_
    attempt,            \* attempt_
    awaitingAck,        \* awaiting_ack_
    ackTimer,           \* acknowledgement_deadline_, as ticks left
    failureResult,      \* failure_result_
    request             \* the frame the last call of update() returned

configuratorVars == <<phase, vehicleSystemId, currentRequest, completedRequests,
                      attempt, awaitingAck, ackTimer, failureResult, request>>

Streams == 0 .. NumStreams - 1
Results == {"accepted", "in_progress"} \cup Refusals
Phases  == {"waiting_for_vehicle", "configuring", "active", "failed"}

NoRequest == [stream |-> NumStreams, confirmation |-> 0]
Requests  == [stream : Streams, confirmation : 0 .. MaxAttempts - 1]

ConfiguratorTypeOK ==
    /\ phase \in Phases
    /\ vehicleSystemId \in Vehicles \cup {NoVehicle}
    /\ currentRequest \in 0 .. NumStreams
    /\ completedRequests \in 0 .. NumStreams
    /\ attempt \in 0 .. MaxAttempts
    /\ awaitingAck \in BOOLEAN
    /\ ackTimer \in 0 .. AckTimeout
    /\ failureResult \in Refusals \cup {NoResult}
    /\ request \in Requests \cup {NoRequest}

(***************************************************************************)
(* reset(), and what a new object holds.                                   *)
(***************************************************************************)
ConfiguratorInit ==
    /\ phase = "waiting_for_vehicle"
    /\ vehicleSystemId = NoVehicle
    /\ currentRequest = 0
    /\ completedRequests = 0
    /\ attempt = 0
    /\ awaitingAck = FALSE
    /\ ackTimer = 0
    /\ failureResult = NoResult
    /\ request = NoRequest

\* Mutant: forgets to clear completed_requests_.
ResetKeepsCount ==
    /\ phase' = "waiting_for_vehicle"
    /\ vehicleSystemId' = NoVehicle
    /\ currentRequest' = 0
    /\ attempt' = 0
    /\ awaitingAck' = FALSE
    /\ ackTimer' = 0
    /\ failureResult' = NoResult
    /\ request' = NoRequest
    /\ UNCHANGED completedRequests

Reset ==
    /\ phase' = "waiting_for_vehicle"
    /\ vehicleSystemId' = NoVehicle
    /\ currentRequest' = 0
    /\ completedRequests' = 0
    /\ attempt' = 0
    /\ awaitingAck' = FALSE
    /\ ackTimer' = 0
    /\ failureResult' = NoResult
    /\ request' = NoRequest

\* Mutant: does not count the transmissions.
EmitUncounted(s, confirmation) ==
    /\ request' = [stream |-> s, confirmation |-> confirmation]
    /\ attempt' = 1
    /\ awaitingAck' = TRUE
    /\ ackTimer' = AckTimeout

(***************************************************************************)
(* The end of update(): emit request number s and start its timeout.  The  *)
(* confirmation field counts the transmissions before this one.            *)
(***************************************************************************)
Emit(s, confirmation) ==
    /\ request' = [stream |-> s, confirmation |-> confirmation]
    /\ attempt' = confirmation + 1
    /\ awaitingAck' = TRUE
    /\ ackTimer' = AckTimeout

\* begin(v), after which the same call of update() sends the first request.
BeginSession(v) ==
    /\ phase' = "configuring"
    /\ vehicleSystemId' = v
    /\ currentRequest' = 0
    /\ completedRequests' = 0
    /\ failureResult' = NoResult
    /\ Emit(0, 0)

\* Mutant: the deadline passes one tick early.
WaitingShort == awaitingAck /\ ackTimer > 1

Waiting == awaitingAck /\ ackTimer > 0

\* Mutant: one transmission too many.
ExhaustedLate == awaitingAck /\ ackTimer = 0 /\ attempt > MaxAttempts

Exhausted == awaitingAck /\ ackTimer = 0 /\ attempt >= MaxAttempts

NothingToSend ==
    /\ phase # "configuring" \/ Waiting
    /\ request' = NoRequest
    /\ UNCHANGED <<phase, vehicleSystemId, currentRequest, completedRequests,
                   attempt, awaitingAck, ackTimer, failureResult>>

GiveUp ==
    /\ phase = "configuring" /\ Exhausted
    /\ phase' = "failed"
    /\ failureResult' = NoResult
    /\ request' = NoRequest
    /\ UNCHANGED <<vehicleSystemId, currentRequest, completedRequests, attempt,
                   awaitingAck, ackTimer>>

SendRequest ==
    /\ phase = "configuring" /\ ~Waiting /\ ~Exhausted
    /\ Emit(currentRequest, attempt)
    /\ UNCHANGED <<phase, vehicleSystemId, currentRequest, completedRequests,
                   failureResult>>

\* Mutant: a failed setup starts over while its vehicle is still connected.
UpdateRestarting(v) ==
    \/ v = NoVehicle /\ Reset
    \/ v # NoVehicle /\ (v # vehicleSystemId \/ phase = "failed") /\ BeginSession(v)
    \/ v # NoVehicle /\ v = vehicleSystemId /\ phase # "failed"
       /\ (NothingToSend \/ GiveUp \/ SendRequest)

(***************************************************************************)
(* update(connected, vehicle_system_id, now).  The two arguments are one:  *)
(* v is NoVehicle when the vehicle is not connected or has no id.          *)
(***************************************************************************)
Update(v) ==
    \/ v = NoVehicle /\ Reset
    \/ v # NoVehicle /\ v # vehicleSystemId /\ BeginSession(v)
    \/ v # NoVehicle /\ v = vehicleSystemId
       /\ (NothingToSend \/ GiveUp \/ SendRequest)

\* Mutant: any command's acknowledgement will do.
AnswersAnyCommand(ack) ==
    /\ phase = "configuring" /\ awaitingAck
    /\ ack.source = vehicleSystemId
    /\ ack.targetSystem \in {0, vehicleSystemId}
    /\ ack.targetComponent \in {"any", "companion"}

\* Mutant: the addressee is not looked at.
AnswersAnyone(ack) ==
    /\ phase = "configuring" /\ awaitingAck
    /\ ack.command = "SET_MESSAGE_INTERVAL"
    /\ ack.source = vehicleSystemId

(***************************************************************************)
(* on_command_ack().  An acknowledgement names the command, its sender,    *)
(* its addressee and a result; it does not name the stream.                *)
(***************************************************************************)
AnswersRequest(ack) ==
    /\ phase = "configuring" /\ awaitingAck
    /\ ack.command = "SET_MESSAGE_INTERVAL"
    /\ ack.source = vehicleSystemId
    /\ ack.targetSystem \in {0, vehicleSystemId}
    /\ ack.targetComponent \in {"any", "companion"}

Extend ==
    /\ ackTimer' = AckTimeout
    /\ UNCHANGED <<phase, vehicleSystemId, currentRequest, completedRequests,
                   attempt, awaitingAck, failureResult>>

Refuse(result) ==
    /\ phase' = "failed"
    /\ failureResult' = result
    /\ awaitingAck' = FALSE
    /\ UNCHANGED <<vehicleSystemId, currentRequest, completedRequests, attempt,
                   ackTimer>>

Advance ==
    /\ completedRequests' = completedRequests + 1
    /\ currentRequest' = currentRequest + 1
    /\ attempt' = 0
    /\ awaitingAck' = FALSE
    /\ failureResult' = NoResult
    /\ phase' = IF currentRequest + 1 = NumStreams THEN "active" ELSE phase
    /\ UNCHANGED <<vehicleSystemId, ackTimer>>

OnCommandAck(ack) ==
    /\ UNCHANGED request
    /\ \/ ~AnswersRequest(ack) /\ UNCHANGED configuratorVars
       \/ AnswersRequest(ack) /\ ack.result = "in_progress" /\ Extend
       \/ AnswersRequest(ack) /\ ack.result \in Refusals /\ Refuse(ack.result)
       \/ AnswersRequest(ack) /\ ack.result = "accepted" /\ Advance

\* The clock runs towards the deadline.
ConfiguratorTick ==
    /\ ackTimer' = IF ackTimer > 0 THEN ackTimer - 1 ELSE 0
    /\ UNCHANGED <<phase, vehicleSystemId, currentRequest, completedRequests,
                   attempt, awaitingAck, failureResult, request>>
==============================================================================
