---------------------------- MODULE LinkReporting ----------------------------
(***************************************************************************)
(* The event loop of the program around the vehicle link: what it writes   *)
(* to the transport, and what it tells its log.                            *)
(*                                                                         *)
(*   src/bootstrap/CompanionRunner.cpp, TerminationSignals.cpp: the loop   *)
(*   src/mission/CompanionApplication.cpp: poll(), write_frame(),          *)
(*       record_event(), observe_vehicle(), observe_failsafe_phase()       *)
(*   src/diagnostics/logging/JsonDiagnosticSink.cpp: the log               *)
(*                                                                         *)
(* step is where the one thread of the program is; between two steps bytes *)
(* arrive, the device goes or comes back, a signal is delivered.  The log  *)
(* is kept as what a reader of all its records believes (reader).          *)
(***************************************************************************)
EXTENDS Transports

CONSTANTS
    HeartbeatTimeout, Vehicles, NoVehicle,  \* see VehicleConnection
    HeartbeatInterval,  \* kHeartbeatInterval, in ticks
    Attributes,         \* what a heartbeat says: "mode", "armed"
    Values, Unset,      \* and the values; an empty optional
    Phases,             \* verdicts of the failsafe check, see CompanionLinkFailsafe
    MaxFaults           \* bound on the errors of the serial device

ASSUME LinkAssumption ==
    /\ {HeartbeatTimeout, HeartbeatInterval} \subseteq Nat \ {0}
    /\ Unset \notin Values /\ "waiting_for_vehicle" \notin Phases
    /\ MaxFaults \in Nat

VARIABLES
    systemId, silence,         \* see VehicleConnection
    status,                    \* flight_mode_ and armed_
    metadata,                  \* autopilot_metadata_ has a value
    vehicleWasConnected,       \* vehicle_was_connected_
    previousStatus,            \* previous_flight_mode_ and previous_armed_
    metadataWasAvailable,      \* autopilot_metadata_was_available_
    failsafePhase,             \* the phase of companion_link_failsafe_
    previousFailsafePhase,     \* previous_failsafe_phase_
    companionHeartbeatActive,  \* companion_heartbeat_active_
    nextHeartbeat,             \* next_heartbeat_, as ticks left
    frame,                     \* the frame write_frame() is writing
    sampled,                   \* JsonDiagnosticSink::previous_, its connected
    installed,                 \* steps of TerminationSignals() taken
    keepRunning,               \* keep_running
    step,                      \* where the program is
    reader,                    \* what the log has said so far
    heartbeatSent,             \* a whole heartbeat went out since the vehicle is online
    stopAsked,                 \* the program was asked to stop and not killed by it
    faults                     \* errors of the serial device so far

Connection == INSTANCE VehicleConnection

connectionVars == <<systemId, silence>>
reportVars == <<vehicleWasConnected, previousStatus, metadataWasAvailable>>
heartbeatVars == <<companionHeartbeatActive, nextHeartbeat, heartbeatSent>>
phaseVars == <<failsafePhase, previousFailsafePhase>>
controlVars == <<installed, keepRunning, stopAsked>>
vars == <<transportVars, connectionVars, status, metadata, reportVars, phaseVars,
          heartbeatVars, frame, sampled, controlVars, step, reader, faults>>

Statuses == [Attributes -> Values]
NoStatus == [a \in Attributes |-> Unset]
AllPhases == Phases \cup {"waiting_for_vehicle"}
NoFrame == [kind |-> "none", left |-> 0]
Steps == {"install", "commands", "read", "ingest", "observe", "heartbeat",
          "write", "request", "publish", "stopped", "failed", "killed"}

Readers ==
    [link : {"unknown", "online", "lost"}, status : [Attributes -> Values \cup {Unset}],
     phase : AllPhases, sampled : {"none", "connected", "lost"}, puzzled : BOOLEAN]

TypeOK ==
    /\ TransportTypeOK
    /\ Connection!ConnectionTypeOK
    /\ status \in Statuses \cup {NoStatus}
    /\ previousStatus \in Statuses \cup {NoStatus}
    /\ {metadata, vehicleWasConnected, metadataWasAvailable, heartbeatSent,
        companionHeartbeatActive, keepRunning, stopAsked} \subseteq BOOLEAN
    /\ {failsafePhase, previousFailsafePhase} \subseteq AllPhases
    /\ nextHeartbeat \in 0 .. HeartbeatInterval
    /\ frame \in {NoFrame} \cup [kind : {"heartbeat", "request"}, left : 1 .. FrameSize]
    /\ sampled \in {"none", "connected", "lost"}
    /\ installed \in 0 .. 3 /\ faults \in 0 .. MaxFaults
    /\ step \in Steps
    /\ reader \in Readers

Init ==
    /\ TransportInit
    /\ Connection!ConnectionInit
    /\ status = NoStatus /\ previousStatus = NoStatus
    /\ metadata = FALSE /\ metadataWasAvailable = FALSE
    /\ vehicleWasConnected = FALSE
    /\ failsafePhase = "waiting_for_vehicle"
    /\ previousFailsafePhase = "waiting_for_vehicle"
    /\ companionHeartbeatActive = FALSE /\ nextHeartbeat = 0
    /\ frame = NoFrame
    /\ sampled = "none"
    /\ installed = 0 /\ keepRunning = TRUE /\ step = "install"
    /\ reader = [link |-> "unknown", status |-> NoStatus,
                 phase |-> "waiting_for_vehicle", sampled |-> "none",
                 puzzled |-> FALSE]
    /\ heartbeatSent = FALSE /\ stopAsked = FALSE /\ faults = 0

(***************************************************************************)
(* The records of the log, each as what it does to a reader who believes   *)
(* it and is puzzled by what does not fit: a change to what was known      *)
(* already, a recovery without a loss, a change of a vehicle that is not   *)
(* online, a gap between phases.  record_event() and the sink write at     *)
(* once and in order, so that records in a row are readings composed.      *)
(***************************************************************************)
ReadsLink(known, state) ==
    [known EXCEPT !.link = state, !.status = NoStatus,
                  !.puzzled = @ \/ state = known.link]

ReadsVersion(known) == [known EXCEPT !.puzzled = @ \/ known.link # "online"]

\* One record for each attribute of changed, and they may come in any order.
ReadsChanges(known, changed) ==
    [known EXCEPT
        !.status = [a \in Attributes |-> IF a \in changed THEN status[a]
                                         ELSE known.status[a]],
        !.puzzled = @ \/ \E a \in changed : \/ known.link # "online"
                                            \/ status[a] = known.status[a]]

ReadsPhase(known, from, to) ==
    [known EXCEPT !.phase = to, !.puzzled = @ \/ from # known.phase \/ to = from]

ReadsSnapshot(known, state) ==
    [known EXCEPT
        !.status = IF state = "connected" THEN status ELSE @,
        !.puzzled =
           \/ @
           \/ failsafePhase # known.phase
           \/ /\ state = "connected"
              /\ \/ known.link # "online"
                 \/ \E a \in Attributes : known.status[a] \notin {status[a], Unset}]

ReadsSampled(known, state) ==
    [known EXCEPT !.sampled = state, !.puzzled = @ \/ state = known.sampled]

(***************************************************************************)
(* TerminationSignals, and the two stops of CompanionRunner::run().        *)
(***************************************************************************)
\* Mutant: the flag is reset between the two handlers.
ResetsLater == <<"SIGINT", "reset", "SIGTERM">>

\* The constructor: install_interrupt_handler(), then the other handler.
InstallOrder == <<"reset", "SIGINT", "SIGTERM">>

Handled == {InstallOrder[i] : i \in 1 .. installed} \ {"reset"}

Install ==
    /\ step = "install"
    /\ IF installed < 3
       THEN /\ installed' = installed + 1
            /\ keepRunning' = IF InstallOrder[installed'] = "reset" THEN TRUE
                              ELSE keepRunning
            /\ UNCHANGED step
       ELSE step' = "commands" /\ UNCHANGED <<installed, keepRunning>>
    /\ UNCHANGED <<transportVars, connectionVars, status, metadata, reportVars,
                   phaseVars, heartbeatVars, frame, sampled, stopAsked, reader, faults>>

Running == step \notin {"stopped", "failed", "killed"}

\* Without a handler a signal ends the process there and then.
Signal(name) ==
    /\ Running
    /\ IF name \in Handled
       THEN keepRunning' = FALSE /\ stopAsked' = TRUE /\ UNCHANGED step
       ELSE step' = "killed" /\ UNCHANGED <<keepRunning, stopAsked>>
    /\ UNCHANGED <<transportVars, connectionVars, status, metadata, reportVars,
                   phaseVars, heartbeatVars, frame, sampled, installed, reader, faults>>

\* The head of the loop and handle_runtime_commands(): the operator may have
\* pressed q.
HandleRuntimeCommands(shutdown) ==
    /\ step = "commands"
    /\ keepRunning' = (keepRunning /\ ~shutdown)
    /\ stopAsked' = (stopAsked \/ shutdown)
    /\ step' = IF keepRunning' THEN "read" ELSE "stopped"
    /\ UNCHANGED <<transportVars, connectionVars, status, metadata, reportVars,
                   phaseVars, heartbeatVars, frame, sampled, installed, reader, faults>>

(***************************************************************************)
(* poll_inputs(): one read, and the messages that were in it.              *)
(***************************************************************************)
\* An open device may report an error, MaxFaults times.
CountFaults ==
    faults' = IF descriptor = "live" /\ descriptor' = "closed"
              THEN faults + 1 ELSE faults

PollInputs(arrives) ==
    /\ step = "read"
    /\ Read(arrives)
    /\ CountFaults /\ faults' <= MaxFaults
    /\ step' = IF arrives THEN "ingest" ELSE "observe"
    /\ UNCHANGED <<backend, device, connectionVars, status, metadata, reportVars,
                   phaseVars, heartbeatVars, frame, sampled, controlVars, reader>>

\* A heartbeat, with what it says; a vehicle that comes back starts afresh.
ReceiveHeartbeat(v, said) ==
    /\ step = "ingest"
    /\ Connection!OnHeartbeat(v)
    /\ IF Connection!HeartbeatAdmitted(v)
       THEN /\ status' = said
            /\ metadata' = (metadata /\ ~Connection!StartsAfresh(v))
       ELSE UNCHANGED <<status, metadata>>
    /\ UNCHANGED <<transportVars, reportVars, phaseVars, heartbeatVars, frame,
                   sampled, controlVars, step, reader, faults>>

\* AUTOPILOT_VERSION.
ReceiveVersion(v) ==
    /\ step = "ingest" /\ Connection!Admitted(v)
    /\ metadata' = TRUE
    /\ UNCHANGED <<transportVars, connectionVars, status, reportVars, phaseVars,
                   heartbeatVars, frame, sampled, controlVars, step, reader, faults>>

\* observe_failsafe_phase(): what the sinks are told.
ObserveFailsafePhase(known) ==
    IF failsafePhase' = previousFailsafePhase THEN known
    ELSE ReadsPhase(known, previousFailsafePhase, failsafePhase')

\* The handler of PARAM_VALUE: once a vehicle is observed, any verdict may
\* follow from what the parameter says.
ReceiveParameter(v) ==
    /\ step = "ingest" /\ Connection!Admitted(v)
    /\ IF failsafePhase = "waiting_for_vehicle"
       THEN UNCHANGED failsafePhase
       ELSE failsafePhase' \in Phases
    /\ reader' = ObserveFailsafePhase(reader)
    /\ previousFailsafePhase' = failsafePhase'
    /\ UNCHANGED <<transportVars, connectionVars, status, metadata, reportVars,
                   heartbeatVars, frame, sampled, controlVars, step, faults>>

EndOfInput ==
    /\ step = "ingest" /\ step' = "observe"
    /\ UNCHANGED <<transportVars, connectionVars, status, metadata, reportVars,
                   phaseVars, heartbeatVars, frame, sampled, controlVars, reader,
                   faults>>

(***************************************************************************)
(* update_vehicle_connection() and observe_vehicle().                      *)
(***************************************************************************)
\* Mutant: what changed is reported, but remembered only when it is armed.
RememberLater(online) == IF online /\ previousStatus = NoStatus THEN status
                         ELSE IF online THEN previousStatus ELSE NoStatus

\* previous_flight_mode_ and previous_armed_ after observe_vehicle().
Remember(online) == IF online THEN status ELSE NoStatus

\* Mutant: a loss is only reported after the next recovery.
ConnectionChangesLate(known, online) ==
    IF online /\ ~vehicleWasConnected
    THEN ReadsLink(ReadsLink(known, "lost"), "online") ELSE known

ConnectionChanges(known, online) ==
    IF online = vehicleWasConnected THEN known
    ELSE ReadsLink(known, IF online THEN "online" ELSE "lost")

VersionChanges(known) ==
    IF metadata /\ ~metadataWasAvailable THEN ReadsVersion(known) ELSE known

StatusChanges(known) ==
    ReadsChanges(known,
                 {a \in Attributes : previousStatus[a] \notin {Unset, status[a]}})

\* The failsafe check hears of a vehicle that comes or goes.
ObserveVehicleForFailsafe(online) ==
    IF online THEN failsafePhase' \in Phases  \* the vehicle may be another one
    ELSE failsafePhase' = "waiting_for_vehicle"

UpdateVehicleConnection ==
    LET online == Connection!Connected
        told   == ConnectionChanges(ObserveFailsafePhase(reader), online)
    IN  /\ step = "observe"
        /\ ObserveVehicleForFailsafe(online)
        /\ reader' = IF online /\ vehicleWasConnected
                     THEN StatusChanges(VersionChanges(told)) ELSE told
        /\ previousFailsafePhase' = failsafePhase'
        /\ vehicleWasConnected' = online
        /\ previousStatus' = Remember(online)
        /\ metadataWasAvailable' = (online /\ metadata)
        /\ companionHeartbeatActive' = (online /\ companionHeartbeatActive)
        /\ heartbeatSent' = (online /\ heartbeatSent)
        /\ step' = "heartbeat"
        /\ UNCHANGED <<transportVars, connectionVars, status, metadata,
                       nextHeartbeat, frame, sampled, controlVars, faults>>

(***************************************************************************)
(* write_frame(): until the frame is written or nothing is accepted.       *)
(***************************************************************************)
BeginFrame(kind) ==
    /\ frame' = [kind |-> kind, left |-> FrameSize]
    /\ step' = "write"
    /\ UNCHANGED <<transportVars, connectionVars, status, metadata, reportVars,
                   phaseVars, companionHeartbeatActive, heartbeatSent, sampled,
                   controlVars, reader, faults>>

\* send_companion_heartbeat().
SendCompanionHeartbeat ==
    /\ step = "heartbeat"
    /\ IF nextHeartbeat = 0
       THEN nextHeartbeat' = HeartbeatInterval
       ELSE UNCHANGED nextHeartbeat
    /\ IF nextHeartbeat = 0 /\ Connection!Connected
       THEN BeginFrame("heartbeat")
       ELSE /\ step' = "request"
            /\ UNCHANGED <<transportVars, connectionVars, status, metadata,
                           reportVars, phaseVars, companionHeartbeatActive,
                           heartbeatSent, frame, sampled, controlVars, reader, faults>>

\* The telemetry setup and the parameter and metadata requests, when one is due.
SendRequest ==
    /\ step = "request" /\ Connection!Connected
    /\ BeginFrame("request")
    /\ UNCHANGED nextHeartbeat

NothingToRequest ==
    /\ step = "request" /\ step' = "publish"
    /\ UNCHANGED <<transportVars, connectionVars, status, metadata, reportVars,
                   phaseVars, heartbeatVars, frame, sampled, controlVars, reader,
                   faults>>

\* Mutant: a call that accepts nothing is simply made again.
GoesOnAfterNothing(left, accepted) == left > accepted

\* Mutant: one more call when nothing is left.
GoesOnAtEnd(left, accepted) == left >= accepted /\ accepted > 0

\* The condition of the loop, and the early return.
GoesOn(left, accepted) == left > accepted /\ accepted > 0

\* Mutant: the heartbeat counts as sent however the write went.
Sent(accepted) == TRUE

WrittenWhole(accepted) == accepted > 0

WriteFrame(accepted) ==
    /\ step = "write"
    /\ Write(frame.left, accepted)
    /\ CountFaults /\ faults' <= MaxFaults
    /\ IF GoesOn(frame.left, accepted)
       THEN /\ frame' = [frame EXCEPT !.left = @ - accepted]
            /\ UNCHANGED <<companionHeartbeatActive, heartbeatSent, step>>
       ELSE /\ frame' = NoFrame
            /\ companionHeartbeatActive' =
                 (companionHeartbeatActive
                    \/ (frame.kind = "heartbeat" /\ WrittenWhole(accepted)))
            /\ heartbeatSent' =
                 (heartbeatSent
                    \/ (frame.kind = "heartbeat" /\ accepted = frame.left))
            /\ step' \in IF frame.kind = "heartbeat" THEN {"request"}
                         ELSE {"request", "publish"}
    /\ UNCHANGED <<backend, device, connectionVars, status, metadata, reportVars,
                   phaseVars, nextHeartbeat, sampled, controlVars, reader>>

\* A permanent error of the UDP socket: the exception ends the program.
TransportThrows ==
    /\ Throws /\ step \in {"read", "write"}
    /\ step' = "failed"
    /\ UNCHANGED <<transportVars, connectionVars, status, metadata, reportVars,
                   phaseVars, heartbeatVars, frame, sampled, controlVars, reader,
                   faults>>

(***************************************************************************)
(* publish_snapshot(): a snapshot of a later now than poll() had, and the  *)
(* events that JsonDiagnosticSink derives from it.                         *)
(***************************************************************************)
SnapshotState == IF Connection!Connected THEN "connected" ELSE "lost"

Publish ==
    /\ step = "publish" /\ step' = "commands"
    /\ sampled' = SnapshotState
    /\ LET told == ReadsSnapshot(reader, SnapshotState)
       IN  reader' = IF sampled = SnapshotState THEN told
                     ELSE ReadsSampled(told, SnapshotState)
    /\ UNCHANGED <<transportVars, connectionVars, status, metadata, reportVars,
                   phaseVars, heartbeatVars, frame, controlVars, faults>>

\* now < next_snapshot_.
NoSnapshotYet ==
    /\ step = "publish" /\ step' = "commands"
    /\ UNCHANGED <<transportVars, connectionVars, status, metadata, reportVars,
                   phaseVars, heartbeatVars, frame, sampled, controlVars, reader,
                   faults>>

(***************************************************************************)
(* The device, and time, which passes in sleep_for() and before a snapshot.*)
(***************************************************************************)
Device ==
    /\ \/ DeviceGoes /\ faults < MaxFaults /\ faults' = faults + 1
       \/ DeviceReturns /\ UNCHANGED faults
    /\ UNCHANGED <<connectionVars, status, metadata, reportVars, phaseVars,
                   heartbeatVars, frame, sampled, controlVars, step, reader>>

Tick ==
    /\ step \in {"commands", "publish"}
    /\ TransportTick
    /\ Connection!ConnectionTick
    /\ nextHeartbeat' = IF nextHeartbeat > 0 THEN nextHeartbeat - 1 ELSE 0
    /\ UNCHANGED <<status, metadata, reportVars, phaseVars, companionHeartbeatActive,
                   heartbeatSent, frame, sampled, controlVars, step, reader, faults>>

Next ==
    \/ Install
    \/ \E name \in {"SIGINT", "SIGTERM"} : Signal(name)
    \/ \E shutdown \in BOOLEAN : HandleRuntimeCommands(shutdown)
    \/ \E arrives \in BOOLEAN : PollInputs(arrives)
    \/ \E v \in Vehicles, said \in Statuses : ReceiveHeartbeat(v, said)
    \/ \E v \in Vehicles : ReceiveVersion(v) \/ ReceiveParameter(v)
    \/ EndOfInput
    \/ UpdateVehicleConnection
    \/ SendCompanionHeartbeat
    \/ SendRequest \/ NothingToRequest
    \/ \E accepted \in 0 .. FrameSize : WriteFrame(accepted)
    \/ TransportThrows
    \/ Publish \/ NoSnapshotYet
    \/ Device
    \/ Tick

(***************************************************************************)
(* Fairness: the loop goes on and time passes.  A poll makes at most four  *)
(* requests.  A device that is there can be opened now and then.           *)
(***************************************************************************)
Loop ==
    \/ Install
    \/ HandleRuntimeCommands(FALSE)
    \/ \E arrives \in BOOLEAN : PollInputs(arrives)
    \/ EndOfInput \/ UpdateVehicleConnection \/ SendCompanionHeartbeat
    \/ NothingToRequest
    \/ \E accepted \in 0 .. FrameSize : WriteFrame(accepted)
    \/ NoSnapshotYet

Reopen == PollInputs(FALSE) /\ descriptor = "closed" /\ descriptor' = "live"

Fairness ==
    /\ WF_vars(Loop) /\ SF_vars(Tick)
    /\ SF_vars(EndOfInput) /\ SF_vars(NothingToRequest)
    /\ SF_vars(Reopen)

Spec == Init /\ [][Next]_vars /\ Fairness

(***************************************************************************)
(* Properties.                                                             *)
(***************************************************************************)
\* A reader of the log never reads what contradicts what it read before: two
\* losses or two recoveries in a row, a change to the mode it had, a phase left
\* that was not entered, a snapshot of a connected vehicle that is not online.
LogIsConsistent == ~reader.puzzled

\* When observe_vehicle() is done, a reader of the log knows what the program
\* knows: whether the vehicle is online, each attribute that has changed since,
\* and the phase of the failsafe check.
LogIsComplete ==
    step \in {"heartbeat", "write", "request"} =>
        /\ (reader.link = "online") = vehicleWasConnected
        /\ vehicleWasConnected =>
             \A a \in Attributes : reader.status[a] \in {status[a], Unset}
        /\ reader.phase = failsafePhase

\* The program claims an active companion heartbeat only when every byte of one
\* was accepted since this vehicle came online.
HeartbeatClaimIsEarned == companionHeartbeatActive => heartbeatSent

\* What is left of a frame that was cut short is never sent: the descriptor a
\* frame was begun on is not closed while write_frame() goes on with the frame.
FramesAreNotSplit ==
    step = "write" /\ descriptor = "closed" => frame.left = FrameSize

\* A serial device that was away is opened again when it is back for good, though
\* attempts fail before and after that, and both reads and writes make them.
DeviceIsReopened ==
    <>[](Running /\ device) => <>[](descriptor = "live")

\* A signal that finds a handler, or the operator's q, ends the loop: no reset of
\* the flag comes after it.
StopIsHonoured == stopAsked ~> ~Running
=============================================================================
