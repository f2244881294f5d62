------------------------- MODULE LinkReporting_proofs -------------------------
(***************************************************************************)
(* What the event loop of the program promises about its transport and its *)
(* log, for a frame of any size, any number of errors, vehicles, values    *)
(* and phases, and either transport.                                       *)
(*                                                                         *)
(* Inv is about write_frame(): FramesAreNotSplit is inductive but for a    *)
(* UDP socket, which must be known never to close (SocketStaysOpen);       *)
(* HeartbeatClaimIsEarned needs what is left of a frame to be a positive   *)
(* number (FrameTyped): only then does a write that accepts something and  *)
(* ends the loop accept the rest.                                          *)
(*                                                                         *)
(* LogInv is about the log: the reader of all its records knows what the   *)
(* program remembers (ReaderKnows), and what it remembers is true from     *)
(* observe_vehicle() to the next snapshot (MemoryIsCurrent).               *)
(*                                                                         *)
(* StopInv is about the flag that ends the loop: handlers only run after   *)
(* its last reset, so that a stop, once asked for, stays.                  *)
(***************************************************************************)
EXTENDS LinkReporting, TLAPS

FrameTyped ==
    step = "write" => frame \in [kind : {"heartbeat", "request"}, left : 1 .. FrameSize]

SocketStaysOpen == backend = "udp" => descriptor = "live"

Inv ==
    /\ FrameTyped
    /\ SocketStaysOpen
    /\ FramesAreNotSplit
    /\ HeartbeatClaimIsEarned

wireVars == <<backend, descriptor, frame, companionHeartbeatActive, heartbeatSent>>

LEMMA InvAtFirst == Init => Inv
  BY DEF Init, TransportInit, Inv, FrameTyped, SocketStaysOpen, FramesAreNotSplit,
     HeartbeatClaimIsEarned

\* Most steps leave the frame, the transport and the claim alone.
LEMMA ElsewhereKeepsInv ==
    ASSUME Inv, UNCHANGED wireVars, step' = "write" => step = "write"
    PROVE  Inv'
  BY DEF wireVars, Inv, FrameTyped, SocketStaysOpen, FramesAreNotSplit,
     HeartbeatClaimIsEarned

LEMMA NewFrameKeepsInv ==
    ASSUME Inv, NEW kind \in {"heartbeat", "request"}, BeginFrame(kind)
    PROVE  Inv'
  <1>1. /\ step' = "write" /\ frame' = [kind |-> kind, left |-> FrameSize]
        /\ UNCHANGED <<backend, descriptor, companionHeartbeatActive, heartbeatSent>>
    BY DEF BeginFrame, transportVars
  <1>2. FrameTyped' /\ FramesAreNotSplit'
    BY <1>1, TransportsAssumption DEF FrameTyped, FramesAreNotSplit
  <1> QED
    BY <1>1, <1>2 DEF Inv, SocketStaysOpen, HeartbeatClaimIsEarned

\* A call that accepts something leaves the descriptor open.
LEMMA AcceptedMeansOpen ==
    ASSUME NEW left \in Nat, NEW accepted \in Nat, Write(left, accepted), SocketStaysOpen
    PROVE  /\ backend = "udp" => descriptor' = "live"
           /\ accepted > 0 => descriptor' = "live"
           /\ accepted <= left
  <1>1. CASE backend = "serial"
    <2>1. SerialWrite(accepted) /\ accepted <= left
      BY <1>1 DEF Write
    <2>2. accepted = 0 \/ descriptor' = "live"
      BY <2>1, Zenon DEF SerialWrite
    <2> QED
      BY <1>1, <2>1, <2>2
  <1>2. CASE backend = "udp"
    BY <1>2 DEF Write, SocketStaysOpen
  <1> QED
    BY <1>1, <1>2 DEF Write

LEMMA WriteFrameKeepsInv ==
    ASSUME Inv, NEW accepted \in 0 .. FrameSize, WriteFrame(accepted)
    PROVE  Inv'
  <1>1. step = "write" /\ Write(frame.left, accepted) /\ backend' = backend
    BY DEF WriteFrame
  <1>2. /\ frame \in [kind : {"heartbeat", "request"}, left : 1 .. FrameSize]
        /\ frame.left \in Nat /\ accepted \in Nat
    BY <1>1, TransportsAssumption DEF Inv, FrameTyped
  <1>3. /\ backend = "udp" => descriptor' = "live"
        /\ accepted > 0 => descriptor' = "live"
        /\ accepted <= frame.left
    BY <1>1, <1>2, AcceptedMeansOpen DEF Inv
  <1>4. CASE GoesOn(frame.left, accepted)
    <2>1. /\ frame' = [frame EXCEPT !.left = @ - accepted]
          /\ UNCHANGED <<companionHeartbeatActive, heartbeatSent, step>>
      BY <1>4 DEF WriteFrame
    <2>2. accepted > 0 /\ frame.left > accepted
      BY <1>4 DEF GoesOn
    <2>3. frame' \in [kind : {"heartbeat", "request"}, left : 1 .. FrameSize]
      BY <1>2, <2>1, <2>2, TransportsAssumption
    <2> QED
      BY <1>1, <1>3, <2>1, <2>2, <2>3
      DEF Inv, FrameTyped, SocketStaysOpen, FramesAreNotSplit, HeartbeatClaimIsEarned
  <1>5. CASE ~GoesOn(frame.left, accepted)
    <2>1. /\ step' # "write"
          /\ companionHeartbeatActive' =
               (companionHeartbeatActive
                  \/ (frame.kind = "heartbeat" /\ WrittenWhole(accepted)))
          /\ heartbeatSent' =
               (heartbeatSent
                  \/ (frame.kind = "heartbeat" /\ accepted = frame.left))
      BY <1>5 DEF WriteFrame
    <2>2. accepted > 0 => accepted = frame.left
      BY <1>2, <1>3, <1>5 DEF GoesOn
    <2>3. WrittenWhole(accepted) => accepted = frame.left
      BY <2>2 DEF WrittenWhole
    <2>4. HeartbeatClaimIsEarned'
      BY <2>1, <2>3, Zenon DEF Inv, HeartbeatClaimIsEarned
    <2> QED
      BY <1>1, <1>3, <2>1, <2>4
      DEF Inv, FrameTyped, SocketStaysOpen, FramesAreNotSplit
  <1> QED
    BY <1>4, <1>5

LEMMA NextKeepsInv ==
    ASSUME Inv, [Next]_vars
    PROVE  Inv'
  <1> USE DEF wireVars, transportVars, heartbeatVars
  <1>1. CASE Install
    BY <1>1, ElsewhereKeepsInv DEF Install
  <1>2. ASSUME NEW name \in {"SIGINT", "SIGTERM"}, Signal(name)
        PROVE  Inv'
    BY <1>2, ElsewhereKeepsInv DEF Signal
  <1>3. ASSUME NEW shutdown \in BOOLEAN, HandleRuntimeCommands(shutdown)
        PROVE  Inv'
    BY <1>3, ElsewhereKeepsInv DEF HandleRuntimeCommands
  <1>4. ASSUME NEW arrives \in BOOLEAN, PollInputs(arrives)
        PROVE  Inv'
    <2>1. step' # "write" /\ backend' = backend /\ (backend = "udp" => UNCHANGED descriptor)
      BY <1>4 DEF PollInputs, Read
    <2> QED
      BY <1>4, <2>1 DEF PollInputs, Inv, FrameTyped, SocketStaysOpen, FramesAreNotSplit,
         HeartbeatClaimIsEarned
  <1>5. ASSUME NEW v \in Vehicles, NEW said \in Statuses, ReceiveHeartbeat(v, said)
        PROVE  Inv'
    BY <1>5, ElsewhereKeepsInv DEF ReceiveHeartbeat
  <1>6. ASSUME NEW v \in Vehicles, ReceiveVersion(v) \/ ReceiveParameter(v)
        PROVE  Inv'
    BY <1>6, ElsewhereKeepsInv DEF ReceiveVersion, ReceiveParameter
  <1>7. CASE EndOfInput \/ NothingToRequest \/ TransportThrows \/ Publish \/ NoSnapshotYet
    BY <1>7, ElsewhereKeepsInv
    DEF EndOfInput, NothingToRequest, TransportThrows, Publish, NoSnapshotYet
  <1>8. CASE UpdateVehicleConnection
    <2>1. /\ step' = "heartbeat" /\ UNCHANGED transportVars
          /\ companionHeartbeatActive' = (Connection!Connected /\ companionHeartbeatActive)
          /\ heartbeatSent' = (Connection!Connected /\ heartbeatSent)
      BY <1>8 DEF UpdateVehicleConnection
    <2>2. HeartbeatClaimIsEarned'
      BY <2>1, Zenon DEF Inv, HeartbeatClaimIsEarned
    <2> QED
      BY <2>1, <2>2 DEF Inv, FrameTyped, SocketStaysOpen, FramesAreNotSplit
  <1>9. CASE SendCompanionHeartbeat
    BY <1>9, NewFrameKeepsInv, ElsewhereKeepsInv DEF SendCompanionHeartbeat
  <1>10. CASE SendRequest
    BY <1>10, NewFrameKeepsInv DEF SendRequest
  <1>11. ASSUME NEW accepted \in 0 .. FrameSize, WriteFrame(accepted)
         PROVE  Inv'
    BY <1>11, WriteFrameKeepsInv
  <1>12. CASE Device
    BY <1>12 DEF Device, DeviceGoes, DeviceReturns, Inv, FrameTyped, SocketStaysOpen,
       FramesAreNotSplit, HeartbeatClaimIsEarned
  <1>13. CASE Tick
    BY <1>13, ElsewhereKeepsInv DEF Tick, TransportTick
  <1>14. CASE UNCHANGED vars
    BY <1>14, ElsewhereKeepsInv DEF vars
  <1> QED
    BY <1>1, <1>2, <1>3, <1>4, <1>5, <1>6, <1>7, <1>8, <1>9, <1>10, <1>11, <1>12, <1>13,
       <1>14 DEF Next

LEMMA InvAlways == Spec => []Inv
  BY InvAtFirst, NextKeepsInv, PTL DEF Spec

\* The operator and the failsafe check are told of an active heartbeat only
\* after write() has accepted all of one for this connection.
THEOREM ClaimsAreEarned == Spec => []HeartbeatClaimIsEarned
  BY InvAlways, PTL DEF Inv

\* write_frame() never goes on with a frame on another descriptor than the one
\* the frame was begun on.
THEOREM FramesStayWhole == Spec => []FramesAreNotSplit
  BY InvAlways, PTL DEF Inv

(***************************************************************************)
(* The type invariant, group by group: a step is looked at only where it   *)
(* touches the group.                                                      *)
(***************************************************************************)
VehicleTyped ==
    /\ status \in Statuses \cup {NoStatus} /\ previousStatus \in Statuses \cup {NoStatus}
    /\ metadata \in BOOLEAN /\ metadataWasAvailable \in BOOLEAN
    /\ vehicleWasConnected \in BOOLEAN

PhaseTyped == failsafePhase \in AllPhases /\ previousFailsafePhase \in AllPhases

HeartbeatTyped ==
    /\ companionHeartbeatActive \in BOOLEAN /\ heartbeatSent \in BOOLEAN
    /\ nextHeartbeat \in 0 .. HeartbeatInterval

WholeFrameTyped ==
    frame \in {NoFrame} \cup [kind : {"heartbeat", "request"}, left : 1 .. FrameSize]

ControlTyped ==
    /\ installed \in 0 .. 3
    /\ keepRunning \in BOOLEAN /\ stopAsked \in BOOLEAN
    /\ step \in Steps

ReaderTyped == sampled \in {"none", "connected", "lost"} /\ reader \in Readers

TypeInv ==
    /\ TransportTypeOK /\ Connection!ConnectionTypeOK
    /\ VehicleTyped /\ PhaseTyped /\ HeartbeatTyped /\ WholeFrameTyped
    /\ ControlTyped /\ ReaderTyped
    /\ faults \in 0 .. MaxFaults

(***************************************************************************)
(* What the log says.  The reader is never puzzled because it always       *)
(* knows what the program remembers; and what the program remembers is     *)
(* what is true from observe_vehicle() to the snapshot, since a vehicle    *)
(* can be lost in between (time passes) but not come back.                 *)
(***************************************************************************)
Observed == {"heartbeat", "write", "request", "publish"}

ReaderKnows ==
    /\ ~reader.puzzled
    /\ (reader.link = "online") = vehicleWasConnected
    /\ vehicleWasConnected =>
         \A a \in Attributes : reader.status[a] \in {previousStatus[a], Unset}
    /\ reader.phase = failsafePhase
    /\ reader.sampled = sampled

MemoryIsCurrent ==
    /\ previousFailsafePhase = failsafePhase
    /\ \A a \in Attributes : status[a] = Unset => previousStatus[a] = Unset
    /\ step \in Observed =>
         /\ Connection!Connected => vehicleWasConnected
         /\ vehicleWasConnected => previousStatus = status

LogInv == ReaderKnows /\ MemoryIsCurrent


\* The numbers among the constants, one by one.
LEMMA Bounds ==
    /\ HeartbeatTimeout \in Nat /\ HeartbeatInterval \in Nat /\ MaxFaults \in Nat
    /\ ReconnectInterval \in Nat /\ FrameSize \in Nat /\ FrameSize > 0
  BY LinkAssumption, TransportsAssumption

LEMMA TypeAtFirst == Init => TypeInv
  <1> SUFFICES ASSUME Init PROVE TypeInv
    OBVIOUS
  <1>1. TransportTypeOK
    BY Bounds DEF Init, TransportInit, TransportTypeOK
  <1>2. Connection!ConnectionTypeOK
    BY Bounds DEF Init, Connection!ConnectionInit, Connection!ConnectionTypeOK,
       Connection!SilenceLimit
  <1>3. VehicleTyped /\ PhaseTyped /\ WholeFrameTyped
    BY DEF Init, VehicleTyped, PhaseTyped, WholeFrameTyped, AllPhases
  <1>4. HeartbeatTyped /\ faults \in 0 .. MaxFaults
    <2>1. 0 \in 0 .. HeartbeatInterval /\ 0 \in 0 .. MaxFaults /\ FALSE \in BOOLEAN
      BY Bounds
    <2> QED
      BY <2>1, Zenon DEF Init, HeartbeatTyped
  <1>5. ControlTyped
    <2>1. 0 \in 0 .. 3 /\ TRUE \in BOOLEAN /\ FALSE \in BOOLEAN
      OBVIOUS
    <2>2. "install" \in Steps
      BY DEF Steps
    <2> QED
      BY <2>1, <2>2, Zenon DEF Init, ControlTyped
  <1>6. ReaderTyped
    <2>1. NoStatus \in [Attributes -> Values \cup {Unset}]
      BY DEF NoStatus
    <2>2. reader = [link |-> "unknown", status |-> NoStatus,
                    phase |-> "waiting_for_vehicle", sampled |-> "none",
                    puzzled |-> FALSE]
          /\ sampled = "none"
      BY Zenon DEF Init
    <2> QED
      BY <2>1, <2>2 DEF ReaderTyped, Readers, AllPhases
  <1> QED
    BY <1>1, <1>2, <1>3, <1>4, <1>5, <1>6 DEF TypeInv

\* The transport, and the errors of its device.
LEMMA ReadingIsTyped ==
    ASSUME TransportTypeOK, NEW arrives \in BOOLEAN, Read(arrives),
           UNCHANGED <<backend, device>>
    PROVE  TransportTypeOK'
  <1>1. CASE backend = "serial" /\ SerialRead(arrives) /\ UNCHANGED peer
    <2>1. descriptor' \in {"closed", "live"}
      BY <1>1 DEF SerialRead, StaysClosed, Disconnect, TransportTypeOK
    <2>2. nextAttempt' \in {nextAttempt, ReconnectInterval}
      BY <1>1 DEF SerialRead, StaysClosed, Disconnect
    <2> QED
      BY <1>1, <2>1, <2>2, Bounds DEF TransportTypeOK
  <1>2. CASE backend = "udp" /\ UdpRead(arrives) /\ UNCHANGED <<descriptor, nextAttempt>>
    BY <1>2 DEF UdpRead, TransportTypeOK
  <1> QED
    BY <1>1, <1>2 DEF Read

LEMMA WritingIsTyped ==
    ASSUME TransportTypeOK, NEW left \in Nat, NEW accepted \in Nat, Write(left, accepted),
           UNCHANGED <<backend, device>>
    PROVE  TransportTypeOK'
  <1>1. CASE backend = "serial" /\ SerialWrite(accepted)
    <2>1. descriptor' \in {"closed", "live"}
      BY <1>1 DEF SerialWrite, StaysClosed, Disconnect, TransportTypeOK
    <2>2. nextAttempt' \in {nextAttempt, ReconnectInterval}
      BY <1>1 DEF SerialWrite, StaysClosed, Disconnect
    <2> QED
      BY <1>1, <2>1, <2>2, Bounds DEF TransportTypeOK, Write
  <1>2. CASE backend = "udp" /\ UNCHANGED <<descriptor, nextAttempt>>
    BY <1>2 DEF Write, TransportTypeOK
  <1> QED
    BY <1>1, <1>2 DEF Write

LEMMA NextKeepsTransportTyped ==
    ASSUME TypeInv, Inv, [Next]_vars
    PROVE  TransportTypeOK' /\ faults' \in 0 .. MaxFaults
  <1> DEFINE Same == UNCHANGED <<backend, device, descriptor, nextAttempt, peer, faults>>
  <1>1. Same => TransportTypeOK' /\ faults' \in 0 .. MaxFaults
    BY DEF TypeInv, TransportTypeOK
  <1>2. CASE UNCHANGED vars
    BY <1>1, <1>2 DEF vars, transportVars
  <1>3. CASE Install \/ EndOfInput \/ UpdateVehicleConnection \/ SendCompanionHeartbeat
             \/ SendRequest \/ NothingToRequest \/ TransportThrows \/ Publish
             \/ NoSnapshotYet
    <2>1. Same
      BY <1>3 DEF Install, EndOfInput, UpdateVehicleConnection, SendCompanionHeartbeat,
         SendRequest, NothingToRequest, TransportThrows, Publish, NoSnapshotYet,
         BeginFrame, transportVars
    <2> QED
      BY <1>1, <2>1
  <1>4. ASSUME NEW name \in {"SIGINT", "SIGTERM"}, Signal(name)
        PROVE  Same
    BY <1>4 DEF Signal, transportVars
  <1>5. ASSUME NEW shutdown \in BOOLEAN, HandleRuntimeCommands(shutdown)
        PROVE  Same
    BY <1>5 DEF HandleRuntimeCommands, transportVars
  <1>6. ASSUME NEW v \in Vehicles, NEW said \in Statuses, ReceiveHeartbeat(v, said)
        PROVE  Same
    BY <1>6 DEF ReceiveHeartbeat, transportVars
  <1>7. ASSUME NEW v \in Vehicles, ReceiveVersion(v) \/ ReceiveParameter(v)
        PROVE  Same
    BY <1>7 DEF ReceiveVersion, ReceiveParameter, transportVars
  <1>8. CountFaults /\ faults' <= MaxFaults => faults' \in 0 .. MaxFaults
    BY Bounds DEF CountFaults, TypeInv
  <1>9. ASSUME NEW arrives \in BOOLEAN, PollInputs(arrives)
        PROVE  TransportTypeOK' /\ faults' \in 0 .. MaxFaults
    BY <1>8, <1>9, ReadingIsTyped DEF PollInputs, TypeInv
  <1>10. ASSUME NEW accepted \in 0 .. FrameSize, WriteFrame(accepted)
         PROVE  TransportTypeOK' /\ faults' \in 0 .. MaxFaults
    <2>1. frame.left \in Nat /\ accepted \in Nat
      BY <1>10, Bounds DEF Inv, FrameTyped, WriteFrame
    <2>2. Write(frame.left, accepted) /\ UNCHANGED <<backend, device>>
          /\ CountFaults /\ faults' <= MaxFaults
      BY <1>10 DEF WriteFrame
    <2> QED
      BY <1>8, <2>1, <2>2, WritingIsTyped DEF TypeInv
  <1>11. CASE Device
    <2>1. TransportTypeOK'
      BY <1>11 DEF Device, DeviceGoes, DeviceReturns, TransportTypeOK, TypeInv
    <2>2. faults' \in 0 .. MaxFaults
      BY <1>11, Bounds DEF Device, TypeInv
    <2> QED
      BY <2>1, <2>2
  <1>12. CASE Tick
    BY <1>12, Bounds DEF Tick, TransportTick, TransportTypeOK, TypeInv
  <1> QED
    BY <1>1, <1>2, <1>3, <1>4, <1>5, <1>6, <1>7, <1>9, <1>10, <1>11, <1>12, Zenon DEF Next

LEMMA NextKeepsConnectionTyped ==
    ASSUME TypeInv, [Next]_vars
    PROVE  Connection!ConnectionTypeOK'
  <1> USE DEF connectionVars
  <1>1. UNCHANGED connectionVars => Connection!ConnectionTypeOK'
    BY DEF TypeInv, Connection!ConnectionTypeOK
  <1>2. CASE Tick
    BY <1>2, Bounds DEF Tick, Connection!ConnectionTick, Connection!ConnectionTypeOK,
       Connection!SilenceLimit, TypeInv
  <1>3. ASSUME NEW v \in Vehicles, NEW said \in Statuses, ReceiveHeartbeat(v, said)
        PROVE  Connection!ConnectionTypeOK'
    BY <1>3, Bounds DEF ReceiveHeartbeat, Connection!OnHeartbeat,
       Connection!ConnectionTypeOK, Connection!SilenceLimit, Connection!connectionVars,
       TypeInv
  <1>4. CASE UNCHANGED vars
    BY <1>1, <1>4 DEF vars
  <1>5. ~Tick /\ (\A v \in Vehicles, said \in Statuses : ~ReceiveHeartbeat(v, said)) /\ Next
          => UNCHANGED connectionVars
    BY DEF Next, Install, Signal, HandleRuntimeCommands, PollInputs, ReceiveVersion,
       ReceiveParameter, EndOfInput, UpdateVehicleConnection, SendCompanionHeartbeat,
       SendRequest, BeginFrame, NothingToRequest, WriteFrame, TransportThrows, Publish,
       NoSnapshotYet, Device
  <1> QED
    BY <1>1, <1>2, <1>3, <1>4, <1>5


LEMMA NextKeepsVehicleTyped ==
    ASSUME TypeInv, [Next]_vars
    PROVE  VehicleTyped'
  <1> DEFINE Same == UNCHANGED <<status, previousStatus, metadata, metadataWasAvailable,
                                 vehicleWasConnected>>
  <1>1. Same => VehicleTyped'
    BY DEF TypeInv, VehicleTyped, Statuses, NoStatus
  <1>2. ASSUME NEW v \in Vehicles, NEW said \in Statuses, ReceiveHeartbeat(v, said)
        PROVE  VehicleTyped'
    <2>1. status' \in {said, status}
          /\ UNCHANGED <<previousStatus, metadataWasAvailable, vehicleWasConnected>>
      BY <1>2 DEF ReceiveHeartbeat, reportVars
    <2>2. metadata' = (metadata /\ ~Connection!StartsAfresh(v)) \/ metadata' = metadata
      BY <1>2 DEF ReceiveHeartbeat
    <2>3. metadata' \in BOOLEAN
      BY <2>2, Zenon DEF TypeInv, VehicleTyped
    <2> QED
      BY <2>1, <2>3 DEF TypeInv, VehicleTyped, Statuses, NoStatus
  <1>3. ASSUME NEW v \in Vehicles, ReceiveVersion(v)
        PROVE  VehicleTyped'
    BY <1>3 DEF ReceiveVersion, reportVars, TypeInv, VehicleTyped, Statuses, NoStatus
  <1>4. CASE UpdateVehicleConnection
    <2>1. UNCHANGED <<status, metadata>> /\ previousStatus' = Remember(Connection!Connected)
      BY <1>4, Zenon DEF UpdateVehicleConnection
    <2>2. vehicleWasConnected' = Connection!Connected
          /\ metadataWasAvailable' = (Connection!Connected /\ metadata)
      BY <1>4, Zenon DEF UpdateVehicleConnection
    <2>3. vehicleWasConnected' \in BOOLEAN /\ metadataWasAvailable' \in BOOLEAN
      BY <2>2, Zenon DEF Connection!Connected, TypeInv, VehicleTyped
    <2>4. previousStatus' \in {status, NoStatus}
      BY <2>1 DEF Remember
    <2> QED
      BY <2>1, <2>3, <2>4 DEF TypeInv, VehicleTyped, Statuses, NoStatus
  <1>5. CASE UNCHANGED vars
    BY <1>1, <1>5 DEF vars, reportVars
  <1>6. Next => \/ Same \/ UpdateVehicleConnection
                \/ \E v \in Vehicles, said \in Statuses : ReceiveHeartbeat(v, said)
                \/ \E v \in Vehicles : ReceiveVersion(v)
    BY DEF Next, Install, Signal, HandleRuntimeCommands, PollInputs, ReceiveParameter,
       EndOfInput, SendCompanionHeartbeat, SendRequest, BeginFrame, NothingToRequest,
       WriteFrame, TransportThrows, Publish, NoSnapshotYet, Device, Tick, reportVars
  <1> QED
    BY <1>1, <1>2, <1>3, <1>4, <1>5, <1>6

LEMMA NextKeepsPhaseTyped ==
    ASSUME TypeInv, [Next]_vars
    PROVE  PhaseTyped'
  <1>1. UNCHANGED phaseVars => PhaseTyped'
    BY DEF phaseVars, TypeInv, PhaseTyped
  <1>2. ASSUME NEW v \in Vehicles, ReceiveParameter(v)
        PROVE  PhaseTyped'
    BY <1>2 DEF ReceiveParameter, TypeInv, PhaseTyped, AllPhases
  <1>3. CASE UpdateVehicleConnection
    <2>1. previousFailsafePhase' = failsafePhase'
          /\ ObserveVehicleForFailsafe(Connection!Connected)
      BY <1>3 DEF UpdateVehicleConnection
    <2> QED
      BY <2>1 DEF ObserveVehicleForFailsafe, PhaseTyped, AllPhases
  <1>4. CASE UNCHANGED vars
    BY <1>1, <1>4 DEF vars
  <1>5. Next => \/ UNCHANGED phaseVars \/ UpdateVehicleConnection
                \/ \E v \in Vehicles : ReceiveParameter(v)
    BY DEF Next, Install, Signal, HandleRuntimeCommands, PollInputs, ReceiveHeartbeat,
       ReceiveVersion, EndOfInput, SendCompanionHeartbeat, SendRequest, BeginFrame,
       NothingToRequest, WriteFrame, TransportThrows, Publish, NoSnapshotYet, Device, Tick
  <1> QED
    BY <1>1, <1>2, <1>3, <1>4, <1>5

LEMMA NextKeepsHeartbeatTyped ==
    ASSUME TypeInv, [Next]_vars
    PROVE  HeartbeatTyped'
  <1>1. UNCHANGED heartbeatVars => HeartbeatTyped'
    BY DEF heartbeatVars, TypeInv, HeartbeatTyped
  <1>2. CASE UpdateVehicleConnection
    <2>1. UNCHANGED nextHeartbeat
          /\ companionHeartbeatActive' = (Connection!Connected /\ companionHeartbeatActive)
          /\ heartbeatSent' = (Connection!Connected /\ heartbeatSent)
      BY <1>2, Zenon DEF UpdateVehicleConnection
    <2>2. companionHeartbeatActive' \in BOOLEAN /\ heartbeatSent' \in BOOLEAN
      BY <2>1, Zenon DEF TypeInv, HeartbeatTyped
    <2> QED
      BY <2>1, <2>2 DEF TypeInv, HeartbeatTyped
  <1>3. CASE SendCompanionHeartbeat \/ SendRequest
    <2>1. UNCHANGED <<companionHeartbeatActive, heartbeatSent>>
      BY <1>3 DEF SendCompanionHeartbeat, SendRequest, BeginFrame
    <2>2. nextHeartbeat' \in {nextHeartbeat, HeartbeatInterval}
      BY <1>3 DEF SendCompanionHeartbeat, SendRequest
    <2>3. nextHeartbeat' \in 0 .. HeartbeatInterval
      BY <2>2, Bounds DEF TypeInv, HeartbeatTyped
    <2> QED
      BY <2>1, <2>3 DEF TypeInv, HeartbeatTyped
  <1>4. ASSUME NEW accepted \in 0 .. FrameSize, WriteFrame(accepted)
        PROVE  HeartbeatTyped'
    <2>1. UNCHANGED nextHeartbeat
      BY <1>4 DEF WriteFrame
    <2>2. \/ UNCHANGED <<companionHeartbeatActive, heartbeatSent>>
          \/ /\ companionHeartbeatActive' =
                  (companionHeartbeatActive
                     \/ (frame.kind = "heartbeat" /\ WrittenWhole(accepted)))
             /\ heartbeatSent' =
                  (heartbeatSent
                     \/ (frame.kind = "heartbeat" /\ accepted = frame.left))
      BY <1>4, Zenon DEF WriteFrame
    <2>3. companionHeartbeatActive' \in BOOLEAN /\ heartbeatSent' \in BOOLEAN
      BY <2>2, Zenon DEF TypeInv, HeartbeatTyped
    <2> QED
      BY <2>1, <2>3 DEF TypeInv, HeartbeatTyped
  <1>5. CASE Tick
    <2>1. UNCHANGED <<companionHeartbeatActive, heartbeatSent>>
          /\ nextHeartbeat' = IF nextHeartbeat > 0 THEN nextHeartbeat - 1 ELSE 0
      BY <1>5 DEF Tick
    <2>2. nextHeartbeat' \in 0 .. HeartbeatInterval
      BY <2>1, Bounds DEF TypeInv, HeartbeatTyped
    <2> QED
      BY <2>1, <2>2 DEF TypeInv, HeartbeatTyped
  <1>6. CASE UNCHANGED vars
    BY <1>1, <1>6 DEF vars
  <1>7. Next => \/ UNCHANGED heartbeatVars \/ UpdateVehicleConnection
                \/ SendCompanionHeartbeat \/ SendRequest \/ Tick
                \/ \E accepted \in 0 .. FrameSize : WriteFrame(accepted)
    BY DEF Next, Install, Signal, HandleRuntimeCommands, PollInputs, ReceiveHeartbeat,
       ReceiveVersion, ReceiveParameter, EndOfInput, NothingToRequest, TransportThrows,
       Publish, NoSnapshotYet, Device
  <1> QED
    BY <1>1, <1>2, <1>3, <1>4, <1>5, <1>6, <1>7

LEMMA NextKeepsFrameTyped ==
    ASSUME TypeInv, Inv, [Next]_vars
    PROVE  WholeFrameTyped'
  <1>1. UNCHANGED frame => WholeFrameTyped'
    BY DEF TypeInv, WholeFrameTyped
  <1>2. ASSUME NEW kind \in {"heartbeat", "request"}, BeginFrame(kind)
        PROVE  WholeFrameTyped'
    BY <1>2, Bounds DEF BeginFrame, WholeFrameTyped
  <1>3. ASSUME NEW accepted \in 0 .. FrameSize, WriteFrame(accepted)
        PROVE  WholeFrameTyped'
    <2>1. frame \in [kind : {"heartbeat", "request"}, left : 1 .. FrameSize]
      BY <1>3 DEF Inv, FrameTyped, WriteFrame
    <2>2. \/ GoesOn(frame.left, accepted) /\ frame' = [frame EXCEPT !.left = @ - accepted]
          \/ frame' = NoFrame
      BY <1>3 DEF WriteFrame
    <2> QED
      BY <2>1, <2>2, Bounds DEF GoesOn, WholeFrameTyped
  <1>4. CASE UNCHANGED vars
    BY <1>1, <1>4 DEF vars
  <1>5. Next => \/ UNCHANGED frame \/ \E kind \in {"heartbeat", "request"} : BeginFrame(kind)
                \/ \E accepted \in 0 .. FrameSize : WriteFrame(accepted)
    BY DEF Next, Install, Signal, HandleRuntimeCommands, PollInputs, ReceiveHeartbeat,
       ReceiveVersion, ReceiveParameter, EndOfInput, UpdateVehicleConnection,
       SendCompanionHeartbeat, SendRequest, NothingToRequest, TransportThrows, Publish,
       NoSnapshotYet, Device, Tick
  <1> QED
    BY <1>1, <1>2, <1>3, <1>4, <1>5

LEMMA NextKeepsControlTyped ==
    ASSUME TypeInv, [Next]_vars
    PROVE  ControlTyped'
  <1>1. UNCHANGED controlVars /\ step' \in Steps => ControlTyped'
    BY DEF controlVars, TypeInv, ControlTyped
  <1>2. CASE Install
    <2>1. UNCHANGED stopAsked /\ installed' \in {installed, installed + 1}
          /\ (installed < 3 \/ installed' = installed)
      BY <1>2 DEF Install
    <2>2. keepRunning' \in {TRUE, keepRunning} /\ step' \in {step, "commands"}
      BY <1>2 DEF Install
    <2>3. installed' \in 0 .. 3
      BY <2>1 DEF TypeInv, ControlTyped
    <2>4. step' \in Steps
      BY <2>2 DEF TypeInv, ControlTyped, Steps
    <2>5. keepRunning' \in BOOLEAN /\ stopAsked' \in BOOLEAN
      BY <2>1, <2>2 DEF TypeInv, ControlTyped
    <2> QED
      BY <2>3, <2>4, <2>5 DEF ControlTyped
  <1>3. ASSUME NEW name \in {"SIGINT", "SIGTERM"}, Signal(name)
        PROVE  ControlTyped'
    <2>1. UNCHANGED installed /\ keepRunning' \in {FALSE, keepRunning}
          /\ stopAsked' \in {TRUE, stopAsked} /\ step' \in {step, "killed"}
      BY <1>3 DEF Signal
    <2>2. step' \in Steps
      BY <2>1 DEF TypeInv, ControlTyped, Steps
    <2> QED
      BY <2>1, <2>2 DEF TypeInv, ControlTyped
  <1>4. ASSUME NEW shutdown \in BOOLEAN, HandleRuntimeCommands(shutdown)
        PROVE  ControlTyped'
    <2>1. UNCHANGED installed /\ step' \in {"read", "stopped"}
          /\ keepRunning' = (keepRunning /\ ~shutdown)
          /\ stopAsked' = (stopAsked \/ shutdown)
      BY <1>4 DEF HandleRuntimeCommands
    <2>2. keepRunning' \in BOOLEAN /\ stopAsked' \in BOOLEAN
      BY <2>1, Zenon DEF TypeInv, ControlTyped
    <2>3. step' \in Steps
      BY <2>1 DEF Steps
    <2> QED
      BY <2>1, <2>2, <2>3 DEF TypeInv, ControlTyped
  <1>5. CASE UNCHANGED vars
    BY <1>1, <1>5 DEF vars, TypeInv, ControlTyped
  <1>6. Next => \/ Install \/ (UNCHANGED controlVars /\ step' \in Steps)
                \/ \E name \in {"SIGINT", "SIGTERM"} : Signal(name)
                \/ \E shutdown \in BOOLEAN : HandleRuntimeCommands(shutdown)
    BY DEF Next, PollInputs, ReceiveHeartbeat, ReceiveVersion, ReceiveParameter,
       EndOfInput, UpdateVehicleConnection, SendCompanionHeartbeat, SendRequest,
       BeginFrame, NothingToRequest, WriteFrame, TransportThrows, Publish, NoSnapshotYet,
       Device, Tick, Steps, TypeInv, ControlTyped
  <1> QED
    BY <1>1, <1>2, <1>3, <1>4, <1>5, <1>6


(***************************************************************************)
(* What a record does to the reader: each one that fits leaves the reader  *)
(* as it was, but for what the record is about.                            *)
(***************************************************************************)
LEMMA LinkIsRead ==
    ASSUME NEW known \in Readers, NEW state \in {"online", "lost"},
           ~known.puzzled, known.link # state
    PROVE  LET next == ReadsLink(known, state)
           IN  /\ next \in Readers /\ ~next.puzzled
               /\ next.link = state /\ next.status = NoStatus
               /\ next.phase = known.phase /\ next.sampled = known.sampled
  <1>1. NoStatus \in [Attributes -> Values \cup {Unset}]
    BY DEF NoStatus
  <1> QED
    BY <1>1 DEF ReadsLink, Readers

LEMMA VersionIsRead ==
    ASSUME NEW known \in Readers, ~known.puzzled, known.link = "online"
    PROVE  ReadsVersion(known) = known
  BY DEF ReadsVersion, Readers

LEMMA ChangesAreRead ==
    ASSUME NEW known \in Readers, NEW changed \in SUBSET Attributes,
           status \in Statuses \cup {NoStatus},
           ~known.puzzled, known.link = "online",
           \A a \in changed : status[a] # known.status[a]
    PROVE  LET next == ReadsChanges(known, changed)
           IN  /\ next \in Readers /\ ~next.puzzled
               /\ next.link = known.link
               /\ next.phase = known.phase /\ next.sampled = known.sampled
               /\ \A a \in Attributes :
                    next.status[a] = IF a \in changed THEN status[a] ELSE known.status[a]
  <1> DEFINE told == [a \in Attributes |-> IF a \in changed THEN status[a]
                                           ELSE known.status[a]]
  <1>1. \A a \in Attributes : status[a] \in Values \cup {Unset}
    BY DEF Statuses, NoStatus
  <1>2. known.status \in [Attributes -> Values \cup {Unset}]
    BY DEF Readers
  <1>3. told \in [Attributes -> Values \cup {Unset}]
    BY <1>1, <1>2
  <1>4. \A a \in Attributes :
           told[a] = IF a \in changed THEN status[a] ELSE known.status[a]
    OBVIOUS
  <1>5. ReadsChanges(known, changed)
          = [known EXCEPT !.status = told,
               !.puzzled = @ \/ \E a \in changed : \/ known.link # "online"
                                                   \/ status[a] = known.status[a]]
    BY DEF ReadsChanges
  <1>6. (\E a \in changed : known.link # "online" \/ status[a] = known.status[a]) = FALSE
    OBVIOUS
  <1> HIDE DEF told
  <1> QED
    BY <1>3, <1>4, <1>5, <1>6 DEF Readers

LEMMA PhaseIsRead ==
    ASSUME NEW known \in Readers, NEW to \in AllPhases,
           ~known.puzzled, to # known.phase
    PROVE  LET next == ReadsPhase(known, known.phase, to)
           IN  /\ next \in Readers /\ ~next.puzzled
               /\ next.link = known.link /\ next.status = known.status
               /\ next.phase = to /\ next.sampled = known.sampled
  BY DEF ReadsPhase, Readers

LEMMA SnapshotIsRead ==
    ASSUME NEW known \in Readers, NEW state \in {"connected", "lost"},
           status \in Statuses \cup {NoStatus},
           ~known.puzzled, failsafePhase = known.phase,
           state = "connected" =>
             /\ known.link = "online"
             /\ \A a \in Attributes : known.status[a] \in {status[a], Unset}
    PROVE  LET next == ReadsSnapshot(known, state)
           IN  /\ next \in Readers /\ ~next.puzzled
               /\ next.link = known.link
               /\ next.status = IF state = "connected" THEN status ELSE known.status
               /\ next.phase = known.phase /\ next.sampled = known.sampled
  <1>1. status \in [Attributes -> Values \cup {Unset}]
    BY DEF Statuses, NoStatus
  <1> QED
    BY <1>1 DEF ReadsSnapshot, Readers

LEMMA SampleIsRead ==
    ASSUME NEW known \in Readers, NEW state \in {"connected", "lost"},
           ~known.puzzled, state # known.sampled
    PROVE  LET next == ReadsSampled(known, state)
           IN  /\ next \in Readers /\ ~next.puzzled
               /\ next.link = known.link /\ next.status = known.status
               /\ next.phase = known.phase /\ next.sampled = state
  BY DEF ReadsSampled, Readers

LogVars == <<reader, sampled, failsafePhase, previousFailsafePhase, status, previousStatus,
             vehicleWasConnected>>

LEMMA LogAtFirst == Init => LogInv
  <1> SUFFICES ASSUME Init PROVE LogInv
    OBVIOUS
  <1>1. /\ reader = [link |-> "unknown", status |-> NoStatus,
                     phase |-> "waiting_for_vehicle", sampled |-> "none",
                     puzzled |-> FALSE]
        /\ sampled = "none" /\ step = "install" /\ vehicleWasConnected = FALSE
        /\ failsafePhase = "waiting_for_vehicle"
        /\ previousFailsafePhase = "waiting_for_vehicle"
        /\ status = NoStatus /\ previousStatus = NoStatus
    BY Zenon DEF Init
  <1>2. ReaderKnows
    BY <1>1 DEF ReaderKnows
  <1>3. MemoryIsCurrent
    BY <1>1 DEF MemoryIsCurrent, Observed
  <1> QED
    BY <1>2, <1>3 DEF LogInv

\* A step that writes nothing and remembers nothing, and leads into the part of
\* the loop after observe_vehicle() only from inside it.
LEMMA SilenceKeepsLog ==
    ASSUME LogInv, UNCHANGED LogVars, step' \in Observed => step \in Observed,
           Connection!Connected' => Connection!Connected
    PROVE  LogInv'
  <1>1. ReaderKnows'
    BY DEF LogInv, LogVars, ReaderKnows
  <1>2. MemoryIsCurrent'
    BY DEF LogInv, LogVars, MemoryIsCurrent
  <1> QED
    BY <1>1, <1>2 DEF LogInv

LEMMA PhaseIsReported ==
    ASSUME TypeInv, LogInv, failsafePhase' \in AllPhases
    PROVE  LET next == ObserveFailsafePhase(reader)
           IN  /\ next \in Readers /\ ~next.puzzled
               /\ next.link = reader.link /\ next.status = reader.status
               /\ next.phase = failsafePhase' /\ next.sampled = reader.sampled
  <1>1. /\ reader \in Readers /\ ~reader.puzzled
        /\ reader.phase = failsafePhase /\ previousFailsafePhase = failsafePhase
    BY DEF TypeInv, ReaderTyped, LogInv, ReaderKnows, MemoryIsCurrent
  <1>2. CASE failsafePhase' = previousFailsafePhase
    BY <1>1, <1>2 DEF ObserveFailsafePhase
  <1>3. CASE failsafePhase' # previousFailsafePhase
    BY <1>1, <1>3, PhaseIsRead DEF ObserveFailsafePhase
  <1> QED
    BY <1>2, <1>3

\* observe_vehicle(): after it the reader knows what is remembered, and what is
\* remembered is what is true.
LEMMA ObservingKeepsLog ==
    ASSUME TypeInv, LogInv, UpdateVehicleConnection
    PROVE  LogInv' /\ ReaderTyped'
  <1> DEFINE online == Connection!Connected
             phased == ObserveFailsafePhase(reader)
             told   == ConnectionChanges(phased, online)
  <1>1. /\ ObserveVehicleForFailsafe(online)
        /\ reader' = IF online /\ vehicleWasConnected
                     THEN StatusChanges(VersionChanges(told)) ELSE told
        /\ previousFailsafePhase' = failsafePhase'
        /\ vehicleWasConnected' = online
        /\ previousStatus' = Remember(online)
        /\ UNCHANGED <<status, sampled, connectionVars>>
    BY DEF UpdateVehicleConnection
  <1>2. /\ reader \in Readers /\ ~reader.puzzled
        /\ (reader.link = "online") = vehicleWasConnected
        /\ vehicleWasConnected =>
             \A a \in Attributes : reader.status[a] \in {previousStatus[a], Unset}
        /\ reader.sampled = sampled
        /\ \A a \in Attributes : status[a] = Unset => previousStatus[a] = Unset
        /\ status \in Statuses \cup {NoStatus}
        /\ sampled \in {"none", "connected", "lost"}
        /\ vehicleWasConnected \in BOOLEAN
    BY DEF TypeInv, ReaderTyped, VehicleTyped, LogInv, ReaderKnows, MemoryIsCurrent
  <1>3. failsafePhase' \in AllPhases
    BY <1>1 DEF ObserveVehicleForFailsafe, AllPhases
  <1>4. /\ phased \in Readers /\ ~phased.puzzled
        /\ phased.link = reader.link /\ phased.status = reader.status
        /\ phased.phase = failsafePhase' /\ phased.sampled = sampled
    BY <1>2, <1>3, PhaseIsReported
  <1>5. online \in BOOLEAN
    BY Zenon DEF Connection!Connected
  <1>6. Connection!Connected' = online
    BY <1>1 DEF connectionVars, Connection!Connected
  <1> HIDE DEF phased, online
  <1>7. /\ told \in Readers /\ ~told.puzzled
        /\ (told.link = "online") = online
        /\ told.status = IF online = vehicleWasConnected THEN reader.status ELSE NoStatus
        /\ told.phase = failsafePhase' /\ told.sampled = sampled
    <2>1. CASE online = vehicleWasConnected
      BY <1>2, <1>4, <2>1 DEF ConnectionChanges
    <2>2. CASE online /\ ~vehicleWasConnected
      <3>1. told = ReadsLink(phased, "online")
        BY <2>2, <1>5, <1>2 DEF ConnectionChanges
      <3> QED
        <4>1. phased.link # "online"
          BY <2>2, <1>2, <1>4
        <4>2. /\ told \in Readers /\ ~told.puzzled /\ told.link = "online"
              /\ told.status = NoStatus /\ told.phase = phased.phase
              /\ told.sampled = phased.sampled
          BY <3>1, <4>1, <1>4, LinkIsRead
        <4> QED
          BY <2>2, <4>2, <1>4, <1>5, <1>2
    <2>3. CASE ~online /\ vehicleWasConnected
      <3>1. told = ReadsLink(phased, "lost")
        BY <2>3, <1>5, <1>2 DEF ConnectionChanges
      <3> QED
        <4>1. phased.link # "lost"
          BY <2>3, <1>2, <1>4
        <4>2. /\ told \in Readers /\ ~told.puzzled /\ told.link = "lost"
              /\ told.status = NoStatus /\ told.phase = phased.phase
              /\ told.sampled = phased.sampled
          BY <3>1, <4>1, <1>4, LinkIsRead
        <4> QED
          BY <2>3, <4>2, <1>4, <1>5, <1>2
    <2> QED
      BY <1>2, <1>5, <2>1, <2>2, <2>3
  <1> HIDE DEF told
  <1> DEFINE changed == {a \in Attributes : previousStatus[a] \notin {Unset, status[a]}}
  <1>8. CASE online /\ vehicleWasConnected
    <2>1. VersionChanges(told) = told
      BY <1>7, <1>8, VersionIsRead DEF VersionChanges
    <2>2. reader' = ReadsChanges(told, changed)
      BY <1>1, <1>8, <2>1 DEF StatusChanges
    <2>3. told.status = reader.status /\ told.link = "online"
      BY <1>7, <1>8
    <2>4. \A a \in changed : status[a] # told.status[a]
      BY <1>2, <1>8, <2>3
    <2>5. changed \in SUBSET Attributes
      OBVIOUS
    <2>6. \A a \in Attributes :
             reader.status[a] \in {status[a], Unset} \/ a \in changed
      BY <1>2, <1>8
    <2> HIDE DEF changed
    <2>7. /\ reader' \in Readers /\ ~reader'.puzzled /\ reader'.link = "online"
          /\ reader'.phase = failsafePhase' /\ reader'.sampled = sampled
          /\ \A a \in Attributes :
               reader'.status[a] = IF a \in changed THEN status[a] ELSE reader.status[a]
      BY <1>2, <1>7, <2>2, <2>3, <2>4, <2>5, ChangesAreRead
    <2>8. \A a \in Attributes : reader'.status[a] \in {status[a], Unset}
      BY <2>6, <2>7
    <2>9. previousStatus' = status
      BY <1>1, <1>8 DEF Remember
    <2> QED
      BY <1>1, <1>2, <1>6, <1>8, <2>7, <2>8, <2>9
      DEF LogInv, ReaderKnows, MemoryIsCurrent, ReaderTyped
  <1>9. CASE ~(online /\ vehicleWasConnected)
    <2>1. reader' = told
      BY <1>1, <1>9
    <2>2. online => /\ previousStatus' = status /\ reader'.status = NoStatus
      BY <1>1, <1>2, <1>7, <1>9, <2>1 DEF Remember
    <2>3. \A a \in Attributes : status[a] = Unset => previousStatus'[a] = Unset
      BY <1>1 DEF Remember, NoStatus
    <2>4. ReaderKnows'
      BY <1>1, <1>7, <2>1, <2>2 DEF ReaderKnows, NoStatus
    <2>5. MemoryIsCurrent'
      BY <1>1, <1>6, <2>2, <2>3 DEF MemoryIsCurrent
    <2>6. ReaderTyped'
      BY <1>1, <1>2, <1>7, <2>1 DEF ReaderTyped
    <2> QED
      BY <2>4, <2>5, <2>6 DEF LogInv
  <1> QED
    BY <1>8, <1>9

LEMMA ParameterKeepsLog ==
    ASSUME TypeInv, LogInv, NEW v \in Vehicles, ReceiveParameter(v)
    PROVE  LogInv' /\ ReaderTyped'
  <1>1. /\ reader' = ObserveFailsafePhase(reader) /\ previousFailsafePhase' = failsafePhase'
        /\ step = "ingest"
        /\ UNCHANGED <<status, previousStatus, vehicleWasConnected, sampled, step>>
    BY DEF ReceiveParameter, reportVars
  <1>2. failsafePhase' \in AllPhases
    BY DEF ReceiveParameter, TypeInv, PhaseTyped, AllPhases
  <1>3. /\ reader' \in Readers /\ ~reader'.puzzled
        /\ reader'.link = reader.link /\ reader'.status = reader.status
        /\ reader'.phase = failsafePhase' /\ reader'.sampled = reader.sampled
    BY <1>1, <1>2, PhaseIsReported
  <1>4. ReaderKnows'
    BY <1>1, <1>3 DEF LogInv, ReaderKnows
  <1>5. MemoryIsCurrent'
    BY <1>1 DEF LogInv, MemoryIsCurrent, Observed
  <1> QED
    BY <1>1, <1>3, <1>4, <1>5 DEF LogInv, ReaderTyped, TypeInv

\* publish_snapshot(): what is published is what the reader knows already.
LEMMA PublishingKeepsLog ==
    ASSUME TypeInv, LogInv, Publish
    PROVE  LogInv' /\ ReaderTyped'
  <1> DEFINE told == ReadsSnapshot(reader, SnapshotState)
  <1>1. /\ step = "publish" /\ step' = "commands" /\ sampled' = SnapshotState
        /\ reader' = IF sampled = SnapshotState THEN told
                     ELSE ReadsSampled(told, SnapshotState)
        /\ UNCHANGED <<status, previousStatus, vehicleWasConnected, failsafePhase,
                       previousFailsafePhase>>
    BY DEF Publish, reportVars, phaseVars
  <1>2. /\ SnapshotState \in {"connected", "lost"}
        /\ SnapshotState = "connected" => Connection!Connected
    BY DEF SnapshotState
  <1>3. /\ reader \in Readers /\ ~reader.puzzled
        /\ (reader.link = "online") = vehicleWasConnected
        /\ vehicleWasConnected =>
             \A a \in Attributes : reader.status[a] \in {previousStatus[a], Unset}
        /\ reader.phase = failsafePhase /\ reader.sampled = sampled
        /\ status \in Statuses \cup {NoStatus}
    BY DEF TypeInv, ReaderTyped, VehicleTyped, LogInv, ReaderKnows
  <1>4. /\ Connection!Connected => vehicleWasConnected
        /\ vehicleWasConnected => previousStatus = status
    BY <1>1 DEF LogInv, MemoryIsCurrent, Observed
  <1>5. SnapshotState = "connected" =>
          /\ reader.link = "online"
          /\ \A a \in Attributes : reader.status[a] \in {status[a], Unset}
    BY <1>2, <1>3, <1>4
  <1>6. /\ told \in Readers /\ ~told.puzzled /\ told.link = reader.link
        /\ told.status = IF SnapshotState = "connected" THEN status ELSE reader.status
        /\ told.phase = reader.phase /\ told.sampled = sampled
    BY <1>2, <1>3, <1>5, SnapshotIsRead
  <1> HIDE DEF told
  <1>7. /\ reader' \in Readers /\ ~reader'.puzzled /\ reader'.link = told.link
        /\ reader'.status = told.status /\ reader'.phase = told.phase
        /\ reader'.sampled = SnapshotState
    BY <1>1, <1>2, <1>6, SampleIsRead
  <1>8. vehicleWasConnected =>
          \A a \in Attributes : reader'.status[a] \in {previousStatus[a], Unset}
    BY <1>3, <1>4, <1>6, <1>7
  <1>9. ReaderKnows'
    BY <1>1, <1>3, <1>6, <1>7, <1>8 DEF ReaderKnows
  <1>10. MemoryIsCurrent'
    BY <1>1 DEF LogInv, MemoryIsCurrent, Observed
  <1> QED
    BY <1>1, <1>2, <1>7, <1>9, <1>10 DEF LogInv, ReaderTyped

LEMMA HeartbeatKeepsLog ==
    ASSUME LogInv, NEW v \in Vehicles, NEW said \in Statuses, ReceiveHeartbeat(v, said),
           Unset \notin Values
    PROVE  LogInv'
  <1>1. /\ step = "ingest" /\ step' = "ingest" /\ status' \in {status, said}
        /\ UNCHANGED <<reader, sampled, failsafePhase, previousFailsafePhase,
                       previousStatus, vehicleWasConnected>>
    BY DEF ReceiveHeartbeat, reportVars, phaseVars
  <1>2. ReaderKnows'
    BY <1>1 DEF LogInv, ReaderKnows
  <1>3. \A a \in Attributes : said[a] # Unset
    BY DEF Statuses
  <1>4. MemoryIsCurrent'
    BY <1>1, <1>3 DEF LogInv, MemoryIsCurrent, Observed
  <1> QED
    BY <1>2, <1>4 DEF LogInv

LEMMA TimeOnlyLoses ==
    ASSUME TypeInv, Tick
    PROVE  Connection!Connected' => Connection!Connected
  <1>1. silence \in 0 .. HeartbeatTimeout + 1 /\ UNCHANGED systemId
        /\ silence' = IF silence < HeartbeatTimeout + 1 THEN silence + 1 ELSE silence
    BY DEF TypeInv, Connection!ConnectionTypeOK, Connection!SilenceLimit, Tick,
       Connection!ConnectionTick
  <1> QED
    BY <1>1, Bounds DEF Connection!Connected

LEMMA NextKeepsLog ==
    ASSUME TypeInv, LogInv, [Next]_vars
    PROVE  LogInv' /\ ReaderTyped'
  <1> DEFINE Quiet == UNCHANGED LogVars /\ (step' \in Observed => step \in Observed)
  <1>1. UNCHANGED <<reader, sampled>> => ReaderTyped'
    BY DEF TypeInv, ReaderTyped
  <1>2. UNCHANGED connectionVars => (Connection!Connected' => Connection!Connected)
    BY DEF connectionVars, Connection!Connected
  <1>3. Quiet /\ UNCHANGED connectionVars => LogInv' /\ ReaderTyped'
    BY <1>1, <1>2, SilenceKeepsLog DEF LogVars
  <1>4. CASE Tick
    <2>1. Quiet
      BY <1>4 DEF Tick, LogVars, reportVars, phaseVars
    <2> QED
      BY <1>1, <1>4, <2>1, TimeOnlyLoses, SilenceKeepsLog DEF LogVars
  <1>5. ASSUME NEW v \in Vehicles, NEW said \in Statuses, ReceiveHeartbeat(v, said)
        PROVE  LogInv' /\ ReaderTyped'
    <2>1. UNCHANGED <<reader, sampled>>
      BY <1>5 DEF ReceiveHeartbeat
    <2> QED
      BY <1>1, <1>5, <2>1, HeartbeatKeepsLog, LinkAssumption
  <1>6. ASSUME NEW v \in Vehicles, ReceiveParameter(v)
        PROVE  LogInv' /\ ReaderTyped'
    BY <1>6, ParameterKeepsLog
  <1>7. CASE UpdateVehicleConnection
    BY <1>7, ObservingKeepsLog
  <1>8. CASE Publish
    BY <1>8, PublishingKeepsLog
  <1>9. CASE Install \/ EndOfInput \/ SendCompanionHeartbeat \/ SendRequest
             \/ NothingToRequest \/ TransportThrows \/ NoSnapshotYet \/ Device
    <2>1. Quiet /\ UNCHANGED connectionVars
      BY <1>9 DEF Install, EndOfInput, SendCompanionHeartbeat, SendRequest, BeginFrame,
         NothingToRequest, TransportThrows, NoSnapshotYet, Device, LogVars, reportVars,
         phaseVars, Observed
    <2> QED
      BY <1>3, <2>1
  <1>10. ASSUME NEW name \in {"SIGINT", "SIGTERM"}, Signal(name)
         PROVE  Quiet /\ UNCHANGED connectionVars
    BY <1>10 DEF Signal, LogVars, reportVars, phaseVars, Observed
  <1>11. ASSUME NEW shutdown \in BOOLEAN, HandleRuntimeCommands(shutdown)
         PROVE  Quiet /\ UNCHANGED connectionVars
    BY <1>11 DEF HandleRuntimeCommands, LogVars, reportVars, phaseVars, Observed
  <1>12. ASSUME NEW arrives \in BOOLEAN, PollInputs(arrives)
         PROVE  Quiet /\ UNCHANGED connectionVars
    BY <1>12 DEF PollInputs, LogVars, reportVars, phaseVars, Observed
  <1>13. ASSUME NEW v \in Vehicles, ReceiveVersion(v)
         PROVE  Quiet /\ UNCHANGED connectionVars
    BY <1>13 DEF ReceiveVersion, LogVars, reportVars, phaseVars, Observed
  <1>14. ASSUME NEW accepted \in 0 .. FrameSize, WriteFrame(accepted)
         PROVE  Quiet /\ UNCHANGED connectionVars
    BY <1>14 DEF WriteFrame, LogVars, reportVars, phaseVars, Observed
  <1>15. CASE UNCHANGED vars
    BY <1>3, <1>15 DEF vars, LogVars, reportVars, phaseVars
  <1> HIDE DEF Quiet
  <1> QED
    BY <1>3, <1>4, <1>5, <1>6, <1>7, <1>8, <1>9, <1>10, <1>11, <1>12, <1>13, <1>14, <1>15,
       Zenon DEF Next

LEMMA EverythingAlways == Spec => [](Inv /\ TypeInv /\ LogInv)
  <1>1. Init => Inv /\ TypeInv /\ LogInv
    BY InvAtFirst, TypeAtFirst, LogAtFirst
  <1>2. Inv /\ TypeInv /\ LogInv /\ [Next]_vars => (Inv /\ TypeInv /\ LogInv)'
    <2> SUFFICES ASSUME Inv, TypeInv, LogInv, [Next]_vars
                 PROVE  (Inv /\ TypeInv /\ LogInv)'
      OBVIOUS
    <2>1. Inv'
      BY NextKeepsInv
    <2>2. LogInv' /\ ReaderTyped'
      BY NextKeepsLog
    <2>3. TransportTypeOK' /\ faults' \in 0 .. MaxFaults
      BY NextKeepsTransportTyped
    <2>4. TypeInv'
      BY <2>2, <2>3, NextKeepsConnectionTyped, NextKeepsVehicleTyped, NextKeepsPhaseTyped,
         NextKeepsHeartbeatTyped, NextKeepsFrameTyped, NextKeepsControlTyped, Zenon
      DEF TypeInv
    <2> QED
      BY <2>1, <2>2, <2>4
  <1> QED
    BY <1>1, <1>2, PTL DEF Spec

\* Every variable of the event loop, its transport and its log keeps its type,
\* with what is left of a frame and the errors of the device within their bounds.
THEOREM TypeCorrect == Spec => []TypeOK
  <1>1. TypeInv => TypeOK
    BY Zenon DEF TypeInv, VehicleTyped, PhaseTyped, HeartbeatTyped, WholeFrameTyped,
       ControlTyped, ReaderTyped, TypeOK
  <1> QED
    BY <1>1, EverythingAlways, PTL

\* Whatever observe_vehicle(), observe_failsafe_phase() and JsonDiagnosticSink
\* write, a reader of the whole log never reads what contradicts it.
THEOREM LogNeverContradictsItself == Spec => []LogIsConsistent
  <1>1. LogInv => LogIsConsistent
    BY DEF LogInv, ReaderKnows, LogIsConsistent
  <1> QED
    BY <1>1, EverythingAlways, PTL

\* From observe_vehicle() to the next snapshot a reader of the log knows whether
\* the vehicle is online, what has changed since, and the failsafe phase.
THEOREM LogTellsEverything == Spec => []LogIsComplete
  <1>1. LogInv => LogIsComplete
    BY DEF LogInv, ReaderKnows, MemoryIsCurrent, Observed, LogIsComplete
  <1> QED
    BY <1>1, EverythingAlways, PTL

(***************************************************************************)
(* Stopping.  StopIsHonoured is a liveness property; what it rests on is    *)
(* that nothing undoes a stop once asked for.  No handler is installed     *)
(* before the constructor resets the flag.                                 *)
(***************************************************************************)
\* After a stop was asked for, no turn of the loop begins: where it would, the
\* program is done.
NoTurnAfterStop ==
    [][stopAsked /\ step = "commands" => step' \in {"commands", "stopped", "killed"}]_vars

StopInv ==
    /\ installed \in 0 .. 3
    /\ step \notin {"install", "killed"} => installed = 3
    /\ stopAsked => ~keepRunning /\ installed > 0

LEMMA HandlersComeAfterReset ==
    ASSUME installed = 0
    PROVE  Handled = {}
  BY DEF Handled

LEMMA InstallKeepsStop ==
    ASSUME StopInv, Install
    PROVE  StopInv'
  <1>1. CASE installed < 3
    <2>1. installed' = installed + 1 /\ UNCHANGED <<step, stopAsked>> /\ step = "install"
          /\ keepRunning' = IF InstallOrder[installed'] = "reset" THEN TRUE ELSE keepRunning
      BY <1>1 DEF Install
    <2>2. stopAsked => InstallOrder[installed'] # "reset"
      BY <1>1, <2>1 DEF StopInv, InstallOrder
    <2> QED
      BY <1>1, <2>1, <2>2 DEF StopInv
  <1>2. CASE ~(installed < 3)
    BY <1>2 DEF Install, StopInv
  <1> QED
    BY <1>1, <1>2

LEMMA SignalKeepsStop ==
    ASSUME StopInv, NEW name, Signal(name)
    PROVE  StopInv'
  <1>1. CASE name \in Handled
    <2>1. installed # 0
      BY <1>1, HandlersComeAfterReset
    <2>2. keepRunning' = FALSE /\ step' = step /\ installed' = installed
      BY <1>1, Zenon DEF Signal
    <2> QED
      BY <2>1, <2>2 DEF StopInv
  <1>2. CASE name \notin Handled
    <2>1. /\ step' = "killed" /\ Running
          /\ UNCHANGED <<installed, keepRunning, stopAsked>>
      BY <1>2, Zenon DEF Signal
    <2> QED
      BY <2>1 DEF StopInv
  <1> QED
    BY <1>1, <1>2

LEMMA CommandsKeepStop ==
    ASSUME StopInv, NEW shutdown \in BOOLEAN, HandleRuntimeCommands(shutdown)
    PROVE  StopInv' /\ (stopAsked => step' = "stopped")
  <1>0. installed' = 3
    BY DEF HandleRuntimeCommands, StopInv
  <1>1. /\ keepRunning' = (keepRunning /\ ~shutdown)
        /\ stopAsked' = (stopAsked \/ shutdown)
        /\ step' = IF keepRunning' THEN "read" ELSE "stopped"
    BY Zenon DEF HandleRuntimeCommands
  <1>2. stopAsked => ~keepRunning
    BY DEF StopInv
  <1>3. (stopAsked' => ~keepRunning') /\ (stopAsked => ~keepRunning')
    BY <1>1, <1>2, Zenon
  <1>4. step' \in {"read", "stopped"} /\ (~keepRunning' => step' = "stopped")
    BY <1>1
  <1> QED
    BY <1>0, <1>3, <1>4 DEF StopInv

LEMMA NextKeepsStop ==
    ASSUME StopInv, [Next]_vars
    PROVE  /\ StopInv'
           /\ stopAsked /\ step = "commands" => step' \in {"commands", "stopped", "killed"}
  <1>1. CASE Install
    BY <1>1, InstallKeepsStop DEF Install
  <1>2. ASSUME NEW name \in {"SIGINT", "SIGTERM"}, Signal(name)
        PROVE  StopInv' /\ step' \in {step, "killed"}
    BY <1>2, SignalKeepsStop DEF Signal
  <1>3. ASSUME NEW shutdown \in BOOLEAN, HandleRuntimeCommands(shutdown)
        PROVE  StopInv' /\ (stopAsked => step' = "stopped")
    BY <1>3, CommandsKeepStop
  <1>4. ASSUME UNCHANGED controlVars,
               step' = step \/ step \notin {"install", "commands", "killed"},
               step' # "install" \/ step = "install"
        PROVE  /\ StopInv'
               /\ stopAsked /\ step = "commands" => step' = "commands"
    BY <1>4 DEF controlVars, StopInv
  <1>5. Next => \/ Install
                \/ \E name \in {"SIGINT", "SIGTERM"} : Signal(name)
                \/ \E shutdown \in BOOLEAN : HandleRuntimeCommands(shutdown)
                \/ /\ UNCHANGED controlVars /\ (step' # "install" \/ step = "install")
                   /\ step' = step \/ step \notin {"install", "commands", "killed"}
    BY DEF Next, PollInputs, ReceiveHeartbeat, ReceiveVersion, ReceiveParameter,
       EndOfInput, UpdateVehicleConnection, SendCompanionHeartbeat, SendRequest,
       BeginFrame, NothingToRequest, WriteFrame, TransportThrows, Publish, NoSnapshotYet,
       Device, Tick
  <1>6. UNCHANGED vars => UNCHANGED <<controlVars, step>>
    BY DEF vars
  <1> QED
    BY <1>1, <1>2, <1>3, <1>4, <1>5, <1>6

\* Whenever a signal or the operator's q comes, during the constructor, a poll or
\* a write that goes on: it is not forgotten, and no poll is begun after it.
THEOREM StopIsNeverForgotten == Spec => NoTurnAfterStop
  <1>1. Init => StopInv
    BY DEF Init, StopInv
  <1>2. StopInv /\ [Next]_vars => StopInv'
    BY NextKeepsStop
  <1>3. StopInv /\ [Next]_vars =>
          [stopAsked /\ step = "commands" => step' \in {"commands", "stopped", "killed"}]_vars
    BY NextKeepsStop
  <1> QED
    BY <1>1, <1>2, <1>3, PTL DEF Spec, NoTurnAfterStop

===============================================================================
