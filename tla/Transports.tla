----------------------------- MODULE Transports -----------------------------
(***************************************************************************)
(* src/hardware/transport: the serial port and the UDP socket behind       *)
(* ports::Transport, as CompanionApplication uses them.  Neither blocks.   *)
(*                                                                         *)
(* A serial device may go away and come back under the same path; a        *)
(* descriptor opened before it went stays hung up.  A write accepts as     *)
(* many bytes as there is room for.  A datagram is accepted whole.         *)
(***************************************************************************)
EXTENDS Naturals

CONSTANTS
    ReconnectInterval,  \* reconnect_interval_, in ticks
    Peers, NoPeer,      \* those who may send datagrams; peer_length_ is 0
    FrameSize           \* writes that a frame may need

ASSUME TransportsAssumption ==
    /\ ReconnectInterval \in Nat /\ FrameSize \in Nat \ {0}
    /\ NoPeer \notin Peers

VARIABLES
    backend,     \* the class of the transport
    device,      \* the serial device is there
    descriptor,  \* file_descriptor_
    nextAttempt, \* next_reconnect_attempt_, as ticks left
    peer         \* peer_

transportVars == <<backend, device, descriptor, nextAttempt, peer>>

TransportTypeOK ==
    /\ backend \in {"serial", "udp"}
    /\ device \in BOOLEAN
    /\ descriptor \in {"closed", "live", "hung_up"}
    /\ nextAttempt \in 0 .. ReconnectInterval
    /\ peer \in Peers \cup {NoPeer}

\* The constructors throw when they cannot open the device or bind the socket.
TransportInit ==
    /\ backend \in {"serial", "udp"}
    /\ device = TRUE /\ descriptor = "live" /\ nextAttempt = 0
    /\ peer = NoPeer

(***************************************************************************)
(* PosixSerialTransport.                                                   *)
(***************************************************************************)
\* What ensure_connected() leaves in file_descriptor_; opens says whether open()
\* succeeds, if it comes to that.
AfterEnsure(opens) ==
    IF descriptor = "closed" /\ nextAttempt = 0 /\ opens THEN "live" ELSE descriptor

Disconnect == descriptor' = "closed" /\ nextAttempt' = ReconnectInterval

\* Mutant: every call puts the next attempt off, not only one that fails.
StaysClosedLonger(opens) ==
    /\ descriptor = "closed" /\ AfterEnsure(opens) = "closed"
    /\ nextAttempt' = ReconnectInterval
    /\ UNCHANGED descriptor

\* ensure_connected() returns false; the next attempt is put off if one failed.
StaysClosed(opens) ==
    /\ descriptor = "closed" /\ AfterEnsure(opens) = "closed"
    /\ nextAttempt' = IF nextAttempt = 0 THEN ReconnectInterval ELSE nextAttempt
    /\ UNCHANGED descriptor

SerialRead(arrives) ==
    \E opens \in {FALSE, device} :
        \/ ~arrives /\ StaysClosed(opens)
        \/ /\ AfterEnsure(opens) = "hung_up"        \* POLLHUP
           /\ ~arrives /\ Disconnect
        \/ /\ AfterEnsure(opens) = "live"
           /\ \/ descriptor' = "live" /\ UNCHANGED nextAttempt
              \/ ~arrives /\ Disconnect             \* POLLERR, or an error of read()

\* accepted is what write() returns: 0 when there is no room or an error.
SerialWrite(accepted) ==
    \E opens \in {FALSE, device} :
        \/ accepted = 0 /\ StaysClosed(opens)
        \/ AfterEnsure(opens) = "hung_up" /\ accepted = 0 /\ Disconnect
        \/ /\ AfterEnsure(opens) = "live"
           /\ \/ descriptor' = "live" /\ UNCHANGED nextAttempt
              \/ accepted = 0 /\ Disconnect

(***************************************************************************)
(* UdpTransport: answers go to the sender of the last datagram.            *)
(***************************************************************************)
UdpRead(arrives) ==
    IF arrives THEN peer' \in Peers ELSE UNCHANGED peer

UdpWrite(left, accepted) ==
    /\ accepted \in {0, left}
    /\ peer = NoPeer => accepted = 0

(***************************************************************************)
(* ports::Transport.                                                       *)
(***************************************************************************)
Read(arrives) ==
    \/ backend = "serial" /\ SerialRead(arrives) /\ UNCHANGED peer
    \/ backend = "udp" /\ UdpRead(arrives) /\ UNCHANGED <<descriptor, nextAttempt>>

Write(left, accepted) ==
    /\ accepted <= left
    /\ \/ backend = "serial" /\ SerialWrite(accepted)
       \/ backend = "udp" /\ UdpWrite(left, accepted)
                          /\ UNCHANGED <<descriptor, nextAttempt>>
    /\ UNCHANGED peer

\* An error of the socket that is not a matter of waiting is thrown.
Throws == backend = "udp"

(***************************************************************************)
(* The device, and time.                                                   *)
(***************************************************************************)
DeviceGoes ==
    /\ backend = "serial" /\ device
    /\ device' = FALSE
    /\ descriptor' = IF descriptor = "live" THEN "hung_up" ELSE descriptor
    /\ UNCHANGED <<backend, nextAttempt, peer>>

DeviceReturns ==
    /\ ~device /\ device' = TRUE
    /\ UNCHANGED <<backend, descriptor, nextAttempt, peer>>

TransportTick ==
    /\ nextAttempt' = IF nextAttempt > 0 THEN nextAttempt - 1 ELSE 0
    /\ UNCHANGED <<backend, device, descriptor, peer>>
==============================================================================
