------------------------------- MODULE Program -------------------------------
(***************************************************************************)
(* run_program(): the parts of the program are built one after the other   *)
(* from the launch.  Each may refuse it or fail, and then the parts built  *)
(* so far are destroyed in reverse order.  Two of them change the          *)
(* operator's terminal: the console hides the cursor, and the command      *)
(* source switches the input to raw, unechoed, non-blocking reads.         *)
(***************************************************************************)
EXTENDS CommandLine, Sequences

CONSTANTS
  SupportedBaud,   \* the rates the serial port can be set to
  Addresses        \* the texts that are IPv4 addresses

VARIABLES
  built,      \* how many parts were built (or found not to be wanted)
  refused,    \* the part that refused its configuration, or "none"
  terminal,   \* [cursor, raw, nonblocking]: the operator's terminal
  active      \* ConsoleInput's active_

programVars == <<built, refused, terminal, active>>
vars == <<draft, explicit, said, phase, launch, built, refused, terminal, active>>

Parts == <<"transport", "camera", "board_types", "sink", "log", "preview",
           "forward_camera", "commands">>

Terminals == [cursor : BOOLEAN, raw : BOOLEAN, nonblocking : BOOLEAN]

AsFound == [cursor |-> TRUE, raw |-> FALSE, nonblocking |-> FALSE]

Init ==
  /\ ParserInit
  /\ built = 0
  /\ refused = "none"
  /\ terminal = AsFound
  /\ active = FALSE

(***************************************************************************)
(* What each part makes of its share of the launch.                        *)
(***************************************************************************)
Wanted(part) ==
  CASE part = "camera" -> launch.camera # Absent
    [] part = "board_types" -> ~launch.json
    [] part = "log" -> launch.log # ""
    [] part = "preview" -> launch.preview # Absent
    [] part = "forward_camera" -> launch.forward # Absent
    [] part = "commands" -> launch.interactive
    [] part \in {"transport", "sink"} -> TRUE

TransportTakes(c) ==
  IF c.kind = "udp" THEN c.address \in Addresses ELSE c.baud \in SupportedBaud

RpicamTakes(c) ==
  c.width # 0 /\ c.height # 0 /\ c.fps # 0 /\ c.width % 2 = 0 /\ c.height % 2 = 0

GStreamerTakes(c) ==
  c.width # 0 /\ c.height # 0 /\ c.port # 0 /\ c.width % 8 = 0 /\ c.height % 2 = 0

CameraTakes(c) == IF c.source = "rpicam" THEN RpicamTakes(c) ELSE GStreamerTakes(c)

PreviewTakes ==
  launch.preview # 0 /\ (launch.camera # Absent \/ launch.forward # Absent)

Takes(part) ==
  CASE part = "transport" -> TransportTakes(launch.connection)
    [] part = "camera" -> CameraTakes(launch.camera)
    [] part = "preview" -> PreviewTakes
    [] part = "forward_camera" -> GStreamerTakes(launch.forward)
    [] part \in {"board_types", "sink", "log", "commands"} -> TRUE

\* What the machine may refuse: a socket or device that cannot be opened, a
\* file that cannot be found, read or opened.  (A preview that cannot listen
\* is not an error, and the cameras only start workers.)
CanFail(part) == part \in {"transport", "board_types", "log", "preview"}

(***************************************************************************)
(* The terminal.  Whether output and input are terminals is not known: a   *)
(* console may or may not hide the cursor, and the command source may find *)
(* no terminal.                                                            *)
(***************************************************************************)
\* ConsoleSnapshotSink(): a console on a live terminal hides the cursor.
WithConsole ==
  {terminal} \cup (IF launch.json THEN {} ELSE {[terminal EXCEPT !.cursor = FALSE]})

\* ConsoleInput(): raw mode first, then the non-blocking flag.
RawMode == [terminal EXCEPT !.raw = TRUE, !.nonblocking = TRUE]

\* The flag cannot be set: the mode is put back.
WithoutFlagStillRaw == [terminal EXCEPT !.raw = TRUE]

WithoutFlag == [terminal EXCEPT !.raw = FALSE]

Part == Parts[built + 1]

Starting == phase = "starting" /\ built < Len(Parts)

\* The parser and its draft are temporaries: they end with the parsing.
BeginLaunch ==
  /\ phase = "accepted"
  /\ phase' = "starting"
  /\ draft' = Default /\ explicit' = {} /\ said' = NothingSaid
  /\ UNCHANGED <<launch, programVars>>

Skip ==
  /\ Starting
  /\ ~Wanted(Part)
  /\ built' = built + 1
  /\ UNCHANGED <<parserVars, phase, launch, refused, terminal, active>>

Build ==
  /\ Starting
  /\ Wanted(Part) /\ Takes(Part)
  /\ Part # "commands"
  /\ built' = built + 1
  /\ terminal' \in IF Part = "sink" THEN WithConsole ELSE {terminal}
  /\ UNCHANGED <<parserVars, phase, launch, refused, active>>

BuildCommands ==
  /\ Starting
  /\ Wanted(Part) /\ Part = "commands"
  /\ terminal' = RawMode
  /\ active' = TRUE
  /\ built' = built + 1
  /\ UNCHANGED <<parserVars, phase, launch, refused>>

\* No live terminal, its mode cannot be read or set, or the flag cannot: the
\* input is not active, and the command source refuses to be built.
CommandsFail ==
  /\ Starting
  /\ Wanted(Part) /\ Part = "commands"
  /\ terminal' \in {terminal, WithoutFlag}
  /\ phase' = "unwinding"
  /\ UNCHANGED <<parserVars, launch, built, refused, active>>

Fail ==
  /\ Starting
  /\ Wanted(Part) /\ Takes(Part) /\ CanFail(Part)
  /\ phase' = "unwinding"
  /\ UNCHANGED <<parserVars, launch, programVars>>

RefuseLaunch ==
  /\ Starting
  /\ Wanted(Part) /\ ~Takes(Part)
  /\ refused' = Part
  /\ phase' = "unwinding"
  /\ UNCHANGED <<parserVars, launch, built, terminal, active>>

Run ==
  /\ phase = "starting"
  /\ built = Len(Parts)
  /\ phase' = "running"
  /\ UNCHANGED <<parserVars, launch, programVars>>

\* The loop returns on a signal or the quit key, or throws.
Return ==
  /\ phase = "running"
  /\ phase' = "unwinding"
  /\ UNCHANGED <<parserVars, launch, programVars>>

\* The destructor of the last part that is left.
Destroy ==
  /\ phase = "unwinding"
  /\ built > 0
  /\ built' = built - 1
  /\ terminal' = IF Wanted(Parts[built])
                   THEN CASE Parts[built] = "sink" -> [terminal EXCEPT !.cursor = TRUE]
                          [] Parts[built] = "commands" ->
                               [terminal EXCEPT !.raw = FALSE, !.nonblocking = FALSE]
                          [] OTHER -> terminal
                   ELSE terminal
  /\ active' = (active /\ Parts[built] # "commands")
  /\ UNCHANGED <<parserVars, phase, launch, refused>>

End ==
  /\ phase = "unwinding"
  /\ built = 0
  /\ phase' = "ended"
  /\ UNCHANGED <<parserVars, launch, programVars>>

Next ==
  \/ Parse /\ UNCHANGED programVars
  \/ BeginLaunch \/ Skip \/ Build \/ BuildCommands \/ CommandsFail
  \/ Fail \/ RefuseLaunch \/ Run \/ Return \/ Destroy \/ End

Spec == Init /\ [][Next]_vars

(***************************************************************************)
(* Properties.                                                             *)
(***************************************************************************)

\* A port that was read fits 16 bits, and the parser's members have their types.
TypeOK ==
  /\ \A o \in Flags : draft[o] \in BOOLEAN
  /\ \A o \in Ports : draft[o] = Absent \/ draft[o] \in 0 .. PortLimit - 1
  /\ draft["--transport"] \in {"udp", "serial"}
  /\ draft["--camera-source"] \in {"rpicam", "gstreamer"}
  /\ explicit \subseteq Options
  /\ phase \in {"parsing", "rejected", "accepted", "starting", "running",
                "unwinding", "ended"}
  /\ phase \in {"parsing", "rejected"} => launch = Absent
  /\ built \in 0 .. Len(Parts)
  /\ refused \in {"none"} \cup {Parts[i] : i \in 1 .. Len(Parts)}
  /\ terminal \in Terminals
  /\ active \in BOOLEAN

\* What validation accepts the parts accept: no constructor refuses a launch
\* for a value the command line could have refused, except in the three ways
\* that it does not check: an address that is not IPv4, a baud rate the port
\* cannot be set to, and a GStreamer width that is not a multiple of 8.
AcceptedLaunchesStart ==
  refused # "none" =>
    \/ refused = "transport" /\ launch.connection.kind = "udp"
       /\ launch.connection.address \notin Addresses
    \/ refused = "transport" /\ launch.connection.kind = "serial"
       /\ launch.connection.baud \notin SupportedBaud
    \/ refused = "camera" /\ launch.camera.source = "gstreamer"
       /\ launch.camera.width % 8 # 0
    \/ refused = "forward_camera" /\ launch.forward.width % 8 # 0

\* However the program ends, after a run or because a part could not be built,
\* the terminal is as it was: the cursor shown, the input cooked and blocking.
TerminalIsRestored == phase \in {"ended", "rejected"} => terminal = AsFound
===============================================================================
