----------------------------- MODULE CommandLine -----------------------------
(***************************************************************************)
(* The command line: options are read one after the other into a draft,    *)
(* which remembers which of them were given, then checked as a whole and   *)
(* turned into a launch.  An option may be given several times; the last   *)
(* value counts.                                                           *)
(***************************************************************************)
EXTENDS Integers, FiniteSets

CONSTANTS
  Words,         \* what may be written after an option that takes a value
  Default,       \* the value of every option that is not given
  Absent,        \* no value
  Malformed,     \* a text that is not a value of the option's type
  MaxOptions     \* bound on the number of different options of a command line

Flags == {"--camera", "--camera-preview", "--json", "--sitl", "--interactive"}

Ports == {"--udp-port", "--camera-udp-port", "--camera-preview-port",
          "--forward-camera-udp-port"}

Valued == Ports \cup
  {"--transport", "--udp-bind", "--serial-device", "--baud", "--camera-source",
   "--camera-width", "--camera-height", "--camera-fps", "--camera-sensor-mode",
   "--snapshot-ms", "--board-types", "--diagnostic-log", "--sim-wind"}

Options == Flags \cup Valued

\* Only these have no value of their own unless they are given.
Optional == {"--forward-camera-udp-port", "--sim-wind"}

ValuesOf(o) == Words[o] \cup {Default[o]}

\* How many values a uint16_t has.
PortLimit == 256 * 256

\* Absent is no value, no port and no camera.  A well-formed port is a number, of
\* any size, and the built-in ports fit theirs.
ASSUME CommandLineAssumption ==
  /\ DOMAIN Default = Options /\ \A o \in Flags : Default[o] = FALSE
  /\ Default["--transport"] \in {"udp", "serial"}
  /\ Default["--camera-source"] \in {"rpicam", "gstreamer"}
  /\ Absent # TRUE /\ \A o \in Valued : Absent \notin Words[o]
  /\ \A o \in Options \ Optional : Default[o] # Absent
  /\ \A o \in Optional : Default[o] = Absent
  /\ \A o \in Ports : /\ Words[o] \ {Malformed} \subseteq Nat
                       /\ Default[o] \in (0 .. PortLimit - 1) \cup {Absent}
  /\ Absent \notin [source : {"rpicam"}, fps : ValuesOf("--camera-fps"),
                    mode : ValuesOf("--camera-sensor-mode"),
                    width : ValuesOf("--camera-width"),
                    height : ValuesOf("--camera-height")]
  /\ Absent \notin [source : {"gstreamer"},
                    port : ValuesOf("--camera-udp-port")
                           \cup ValuesOf("--forward-camera-udp-port"),
                    width : ValuesOf("--camera-width"),
                    height : ValuesOf("--camera-height")]

\* Of these the parser remembers that they were given (ExplicitOptions).
ExplicitWithoutFps ==
  (Ports \ {"--forward-camera-udp-port"}) \cup
  {"--udp-bind", "--serial-device", "--baud", "--camera-source", "--camera-width",
   "--camera-height", "--camera-sensor-mode", "--diagnostic-log"}

Explicit ==
  (Ports \ {"--forward-camera-udp-port"}) \cup
  {"--udp-bind", "--serial-device", "--baud", "--camera-source", "--camera-width",
   "--camera-height", "--camera-fps", "--camera-sensor-mode", "--diagnostic-log"}

VARIABLES
  draft,      \* [Options -> value]: LaunchArgumentsDraft
  explicit,   \* the explicit options that were given
  said,       \* history: the last value given for each option, or Absent
  phase,      \* "parsing", "rejected" or "accepted", and the phases of a launch
  launch      \* the launch that was accepted, or Absent

parserVars == <<draft, explicit, said>>

NothingSaid == [o \in Options |-> Absent]

Given == {o \in Options : said[o] # Absent}

ParserInit ==
  /\ draft = Default
  /\ explicit = {}
  /\ said = NothingSaid
  /\ phase = "parsing"
  /\ launch = Absent

(***************************************************************************)
(* Reading.  Ports are 16 bits wide; a number that does not fit its type   *)
(* is refused.  A textual option takes whatever follows it, a sensor mode  *)
(* too: its form is looked at in the validation, and only there.           *)
(***************************************************************************)
ReadableAnyWidth(o, v) ==
  /\ v = Malformed => o = "--camera-sensor-mode"
  /\ o = "--transport" => v \in {"udp", "serial"}
  /\ o = "--camera-source" => v \in {"rpicam", "gstreamer"}

Readable(o, v) ==
  /\ v = Malformed => o = "--camera-sensor-mode"
  /\ o \in Ports => v < PortLimit
  /\ o = "--transport" => v \in {"udp", "serial"}
  /\ o = "--camera-source" => v \in {"rpicam", "gstreamer"}

\* An option that can be read, with its value (TRUE for a flag).
Give(o, v) ==
  /\ phase = "parsing"
  /\ Cardinality(Given \cup {o}) <= MaxOptions
  /\ Readable(o, v)
  /\ draft' = [draft EXCEPT ![o] = v]
  /\ said' = [said EXCEPT ![o] = v]
  /\ explicit' = explicit \cup ({o} \cap Explicit)
  /\ UNCHANGED <<phase, launch>>

\* The exception that ends the program; the parser is gone with it.
Reject ==
  /\ phase' = "rejected"
  /\ draft' = Default /\ explicit' = {} /\ said' = NothingSaid
  /\ UNCHANGED launch

GiveUnreadable(o, v) ==
  /\ phase = "parsing"
  /\ ~Readable(o, v)
  /\ Reject

\* An unknown or removed option, or one whose value is missing.
GiveUnknown ==
  /\ phase = "parsing"
  /\ Reject

(***************************************************************************)
(* Validation, in the groups of the code.                                  *)
(***************************************************************************)
UdpValid(d, e) ==
  /\ e \cap {"--serial-device", "--baud"} = {}
  /\ d["--udp-bind"] # ""
  /\ d["--udp-port"] # 0

SerialValid(d, e) ==
  /\ e \cap {"--udp-bind", "--udp-port"} = {}
  /\ d["--serial-device"] # ""
  /\ d["--baud"] # 0
  /\ ~d["--sitl"]

TransportValid(d, e) ==
  IF d["--transport"] = "udp" THEN UdpValid(d, e) ELSE SerialValid(d, e)

BitDepths == {8, 10, 12, 14, 16}

SensorModeValid(mode) ==
  /\ mode # Malformed
  /\ mode.width # 0 /\ mode.height # 0
  /\ mode.depth \in BitDepths
  /\ mode.packing \in {"P", "U"}

RpicamValidAnyRate(d, e) ==
  /\ SensorModeValid(d["--camera-sensor-mode"])
  /\ "--camera-udp-port" \notin e

RpicamValid(d, e) ==
  /\ SensorModeValid(d["--camera-sensor-mode"])
  /\ "--camera-udp-port" \notin e
  /\ d["--camera-fps"] # 0

GStreamerValid(d, e) ==
  /\ e \cap {"--camera-sensor-mode", "--camera-fps"} = {}
  /\ d["--camera-udp-port"] # 0

HasForward(d) == d["--forward-camera-udp-port"] # Absent

DimensionsValid(d) ==
  \A o \in {"--camera-width", "--camera-height"} : d[o] # 0 /\ d[o] % 2 = 0

ForwardValid(d) ==
  /\ d["--camera-preview"]
  /\ d["--forward-camera-udp-port"] # 0
  /\ (d["--camera"] /\ d["--camera-source"] = "gstreamer")
       => d["--forward-camera-udp-port"] # d["--camera-udp-port"]

PrimarySettings ==
  {"--camera-source", "--camera-udp-port", "--camera-fps", "--camera-sensor-mode"}

CameraValid(d, e) ==
  /\ e \cap PrimarySettings # {} => d["--camera"]
  /\ IF d["--camera"] \/ HasForward(d)
       THEN DimensionsValid(d)
       ELSE e \cap {"--camera-width", "--camera-height"} = {} /\ ~d["--camera-preview"]
  /\ d["--camera"] => IF d["--camera-source"] = "rpicam"
                        THEN RpicamValid(d, e) ELSE GStreamerValid(d, e)
  /\ "--camera-preview-port" \in e => d["--camera-preview"]
  /\ d["--camera-preview"] => d["--camera-preview-port"] # 0
  /\ HasForward(d) => ForwardValid(d)

\* The three numbers of the profile, each finite and in its range or not.
WindValid(d) ==
  LET wind == d["--sim-wind"] IN
  wind # Absent => /\ d["--sitl"]
                   /\ wind.speed /\ wind.direction /\ wind.turbulence

Valid(d, e) ==
  /\ d["--snapshot-ms"] # 0
  /\ ~(d["--interactive"] /\ d["--json"])
  /\ "--diagnostic-log" \in e => d["--diagnostic-log"] # ""
  /\ WindValid(d)
  /\ TransportValid(d, e)
  /\ CameraValid(d, e)

(***************************************************************************)
(* The launch: what each part of the program is given.                     *)
(***************************************************************************)
Connection(d) ==
  IF d["--transport"] = "udp"
    THEN [kind |-> "udp", address |-> d["--udp-bind"], port |-> d["--udp-port"]]
    ELSE [kind |-> "serial", device |-> d["--serial-device"], baud |-> d["--baud"]]

RpicamOptions(d) ==
  [source |-> "rpicam", fps |-> d["--camera-fps"], mode |-> d["--camera-sensor-mode"],
   width |-> d["--camera-width"], height |-> d["--camera-height"]]

GStreamerOptions(d, port) ==
  [source |-> "gstreamer", port |-> d[port],
   width |-> d["--camera-width"], height |-> d["--camera-height"]]

Camera(d) ==
  CASE ~d["--camera"] -> Absent
    [] d["--camera"] /\ d["--camera-source"] = "rpicam" -> RpicamOptions(d)
    [] d["--camera"] /\ d["--camera-source"] = "gstreamer" ->
         GStreamerOptions(d, "--camera-udp-port")

Forward(d) ==
  IF HasForward(d) THEN GStreamerOptions(d, "--forward-camera-udp-port") ELSE Absent

MakeLaunch(d) ==
  [simulation |-> d["--sitl"],
   connection |-> Connection(d),
   camera |-> Camera(d),
   wind |-> IF d["--sitl"] THEN d["--sim-wind"] ELSE Absent,
   interactive |-> d["--interactive"],
   json |-> d["--json"],
   interval |-> d["--snapshot-ms"],
   boardTypes |-> d["--board-types"],
   preview |-> IF d["--camera-preview"] THEN d["--camera-preview-port"] ELSE Absent,
   forward |-> Forward(d),
   log |-> d["--diagnostic-log"]]

Accept ==
  /\ phase = "parsing"
  /\ Valid(draft, explicit)
  /\ phase' = "accepted"
  /\ launch' = MakeLaunch(draft)
  /\ UNCHANGED parserVars

RejectCombination ==
  /\ phase = "parsing"
  /\ ~Valid(draft, explicit)
  /\ Reject

\* --help alone prints the help and ends the program.
Help ==
  /\ phase = "parsing"
  /\ Given = {}
  /\ phase' = "ended"
  /\ UNCHANGED <<parserVars, launch>>

Parse ==
  \/ \E o \in Flags : Give(o, TRUE)
  \/ \E o \in Valued : \E v \in Words[o] : Give(o, v)
  \/ \E o \in Valued : \E v \in Words[o] : GiveUnreadable(o, v)
  \/ GiveUnknown
  \/ RejectCombination
  \/ Accept
  \/ Help

(***************************************************************************)
(* Properties.                                                             *)
(***************************************************************************)
CameraSettings(camera, port) ==
  IF camera.source = "rpicam"
    THEN {<<"--camera-fps", camera.fps>>, <<"--camera-sensor-mode", camera.mode>>}
    ELSE {<<port, camera.port>>}

AlwaysInEffect ==
  {<<"--transport", launch.connection.kind>>,
   <<"--sitl", launch.simulation>>,
   <<"--snapshot-ms", launch.interval>>,
   <<"--interactive", launch.interactive>>,
   <<"--json", launch.json>>,
   <<"--diagnostic-log", launch.log>>,
   <<"--camera", launch.camera # Absent>>,
   <<"--camera-preview", launch.preview # Absent>>}

ConnectionInEffect ==
  IF launch.connection.kind = "udp"
    THEN {<<"--udp-bind", launch.connection.address>>,
          <<"--udp-port", launch.connection.port>>}
    ELSE {<<"--serial-device", launch.connection.device>>,
          <<"--baud", launch.connection.baud>>}

ConsoleInEffect ==
  IF launch.json THEN {} ELSE {<<"--board-types", launch.boardTypes>>}

WindInEffect ==
  IF launch.simulation THEN {<<"--sim-wind", launch.wind>>} ELSE {}

CameraInEffect ==
  IF launch.camera = Absent THEN {}
    ELSE {<<"--camera-source", launch.camera.source>>}
         \cup CameraSettings(launch.camera, "--camera-udp-port")

ForwardInEffect ==
  IF launch.forward = Absent THEN {}
    ELSE CameraSettings(launch.forward, "--forward-camera-udp-port")

PreviewInEffect ==
  IF launch.preview = Absent THEN {} ELSE {<<"--camera-preview-port", launch.preview>>}

DimensionsInEffect ==
  UNION {{<<"--camera-width", camera.width>>, <<"--camera-height", camera.height>>} :
           camera \in {launch.camera, launch.forward} \ {Absent}}

\* The settings a launch puts into effect, with their values.
InEffect ==
  AlwaysInEffect \cup ConnectionInEffect \cup ConsoleInEffect \cup WindInEffect
  \cup CameraInEffect \cup ForwardInEffect \cup PreviewInEffect
  \cup DimensionsInEffect

\* A launch does what the command line says: every setting in effect has the
\* last value given for it, or the documented default, and every option that
\* was given is in effect.  An option is never accepted and ignored, whatever
\* the others are and in whatever order they come.  (--board-types is the one
\* exception: with --json nothing is shown that could use it.)
LaunchIsWhatWasAsked ==
  phase = "accepted" =>
    /\ \A s \in InEffect :
         s[2] = (IF s[1] \in Given THEN said[s[1]] ELSE Default[s[1]])
    /\ Given \ {"--board-types"} \subseteq {s[1] : s \in InEffect}
===============================================================================
