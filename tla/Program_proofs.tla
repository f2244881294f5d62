---------------------------- MODULE Program_proofs ----------------------------
(***************************************************************************)
(* For every command line, of any length, and every way in which the parts *)
(* of the program may fail: a launch is what was asked for, the parts      *)
(* accept what the parser accepted, the terminal is given back, and every  *)
(* variable keeps its type.                                                *)
(***************************************************************************)
EXTENDS Program, TLAPS

(***************************************************************************)
(* The parser: its draft is the last value of every option, or its default. *)
(***************************************************************************)
Expected(o) == IF o \in Given THEN said[o] ELSE Default[o]

DraftTyped ==
  /\ DOMAIN draft = Options
  /\ \A o \in Flags : draft[o] \in BOOLEAN
  /\ \A o \in Valued : draft[o] \in ValuesOf(o)
  /\ draft["--transport"] \in {"udp", "serial"}
  /\ draft["--camera-source"] \in {"rpicam", "gstreamer"}
  /\ \A o \in Options \ Optional : draft[o] # Absent

DraftFollows ==
  /\ DOMAIN said = Options
  /\ \A o \in Options : draft[o] = Expected(o)
  /\ explicit = Given \cap Explicit

ParserInv == DraftTyped /\ DraftFollows

LEMMA OptionNames ==
  /\ Options = Flags \cup Valued
  /\ "--transport" \in Valued /\ "--camera-source" \in Valued
  /\ Flags \cap Optional = {} /\ Flags \cap Valued = {}
  /\ Explicit \subseteq Options /\ Optional \subseteq Valued
  BY DEF Options, Flags, Valued, Ports, Optional, Explicit

LEMMA DefaultTyped ==
  ASSUME draft = Default
  PROVE  DraftTyped
  <1>1. \A o \in Valued : Default[o] \in ValuesOf(o)
    BY DEF ValuesOf
  <1> QED
    BY <1>1, OptionNames, CommandLineAssumption DEF DraftTyped

LEMMA NothingReadYet ==
  ASSUME draft = Default, said = NothingSaid, explicit = {}
  PROVE  DraftFollows
  <1>1. Given = {}
    BY DEF Given, NothingSaid
  <1> QED
    BY <1>1 DEF DraftFollows, Expected, NothingSaid

LEMMA ParserInitially == ParserInit => ParserInv
  BY DefaultTyped, NothingReadYet DEF ParserInit, ParserInv

LEMMA ResetKeepsParserInv ==
  ASSUME draft' = Default, explicit' = {}, said' = NothingSaid
  PROVE  ParserInv'
  <1>1. DraftTyped'
    <2>1. \A o \in Valued : Default[o] \in ValuesOf(o)
      BY DEF ValuesOf
    <2> QED
      BY <2>1, OptionNames, CommandLineAssumption DEF DraftTyped
  <1>2. DraftFollows'
    <2>1. Given' = {}
      BY DEF Given, NothingSaid
    <2> QED
      BY <2>1 DEF DraftFollows, Expected, NothingSaid
  <1> QED
    BY <1>1, <1>2 DEF ParserInv

LEMMA GiveKeepsParserInv ==
  ASSUME ParserInv, NEW o \in Options, NEW v, Give(o, v),
         o \in Flags => v = TRUE, o \in Valued => v \in Words[o]
  PROVE  ParserInv'
  <1>1. /\ Readable(o, v) /\ draft' = [draft EXCEPT ![o] = v]
        /\ said' = [said EXCEPT ![o] = v]
        /\ explicit' = explicit \cup ({o} \cap Explicit)
    BY DEF Give
  <1>2. v # Absent
    BY OptionNames, CommandLineAssumption
  <1>3. DOMAIN draft = Options /\ DOMAIN said = Options
    BY DEF ParserInv, DraftTyped, DraftFollows
  <1>4. /\ \A p \in Options : draft'[p] = IF p = o THEN v ELSE draft[p]
        /\ \A p \in Options : said'[p] = IF p = o THEN v ELSE said[p]
        /\ DOMAIN draft' = Options /\ DOMAIN said' = Options
    BY <1>1, <1>3
  <1>5. Given' = Given \cup {o}
    BY <1>2, <1>4 DEF Given
  <1>6. DraftTyped'
    <2>1. \A p \in Flags : draft'[p] \in BOOLEAN
      BY <1>4, OptionNames DEF ParserInv, DraftTyped
    <2>2. \A p \in Valued : draft'[p] \in ValuesOf(p)
      BY <1>4, OptionNames DEF ParserInv, DraftTyped, ValuesOf
    <2>3. draft'["--transport"] \in {"udp", "serial"}
      BY <1>1, <1>4, OptionNames DEF ParserInv, DraftTyped, Readable
    <2>4. draft'["--camera-source"] \in {"rpicam", "gstreamer"}
      BY <1>1, <1>4, OptionNames DEF ParserInv, DraftTyped, Readable
    <2>5. \A p \in Options \ Optional : draft'[p] # Absent
      BY <1>2, <1>4 DEF ParserInv, DraftTyped
    <2> QED
      BY <1>4, <2>1, <2>2, <2>3, <2>4, <2>5 DEF DraftTyped
  <1>7. DraftFollows'
    <2>1. \A p \in Options : draft'[p] = Expected(p)'
      BY <1>4, <1>5 DEF ParserInv, DraftFollows, Expected
    <2>2. explicit' = Given' \cap Explicit
      BY <1>1, <1>5 DEF ParserInv, DraftFollows
    <2> QED
      BY <1>4, <2>1, <2>2 DEF DraftFollows
  <1> QED
    BY <1>6, <1>7 DEF ParserInv

LEMMA SameDraft ==
  ASSUME ParserInv, UNCHANGED parserVars
  PROVE  ParserInv'
  BY DEF ParserInv, DraftTyped, DraftFollows, Expected, Given, parserVars

LEMMA ParserStep == ParserInv /\ [Next]_vars => ParserInv'
  <1> SUFFICES ASSUME ParserInv, [Next]_vars
               PROVE  ParserInv'
    OBVIOUS
  <1>1. ASSUME Parse
        PROVE  ParserInv'
    <2>1. \A o \in Flags : Give(o, TRUE) => ParserInv'
      BY GiveKeepsParserInv, OptionNames
    <2>2. \A o \in Valued : \A v \in Words[o] : Give(o, v) => ParserInv'
      BY GiveKeepsParserInv, OptionNames
    <2>3. Reject => ParserInv'
      BY ResetKeepsParserInv DEF Reject
    <2>4. \A o, v : GiveUnreadable(o, v) => Reject
      BY DEF GiveUnreadable
    <2>5. GiveUnknown \/ RejectCombination => Reject
      BY DEF GiveUnknown, RejectCombination
    <2>6. Accept \/ Help => ParserInv'
      BY SameDraft DEF Accept, Help
    <2> QED
      BY <1>1, <2>1, <2>2, <2>3, <2>4, <2>5, <2>6 DEF Parse
  <1>2. BeginLaunch => ParserInv'
    BY ResetKeepsParserInv DEF BeginLaunch
  <1>3. UNCHANGED vars => UNCHANGED parserVars
    BY DEF vars, parserVars
  <1>4. Skip \/ Build \/ BuildCommands \/ CommandsFail \/ Fail \/ RefuseLaunch
          \/ Run \/ Return \/ Destroy \/ End => UNCHANGED parserVars
    BY DEF Skip, Build, BuildCommands, CommandsFail, Fail, RefuseLaunch, Run,
           Return, Destroy, End
  <1> QED
    BY <1>1, <1>2, <1>3, <1>4, SameDraft DEF Next

(***************************************************************************)
(* What is in a launch, part by part.                                      *)
(***************************************************************************)
LaunchMade == launch = MakeLaunch(draft) /\ Valid(draft, explicit)

LEMMA LaunchFields ==
  ASSUME LaunchMade
  PROVE  /\ launch.simulation = draft["--sitl"]
         /\ launch.connection = Connection(draft)
         /\ launch.camera = Camera(draft)
         /\ launch.wind = IF draft["--sitl"] THEN draft["--sim-wind"] ELSE Absent
         /\ launch.interactive = draft["--interactive"]
         /\ launch.json = draft["--json"]
         /\ launch.interval = draft["--snapshot-ms"]
         /\ launch.boardTypes = draft["--board-types"]
         /\ launch.preview = IF draft["--camera-preview"]
                             THEN draft["--camera-preview-port"] ELSE Absent
         /\ launch.forward = Forward(draft)
         /\ launch.log = draft["--diagnostic-log"]
  BY DEF LaunchMade, MakeLaunch

LEMMA ConnectionFields ==
  ASSUME LaunchMade, ParserInv
  PROVE  /\ launch.connection.kind = draft["--transport"]
         /\ draft["--transport"] = "udp" =>
              /\ launch.connection.address = draft["--udp-bind"]
              /\ launch.connection.port = draft["--udp-port"]
         /\ draft["--transport"] # "udp" =>
              /\ launch.connection.device = draft["--serial-device"]
              /\ launch.connection.baud = draft["--baud"]
  BY LaunchFields DEF Connection, ParserInv, DraftTyped

LEMMA DraftValues ==
  ASSUME ParserInv
  PROVE  /\ draft["--camera"] \in BOOLEAN /\ draft["--camera-preview"] \in BOOLEAN
         /\ draft["--sitl"] \in BOOLEAN /\ draft["--json"] \in BOOLEAN
         /\ draft["--camera-fps"] \in ValuesOf("--camera-fps")
         /\ draft["--camera-sensor-mode"] \in ValuesOf("--camera-sensor-mode")
         /\ draft["--camera-width"] \in ValuesOf("--camera-width")
         /\ draft["--camera-height"] \in ValuesOf("--camera-height")
         /\ draft["--camera-udp-port"] \in ValuesOf("--camera-udp-port")
         /\ draft["--forward-camera-udp-port"] \in ValuesOf("--forward-camera-udp-port")
         /\ draft["--camera-preview-port"] # Absent
         /\ draft["--camera-source"] \in {"rpicam", "gstreamer"}
  BY DEF ParserInv, DraftTyped, Flags, Valued, Ports, Options, Optional

LEMMA CamerasAreThere ==
  ASSUME ParserInv
  PROVE  /\ RpicamOptions(draft) # Absent
         /\ GStreamerOptions(draft, "--camera-udp-port") # Absent
         /\ GStreamerOptions(draft, "--forward-camera-udp-port") # Absent
  <1>1. RpicamOptions(draft) # Absent
    <2>1. RpicamOptions(draft) \in [source : {"rpicam"}, fps : ValuesOf("--camera-fps"),
                    mode : ValuesOf("--camera-sensor-mode"),
                    width : ValuesOf("--camera-width"),
                    height : ValuesOf("--camera-height")]
      BY DraftValues DEF RpicamOptions
    <2> QED
      BY <2>1, CommandLineAssumption
  <1>2. ASSUME NEW port \in {"--camera-udp-port", "--forward-camera-udp-port"}
        PROVE  GStreamerOptions(draft, port) # Absent
    <2>1. GStreamerOptions(draft, port)
            \in [source : {"gstreamer"},
                 port : ValuesOf("--camera-udp-port")
                        \cup ValuesOf("--forward-camera-udp-port"),
                 width : ValuesOf("--camera-width"),
                 height : ValuesOf("--camera-height")]
      BY DraftValues DEF GStreamerOptions
    <2> QED
      BY <2>1, CommandLineAssumption
  <1> QED
    BY <1>1, <1>2

LEMMA CameraFields ==
  ASSUME LaunchMade, ParserInv
  PROVE  /\ (launch.camera # Absent) = draft["--camera"]
         /\ draft["--camera"] =>
              /\ launch.camera.source = draft["--camera-source"]
              /\ launch.camera.width = draft["--camera-width"]
              /\ launch.camera.height = draft["--camera-height"]
              /\ draft["--camera-source"] = "rpicam" =>
                   /\ launch.camera.fps = draft["--camera-fps"]
                   /\ launch.camera.mode = draft["--camera-sensor-mode"]
              /\ draft["--camera-source"] = "gstreamer" =>
                   launch.camera.port = draft["--camera-udp-port"]
  <1>1. CASE ~draft["--camera"]
    BY <1>1, LaunchFields, DraftValues DEF Camera
  <1>2. CASE draft["--camera"] /\ draft["--camera-source"] = "rpicam"
    <2>1. launch.camera = RpicamOptions(draft)
      BY <1>2, LaunchFields, DraftValues DEF Camera
    <2>2. draft["--camera"] = TRUE /\ (launch.camera # Absent) = TRUE
      BY <1>2, <2>1, CamerasAreThere, DraftValues
    <2>3. /\ launch.camera.source = "rpicam"
          /\ launch.camera.width = draft["--camera-width"]
          /\ launch.camera.height = draft["--camera-height"]
          /\ launch.camera.fps = draft["--camera-fps"]
          /\ launch.camera.mode = draft["--camera-sensor-mode"]
      BY <2>1 DEF RpicamOptions
    <2> QED
      BY <1>2, <2>2, <2>3
  <1>3. CASE draft["--camera"] /\ draft["--camera-source"] = "gstreamer"
    <2>1. launch.camera = GStreamerOptions(draft, "--camera-udp-port")
      BY <1>3, LaunchFields, DraftValues DEF Camera
    <2>2. draft["--camera"] = TRUE /\ (launch.camera # Absent) = TRUE
      BY <1>3, <2>1, CamerasAreThere, DraftValues
    <2>3. /\ launch.camera.source = "gstreamer"
          /\ launch.camera.width = draft["--camera-width"]
          /\ launch.camera.height = draft["--camera-height"]
          /\ launch.camera.port = draft["--camera-udp-port"]
      BY <2>1 DEF GStreamerOptions
    <2> QED
      BY <1>3, <2>2, <2>3
  <1> QED
    BY <1>1, <1>2, <1>3, DraftValues

LEMMA ForwardFields ==
  ASSUME LaunchMade, ParserInv
  PROVE  /\ launch.forward # Absent <=> HasForward(draft)
         /\ HasForward(draft) =>
              /\ launch.forward.source = "gstreamer"
              /\ launch.forward.width = draft["--camera-width"]
              /\ launch.forward.height = draft["--camera-height"]
              /\ launch.forward.port = draft["--forward-camera-udp-port"]
  BY LaunchFields, CamerasAreThere DEF Forward, GStreamerOptions

LEMMA PreviewField ==
  ASSUME LaunchMade, ParserInv
  PROVE  /\ (launch.preview # Absent) = draft["--camera-preview"]
         /\ draft["--camera-preview"] => launch.preview = draft["--camera-preview-port"]
  BY LaunchFields, DraftValues

(***************************************************************************)
(* Every setting in effect is the draft's, and every option that was given *)
(* is in effect.                                                           *)
(***************************************************************************)
FromDraft(settings) ==
  \A s \in settings : s[1] \in Options /\ s[2] = draft[s[1]]

LEMMA EffectIsTheDrafts ==
  ASSUME LaunchMade, ParserInv
  PROVE  FromDraft(InEffect)
  <1> USE DEF FromDraft, Options, Flags, Valued, Ports
  <1>1. FromDraft(AlwaysInEffect)
    BY LaunchFields, ConnectionFields, CameraFields, PreviewField DEF AlwaysInEffect
  <1>2. FromDraft(ConnectionInEffect)
    BY ConnectionFields DEF ConnectionInEffect
  <1>3. FromDraft(ConsoleInEffect)
    BY LaunchFields DEF ConsoleInEffect
  <1>4. FromDraft(WindInEffect)
    BY LaunchFields DEF WindInEffect
  <1>5. FromDraft(CameraInEffect)
    BY CameraFields, DraftValues DEF CameraInEffect, CameraSettings
  <1>6. FromDraft(ForwardInEffect)
    BY ForwardFields DEF ForwardInEffect, CameraSettings
  <1>7. FromDraft(PreviewInEffect)
    BY PreviewField, DraftValues DEF PreviewInEffect
  <1>8. FromDraft(DimensionsInEffect)
    <2>1. ASSUME NEW camera \in {launch.camera, launch.forward} \ {Absent}
          PROVE  /\ camera.width = draft["--camera-width"]
                 /\ camera.height = draft["--camera-height"]
      <3>1. CASE camera = launch.camera
        <4>1. (launch.camera # Absent) = TRUE
          BY <3>1
        <4> QED
          BY <3>1, <4>1, CameraFields, DraftValues
      <3>2. CASE camera = launch.forward
        BY <3>2, ForwardFields
      <3> QED
        BY <3>1, <3>2
    <2> QED
      BY <2>1 DEF DimensionsInEffect
  <1> QED
    BY <1>1, <1>2, <1>3, <1>4, <1>5, <1>6, <1>7, <1>8 DEF InEffect

Named(settings) == {s[1] : s \in settings}

LEMMA NamesInEffect ==
  ASSUME LaunchMade, ParserInv
  PROVE  /\ {"--transport", "--sitl", "--snapshot-ms", "--interactive", "--json",
             "--diagnostic-log", "--camera", "--camera-preview"} \subseteq Named(InEffect)
         /\ draft["--transport"] = "udp" =>
              {"--udp-bind", "--udp-port"} \subseteq Named(InEffect)
         /\ draft["--transport"] # "udp" =>
              {"--serial-device", "--baud"} \subseteq Named(InEffect)
         /\ draft["--sitl"] => "--sim-wind" \in Named(InEffect)
         /\ draft["--camera-preview"] => "--camera-preview-port" \in Named(InEffect)
         /\ HasForward(draft) => "--forward-camera-udp-port" \in Named(InEffect)
         /\ draft["--camera"] \/ HasForward(draft) =>
              {"--camera-width", "--camera-height"} \subseteq Named(InEffect)
         /\ draft["--camera"] => "--camera-source" \in Named(InEffect)
         /\ draft["--camera"] /\ draft["--camera-source"] = "rpicam" =>
              {"--camera-fps", "--camera-sensor-mode"} \subseteq Named(InEffect)
         /\ draft["--camera"] /\ draft["--camera-source"] = "gstreamer" =>
              "--camera-udp-port" \in Named(InEffect)
  <1>0. \A settings, name, value :
          <<name, value>> \in settings /\ settings \subseteq InEffect
            => name \in Named(InEffect)
    BY DEF Named
  <1>1. /\ AlwaysInEffect \subseteq InEffect /\ ConnectionInEffect \subseteq InEffect
        /\ WindInEffect \subseteq InEffect /\ CameraInEffect \subseteq InEffect
        /\ ForwardInEffect \subseteq InEffect /\ PreviewInEffect \subseteq InEffect
        /\ DimensionsInEffect \subseteq InEffect
    BY DEF InEffect
  <1>2. {"--transport", "--sitl", "--snapshot-ms", "--interactive", "--json",
         "--diagnostic-log", "--camera", "--camera-preview"} \subseteq Named(InEffect)
    BY <1>0, <1>1 DEF AlwaysInEffect
  <1>3. /\ draft["--transport"] = "udp" =>
             {"--udp-bind", "--udp-port"} \subseteq Named(InEffect)
        /\ draft["--transport"] # "udp" =>
             {"--serial-device", "--baud"} \subseteq Named(InEffect)
    BY <1>0, <1>1, ConnectionFields DEF ConnectionInEffect
  <1>4. draft["--sitl"] => "--sim-wind" \in Named(InEffect)
    BY <1>0, <1>1, LaunchFields DEF WindInEffect
  <1>5. draft["--camera-preview"] => "--camera-preview-port" \in Named(InEffect)
    BY <1>0, <1>1, PreviewField DEF PreviewInEffect
  <1>6. HasForward(draft) => "--forward-camera-udp-port" \in Named(InEffect)
    BY <1>0, <1>1, ForwardFields DEF ForwardInEffect, CameraSettings
  <1>7. draft["--camera"] \/ HasForward(draft) =>
          {"--camera-width", "--camera-height"} \subseteq Named(InEffect)
    <2>1. ASSUME NEW camera \in {launch.camera, launch.forward} \ {Absent}
          PROVE  {"--camera-width", "--camera-height"} \subseteq Named(InEffect)
      <3>1. /\ <<"--camera-width", camera.width>> \in DimensionsInEffect
            /\ <<"--camera-height", camera.height>> \in DimensionsInEffect
        BY DEF DimensionsInEffect
      <3> QED
        BY <1>0, <1>1, <3>1
    <2> QED
      BY <2>1, CameraFields, ForwardFields
  <1>8. draft["--camera"] => "--camera-source" \in Named(InEffect)
    BY <1>0, <1>1, CameraFields DEF CameraInEffect
  <1>9. draft["--camera"] /\ draft["--camera-source"] = "rpicam" =>
          {"--camera-fps", "--camera-sensor-mode"} \subseteq Named(InEffect)
    BY <1>0, <1>1, CameraFields DEF CameraInEffect, CameraSettings
  <1>10. draft["--camera"] /\ draft["--camera-source"] = "gstreamer" =>
           "--camera-udp-port" \in Named(InEffect)
    BY <1>0, <1>1, CameraFields DEF CameraInEffect, CameraSettings
  <1> QED
    BY <1>2, <1>3, <1>4, <1>5, <1>6, <1>7, <1>8, <1>9, <1>10

LEMMA GivenIsInEffect ==
  ASSUME LaunchMade, ParserInv, NEW o \in Given \ {"--board-types"}
  PROVE  o \in Named(InEffect)
  <1>1. o \in Explicit => o \in explicit
    BY DEF ParserInv, DraftFollows
  <1>2. draft[o] # Absent /\ o \in Options
    BY DEF ParserInv, DraftFollows, Expected, Given
  <1>3. TransportValid(draft, explicit) /\ CameraValid(draft, explicit) /\ WindValid(draft)
    BY DEF LaunchMade, Valid
  <1>4. CASE o \in {"--udp-bind", "--udp-port", "--serial-device", "--baud"}
    BY <1>1, <1>3, <1>4, NamesInEffect
       DEF Explicit, Ports, TransportValid, UdpValid, SerialValid
  <1>5. CASE o = "--sim-wind"
    BY <1>2, <1>3, <1>5, NamesInEffect DEF WindValid
  <1>6. CASE o \in {"--camera-preview-port", "--camera-width", "--camera-height",
                    "--camera-source"}
    BY <1>1, <1>3, <1>6, NamesInEffect DEF Explicit, Ports, CameraValid, PrimarySettings
  <1>7. CASE o \in {"--camera-fps", "--camera-sensor-mode", "--camera-udp-port"}
    BY <1>1, <1>3, <1>7, NamesInEffect, DraftValues
       DEF Explicit, Ports, CameraValid, PrimarySettings, RpicamValid, GStreamerValid
  <1>8. CASE o = "--forward-camera-udp-port"
    BY <1>2, <1>8, NamesInEffect DEF HasForward
  <1>9. CASE o \in Flags \cup {"--transport", "--snapshot-ms", "--diagnostic-log"}
    BY <1>9, NamesInEffect DEF Flags
  <1> QED
    BY <1>2, <1>4, <1>5, <1>6, <1>7, <1>8, <1>9 DEF Options, Valued, Ports

LaunchInv == ParserInv /\ (phase = "accepted" => LaunchMade)

LEMMA LaunchStep == LaunchInv /\ [Next]_vars => LaunchInv'
  <1> SUFFICES ASSUME LaunchInv, [Next]_vars, phase' = "accepted"
               PROVE  LaunchMade'
    BY ParserStep DEF LaunchInv
  <1>1. ASSUME Parse
        PROVE  Accept
    BY <1>1 DEF Parse, Give, GiveUnreadable, GiveUnknown, RejectCombination, Reject, Help
  <1>2. ASSUME Accept
        PROVE  LaunchMade'
    BY <1>2 DEF Accept, parserVars, LaunchMade
  <1>3. UNCHANGED vars => LaunchMade'
    BY DEF vars, LaunchInv, LaunchMade
  <1>4. ~(BeginLaunch \/ CommandsFail \/ Fail \/ RefuseLaunch \/ Run \/ Return \/ End)
    BY DEF BeginLaunch, CommandsFail, Fail, RefuseLaunch, Run, Return, End
  <1>5. ~(Skip \/ Build \/ BuildCommands \/ Destroy)
    BY DEF Skip, Build, BuildCommands, Starting, Destroy
  <1> QED
    BY <1>1, <1>2, <1>3, <1>4, <1>5 DEF Next

\* An accepted command line does what it says, with all of its options and
\* nothing but them, for every order, repetition and number of options.
THEOREM NoOptionIsIgnored == Spec => []LaunchIsWhatWasAsked
  <1>1. Init => LaunchInv
    BY ParserInitially DEF Init, ParserInit, LaunchInv
  <1>2. LaunchInv => LaunchIsWhatWasAsked
    <2> SUFFICES ASSUME LaunchInv, phase = "accepted"
                 PROVE  /\ \A s \in InEffect :
                             s[2] = (IF s[1] \in Given THEN said[s[1]] ELSE Default[s[1]])
                        /\ Given \ {"--board-types"} \subseteq {s[1] : s \in InEffect}
      BY DEF LaunchIsWhatWasAsked
    <2>1. ParserInv /\ LaunchMade
      BY DEF LaunchInv
    <2>2. \A s \in InEffect : s[2] = Expected(s[1])
      BY <2>1, EffectIsTheDrafts DEF FromDraft, ParserInv, DraftFollows
    <2>3. Given \ {"--board-types"} \subseteq Named(InEffect)
      BY <2>1, GivenIsInEffect
    <2> QED
      BY <2>2, <2>3 DEF Expected, Named
  <1> QED
    BY <1>1, <1>2, LaunchStep, PTL DEF Spec

(***************************************************************************)
(* What the parts need of a launch, the parser has seen to.                *)
(***************************************************************************)
DimensionsSound(camera) ==
  camera.width # 0 /\ camera.height # 0 /\ camera.width % 2 = 0 /\ camera.height % 2 = 0

SoundLaunch ==
  /\ launch.connection.kind \in {"udp", "serial"}
  /\ launch.camera # Absent =>
       /\ launch.camera.source \in {"rpicam", "gstreamer"}
       /\ DimensionsSound(launch.camera)
       /\ launch.camera.source = "rpicam" => launch.camera.fps # 0
       /\ launch.camera.source = "gstreamer" => launch.camera.port # 0
  /\ launch.forward # Absent =>
       DimensionsSound(launch.forward) /\ launch.forward.port # 0
  /\ launch.preview # Absent =>
       launch.preview # 0 /\ (launch.camera # Absent \/ launch.forward # Absent)

LEMMA AcceptedIsSound ==
  ASSUME ParserInv, LaunchMade
  PROVE  SoundLaunch
  <1>1. CameraValid(draft, explicit)
    BY DEF LaunchMade, Valid
  <1>2. launch.connection.kind \in {"udp", "serial"}
    BY ConnectionFields DEF ParserInv, DraftTyped
  <1>3. (launch.camera # Absent) = draft["--camera"]
    BY CameraFields
  <1>4. ASSUME launch.camera # Absent
        PROVE  /\ launch.camera.source \in {"rpicam", "gstreamer"}
               /\ DimensionsSound(launch.camera)
               /\ launch.camera.source = "rpicam" => launch.camera.fps # 0
               /\ launch.camera.source = "gstreamer" => launch.camera.port # 0
    <2>1. draft["--camera"] = TRUE
      BY <1>3, <1>4, DraftValues
    <2>2. DimensionsValid(draft)
      BY <1>1, <2>1 DEF CameraValid
    <2>3. DimensionsSound(launch.camera)
      BY <2>1, <2>2, CameraFields DEF DimensionsValid, DimensionsSound
    <2>4. draft["--camera-source"] = "rpicam" => draft["--camera-fps"] # 0
      BY <1>1, <2>1 DEF CameraValid, RpicamValid
    <2>5. draft["--camera-source"] = "gstreamer" => draft["--camera-udp-port"] # 0
      BY <1>1, <2>1 DEF CameraValid, GStreamerValid
    <2> QED
      BY <2>1, <2>3, <2>4, <2>5, CameraFields, DraftValues
  <1>5. ASSUME launch.forward # Absent
        PROVE  DimensionsSound(launch.forward) /\ launch.forward.port # 0
    <2>1. HasForward(draft) /\ DimensionsValid(draft) /\ ForwardValid(draft)
      BY <1>1, <1>5, ForwardFields DEF CameraValid
    <2> QED
      BY <2>1, ForwardFields DEF DimensionsValid, DimensionsSound, ForwardValid
  <1>6. ASSUME launch.preview # Absent
        PROVE  launch.preview # 0 /\ (launch.camera # Absent \/ launch.forward # Absent)
    <2>1. draft["--camera-preview"] = TRUE
      BY <1>6, PreviewField, DraftValues
    <2>2. draft["--camera-preview-port"] # 0 /\ (draft["--camera"] \/ HasForward(draft))
      BY <1>1, <2>1 DEF CameraValid
    <2>3. draft["--camera"] => launch.camera # Absent
      BY <1>3, DraftValues
    <2> QED
      BY <2>1, <2>2, <2>3, PreviewField, ForwardFields
  <1> QED
    BY <1>2, <1>4, <1>5, <1>6 DEF SoundLaunch

StartInv ==
  /\ LaunchInv
  /\ built \in 0 .. 8
  /\ phase \in {"parsing", "accepted"} => refused = "none"
  /\ phase \in {"accepted", "starting"} => SoundLaunch
  /\ AcceptedLaunchesStart

LEMMA PartsInOrder ==
  /\ Len(Parts) = 8
  /\ \A i \in 1 .. 8 : Parts[i] \in {"transport", "camera", "board_types", "sink", "log",
                                     "preview", "forward_camera", "commands"}
  /\ \A i \in 1 .. 8 : Parts[i] = "sink" <=> i = 4
  /\ \A i \in 1 .. 8 : Parts[i] = "commands" <=> i = 8
  <1> DEFINE names == <<"transport", "camera", "board_types", "sink", "log", "preview",
                        "forward_camera", "commands">>
  <1>1. /\ Len(names) = 8
        /\ names[1] = "transport" /\ names[2] = "camera" /\ names[3] = "board_types"
        /\ names[4] = "sink" /\ names[5] = "log" /\ names[6] = "preview"
        /\ names[7] = "forward_camera" /\ names[8] = "commands"
    OBVIOUS
  <1>2. Parts = names
    BY DEF Parts
  <1> HIDE DEF names
  <1>3. \A i \in 1 .. 8 : i = 1 \/ i = 2 \/ i = 3 \/ i = 4 \/ i = 5 \/ i = 6 \/ i = 7 \/ i = 8
    OBVIOUS
  <1>4. ASSUME NEW i \in 1 .. 8
        PROVE  /\ names[i] \in {"transport", "camera", "board_types", "sink", "log",
                                "preview", "forward_camera", "commands"}
               /\ names[i] = "sink" <=> i = 4
               /\ names[i] = "commands" <=> i = 8
    BY <1>1, <1>3
  <1> QED
    BY <1>1, <1>2, <1>4

LEMMA NextPart ==
  ASSUME built \in 0 .. 8, Starting
  PROVE  /\ built + 1 \in 1 .. 8
         /\ Part \in {"transport", "camera", "board_types", "sink", "log", "preview",
                      "forward_camera", "commands"}
         /\ Part = "sink" <=> built = 3
         /\ Part = "commands" <=> built = 7
  <1>1. built + 1 \in 1 .. 8
    BY PartsInOrder DEF Starting
  <1>2. PICK i \in 1 .. 8 : i = built + 1
    BY <1>1
  <1>3. Part = Parts[i]
    BY <1>2 DEF Part
  <1> QED
    BY <1>1, <1>2, <1>3, PartsInOrder

LEMMA LastPart ==
  ASSUME built \in 0 .. 8, built > 0
  PROVE  /\ Parts[built] = "sink" <=> built = 4
         /\ Parts[built] = "commands" <=> built = 8
  BY PartsInOrder

LEMMA OnlyThreeReasons ==
  ASSUME SoundLaunch, built \in 0 .. 8, RefuseLaunch
  PROVE  AcceptedLaunchesStart'
  <1>1. Wanted(Part) /\ ~Takes(Part) /\ refused' = Part /\ launch' = launch
    BY DEF RefuseLaunch
  <1>2. CASE Part = "transport"
    <2>1. ~TransportTakes(launch.connection)
      BY <1>1, <1>2 DEF Takes
    <2> QED
      BY <1>1, <1>2, <2>1 DEF TransportTakes, SoundLaunch, AcceptedLaunchesStart
  <1>3. CASE Part = "camera"
    <2>1. launch.camera # Absent /\ ~CameraTakes(launch.camera)
      BY <1>1, <1>3 DEF Wanted, Takes
    <2> QED
      BY <1>1, <1>3, <2>1 DEF CameraTakes, RpicamTakes, GStreamerTakes,
                              SoundLaunch, DimensionsSound, AcceptedLaunchesStart
  <1>4. CASE Part = "preview"
    <2>1. launch.preview # Absent /\ ~PreviewTakes
      BY <1>1, <1>4 DEF Wanted, Takes
    <2> QED
      BY <2>1 DEF PreviewTakes, SoundLaunch
  <1>5. CASE Part = "forward_camera"
    <2>1. launch.forward # Absent /\ ~GStreamerTakes(launch.forward)
      BY <1>1, <1>5 DEF Wanted, Takes
    <2> QED
      BY <1>1, <1>5, <2>1 DEF GStreamerTakes, SoundLaunch, DimensionsSound,
                              AcceptedLaunchesStart
  <1>6. CASE Part \in {"board_types", "sink", "log", "commands"}
    BY <1>1, <1>6 DEF Takes
  <1>7. Part \in {"transport", "camera", "board_types", "sink", "log", "preview",
                  "forward_camera", "commands"}
    BY NextPart DEF RefuseLaunch
  <1> QED
    BY <1>2, <1>3, <1>4, <1>5, <1>6, <1>7

LEMMA StartStep == StartInv /\ [Next]_vars => StartInv'
  <1> SUFFICES ASSUME StartInv, [Next]_vars
               PROVE  StartInv'
    OBVIOUS
  <1>0. LaunchInv'
    BY LaunchStep DEF StartInv
  <1>1. CASE Parse /\ UNCHANGED programVars
    <2>1. built' \in 0 .. 8 /\ refused' = refused
      BY <1>1 DEF StartInv, programVars
    <2>2. phase = "parsing" /\ phase' \in {"parsing", "rejected", "accepted", "ended"}
      BY <1>1 DEF Parse, Give, GiveUnreadable, GiveUnknown, RejectCombination, Reject,
                  Accept, Help
    <2>3. refused = "none"
      BY <2>2 DEF StartInv
    <2>4. ASSUME phase' = "accepted"
          PROVE  SoundLaunch'
      <3>1. (ParserInv /\ LaunchMade => SoundLaunch)'
        BY AcceptedIsSound, PTL
      <3> QED
        BY <1>0, <2>4, <3>1 DEF LaunchInv
    <2> QED
      BY <1>0, <2>1, <2>2, <2>3, <2>4 DEF StartInv, AcceptedLaunchesStart
  <1>2. CASE RefuseLaunch
    <2>1. AcceptedLaunchesStart'
      BY <1>2, OnlyThreeReasons DEF RefuseLaunch, Starting, StartInv
    <2> QED
      BY <1>0, <1>2, <2>1 DEF RefuseLaunch, StartInv
  <1>3. CASE BeginLaunch \/ Run
    BY <1>0, <1>3 DEF BeginLaunch, Run, programVars, StartInv, SoundLaunch,
                      AcceptedLaunchesStart
  <1>4. CASE Skip \/ Build \/ BuildCommands
    <2>1. Starting /\ built' = built + 1 /\ UNCHANGED <<phase, launch, refused>>
      BY <1>4 DEF Skip, Build, BuildCommands
    <2>2. built' \in 0 .. 8 /\ phase = "starting"
      BY <2>1, NextPart DEF StartInv, Starting
    <2> QED
      BY <1>0, <2>1, <2>2 DEF StartInv, SoundLaunch, AcceptedLaunchesStart
  <1>5. CASE CommandsFail \/ Fail \/ Return
    BY <1>0, <1>5 DEF CommandsFail, Fail, Return, programVars, StartInv,
                      AcceptedLaunchesStart
  <1>6. CASE Destroy \/ End
    <2>1. /\ built' \in 0 .. 8 /\ UNCHANGED <<launch, refused>>
          /\ phase' \in {"unwinding", "ended"}
      BY <1>6 DEF Destroy, End, programVars, StartInv
    <2> QED
      BY <1>0, <2>1 DEF StartInv, AcceptedLaunchesStart
  <1>7. CASE UNCHANGED vars
    BY <1>0, <1>7 DEF vars, StartInv, SoundLaunch, AcceptedLaunchesStart
  <1> QED
    BY <1>1, <1>2, <1>3, <1>4, <1>5, <1>6, <1>7 DEF Next

\* Whatever command line is accepted, no part refuses its share of it, but for
\* an address, a baud rate or a GStreamer width that the parser does not check.
THEOREM PartsAgreeWithTheParser == Spec => []AcceptedLaunchesStart
  <1>1. Init => StartInv
    BY ParserInitially DEF Init, ParserInit, LaunchInv, StartInv, AcceptedLaunchesStart
  <1>2. StartInv => AcceptedLaunchesStart
    BY DEF StartInv
  <1> QED
    BY <1>1, <1>2, StartStep, PTL DEF Spec

(***************************************************************************)
(* The terminal: the cursor is hidden only while the console stands, and   *)
(* the input is raw only while the command source does.                    *)
(***************************************************************************)
TerminalInv ==
  /\ built \in 0 .. 8
  /\ phase \in {"parsing", "rejected", "accepted", "ended"} => built = 0
  /\ terminal \in Terminals
  /\ built < 4 => terminal.cursor = TRUE
  /\ built < 8 \/ ~launch.interactive =>
       terminal.raw = FALSE /\ terminal.nonblocking = FALSE

LEMMA CursorSet ==
  ASSUME NEW t \in Terminals, NEW b \in BOOLEAN
  PROVE  /\ [t EXCEPT !.cursor = b] \in Terminals
         /\ [t EXCEPT !.cursor = b].cursor = b
         /\ [t EXCEPT !.cursor = b].raw = t.raw
         /\ [t EXCEPT !.cursor = b].nonblocking = t.nonblocking
  BY DEF Terminals

LEMMA RawSet ==
  ASSUME NEW t \in Terminals, NEW b \in BOOLEAN
  PROVE  /\ [t EXCEPT !.raw = b] \in Terminals
         /\ [t EXCEPT !.raw = b].cursor = t.cursor
         /\ [t EXCEPT !.raw = b].raw = b
         /\ [t EXCEPT !.raw = b].nonblocking = t.nonblocking
  BY DEF Terminals

LEMMA InputSet ==
  ASSUME NEW t \in Terminals, NEW b \in BOOLEAN
  PROVE  /\ [t EXCEPT !.raw = b, !.nonblocking = b] \in Terminals
         /\ [t EXCEPT !.raw = b, !.nonblocking = b].cursor = t.cursor
         /\ [t EXCEPT !.raw = b, !.nonblocking = b].raw = b
         /\ [t EXCEPT !.raw = b, !.nonblocking = b].nonblocking = b
  BY DEF Terminals

LEMMA WantedParts ==
  /\ Wanted("sink")
  /\ Wanted("commands") <=> launch.interactive
  <1>1. Wanted("sink")
    BY DEF Wanted
  <1>2. Wanted("commands") <=> launch.interactive
    BY DEF Wanted
  <1> QED
    BY <1>1, <1>2

LEMMA TerminalStep == TerminalInv /\ [Next]_vars => TerminalInv'
  <1> SUFFICES ASSUME TerminalInv, [Next]_vars
               PROVE  TerminalInv'
    OBVIOUS
  <1>1. CASE Parse /\ UNCHANGED programVars
    <2>1. phase = "parsing" /\ phase' \in {"parsing", "rejected", "accepted", "ended"}
      BY <1>1 DEF Parse, Give, GiveUnreadable, GiveUnknown, RejectCombination, Reject,
                  Accept, Help
    <2> QED
      BY <1>1, <2>1 DEF TerminalInv, programVars
  <1>2. CASE BeginLaunch \/ Run \/ Return \/ Fail \/ End
    BY <1>2 DEF BeginLaunch, Run, Return, Fail, End, Starting, programVars, TerminalInv
  <1>3. CASE RefuseLaunch
    BY <1>3 DEF RefuseLaunch, TerminalInv
  <1>4. CASE Skip
    <2>1. /\ built < 8 /\ built' = built + 1 /\ built' \in 0 .. 8
          /\ phase = "starting" /\ UNCHANGED <<phase, launch, terminal>>
      BY <1>4, NextPart DEF Skip, Starting, TerminalInv
    <2>2. built' < 8 \/ ~launch.interactive =>
            terminal.raw = FALSE /\ terminal.nonblocking = FALSE
      BY <2>1 DEF TerminalInv
    <2> QED
      BY <2>1, <2>2 DEF TerminalInv
  <1>5. CASE Build
    <2>1. /\ built < 8 /\ built' = built + 1 /\ built' \in 0 .. 8
          /\ phase = "starting" /\ UNCHANGED <<phase, launch>>
      BY <1>5, NextPart DEF Build, Starting, TerminalInv
    <2>2. \/ terminal' = terminal
          \/ built = 3 /\ terminal' = [terminal EXCEPT !.cursor = FALSE]
      BY <1>5, NextPart DEF Build, WithConsole, TerminalInv
    <2>3. /\ terminal' \in Terminals
          /\ terminal'.raw = terminal.raw /\ terminal'.nonblocking = terminal.nonblocking
          /\ terminal'.cursor = terminal.cursor \/ built = 3
      <3>1. terminal \in Terminals
        BY DEF TerminalInv
      <3>2. CASE terminal' = terminal
        BY <3>1, <3>2
      <3>3. CASE built = 3 /\ terminal' = [terminal EXCEPT !.cursor = FALSE]
        BY <3>1, <3>3, CursorSet
      <3> QED
        BY <2>2, <3>2, <3>3
    <2> QED
      BY <2>1, <2>3 DEF TerminalInv
  <1>6. CASE BuildCommands
    <2>1. /\ built = 7 /\ built' = 8 /\ phase = "starting" /\ UNCHANGED <<phase, launch>>
      BY <1>6, NextPart DEF BuildCommands, Starting, TerminalInv
    <2>2. launch.interactive
      BY <1>6 DEF BuildCommands, Wanted
    <2>3. terminal' \in Terminals
      BY <1>6, InputSet DEF BuildCommands, RawMode, TerminalInv
    <2> QED
      BY <2>1, <2>2, <2>3 DEF TerminalInv
  <1>7. CASE CommandsFail
    <2>1. /\ built < 8 /\ phase' = "unwinding" /\ UNCHANGED <<launch, built>>
          /\ built \in 0 .. 8
      BY <1>7, PartsInOrder DEF CommandsFail, Starting, TerminalInv
    <2>2. terminal' = terminal \/ terminal' = [terminal EXCEPT !.raw = FALSE]
      BY <1>7 DEF CommandsFail, WithoutFlag
    <2>3. /\ terminal' \in Terminals /\ terminal'.cursor = terminal.cursor
          /\ terminal'.raw = FALSE /\ terminal'.nonblocking = FALSE
      <3>1. /\ terminal \in Terminals
            /\ terminal.raw = FALSE /\ terminal.nonblocking = FALSE
        BY <2>1 DEF TerminalInv
      <3>2. CASE terminal' = terminal
        BY <3>1, <3>2
      <3>3. CASE terminal' = [terminal EXCEPT !.raw = FALSE]
        BY <3>1, <3>3, RawSet
      <3> QED
        BY <2>2, <3>2, <3>3
    <2> QED
      BY <2>1, <2>3 DEF TerminalInv
  <1>8. CASE Destroy
    <2>1. /\ built \in 1 .. 8 /\ built' = built - 1 /\ built' \in 0 .. 8
          /\ phase = "unwinding" /\ UNCHANGED <<phase, launch>>
      BY <1>8 DEF Destroy, TerminalInv
    <2>2. CASE built = 4
      <3>1. terminal' = [terminal EXCEPT !.cursor = TRUE]
        BY <1>8, <2>1, <2>2, LastPart, WantedParts DEF Destroy
      <3>2. /\ terminal' \in Terminals /\ terminal'.cursor = TRUE
            /\ terminal'.raw = terminal.raw /\ terminal'.nonblocking = terminal.nonblocking
        <4>1. terminal \in Terminals
          BY DEF TerminalInv
        <4> QED
          BY <3>1, <4>1, CursorSet
      <3> QED
        BY <2>1, <2>2, <3>2 DEF TerminalInv
    <2>3. CASE built = 8
      <3>1. terminal' = IF launch.interactive
                        THEN [terminal EXCEPT !.raw = FALSE, !.nonblocking = FALSE]
                        ELSE terminal
        BY <1>8, <2>1, <2>3, LastPart, WantedParts DEF Destroy
      <3>2. /\ terminal' \in Terminals
            /\ terminal'.raw = FALSE /\ terminal'.nonblocking = FALSE
        <4>1. terminal \in Terminals
          BY DEF TerminalInv
        <4>2. CASE launch.interactive
          BY <3>1, <4>1, <4>2, InputSet
        <4>3. CASE ~launch.interactive
          BY <3>1, <4>1, <4>3 DEF TerminalInv
        <4> QED
          BY <4>2, <4>3
      <3> QED
        BY <2>1, <2>3, <3>2 DEF TerminalInv
    <2>4. CASE built \notin {4, 8}
      <3>1. terminal' = terminal
        BY <1>8, <2>1, <2>4, LastPart DEF Destroy
      <3> QED
        BY <2>1, <2>4, <3>1 DEF TerminalInv
    <2> QED
      BY <2>2, <2>3, <2>4
  <1>9. CASE UNCHANGED vars
    BY <1>9 DEF vars, TerminalInv
  <1> QED
    BY <1>1, <1>2, <1>3, <1>4, <1>5, <1>6, <1>7, <1>8, <1>9 DEF Next

\* However the program ends, whichever part failed, the terminal is as it was.
THEOREM TerminalIsGivenBack == Spec => []TerminalIsRestored
  <1>1. Init => TerminalInv
    BY DEF Init, ParserInit, AsFound, Terminals, TerminalInv
  <1>2. TerminalInv => TerminalIsRestored
    BY DEF TerminalInv, Terminals, AsFound, TerminalIsRestored
  <1> QED
    BY <1>1, <1>2, TerminalStep, PTL DEF Spec

(***************************************************************************)
(* Types.  A port in the draft fits 16 bits because the parser reads it so *)
(* (Readable) and the built-in ones do.                                    *)
(***************************************************************************)
PortsFit == \A o \in Ports : draft[o] \in (0 .. PortLimit - 1) \cup {Absent}

Progress ==
  /\ phase \in {"parsing", "rejected", "accepted", "starting", "running", "unwinding",
                "ended"}
  /\ phase \in {"parsing", "rejected"} => launch = Absent
  /\ refused \in {"none"} \cup {Parts[i] : i \in 1 .. Len(Parts)}
  /\ active \in BOOLEAN

TypeInv == ParserInv /\ TerminalInv /\ PortsFit /\ Progress

LEMMA PortNames ==
  /\ Ports \subseteq Valued
  /\ Flags \cap Ports = {}
  /\ "--camera-sensor-mode" \notin Ports
  BY DEF Ports, Valued, Flags

LEMMA PortWords ==
  \A o \in Ports : /\ Words[o] \ {Malformed} \subseteq Nat
                  /\ Default[o] \in (0 .. PortLimit - 1) \cup {Absent}
  BY CommandLineAssumption, Zenon

LEMMA DefaultPortsFit == ASSUME draft' = Default PROVE PortsFit'
  BY PortWords DEF PortsFit

LEMMA GiveKeepsPorts ==
  ASSUME TypeInv, NEW o \in Options, NEW v, Give(o, v),
         o \in Flags => v = TRUE, o \in Valued => v \in Words[o]
  PROVE  PortsFit'
  <1>1. Readable(o, v) /\ draft' = [draft EXCEPT ![o] = v] /\ DOMAIN draft = Options
    BY DEF Give, TypeInv, ParserInv, DraftTyped
  <1>2. Ports \subseteq Options
    BY PortNames, OptionNames
  <1>3. \A p \in Ports : draft'[p] = IF p = o THEN v ELSE draft[p]
    BY <1>1, <1>2
  <1>4. ASSUME o \in Ports
        PROVE  v \in 0 .. PortLimit - 1
    <2>1. v \in Words[o] /\ v # Malformed /\ v < PortLimit
      BY <1>1, <1>4, PortNames DEF Readable
    <2>2. v \in Nat
      BY <1>4, <2>1, PortWords
    <2>3. PortLimit \in Nat
      BY DEF PortLimit
    <2> QED
      BY <2>1, <2>2, <2>3
  <1> QED
    BY <1>3, <1>4 DEF TypeInv, PortsFit

LEMMA PortsStep == TypeInv /\ [Next]_vars => PortsFit'
  <1> SUFFICES ASSUME TypeInv, [Next]_vars
               PROVE  PortsFit'
    OBVIOUS
  <1>1. UNCHANGED draft => PortsFit'
    BY DEF TypeInv, PortsFit
  <1>2. ASSUME Parse
        PROVE  PortsFit'
    <2>1. \A o \in Flags : Give(o, TRUE) => PortsFit'
      BY GiveKeepsPorts, OptionNames
    <2>2. \A o \in Valued : \A v \in Words[o] : Give(o, v) => PortsFit'
      BY GiveKeepsPorts, OptionNames
    <2>3. Reject => PortsFit'
      BY DefaultPortsFit DEF Reject
    <2>4. \A o, v : GiveUnreadable(o, v) => Reject
      BY DEF GiveUnreadable
    <2>5. GiveUnknown \/ RejectCombination => Reject
      BY DEF GiveUnknown, RejectCombination
    <2>6. Accept \/ Help => UNCHANGED draft
      BY DEF Accept, Help, parserVars
    <2> QED
      BY <1>1, <1>2, <2>1, <2>2, <2>3, <2>4, <2>5, <2>6 DEF Parse
  <1>3. BeginLaunch => PortsFit'
    BY DefaultPortsFit DEF BeginLaunch
  <1>4. UNCHANGED vars => UNCHANGED draft
    BY DEF vars
  <1>5. Skip \/ Build \/ BuildCommands \/ CommandsFail \/ Fail \/ RefuseLaunch
          \/ Run \/ Return \/ Destroy \/ End => UNCHANGED draft
    BY DEF Skip, Build, BuildCommands, CommandsFail, Fail, RefuseLaunch, Run,
           Return, Destroy, End, parserVars
  <1> QED
    BY <1>1, <1>2, <1>3, <1>4, <1>5 DEF Next

LEMMA ProgressStep == TypeInv /\ [Next]_vars => Progress'
  <1> SUFFICES ASSUME TypeInv, [Next]_vars
               PROVE  Progress'
    OBVIOUS
  <1>1. CASE Parse /\ UNCHANGED programVars
    <2>1. /\ phase = "parsing" /\ phase' \in {"parsing", "rejected", "accepted", "ended"}
          /\ UNCHANGED <<refused, active>>
          /\ phase' \in {"parsing", "rejected"} => UNCHANGED launch
      BY <1>1 DEF Parse, Give, GiveUnreadable, GiveUnknown, RejectCombination, Reject,
                  Accept, Help, programVars
    <2> QED
      BY <2>1 DEF TypeInv, Progress
  <1>2. CASE BeginLaunch \/ Skip \/ Build \/ CommandsFail \/ Fail \/ Run \/ Return \/ End
    <2>1. /\ UNCHANGED <<refused, active>>
          /\ phase' \in {"starting", "running", "unwinding", "ended"}
      BY <1>2 DEF BeginLaunch, Skip, Build, CommandsFail, Fail, Run, Return, End, Starting,
                  programVars
    <2> QED
      BY <2>1 DEF TypeInv, Progress
  <1>3. CASE BuildCommands
    <2>1. UNCHANGED <<refused, phase>> /\ phase = "starting" /\ active' = TRUE
      BY <1>3 DEF BuildCommands, Starting
    <2> QED
      BY <2>1 DEF TypeInv, Progress
  <1>4. CASE RefuseLaunch
    <2>1. UNCHANGED active /\ phase' = "unwinding" /\ refused' = Part
          /\ built + 1 \in 1 .. Len(Parts)
      BY <1>4, NextPart, PartsInOrder DEF RefuseLaunch, TypeInv, TerminalInv
    <2>2. Part \in {Parts[i] : i \in 1 .. Len(Parts)}
      BY <2>1 DEF Part
    <2> QED
      BY <2>1, <2>2 DEF TypeInv, Progress
  <1>5. CASE Destroy
    <2>1. UNCHANGED refused /\ phase' = "unwinding"
          /\ active' = (active /\ Parts[built] # "commands")
      BY <1>5 DEF Destroy
    <2>2. active' \in BOOLEAN
      BY <2>1, Zenon DEF TypeInv, Progress
    <2> QED
      BY <2>1, <2>2 DEF TypeInv, Progress
  <1>6. CASE UNCHANGED vars
    BY <1>6 DEF vars, TypeInv, Progress
  <1> QED
    BY <1>1, <1>2, <1>3, <1>4, <1>5, <1>6 DEF Next

\* For every command line and every way the parts may fail: a port that was read
\* fits 16 bits, nothing is launched before the parser has accepted, and the
\* parts, the terminal and the command source are in states they can be in.
THEOREM TypeCorrect == Spec => []TypeOK
  <1>1. Init => TypeInv
    <2> SUFFICES ASSUME Init PROVE TypeInv
      OBVIOUS
    <2>1. ParserInv
      BY ParserInitially DEF Init
    <2>2. TerminalInv
      BY DEF Init, ParserInit, AsFound, Terminals, TerminalInv
    <2>3. PortsFit
      BY PortWords DEF Init, ParserInit, PortsFit
    <2>4. Progress
      BY DEF Init, ParserInit, Progress
    <2> QED
      BY <2>1, <2>2, <2>3, <2>4 DEF TypeInv
  <1>2. TypeInv => TypeOK
    <2> SUFFICES ASSUME TypeInv PROVE TypeOK
      OBVIOUS
    <2>1. explicit \subseteq Options
      BY OptionNames DEF TypeInv, ParserInv, DraftFollows
    <2>2. built \in 0 .. Len(Parts)
      BY PartsInOrder DEF TypeInv, TerminalInv
    <2> QED
      BY <2>1, <2>2, Zenon DEF TypeInv, ParserInv, DraftTyped, TerminalInv, PortsFit, Progress,
                               TypeOK
  <1> QED
    BY <1>1, <1>2, ParserStep, TerminalStep, PortsStep, ProgressStep, PTL DEF Spec, TypeInv

===============================================================================
