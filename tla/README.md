# OnboardAutonomy in TLA+

OnboardAutonomy is a C++ program for the companion computer of an ArduPilot
vehicle. It observes MAVLink telemetry and camera frames, sends the heartbeat
whose absence makes the autopilot land, and checks (without changing anything)
that the autopilot is configured to do so. This directory models the parts of
it whose correctness depends on the order of events, checks the models with TLC
on small instances and proves the most important results with TLAPS.

Paths below are relative to the repository. `PROJECT.json` maps every
definition to the lines it models.

## 1. The system

| Part | State | Operations | Talks to |
| --- | --- | --- | --- |
| `hardware/transport` (UDP, serial) | socket or descriptor, last peer, next attempt to open | `read`, `write`, reconnect | the application |
| `hardware/mavlink/MavlinkDecoder` | parser state | `ingest`: admit or drop each message, call one handler | `VehicleState`, handlers of the application |
| `mission/flight/VehicleState` | ids, time of the last heartbeat, time and value of each telemetry item, warnings | `on_*`, `snapshot` | decoder, application |
| `hardware/mavlink/TelemetryStreamConfigurator` | phase, current request, attempts, deadline | `update`, `on_command_ack` | application |
| `mission/safety/CompanionLinkFailsafe` | the four parameters, phase | `observe_vehicle`, `on_parameter` | application |
| `mission/CompanionApplication` | schedules, what was reported, event history | `poll`, `snapshot` | all of the above, sinks |
| `hardware/camera` sources | worker thread, child process, pipes, latest frame, status | worker loop, `take_latest_frame`, destructor | camera monitors |
| `mission/cv` monitors | frame rate, detector, latest frame and error | `poll`, worker thread, `take_latest_*` | sources, runner |
| `diagnostics/preview` | client threads, latest JPEG per stream | `publish`, `serve_frame`, shutdown | runner, browsers |
| `diagnostics/logging` | file, previous connection state | `consume*` | application (at once), runner (sampled) |
| `operator` | parsed options, terminal state | parsing, rendering, quit key | program, runner |
| `bootstrap` | ownership of everything, stop flag | `run_program`, runner loop, signals | everything |
| `python/rotate_jsonl_logs.py`, `scripts/demo_process.py` | log files, pid files | rotation, start and stop | the service |

The main loop is one thread: `CompanionRunner::run` calls
`CompanionApplication::poll` every few milliseconds and everything MAVLink
happens inside it. Cameras, their reader threads, the preview server and the
asynchronous monitor have threads of their own.

What is hard:

- **Unreliable, ambiguous replies.** A `COMMAND_ACK` does not say which stream
  it is about; requests are sent again after a timeout.
- **Several views of one connection.** `VehicleState`, the configurator, the
  failsafe check and the application each remember a vehicle and reset on their
  own, from snapshots taken once per poll.
- **Threads and processes.** Workers fork while other workers have pipes open,
  reader threads are joined before recovery can go on, and destruction joins
  workers one after the other.
- **Numbers on the wire.** Parameters are floats and decide whether a safety
  check passes.

What makes each part correct:

- telemetry setup: a stream counts only if the autopilot granted it; setup ends
  unless progress is reported for ever; an outcome stands until the vehicle is lost;
- failsafe check: the verdict is the policy, on evidence of one vehicle only;
- application: nothing learnt before a reconnection is used after it, the parts
  agree on the vehicle, heartbeats are on time, evidence follows the autopilot;
- vehicle state: a vehicle is called ready to arm only on readings that were true
  of it within their timeouts and the `BATT_ARM_VOLT` it told, and nothing outlives a reconnection;
- transports and loop: a device that returns is opened again, a frame is not
  continued on another descriptor, a stop is honoured;
- log: its records never contradict each other and tell all that the program knows;
- cameras: attempts do not mix, failures are reported and retried, shutdown ends;
- monitors and preview: every frame is accounted for, a detector that fails does
  not stop frames, a stalled camera is not shown as live, neither end of the
  server's life blocks;
- command line and start: no option is accepted and ignored, what is accepted
  can be started, the terminal is given back.

## 2. Modules

### Telemetry setup

`TelemetryStreamConfigurator.tla` is the state machine of
`TelemetryStreamConfigurator.cpp`. Each member is a variable; the deadline is a
countdown. `Update(v)` is `update()`, a disjunction of its paths (`Reset`,
`BeginSession`, `NothingToSend`, `GiveUp`, `SendRequest`), and `OnCommandAck`
is `on_command_ack()` (`Extend`, `Refuse`, `Advance`, or ignored unless
`AnswersRequest`). `connected` and the id are one argument, `NoVehicle` when
either is missing, because the code never tells those cases apart.

`VehicleConnection.tla` is the part of `VehicleState` and `MavlinkDecoder` that
decides which vehicle is connected: the age of the last heartbeat, the
freshness test, and the filter that admits only the connected vehicle's
messages. The component id is left out: only component 1 can become the
vehicle.

`TelemetryLink.tla` composes the two over a channel that loses and delays
messages, with autopilots that grant, refuse, report progress and restart.
`verdict` is what each autopilot last decided on each stream, which is what the
properties compare the program with. `MaxRoundTrip` bounds the age of a message
and is the assumption that matters: less than the acknowledgement timeout
(`PromptChannel`), or not.

### Failsafe check

`CompanionLinkFailsafe.tla` is `CompanionLinkFailsafe.cpp`. A number is a record
of `finite` and `halves` (a count of half units), enough to tell NaN, fractions,
signs and bounds apart. `Verdict` is `validate()` with one operator per check;
`SafePolicy` states the policy in another form (which numbers are good, bit by
bit) and `PhaseFitsEvidence` compares the two.

### The application

`CompanionApplication.tla` composes the failsafe check, the configurator and the
connection into `CompanionApplication.cpp`. Messages are handled when they are
read (`ReceiveHeartbeat`, `ReceiveAck`, `ReceiveValue`, `ReceiveMetadata`, and
`ReceiveReport` for a value that another station asked for); the rest of `poll()` is one action, in the order of the code:
`UpdateVehicleConnection`, `SendCompanionHeartbeat`, `Update`,
`RequestFailsafeParameter`, `RequestVehicleMetadata`. Any write may fail. Several
messages may be read by one poll, so that the state can change several times
between two snapshots. `before` and `quiet` are history: what is left from
before the last reconnection, and the ticks since a heartbeat was offered or not needed. A
heartbeat that is offered and not written counts as offered (`HeartbeatOnTime` is
about the schedule); what becomes of the write is the business of `LinkReporting`.

### Camera sources

`CameraSource.tla` is the worker of `GStreamerCameraSource.cpp` and
`RpicamCameraSource.cpp`, any number of them in one process. `writers[s]` is the
set of processes that hold a write end of the pipes of `s`: `Fork` copies every
end the process has open, as `fork()` does, and `Join` waits for the end of the
pipe. `Rpicam` sources also have a metadata pipe with one timestamp per frame.
Frames and timestamps are numbered modulo the capacity of a pipe plus one.
A worker looks at the stop request between frames: a frame that is read
completely after it is still published (`NextRead`). `Destroy` is the destructor,
in the order of `run_program`.

`CameraFeed.tla` is what `ports::CameraSource` promises those who poll it: one
frame that waits, and a phase. `CameraSource` implements it (`SourcesAreFeeds`:
`full` is "`latest[s]` is a frame", the phase is the phase), and the source of
`CameraPipeline` takes its steps.

### Vehicle state

`VehicleState.tla` is every `on_*` of `VehicleState.cpp`, the handlers of the
decoder that lead there, and the part of `snapshot()` that decides `Armable`. A
channel is a message field with a timeout of its own; `age` and the readings are
the optionals and time points of the class. The vehicle's condition is modelled
too: `badFor[c]` is for how long its fix or its sensors have been bad,
so that a property can compare the verdict with the vehicle and not with the
code's own copy, and `had` is the time since the vehicle last had each voltage.
`trouble` is chosen at the start of a behaviour and says what may go bad in it.
`said` is the time since each warning was last sent. The vehicle is the one with
the program's `systemId`: another one that takes over (`AnotherVehicle`) has a
condition and a `BATT_ARM_VOLT` of its own, and may long have been as it is.

`BATT_ARM_VOLT` may be changed at any moment (`ArmingVoltageChanges`), and the
`PARAM_VALUE` that tells the change may be lost. The program asks for the
parameter only until it knows it, so it then goes on with the value of before:
the model contains these behaviours, and a vehicle can be called ready in them
with a voltage below the `BATT_ARM_VOLT` it has now. `ReadinessFollowsVehicle`
claims what the code does provide: the voltage is not below the value that this
vehicle, not an earlier one, told last since it came on line (`told`). It
claims nothing of a change that was not told.

### Transports, loop and log

`Transports.tla` is `PosixSerialTransport` and `UdpTransport` behind
`ports::Transport`: a serial descriptor is closed, live or hung up; `Read` and
`Write` are disjunctions of what the calls may return and leave behind.

`LinkReporting.tla` composes them with the loop of `CompanionRunner`, the signal
handlers, the writing and reporting half of `CompanionApplication::poll()` and
`JsonDiagnosticSink`. Unlike in `CompanionApplication`, a poll is many steps
(`step` says where the thread is), because the device, signals and bytes come
between any two of them. The log is not kept as text but as what a reader of all
records would believe (`reader`): each kind of record is an operator from what was
believed to what is believed after it (`ReadsLink`, `ReadsVersion`,
`ReadsChanges`, `ReadsPhase`, `ReadsSnapshot`, `ReadsSampled`), records written in
a row are those operators composed in the order of the code, and `puzzled` is set
by a record that does not fit.
The verdict of the failsafe check is any of `Phases` here: `CompanionLinkFailsafe`
says which.

### Frames on their way

`CameraPipeline.tla` is `CameraMonitor`, `AsyncCameraMonitor`, the camera half of
the runner and `HttpCameraPreviewServer`, with the worker thread, the main thread
and the server's thread as processes. `asynchronous` chooses between the downward
camera, polled by the main thread, and the forward one. A frame is its sequence
number. A request of a browser changes nothing, so that it is a state function
(`Response`). `httplib` is external: `listen()` may fail before it listens or
later, and `stop()` does nothing to a server that does not run.

### Command line and program

`CommandLine.tla` is the parser: `Give` handles one option (a flag, or a value
from `Words`), `Reject` an error at that point, `Parse` ends in `Accept` or
`RejectCombination`, which is all of `validate_options()`. `MakeLaunch` is
`make_command_line_options()`. A number is a number; a text that is none is
`Malformed`, and one that does not fit (a port of `PortLimit` or more) is refused
by `Readable`. A sensor mode is taken as it comes and looked at in the validation
of the final draft, so that a later one replaces a malformed one.

`Program.tla` takes an accepted launch through `run_program`: the parts are built
in order (`Build`), each may be unnecessary (`Skip`), refuse the launch
(`RefuseLaunch`, by its own validation) or fail for another reason (`Fail`); a
program that runs ends (`Return`), and what was built is destroyed in reverse
order. `terminal` is what the console and its input have done to the terminal.

`MC*.tla` give values to the constants that a cfg cannot write down.

## 3. Runs

| Run | Instance | Result |
| --- | --- | --- |
| `telemetry_prompt` | 2 streams, 3 attempts, 2 vehicles, answers within the timeout | all properties hold, and `IInv` is an invariant |
| `telemetry_slow` | 1 vehicle, answers may come one tick late | violates `CountedMeansGranted` |
| `failsafe_policy` | all 4 parameters, 10 numbers on both sides of every bound | `PhaseFitsEvidence` holds |
| `application_unseen` | 2 vehicles, 1 parameter, outages of any length | `PartsAgree`, `EvidenceIsTheVehiclesOwn`, `HeartbeatOnTime` hold |
| `application_seen` | 1 vehicle, 2 parameters that change, every outage polled | `NothingFromBefore`, `EvidenceConverges` hold |
| `application_stale` | as `application_unseen`, 1 vehicle | violates `LinkLossInvalidatesEvidence` |
| `camera_apart` | a GStreamer and an rpicam source, setups do not overlap | separation, timestamps, the refinement of `CameraFeed`, recovery and shutdown hold |
| `camera_overlap` | the same, setups may overlap | violates `FailuresAreReported` |
| `vehicle_readiness` | 2 controllers, 5 channels, 2 warnings, one kind of trouble per behaviour | `ReadinessFollowsVehicle`, `WarningsBlock`, `NothingSurvivesReconnection` hold |
| `link_reporting` | either transport, 1 vehicle, frames of two writes, 2 faults of the device, both signals | the log, the heartbeat claim, whole frames, reopening and the stop hold |
| `camera_pipeline` | either camera, 3 frames, 1 restart, 1 failure of the detector, a port that may be taken | accounting, staleness, survival and the server's start and end hold |
| `program_launch` | all command lines of up to 4 different options, 2 or 3 words each, every part may fail | `LaunchIsWhatWasAsked`, `AcceptedLaunchesStart`, `TerminalIsRestored` hold |

Bounds, and why they are enough:

- *Streams.* The code treats all streams alike except the first (sent by the
  call that begins a session) and the last (which activates); two streams give
  both and a step from one to the next.
- *Attempts and timeouts* are those of the source in seconds (3 attempts, 2 s,
  3 s for heartbeats). The application runs use shorter ones: only their order
  matters there, and it is kept.
- *Vehicles.* Two, so that one can take over from the other.
- *`MaxInFlight`, `MaxRoundTrip`* bound the parameter messages on their way and
  the age of every message. A message that does not fit is lost, which the
  channel may do anyway. An autopilot may report progress as often as it likes.
- *`OthersAsk`* lets values arrive that were not asked for. It is off in
  `application_seen`, where such values would only help and would double the
  time of the liveness check.
- *Failsafe numbers*: -1, 0, 1, 2, 2.5, 5, 10, 11, 16 and NaN: each bound of each
  check with a neighbour, each bit of the mask, a fraction. `FS_OPTIONS` has six
  bits there; the theorem is for any width.
- *Camera frames.* `MaxFrames = 1` in a pipe, with one more being read and one
  more published; two sources, as in `run_program`.
- *Readiness.* Timeouts are 0 or 1 ticks, different for fields of one message;
  only their order and the boundary `age = timeout` matter. There is a voltage
  below and one at the threshold 2, and one threshold is not a number (every
  voltage meets it, as it meets a negative one), so that `BATT_ARM_VOLT` can
  change from one that a voltage meets to one that it does not, and back.
- *Link.* A frame needs up to two writes, so that it can be cut; two faults, so
  that the device can fail again after it was opened again; two values of one
  attribute, so that it can change and change back. One vehicle: two are the
  business of `CompanionApplication`.
- *Pipeline.* Three frames give a first, a lost and a last one; one restart is
  enough to tell frames before it from frames after it. The rate limit is one
  tick and the age limit two, so that a frame can be early, live and stale.
- *Options.* The longest rule of `validate_options()` relates four options
  (`--camera`, `--camera-source`, and two ports or `--camera-preview`); an option
  may be given again, so that command lines are not bounded in length.

`CHECK_DEADLOCK FALSE` is set where the system may stop: the cameras, the
pipeline and the program after shutdown, the loop after a stop, a signal without
a handler or an error of the socket.

Fairness is stated only for liveness:

- `TelemetryLink`: the main loop polls and time passes. No fairness is assumed of
  the channel, of the vehicle or of writes. `SetupSettles` has one hypothesis,
  in its own words: reports of progress from the session's vehicle do not go on
  for ever (`ProgressArrives`). Each such report starts the timeout anew without
  a limit (`TelemetryStreamConfigurator.cpp:119-122`), so that a vehicle that
  goes on reporting, once per timeout, keeps setup "configuring" for as long.
  Without the hypothesis TLC finds that behaviour; no document promises that the
  program gives up on such a vehicle, so that it is a hypothesis and no finding.
- `CompanionApplication`: the same, and for `EvidenceConverges` that the link is
  not dead: of infinitely many requests for a name some are written, of the
  written some are answered and of the answers some arrive. Time is strongly
  fair because every message read disables it until the next poll, and messages
  do not arrive faster than the loop polls for ever. Without a live link no
  evidence can arrive.
- `LinkReporting`: the loop goes on and time passes. A poll reads a bounded
  buffer and makes at most four requests, so that it leaves both (`EndOfInput`,
  `NothingToRequest`). Of infinitely many attempts to open a device that is there
  some succeed. Nothing is assumed of the device, of bytes or of signals.
- `CameraPipeline`: the threads are scheduled and time passes; `listen()` makes
  up its mind whether it can bind and returns when its socket is closed. Nothing
  is assumed of the source or of the detector.
- `CameraSource`: workers are scheduled, and a program that has begun to destroy
  its sources goes on. Producers need not write, nor end by themselves.

## 4. What the violations show

- **`telemetry_slow`.** The autopilot answers a request after the timeout. The
  request has been sent again, so it is acknowledged twice; the first
  acknowledgement completes the stream, the second one the next stream, whose
  request may be lost. Setup counts a stream nobody granted.
- **`application_stale`.** A heartbeat expires and the next one is read before
  another snapshot is taken. `VehicleState` starts afresh and no other part
  notices: the failsafe evidence, the telemetry session and the heartbeat claim
  survive. The window is one iteration of the loop.
- **`camera_overlap`.** Two workers are between `pipe()` and `close()` at once.
  One producer inherits the write ends of the other source. When the other
  producer ends, its worker waits in `join()` for a pipe that the first producer
  keeps open, and the source reports "streaming" for as long as that one runs.

## 5. Proofs

Every theorem is for all values of the constants that satisfy the named
assumptions beside them. The inductive invariants, and why they are needed:

**`TelemetryLink_proofs`** (any number of streams, attempts and vehicles, all
timeouts). `PromptChannel` implies that `Spec` keeps `CountedMeansGranted`,
`RefusalNamesTheStream`, `OneOpenExchange` and `IInv` itself. On any channel,
however slow, it keeps `TypeOK`, `OutcomeIsFinal` and `SetupOnlyGoesForward`, the
safety half of `SetupSettles`: within a session each request is a new attempt, and
a stream left behind is not asked for again. They need that a setup going on has
a stream left to ask for (`SetupFits`) and that what becomes of a message is a
message (`ChannelTyped`). `CountedMeansGranted` is not inductive: a step
that counts a stream relies on the acknowledgement being the current stream's.
`IInv` therefore adds that there is at most one open exchange and it is the
current one (`OneOpenExchange`); that its timer was started when its message was
sent (`TimerCoversExchange`), so that the request is not repeated while its answer
may still come; that an acknowledgement on its way still tells its autopilot's
decision (`AckTellsVerdict`); that an autopilot that restarts has been silent
since (`RestartIsSilent`), so that the session is dropped before the restarted
autopilot can be counted on; and that the counters agree. Assumptions:
`LinkAssumption` (a restart takes at least two ticks longer than the heartbeat
timeout) and those on the constants of the configurator.

**`CompanionLinkFailsafe_proofs`**: `FailsafeSpec` keeps `PhaseFitsEvidence`, for
every set of numbers and every `MaxOptions`. The lemmas relate each check to its
clause of the policy; `ClearBits` shows that a number has the two bits clear
exactly if it is `low + 4 * middle + 32 * high` with `low < 2` and `middle < 4`.

**`CompanionApplication_proofs`**: `PartsAgree` is inductive. `HeartbeatOnTime`
needs `Paced`: the ticks since a heartbeat and the ticks left to the next never
make more than an interval, and after a poll none is due.
`EvidenceIsTheVehiclesOwn` needs that every value on its way is its autopilot's
(`AnswersAreTrue`). `NothingFromBefore` is a theorem for `OutagesAreSeen`, which
is its hypothesis because `application_stale` shows it false without:
`GoneIsForgotten` says that a poll that sees the vehicle gone has emptied every
part, so that nothing is held when the vehicle state starts afresh. `TypeOK` is
proved part by part (`TypeInv`): the setup has a stream for each request it sends
(`SetupFits`), the schedule stays within the list of names (`ScheduleTyped`),
and what is on its way is typed (`ChannelTyped`).

The check inside the application: `ApplicationKeepsToCheck` shows
`Spec => FailsafeSpec`, step by step. A poll observes the vehicle of the snapshot
once, a message that is admitted is one parameter with a value some autopilot
has (`ValuesAreReal`), and no other step touches the check. Together with
`VerdictFollowsPolicy`, which was proved of the check alone, it gives
`PhaseFitsEvidence` of the application without a further invariant. Likewise every
step calls one operation of the telemetry setup at most, from which
`SetupOutcomeIsFinal` follows: only a poll that finds its vehicle gone, or another
one connected, undoes an outcome of the setup. Assumption:
`ApplicationAssumption` and `FailsafeAssumption`.

**`VehicleState_proofs`**: `TypeOK`, `ReadinessFollowsVehicle`, `WarningsBlock`
and `NothingSurvivesReconnection`. A fresh reading that looks well must be shown
to have been honest when it was taken: the invariant bounds `badFor` by the age of
each reading that looks well and `had` of the stored voltage by its age
(`Honest`), identifies the ages of stored warnings with `said`, and keeps the
threshold either unknown or `AtLeastZero` of what the vehicle told last
(`ThresholdIsTold`). The vehicle's present `BATT_ARM_VOLT` does not occur in it:
it may be any. Assumption: `ReadinessAssumption`.

**`LinkReporting_proofs`** (frames of any size, any values, phases, vehicles and
faults, either transport): `HeartbeatClaimIsEarned`, `FramesAreNotSplit`,
`LogIsConsistent`, `LogIsComplete`, `TypeOK`, and `NoTurnAfterStop`.

- `Inv`, for the first two, adds that what is left of a frame is a positive
  number, so that a write that accepts something and ends the loop has accepted
  the rest, and that a UDP socket never closes.
- `LogInv`, for the log, has two halves. `ReaderKnows`: who reads all records
  knows what `observe_vehicle()` and the sink remember (`vehicleWasConnected`,
  `previousStatus`, the phase, the last snapshot) and was never puzzled.
  `MemoryIsCurrent`: from `observe_vehicle()` to the snapshot that memory is
  true. Neither is inductive without the other: a record is written if the
  memory differs from the state, and fits if the reader knew the memory.
- `StopInv`, for the stop: no handler is installed before the flag is reset for
  the last time, so that `stopAsked` excludes `keepRunning`. `NoTurnAfterStop`
  says that no turn of the loop begins once a stop was asked for. It is the
  safety half of `StopIsHonoured`; that the current turn ends stays with TLC.

Assumptions: `TransportsAssumption` and `LinkAssumption`.

**`CameraSource_proofs`** (any number of sources, setups overlapping or not):
`TypeOK`, `AttemptsAreSeparate`, `TimestampsBelong` and the refinement
`SourcesAreFeeds`. The invariant says for each source which processes and pipes
its worker's place allows (`PhaseFits`), which frames may be where (`FrameFits`),
and that the ends of its pipes are closed between attempts (`Apart`). Each step of
a source is then a step of its feed or leaves it unchanged. `TimestampsBelong`
needs to know the whole queue: the timestamps that wait for their frames
are consecutive, from that of the next frame on (`StampsFit`), which
lemmas about appending to and taking from such a run keep. The liveness of the
workers rests on what `join()` waits for. Who holds a write end is a running
producer, or the program between `pipe()` and the start of the readers
(`HeldByTheLiving`), so that a join waits for running producers of other sources
at most (`JoinsWaitForProducers`); when no two setups overlap, each pipe is held by
its own producer only (`HeldByItsOwn`) and a join waits for nobody
(`JoinsNeverWait`). `camera_overlap` shows that the hypothesis `~ForksOverlap` of
the latter is needed. Assumption: `SourcesAssumption`.

**`CameraPipeline_proofs`** (any number of frames and restarts): `TypeOK`,
`FramesAreAccountedFor`, `FramesAreShownOnce` and `FailureIsInOnePlace`. The
accounting compares the larger of two counters with the frames produced;
`Accounted` keeps one account for each: received, overwritten and waiting frames
are the produced ones, received and skipped ones lie before the last sequence
number. `FailsOnce` shows that a detector is not called again after it failed.
The other two are the safety halves of liveness properties.
`FramesAreShownOnce`, of `StalledCamerasGoDark`: the age of what is shown falls
only when something newer is shown; `ShownInOrder` orders the places of a frame
from the browser back to the source. `FailureIsInOnePlace`, of
`FailureIsSurvived`: a failure is about to be noted, noted, or told to the
operator, never lost and never told twice. Assumption: `PipelineAssumption`.

**`Program_proofs`** (all sets of words and defaults, command lines of any
number of options): `LaunchIsWhatWasAsked`, `AcceptedLaunchesStart`,
`TerminalIsRestored` and `TypeOK`. The invariant says that the draft holds the
last value of each option or its default, that the explicit options are those
given, that an accepted launch was made from a valid draft, that its ports fit
their width (`PortsFit`), and what the terminal looks like at each stage.
Assumption: `CommandLineAssumption` (flags are off by default, only
`--forward-camera-udp-port` and `--sim-wind` have no default, the words given as
ports are numbers or malformed, and default ports fit).

`SetupOnlyGoesForward`, `SetupOutcomeIsFinal`, `JoinsWaitForProducers`,
`JoinsNeverWait`, `NoTurnAfterStop`, `FramesAreShownOnce` and `FailureIsInOnePlace`
are stated in the proof modules, next to the invariants they rest on. They and
every inductive invariant were checked by TLC on the instances of their
component's runs before they were proved.

Only model-checked: all liveness (`SetupSettles`, `EvidenceConverges`,
`FailuresAreReported`, `ShutdownFinishes`, `DeviceIsReopened`, `StopIsHonoured`,
`StalledCamerasGoDark`, `FailureIsSurvived`, `PreviewNeverBlocks`), because the
provers reason about neither fairness nor `ENABLED`. Every invariant and every
action property of a passing run is stated by a theorem. The three violations
are counterexamples, which need no proof. Two of them have theorems beside them
that say under which hypothesis the property holds (`PromptChannel`,
`OutagesAreSeen`); beside the third, of the liveness property `FailuresAreReported`,
stands `JoinsNeverWait`, which holds for `~ForksOverlap`.

## 6. Plan

Done: the core (telemetry setup, failsafe check, application, cameras), then
vehicle state, transports and log, the pipeline over an abstract source, the
command line and the program, and the proofs of all safety properties. What is
left, in order of importance:

1. Safety halves of the liveness properties that have none yet
   (`EvidenceConverges`, `DeviceIsReopened`, `PreviewNeverBlocks`).
2. Log rotation with crashes between its steps.

## 7. Not modelled

- *Console rendering* (`ConsoleView.cpp`), the text of JSON snapshots
  (`SnapshotJson.cpp`), error messages and descriptions: layout, on which nothing
  depends. `BoardTypeCatalog.cpp` parses a table of names for it.
- *Standard output.* The console and the log write without looking at the
  stream. With `--interactive` a terminal shared by input and output is
  non-blocking, and a refused write silences the console for good (listed as a
  hazard); no document says what should happen.
- *MAVLink framing and checksums*, which are the vendored library's; the encoder
  is modelled by what its requests ask for.
- *Image processing and inference* (`OpenCvDnnTargetDetector.cpp`, YOLOX
  preprocessing and decoding): floating-point arithmetic over images, without
  control of their own. A detector is a call that returns or throws.
- *Calibration files*: parsed and validated once, without state; `run_program`
  gives no detector and no calibration.
- *Frame rate, latency and detection statistics* of the monitors: arithmetic that
  decides nothing. Telemetry values that do not influence readiness.
- *`httplib`*, the kernel's pipes, sockets and terminals: external, modelled as
  far as the code relies on them. Routes, headers and JPEG encoding are left out.
- *The pace of the loop*: `--snapshot-ms` is capped on a live terminal and the
  loop sleeps a few milliseconds; a snapshot may be due at any iteration here.
- *Restoring the previous signal handlers*, after which the program only returns.
- *Log rotation* and the tools around the program (benchmarks, simulation
  harness, installers): separate programs that meet it in files and processes.
