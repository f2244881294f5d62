--------------------------- MODULE CameraPipeline ---------------------------
(***************************************************************************)
(* The way of a frame from a camera source to the browser:                 *)
(*                                                                         *)
(*   src/mission/cv/CameraMonitor.cpp, VisionMonitor.cpp: poll() takes the *)
(*       latest frame, counts it and shows it to the detector              *)
(*   src/mission/cv/AsyncCameraMonitor.cpp: a thread that polls            *)
(*   src/bootstrap/CompanionRunner.cpp: passes frames on to the preview    *)
(*   src/diagnostics/preview/HttpCameraPreviewServer.cpp: serves them      *)
(*                                                                         *)
(* The downward camera is polled by the main thread, in poll_inputs(); the *)
(* forward camera by the thread of AsyncCameraMonitor.  The source is any  *)
(* that keeps the promises of CameraFeed.  A frame is its sequence number. *)
(***************************************************************************)
EXTENDS Naturals, FiniteSetsExt

CONSTANTS
    MaxFrames,        \* bound on the frames of the source
    MaxRestarts,      \* bound on its restarts
    MaxFrameAge,      \* kMaximumFrameAge, in ticks
    FrameInterval,    \* minimum_frame_interval_, in ticks
    Detecting         \* a target detector is given; run_program() gives none

ASSUME PipelineAssumption ==
    /\ {MaxFrames, MaxRestarts, MaxFrameAge, FrameInterval} \subseteq Nat
    /\ Detecting \in BOOLEAN

VARIABLES
    asynchronous,  \* the camera is the forward one
    slot,          \* the source's latest frame, or NoFrame
    phase,         \* the source's phase
    produced,      \* the source's last sequence number
    overwritten,   \* status().overwritten_frames
    restarts,      \* status().restart_count
    lastSequence,  \* last_sequence_
    received,      \* received_frames_
    gaps,          \* dropped_before_processing_
    detecting,     \* vision_monitor_ has a value
    processed,     \* latest_processed_frame_ of CameraMonitor
    ready,         \* latest_frame_ of AsyncCameraMonitor
    error,         \* latest_error_
    failures,      \* exceptions of the detector
    told,          \* errors taken by the runner
    worker,        \* where the thread of AsyncCameraMonitor is
    main,          \* where the main thread is
    published,     \* latest_frames_ of the stream
    age,           \* now - published_at, counted up to MaxFrameAge + 1
    sincePublished,\* now - last_published_at_, counted up to FrameInterval
    listener,      \* where the thread of the server is
    decommissioned,\* is_decommissioned of httplib::Server
    stopping       \* the server's socket was closed by stop()

sourceVars  == <<slot, phase, produced, overwritten, restarts>>
monitorVars == <<lastSequence, received, gaps, detecting, processed, failures>>
asyncVars   == <<ready, error, told>>
serverVars  == <<published, age, sincePublished>>
listenVars  == <<listener, decommissioned, stopping>>
vars == <<asynchronous, sourceVars, monitorVars, asyncVars, worker, main,
          serverVars, listenVars>>

NoFrame == 0
Frames  == 1 .. MaxFrames

Feed == INSTANCE CameraFeed
          WITH Sources <- {"camera"},
               full <- [s \in {"camera"} |-> slot # NoFrame],
               phase <- [s \in {"camera"} |-> phase]

TypeOK ==
    /\ {asynchronous, detecting, error, decommissioned, stopping} \subseteq BOOLEAN
    /\ {slot, lastSequence, processed, ready, published} \subseteq Frames \cup {NoFrame}
    /\ {produced, overwritten, received, gaps} \subseteq 0 .. MaxFrames
    /\ phase \in Feed!FeedPhases
    /\ restarts \in 0 .. MaxRestarts
    /\ {failures, told} \subseteq 0 .. 1
    /\ worker \in {"polling", "storing", "failing", "ended"}
    /\ main \in {"constructing", "checking", "polling", "publishing", "stopping",
                 "closing", "ended"}
    /\ age \in 0 .. MaxFrameAge + 1
    /\ sincePublished \in 0 .. FrameInterval
    /\ listener \in {"starting", "listening", "returned", "ended"}

Init ==
    /\ asynchronous \in BOOLEAN
    /\ slot = NoFrame /\ phase = "starting"
    /\ produced = 0 /\ overwritten = 0 /\ restarts = 0
    /\ lastSequence = NoFrame /\ received = 0 /\ gaps = 0
    /\ detecting = Detecting /\ failures = 0
    /\ processed = NoFrame /\ ready = NoFrame
    /\ error = FALSE /\ told = 0
    /\ worker = IF asynchronous THEN "polling" ELSE "ended"
    /\ main = "constructing"
    /\ published = NoFrame /\ age = 0 /\ sincePublished = FrameInterval
    /\ listener = "starting" /\ decommissioned = FALSE /\ stopping = FALSE

(***************************************************************************)
(* The source.                                                             *)
(***************************************************************************)
\* publish() of the source.
ProduceFrame ==
    /\ produced < MaxFrames
    /\ produced' = produced + 1 /\ slot' = produced'
    /\ overwritten' = IF slot = NoFrame THEN overwritten ELSE overwritten + 1
    /\ phase' = "streaming" /\ Feed!Produce("camera")
    /\ UNCHANGED restarts

SourceFails ==
    /\ phase' = "failed" /\ UNCHANGED slot /\ Feed!Fail("camera")
    /\ UNCHANGED <<produced, overwritten, restarts>>

SourceStartsOver ==
    /\ restarts < MaxRestarts /\ restarts' = restarts + 1
    /\ slot' = NoFrame /\ phase' = "reconnecting" /\ Feed!StartOver("camera")
    /\ UNCHANGED <<produced, overwritten>>

Source ==
    /\ main # "ended"
    /\ ProduceFrame \/ SourceFails \/ SourceStartsOver
    /\ UNCHANGED <<asynchronous, monitorVars, asyncVars, worker, main, serverVars,
                   listenVars>>

(***************************************************************************)
(* CameraMonitor::poll().                                                  *)
(***************************************************************************)
\* Mutant: an empty slot is not told from a frame.
SomeFrame == TRUE

HasFrame == slot # NoFrame

\* Mutant: the frame before the last is not remembered when the detector fails.
CountDetected(throws) ==
    /\ received' = received + 1
    /\ lastSequence' = IF throws THEN lastSequence ELSE slot
    /\ gaps' = IF lastSequence # NoFrame /\ slot > lastSequence + 1
               THEN gaps + slot - lastSequence - 1 ELSE gaps

\* The counters, which are up to date before the detector sees the frame.
Count(throws) ==
    /\ received' = received + 1
    /\ lastSequence' = slot
    /\ gaps' = IF lastSequence # NoFrame /\ slot > lastSequence + 1
               THEN gaps + slot - lastSequence - 1 ELSE gaps

\* One poll.  When the detector throws, the frame is gone.
MonitorPoll(throws) ==
    /\ throws => HasFrame /\ detecting
    /\ IF HasFrame
       THEN /\ slot' = NoFrame
            /\ Count(throws)
            /\ processed' = IF throws THEN processed ELSE slot
            /\ failures' = IF throws THEN failures + 1 ELSE failures
       ELSE UNCHANGED <<slot, received, lastSequence, gaps, processed, failures>>
    /\ UNCHANGED <<phase, produced, overwritten, restarts, detecting>>

\* snapshot().dropped_before_processing.
Dropped == Max({gaps, overwritten})

(***************************************************************************)
(* AsyncCameraMonitor::run().                                              *)
(***************************************************************************)
WorkerPoll(throws) ==
    /\ worker = "polling" /\ main # "stopping"   \* request_stop()
    /\ MonitorPoll(throws)
    /\ worker' = IF throws THEN "failing" ELSE "storing"
    /\ UNCHANGED <<asynchronous, asyncVars, main, serverVars, listenVars>>

\* Mutant: the exception ends the loop.
AfterFailureEnd == "ended"

AfterFailure == "storing"

\* disable_failed_detector(): from here on frames are passed on unseen.
DisableFailedDetector ==
    /\ worker = "failing" /\ worker' = AfterFailure
    /\ detecting' = FALSE
    /\ error' = TRUE
    /\ UNCHANGED <<asynchronous, sourceVars, lastSequence, received, gaps, processed,
                   failures, ready, told, main, serverVars, listenVars>>

\* take_latest_processed_frame() of CameraMonitor, and the frame, if there is
\* one, is what the runner takes next.
WorkerStore ==
    /\ worker = "storing" /\ worker' = "polling"
    /\ ready' = IF processed = NoFrame THEN ready ELSE processed
    /\ processed' = NoFrame
    /\ UNCHANGED <<asynchronous, sourceVars, lastSequence, received, gaps, detecting,
                   failures, error, told, main, serverVars, listenVars>>

WorkerEnds ==
    /\ worker = "polling" /\ main = "stopping"
    /\ worker' = "ended"
    /\ UNCHANGED <<asynchronous, sourceVars, monitorVars, asyncVars, main, serverVars,
                   listenVars>>

Worker ==
    \/ \E throws \in BOOLEAN : WorkerPoll(throws)
    \/ DisableFailedDetector \/ WorkerStore \/ WorkerEnds

(***************************************************************************)
(* HttpCameraPreviewServer.  A request changes nothing; Response is what   *)
(* it is answered with at the moment.                                      *)
(***************************************************************************)
\* publish(): too early a frame is dropped, and one of impossible dimensions.
PublishFrame(frame, valid) ==
    IF frame # NoFrame /\ sincePublished = FrameInterval /\ valid
    THEN published' = frame /\ age' = 0 /\ sincePublished' = 0
    ELSE UNCHANGED serverVars

\* serve_frame().
Response ==
    IF listener = "listening" /\ published # NoFrame /\ age <= MaxFrameAge
    THEN published ELSE NoFrame

\* The thread of the server: listen() may fail to bind, and may fail later.
Listen ==
    /\ \/ listener = "starting" /\ listener' \in {"listening", "returned"}
       \/ listener = "listening" /\ listener' = "returned"
    /\ UNCHANGED <<asynchronous, sourceVars, monitorVars, asyncVars, worker, main,
                   serverVars, decommissioned, stopping>>

\* Mutant: the constructor is not told when listen() fails.
StaysCommissioned == FALSE

Decommissions == TRUE

ListenEnds ==
    /\ listener = "returned" /\ listener' = "ended"
    /\ decommissioned' = (decommissioned \/ Decommissions)
    /\ UNCHANGED <<asynchronous, sourceVars, monitorVars, asyncVars, worker, main,
                   serverVars, stopping>>

(***************************************************************************)
(* The main thread: it constructs the server, runs the loop, and destroys  *)
(* the monitor and the server in this order.                               *)
(***************************************************************************)
MainUnchanged == UNCHANGED <<asynchronous, worker, listener, decommissioned>>

\* wait_until_ready(), and what follows it: a server that does not run has its
\* thread joined.
Construct ==
    /\ \/ /\ main = "constructing" /\ main' = "checking"
          /\ listener = "listening" \/ decommissioned
       \/ /\ main = "checking" /\ main' = "polling"
          /\ listener \in {"listening", "ended"}
    /\ UNCHANGED <<sourceVars, monitorVars, asyncVars, serverVars, stopping>>
    /\ MainUnchanged

\* application_.poll() polls the downward camera, and an exception of the
\* detector ends the loop; take_latest_error() asks for the forward camera's.
MainPoll(throws) ==
    /\ main = "polling"
    /\ main' = IF throws THEN "stopping" ELSE "publishing"
    /\ IF asynchronous
       THEN /\ ~throws
            /\ error' = FALSE /\ told' = IF error THEN told + 1 ELSE told
            /\ UNCHANGED <<sourceVars, monitorVars>>
       ELSE MonitorPoll(throws) /\ UNCHANGED <<error, told>>
    /\ UNCHANGED <<ready, serverVars, stopping>> /\ MainUnchanged

\* Mutant: a frame that is moved out of an optional leaves it non-empty.
KeptAfterTake(frame) == frame

LeftAfterTake(frame) == NoFrame

\* publish_camera_frames(): take_latest_processed_frame(), and the sinks.
PublishCameraFrames ==
    /\ main = "publishing" /\ main' = "polling"
    /\ \E valid \in BOOLEAN :
          PublishFrame(IF asynchronous THEN ready ELSE processed, valid)
    /\ IF asynchronous
       THEN ready' = LeftAfterTake(ready) /\ UNCHANGED processed
       ELSE processed' = LeftAfterTake(processed) /\ UNCHANGED ready
    /\ UNCHANGED <<sourceVars, lastSequence, received, gaps, detecting, failures,
                   error, told, stopping>>
    /\ MainUnchanged

\* The loop is asked to stop.
StopLoop ==
    /\ main = "polling" /\ main' = "stopping"
    /\ UNCHANGED <<sourceVars, monitorVars, asyncVars, serverVars, stopping>>
    /\ MainUnchanged

\* ~AsyncCameraMonitor() joins; ~HttpCameraPreviewServer() closes the socket of a
\* server that runs and joins.
Destroy ==
    /\ \/ /\ main = "stopping" /\ worker = "ended" /\ main' = "closing"
          /\ stopping' = (listener = "listening")
       \/ main = "closing" /\ listener = "ended" /\ main' = "ended"
                           /\ UNCHANGED stopping
    /\ UNCHANGED <<sourceVars, monitorVars, asyncVars, serverVars>>
    /\ MainUnchanged

Tick ==
    /\ main # "ended"
    /\ age' = IF age > MaxFrameAge THEN age ELSE age + 1
    /\ sincePublished' = IF sincePublished = FrameInterval THEN FrameInterval
                         ELSE sincePublished + 1
    /\ UNCHANGED <<asynchronous, sourceVars, monitorVars, asyncVars, worker, main,
                   published, listenVars>>

Main ==
    \/ Construct \/ PublishCameraFrames \/ Destroy
    \/ \E throws \in BOOLEAN : MainPoll(throws)

Next ==
    \/ Source \/ Worker \/ Main \/ StopLoop
    \/ Listen \/ ListenEnds
    \/ Tick

\* The threads run, and time passes.  listen() makes up its mind whether it can
\* bind, and returns when its socket is closed.
Fairness ==
    /\ WF_vars(Worker) /\ WF_vars(Main) /\ WF_vars(Tick)
    /\ WF_vars(Listen /\ (listener = "starting" \/ stopping)) /\ WF_vars(ListenEnds)

Spec == Init /\ [][Next]_vars /\ Fairness

(***************************************************************************)
(* Properties.                                                             *)
(***************************************************************************)
\* The frames the camera monitor reports as received and dropped are frames the
\* source has produced, each counted once, also when the detector fails; and
\* while the source has not started over none is missing.
FramesAreAccountedFor ==
    /\ received + Dropped <= produced
    /\ restarts = 0 =>
         received + Dropped + (IF slot = NoFrame THEN 0 ELSE 1) = produced

\* When a camera stalls, its last frame is not shown for ever as if it were live:
\* a frame is published once, and its age counts from then.
StalledCamerasGoDark ==
    <>[][~ProduceFrame]_vars => <>[](Response = NoFrame)

\* A detector that fails takes the forward camera neither down nor with it: the
\* operator is told, and frames go on being taken from the source.
FailureIsSurvived ==
    /\ asynchronous /\ failures > 0 ~> told = 1 \/ main \in {"stopping", "closing", "ended"}
    /\ asynchronous /\ slot # NoFrame ~>
         slot = NoFrame \/ main \in {"stopping", "closing", "ended"}

\* The preview server starts and goes away, whether or not its port is free and
\* whenever listening fails: neither the constructor nor the destructor waits
\* for ever.
PreviewNeverBlocks ==
    /\ main = "constructing" ~> main = "polling"
    /\ main = "stopping" ~> main = "ended"
=============================================================================
