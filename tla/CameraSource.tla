---------------------------- MODULE CameraSource ----------------------------
(***************************************************************************)
(* The camera sources of one process: GStreamerCameraSource.cpp and        *)
(* RpicamCameraSource.cpp under src/hardware/camera.  Each source has a    *)
(* worker thread that opens pipes, forks a producer, reads frames from it, *)
(* stops it when the stream ends and starts over after a delay.            *)
(*                                                                         *)
(* fork() copies the whole descriptor table of the process and the pipes   *)
(* are not close-on-exec, so a producer also holds the write end of every  *)
(* pipe that another worker has open at that moment.  A reader sees the    *)
(* end of its pipe only when nobody holds the write end any more.          *)
(*                                                                         *)
(* Time is left out: the frame timeout may pass whenever no data is there. *)
(***************************************************************************)
EXTENDS Naturals, Sequences

CONSTANTS
    Sources,       \* the camera sources of the process
    Rpicam,        \* those of RpicamCameraSource, with a metadata pipe
    Program,       \* the process itself, as a holder of a write end
    StopOrder,     \* the order in which run_program() destroys the sources
    MaxFrames,     \* bound: frames that fit into a pipe
    ForksOverlap   \* two attempts may be set up at the same time

ASSUME SourcesAssumption ==
    /\ Rpicam \subseteq Sources /\ Program \notin Sources
    /\ StopOrder \in Seq(Sources)
    /\ MaxFrames \in Nat \ {0}
    /\ ForksOverlap \in BOOLEAN

VARIABLES
    worker,         \* where each worker thread is
    producer,       \* the child process of each source's attempt
    writers,        \* who holds the write ends of each source's pipes
    phase,          \* status_.phase
    latest,         \* latest_frame_: its number and its timestamp's
    timestamps,     \* metadata_timestamps_
    framesOut,      \* number of the last frame the producer wrote
    stampsOut,      \* number of the last timestamp queued
    framesIn,       \* number of the last frame read
    stopRequested   \* the source's destructor has asked its worker to stop

workerVars == <<worker, producer, writers>>
dataVars   == <<latest, timestamps, framesOut, stampsOut, framesIn>>
vars       == <<workerVars, dataVars, phase, stopRequested>>

Places == {"preparing", "opened", "forked", "reading", "awaiting_timestamp",
           "stopping", "joining", "failing", "restarting", "stopped"}

\* Frames and timestamps are numbered from 1 in each attempt, round and round.
Numbers == 0 .. MaxFrames
After(n) == IF n = MaxFrames THEN 0 ELSE n + 1
NoFrame  == [frame |-> MaxFrames + 1, stamp |-> MaxFrames + 1]

TypeOK ==
    /\ worker \in [Sources -> Places]
    /\ producer \in [Sources -> {"none", "running", "exited"}]
    /\ writers \in [Sources -> SUBSET (Sources \cup {Program})]
    /\ phase \in [Sources -> {"starting", "streaming", "reconnecting",
                              "stopped", "failed"}]
    /\ latest \in [Sources -> [frame : Numbers, stamp : Numbers] \cup {NoFrame}]
    /\ timestamps \in [Sources -> Seq(Numbers)]
    /\ {framesOut, stampsOut, framesIn} \subseteq [Sources -> Numbers]
    /\ stopRequested \in [Sources -> BOOLEAN]

Everywhere(x) == [s \in Sources |-> x]

Init ==
    /\ worker = Everywhere("preparing")
    /\ producer = Everywhere("none")
    /\ writers = Everywhere({})
    /\ phase = Everywhere("starting")
    /\ latest = Everywhere(NoFrame)
    /\ timestamps = Everywhere(<<>>)
    /\ framesOut = Everywhere(0) /\ stampsOut = Everywhere(0)
    /\ framesIn = Everywhere(0)
    /\ stopRequested = Everywhere(FALSE)

Go(s, here, there) ==
    worker[s] = here /\ worker' = [worker EXCEPT ![s] = there]

(***************************************************************************)
(* run(): the loop of the worker.                                          *)
(***************************************************************************)
\* Mutant: timestamps nobody asked for stay queued.
PrepareKeepsTimestamps(s) ==
    /\ latest' = [latest EXCEPT ![s] = NoFrame]
    /\ UNCHANGED timestamps

\* prepare_attempt().
Prepare(s) ==
    /\ latest' = [latest EXCEPT ![s] = NoFrame]
    /\ timestamps' = [timestamps EXCEPT ![s] = <<>>]

\* prepare_attempt() and the pipes of run_once().
Open(s) ==
    /\ ~stopRequested[s]
    /\ Go(s, "preparing", "opened")
    /\ Prepare(s)
    /\ framesOut' = [framesOut EXCEPT ![s] = 0]
    /\ stampsOut' = [stampsOut EXCEPT ![s] = 0]
    /\ framesIn' = [framesIn EXCEPT ![s] = 0]
    /\ writers' = [writers EXCEPT ![s] = {Program}]
    /\ UNCHANGED <<producer, phase, stopRequested>>

\* pipe() or fork() fails: whatever was opened is closed again.
OpenFails(s) ==
    /\ ~stopRequested[s]
    /\ Go(s, "preparing", "failing")
    /\ Prepare(s)
    /\ phase' = [phase EXCEPT ![s] = "failed"]
    /\ UNCHANGED <<producer, writers, framesOut, stampsOut, framesIn, stopRequested>>

ForkFails(s) ==
    /\ Go(s, "opened", "failing")
    /\ writers' = [writers EXCEPT ![s] = {}]  \* nobody reads these pipes again
    /\ phase' = [phase EXCEPT ![s] = "failed"]
    /\ UNCHANGED <<producer, dataVars, stopRequested>>

\* The child closes the read ends it knows of, and keeps every write end the
\* process had open.
Fork(s) ==
    /\ ForksOverlap \/ \A t \in Sources \ {s} : Program \notin writers[t]
    /\ Go(s, "opened", "forked")
    /\ producer' = [producer EXCEPT ![s] = "running"]
    /\ writers' = [t \in Sources |->
                     IF Program \in writers[t] THEN writers[t] \cup {s} ELSE writers[t]]
    /\ UNCHANGED <<dataVars, phase, stopRequested>>

\* Mutant: the parent keeps its write ends.
KeepWriteEnds(s) ==
    /\ Go(s, "forked", "reading")
    /\ UNCHANGED <<producer, writers, dataVars, phase, stopRequested>>

\* The parent closes its write ends and starts the reader threads.
CloseWriteEnds(s) ==
    /\ Go(s, "forked", "reading")
    /\ writers' = [writers EXCEPT ![s] = @ \ {Program}]
    /\ UNCHANGED <<producer, dataVars, phase, stopRequested>>

\* Mutant: a frame is published without captured_at.
PublishUnstamped(s, frame, stamp) ==
    /\ latest' = [latest EXCEPT ![s] = [frame |-> frame, stamp |-> NoFrame.stamp]]
    /\ phase' = [phase EXCEPT ![s] = "streaming"]

\* publish().
Publish(s, frame, stamp) ==
    /\ latest' = [latest EXCEPT ![s] = [frame |-> frame, stamp |-> stamp]]
    /\ phase' = [phase EXCEPT ![s] = "streaming"]

FrameInPipe(s) == framesIn[s] # framesOut[s]

\* The loop ends when a stop is requested, but not before the frame that is being
\* read then, if it is completed, is published.
NextRead(s) == IF stopRequested[s] THEN "stopping" ELSE "reading"

\* read_exact() returns a complete frame.
ReadFrame(s) ==
    /\ FrameInPipe(s)
    /\ framesIn' = [framesIn EXCEPT ![s] = After(@)]
    /\ IF s \in Rpicam
       THEN /\ Go(s, "reading", "awaiting_timestamp")
            /\ UNCHANGED <<latest, phase>>
       ELSE /\ Go(s, "reading", NextRead(s))
            /\ Publish(s, After(framesIn[s]), After(framesIn[s]))
    /\ UNCHANGED <<producer, writers, timestamps, framesOut, stampsOut, stopRequested>>

\* wait_for_metadata() returns the oldest timestamp.
TakeTimestamp(s) ==
    /\ Go(s, "awaiting_timestamp", NextRead(s))
    /\ timestamps[s] # <<>>
    /\ timestamps' = [timestamps EXCEPT ![s] = Tail(@)]
    /\ Publish(s, framesIn[s], Head(timestamps[s]))
    /\ UNCHANGED <<producer, writers, framesOut, stampsOut, framesIn, stopRequested>>

\* The frame timeout passes, or a stop is requested, without a timestamp.
NoTimestamp(s) ==
    /\ Go(s, "awaiting_timestamp", "stopping")
    /\ timestamps[s] = <<>>
    /\ phase' = IF stopRequested[s] THEN phase ELSE [phase EXCEPT ![s] = "failed"]
    /\ UNCHANGED <<producer, writers, dataVars, stopRequested>>

\* Stopped, at the end of the file, timed out, or failed: a read may fail at any
\* time, and the attempt is over then.
ReadEnds(s) ==
    /\ Go(s, "reading", "stopping")
    /\ UNCHANGED <<producer, writers, dataVars, phase, stopRequested>>

Release(s) == [t \in Sources |-> writers[t] \ {s}]

\* Mutant: the producer is reaped if it has ended, and otherwise left alone.
StopChildIfExited(s) ==
    /\ Go(s, "stopping", "joining")
    /\ producer' = [producer EXCEPT ![s] = IF @ = "exited" THEN "none" ELSE @]
    /\ UNCHANGED <<writers, dataVars, phase, stopRequested>>

\* Mutant: the producer is killed and not waited for.
StopChildUnreaped(s) ==
    /\ Go(s, "stopping", "joining")
    /\ producer' = [producer EXCEPT ![s] = "exited"]
    /\ writers' = Release(s)
    /\ UNCHANGED <<dataVars, phase, stopRequested>>

\* stop_camera_child(): signals, and at last SIGKILL, until it is reaped.
StopChild(s) ==
    /\ Go(s, "stopping", "joining")
    /\ producer' = [producer EXCEPT ![s] = "none"]
    /\ writers' = Release(s)
    /\ UNCHANGED <<dataVars, phase, stopRequested>>

\* The reader threads have seen the end of their pipes; join() returns.  The
\* attempt ends as a failure, unless the source is being stopped.
Join(s) ==
    /\ writers[s] = {}
    /\ Go(s, "joining", "failing")
    /\ phase' = IF stopRequested[s] THEN phase ELSE [phase EXCEPT ![s] = "failed"]
    /\ UNCHANGED <<producer, writers, dataVars, stopRequested>>

\* Mutant: the last frame of the attempt stays until the next one begins.
ReconnectKeepsFrame(s) ==
    /\ ~stopRequested[s]
    /\ Go(s, "failing", "restarting")
    /\ phase' = [phase EXCEPT ![s] = "reconnecting"]
    /\ UNCHANGED <<producer, writers, dataVars, stopRequested>>

\* set_reconnecting().
Reconnect(s) ==
    /\ ~stopRequested[s]
    /\ Go(s, "failing", "restarting")
    /\ phase' = [phase EXCEPT ![s] = "reconnecting"]
    /\ latest' = [latest EXCEPT ![s] = NoFrame]
    /\ UNCHANGED <<producer, writers, timestamps, framesOut, stampsOut, framesIn,
                   stopRequested>>

\* wait_for_restart() has waited for the delay.
Restart(s) ==
    /\ ~stopRequested[s]
    /\ Go(s, "restarting", "preparing")
    /\ UNCHANGED <<producer, writers, dataVars, phase, stopRequested>>

\* set_stopped().
Stop(s) ==
    /\ stopRequested[s]
    /\ \E here \in {"preparing", "failing", "restarting"} : Go(s, here, "stopped")
    /\ phase' = [phase EXCEPT ![s] = "stopped"]
    /\ UNCHANGED <<producer, writers, dataVars, stopRequested>>

WorkerStep(s) ==
    \/ Open(s) \/ OpenFails(s) \/ ForkFails(s) \/ Fork(s) \/ CloseWriteEnds(s)
    \/ ReadFrame(s) \/ TakeTimestamp(s) \/ NoTimestamp(s) \/ ReadEnds(s)
    \/ StopChild(s) \/ Join(s) \/ Reconnect(s) \/ Restart(s) \/ Stop(s)

(***************************************************************************)
(* The producers.                                                          *)
(***************************************************************************)
WriteFrame(s) ==
    /\ producer[s] = "running"
    /\ After(framesOut[s]) # framesIn[s]
    /\ framesOut' = [framesOut EXCEPT ![s] = After(@)]
    /\ UNCHANGED <<workerVars, latest, timestamps, stampsOut, framesIn, phase,
                   stopRequested>>

\* Frames written and not yet published.
Unpublished(s) ==
    ((framesOut[s] + MaxFrames + 1 - framesIn[s]) % (MaxFrames + 1))
    + (IF worker[s] = "awaiting_timestamp" THEN 1 ELSE 0)

\* A timestamp is written, after its frame or just before it, and the metadata
\* reader, as long as it runs, queues it.
WriteTimestamp(s) ==
    /\ s \in Rpicam
    /\ worker[s] \in {"reading", "awaiting_timestamp", "stopping", "joining"}
    /\ Len(timestamps[s]) < Unpublished(s) + (IF producer[s] = "running" THEN 1 ELSE 0)
    /\ stampsOut' = [stampsOut EXCEPT ![s] = After(@)]
    /\ timestamps' = [timestamps EXCEPT ![s] = Append(@, After(stampsOut[s]))]
    /\ UNCHANGED <<workerVars, latest, framesOut, framesIn, phase, stopRequested>>

\* The producer ends or is killed; its descriptors are closed.
ProducerExits(s) ==
    /\ producer[s] = "running"
    /\ producer' = [producer EXCEPT ![s] = "exited"]
    /\ writers' = Release(s)
    /\ UNCHANGED <<worker, dataVars, phase, stopRequested>>

(***************************************************************************)
(* The rest of the program.                                                *)
(***************************************************************************)
\* take_latest_frame().
Take(s) ==
    /\ latest[s] # NoFrame
    /\ latest' = [latest EXCEPT ![s] = NoFrame]
    /\ UNCHANGED <<workerVars, timestamps, framesOut, stampsOut, framesIn, phase,
                   stopRequested>>

\* The destructor of the next source: requests a stop, then joins the worker.
Destroy(i) ==
    /\ \A j \in 1 .. i - 1 : worker[StopOrder[j]] = "stopped"
    /\ ~stopRequested[StopOrder[i]]
    /\ stopRequested' = [stopRequested EXCEPT ![StopOrder[i]] = TRUE]
    /\ UNCHANGED <<workerVars, dataVars, phase>>

Next ==
    \/ \E s \in Sources :
         WorkerStep(s) \/ WriteFrame(s) \/ WriteTimestamp(s) \/ ProducerExits(s)
         \/ Take(s)
    \/ \E i \in 1 .. Len(StopOrder) : Destroy(i)

\* The worker threads run.  Once the first source is being destroyed, run_program()
\* goes on to destroy the others.
Fairness ==
    /\ \A s \in Sources : WF_vars(WorkerStep(s))
    /\ \A i \in 2 .. Len(StopOrder) : WF_vars(Destroy(i))

Spec     == Init /\ [][Next]_vars
FairSpec == Spec /\ Fairness

(***************************************************************************)
(* Properties.                                                             *)
(***************************************************************************)
\* Between two attempts nothing of the earlier one is left: its producer is
\* reaped, nobody writes to its pipes, and while the source reports that it is
\* reconnecting no frame of it can be taken.
AttemptsAreSeparate ==
    \A s \in Sources :
        /\ worker[s] \in {"preparing", "failing", "restarting", "stopped"} =>
               producer[s] = "none" /\ writers[s] = {}
        /\ phase[s] = "reconnecting" => latest[s] = NoFrame

\* A frame carries the timestamp of its own capture, whatever was left of the
\* timestamps of an earlier attempt.
TimestampsBelong ==
    \A s \in Rpicam : latest[s].frame = latest[s].stamp

\* To those who poll it each source is a camera feed as ports::CameraSource
\* promises: the pipes, the child processes and the threads do not show.
Feed == INSTANCE CameraFeed WITH full <- [s \in Sources |-> latest[s] # NoFrame]

SourcesAreFeeds == Feed!FeedSpec

\* A source whose producer is gone says so: it does not go on reporting a
\* stream, whatever the other sources do.
FailuresAreReported ==
    \A s \in Sources :
        (phase[s] = "streaming" /\ producer[s] # "running")
            ~> (phase[s] # "streaming" \/ producer[s] = "running")

\* Once the program starts to destroy its sources every worker ends.
ShutdownFinishes ==
    \A i \in 1 .. Len(StopOrder) :
        stopRequested[StopOrder[1]] ~> worker[StopOrder[i]] = "stopped"
==============================================================================
