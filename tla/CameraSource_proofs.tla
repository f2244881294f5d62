------------------------- MODULE CameraSource_proofs -------------------------
(***************************************************************************)
(* For any number of sources of either kind, and whatever their producers  *)
(* and pipes do: attempts do not mix, a frame carries the timestamp of its *)
(* own capture, each source implements the feed that CameraFeed promises,  *)
(* and a worker that joins its readers waits for nobody who has ended.     *)
(***************************************************************************)
EXTENDS CameraSource, TLAPS

Phases == {"starting", "streaming", "reconnecting", "stopped", "failed"}

(***************************************************************************)
(* The invariant, one source at a time.                                    *)
(***************************************************************************)
Typed ==
    /\ worker \in [Sources -> Places]
    /\ producer \in [Sources -> {"none", "running", "exited"}]
    /\ writers \in [Sources -> SUBSET (Sources \cup {Program})]
    /\ phase \in [Sources -> Phases]
    /\ latest \in [Sources -> [frame : Numbers, stamp : Numbers] \cup {NoFrame}]
    /\ timestamps \in [Sources -> Seq(Numbers)]
    /\ framesOut \in [Sources -> Numbers] /\ stampsOut \in [Sources -> Numbers]
    /\ framesIn \in [Sources -> Numbers]
    /\ stopRequested \in [Sources -> BOOLEAN]

LEMMA TypedIsTypeOK == TypeOK <=> Typed
  <1>1. {framesOut, stampsOut, framesIn} \subseteq [Sources -> Numbers]
          <=> /\ framesOut \in [Sources -> Numbers]
              /\ stampsOut \in [Sources -> Numbers]
              /\ framesIn \in [Sources -> Numbers]
    OBVIOUS
  <1> QED
    BY <1>1 DEF TypeOK, Typed, Phases

\* Where a frame may still be published.
Publishing == {"opened", "forked", "reading", "awaiting_timestamp"}

\* Where nothing of an attempt exists.
Between == {"preparing", "failing", "restarting", "stopped"}

PhaseFits(s) ==
    /\ worker[s] \in Publishing \cup {"preparing", "restarting"} =>
           phase[s] \in {"starting", "streaming", "reconnecting"}
    /\ worker[s] = "failing" /\ ~stopRequested[s] => phase[s] = "failed"
    /\ worker[s] # "stopped" => phase[s] # "stopped"

FrameFits(s) ==
    /\ worker[s] \in {"preparing", "restarting"} => latest[s] = NoFrame
    /\ phase[s] = "reconnecting" => latest[s] = NoFrame

Apart(s) ==
    /\ worker[s] \in Between \cup {"opened", "joining"} => producer[s] = "none"
    /\ worker[s] \in Between => writers[s] = {}

Inv == Typed /\ \A s \in Sources : PhaseFits(s) /\ FrameFits(s) /\ Apart(s)

LEMMA ReadingOrStopping ==
    ASSUME NEW s
    PROVE  NextRead(s) \in {"reading", "stopping"}
  BY DEF NextRead

LEMMA NumbersTurn ==
    /\ 0 \in Numbers
    /\ \A n \in Numbers : After(n) \in Numbers
    /\ \A n \in Numbers : \A stamp : [frame |-> n, stamp |-> stamp] # NoFrame
  <1>1. MaxFrames \in Nat
    BY SourcesAssumption
  <1>2. \A n \in Numbers : n # MaxFrames + 1
    BY <1>1 DEF Numbers
  <1>3. ASSUME NEW n \in Numbers, NEW stamp, [frame |-> n, stamp |-> stamp] = NoFrame
        PROVE  FALSE
    <2>1. [frame |-> n, stamp |-> stamp].frame = NoFrame.frame
      BY <1>3
    <2> QED
      BY <1>2, <2>1 DEF NoFrame
  <1> QED
    BY <1>1, <1>3 DEF Numbers, After

LEMMA Initially == Init => Inv
  <1> SUFFICES ASSUME Init
               PROVE  Inv
    OBVIOUS
  <1>1. Typed
    BY NumbersTurn DEF Init, Typed, Everywhere, Places, Phases
  <1>2. \A s \in Sources : PhaseFits(s) /\ FrameFits(s) /\ Apart(s)
    BY DEF Init, Everywhere, PhaseFits, FrameFits, Apart, Publishing, Between
  <1> QED
    BY <1>1, <1>2 DEF Inv

(***************************************************************************)
(* Types.                                                                  *)
(***************************************************************************)
LEMMA WorkerKeepsTypes ==
    ASSUME Typed, NEW s \in Sources, WorkerStep(s)
    PROVE  Typed'
  <1>1. CASE Open(s)
    BY <1>1, NumbersTurn DEF Open, Go, Prepare, Typed, Places
  <1>2. CASE OpenFails(s)
    BY <1>2 DEF OpenFails, Go, Prepare, Typed, Places, Phases
  <1>3. CASE ForkFails(s)
    BY <1>3 DEF ForkFails, Go, dataVars, Typed, Places, Phases
  <1>4. CASE Fork(s)
    BY <1>4 DEF Fork, Go, dataVars, Typed, Places
  <1>5. CASE CloseWriteEnds(s)
    BY <1>5 DEF CloseWriteEnds, Go, dataVars, Typed, Places
  <1>6. CASE ReadFrame(s)
    <2>1. After(framesIn[s]) \in Numbers
      BY NumbersTurn DEF Typed
    <2>2. CASE s \in Rpicam
      BY <1>6, <2>1, <2>2 DEF ReadFrame, Go, Typed, Places
    <2>3. CASE s \notin Rpicam
      <3> DEFINE new == [frame |-> After(framesIn[s]), stamp |-> After(framesIn[s])]
      <3>1. latest' = [latest EXCEPT ![s] = new] /\ new \in [frame : Numbers, stamp : Numbers]
        BY <1>6, <2>1, <2>3 DEF ReadFrame, Publish
      <3> HIDE DEF new
      <3>2. latest' \in [Sources -> [frame : Numbers, stamp : Numbers] \cup {NoFrame}]
        BY <3>1 DEF Typed
      <3> QED
        <4>1. /\ worker' = [worker EXCEPT ![s] = NextRead(s)]
              /\ phase' = [phase EXCEPT ![s] = "streaming"]
              /\ framesIn' = [framesIn EXCEPT ![s] = After(framesIn[s])]
              /\ UNCHANGED <<producer, writers, timestamps, framesOut, stampsOut,
                             stopRequested>>
          BY <1>6, <2>3 DEF ReadFrame, Go, Publish
        <4>2. NextRead(s) \in Places
          BY ReadingOrStopping DEF Places
        <4> QED
          BY <2>1, <3>2, <4>1, <4>2 DEF Typed, Phases
    <2> QED
      BY <2>2, <2>3
  <1>7. CASE TakeTimestamp(s)
    <2>1. Head(timestamps[s]) \in Numbers /\ Tail(timestamps[s]) \in Seq(Numbers)
      BY <1>7 DEF TakeTimestamp, Typed
    <2> QED
      BY <1>7, <2>1, ReadingOrStopping
         DEF TakeTimestamp, Go, Publish, Typed, Places, Phases
  <1>8. CASE NoTimestamp(s)
    BY <1>8 DEF NoTimestamp, Go, dataVars, Typed, Places, Phases
  <1>9. CASE ReadEnds(s)
    BY <1>9 DEF ReadEnds, Go, dataVars, Typed, Places
  <1>10. CASE StopChild(s)
    BY <1>10 DEF StopChild, Go, Release, dataVars, Typed, Places
  <1>11. CASE Join(s)
    BY <1>11 DEF Join, Go, dataVars, Typed, Places, Phases
  <1>12. CASE Reconnect(s)
    BY <1>12 DEF Reconnect, Go, Typed, Places, Phases
  <1>13. CASE Restart(s)
    BY <1>13 DEF Restart, Go, dataVars, Typed, Places
  <1>14. CASE Stop(s)
    BY <1>14 DEF Stop, Go, dataVars, Typed, Places, Phases
  <1> QED
    BY <1>1, <1>2, <1>3, <1>4, <1>5, <1>6, <1>7, <1>8, <1>9, <1>10, <1>11, <1>12,
       <1>13, <1>14 DEF WorkerStep

LEMMA NextKeepsTypes == Typed /\ [Next]_vars => Typed'
  <1> SUFFICES ASSUME Typed, [Next]_vars
               PROVE  Typed'
    OBVIOUS
  <1>1. ASSUME NEW s \in Sources, WriteFrame(s)
        PROVE  Typed'
    <2>1. After(framesOut[s]) \in Numbers
      BY NumbersTurn DEF Typed
    <2> QED
      BY <1>1, <2>1 DEF WriteFrame, workerVars, Typed
  <1>2. ASSUME NEW s \in Sources, WriteTimestamp(s)
        PROVE  Typed'
    <2>1. After(stampsOut[s]) \in Numbers
      BY NumbersTurn DEF Typed
    <2>2. Append(timestamps[s], After(stampsOut[s])) \in Seq(Numbers)
      BY <2>1 DEF Typed
    <2>3. /\ stampsOut' = [stampsOut EXCEPT ![s] = After(stampsOut[s])]
          /\ timestamps' = [timestamps EXCEPT ![s] =
                              Append(timestamps[s], After(stampsOut[s]))]
          /\ UNCHANGED <<workerVars, latest, framesOut, framesIn, phase, stopRequested>>
      BY <1>2 DEF WriteTimestamp
    <2> QED
      BY <2>1, <2>2, <2>3 DEF workerVars, Typed
  <1>3. ASSUME NEW s \in Sources, ProducerExits(s)
        PROVE  Typed'
    BY <1>3 DEF ProducerExits, Release, dataVars, Typed
  <1>4. ASSUME NEW s \in Sources, Take(s)
        PROVE  Typed'
    BY <1>4 DEF Take, workerVars, Typed
  <1>5. ASSUME NEW i \in 1 .. Len(StopOrder), Destroy(i)
        PROVE  Typed'
    BY <1>5 DEF Destroy, workerVars, dataVars, Typed
  <1>6. CASE UNCHANGED vars
    BY <1>6 DEF vars, workerVars, dataVars, Typed
  <1> QED
    BY <1>1, <1>2, <1>3, <1>4, <1>5, <1>6, WorkerKeepsTypes DEF Next

(***************************************************************************)
(* The rest of the invariant.  A step of one source leaves the others as   *)
(* they are; a fork may only add holders to pipes that are open.           *)
(***************************************************************************)
Fits(s) == PhaseFits(s) /\ FrameFits(s) /\ Apart(s)

OnlyAt(s) ==
    \A t \in Sources \ {s} :
        /\ worker'[t] = worker[t] /\ producer'[t] = producer[t]
        /\ phase'[t] = phase[t] /\ latest'[t] = latest[t]
        /\ stopRequested'[t] = stopRequested[t]
        /\ writers[t] = {} => writers'[t] = {}

LEMMA OthersFit ==
    ASSUME NEW s \in Sources, OnlyAt(s), \A t \in Sources : Fits(t), Fits(s)'
    PROVE  \A t \in Sources : Fits(t)'
  BY DEF OnlyAt, Fits, PhaseFits, FrameFits, Apart, Publishing, Between

LEMMA WorkerFits ==
    ASSUME Inv, NEW s \in Sources, WorkerStep(s)
    PROVE  OnlyAt(s) /\ Fits(s)'
  <1>0. Typed /\ Fits(s)
    BY DEF Inv, Fits
  <1> USE <1>0
  <1> USE DEF Go, Typed, OnlyAt, Fits, PhaseFits, FrameFits, Apart, Publishing, Between
  <1>1. CASE Open(s)
    BY <1>1 DEF Open, Prepare
  <1>2. CASE OpenFails(s)
    BY <1>2 DEF OpenFails, Prepare
  <1>3. CASE ForkFails(s)
    BY <1>3 DEF ForkFails, dataVars
  <1>4. CASE Fork(s)
    BY <1>4 DEF Fork, dataVars
  <1>5. CASE CloseWriteEnds(s)
    BY <1>5 DEF CloseWriteEnds, dataVars
  <1>6. CASE ReadFrame(s)
    <2>1. CASE s \in Rpicam
      BY <1>6, <2>1 DEF ReadFrame
    <2>2. CASE s \notin Rpicam
      <3>1. /\ worker' = [worker EXCEPT ![s] = NextRead(s)]
            /\ phase' = [phase EXCEPT ![s] = "streaming"]
            /\ latest' = [latest EXCEPT ![s] = [frame |-> After(framesIn[s]),
                                               stamp |-> After(framesIn[s])]]
            /\ UNCHANGED <<producer, writers, stopRequested>>
        BY <1>6, <2>2 DEF ReadFrame, Publish
      <3>2. NextRead(s) \in {"reading", "stopping"}
        BY ReadingOrStopping
      <3>3. worker'[s] \in {"reading", "stopping"} /\ phase'[s] = "streaming"
        BY <3>1, <3>2
      <3> QED
        BY <1>6, <3>1, <3>3
    <2> QED
      BY <2>1, <2>2
  <1>7. CASE TakeTimestamp(s)
    BY <1>7, ReadingOrStopping DEF TakeTimestamp, Publish
  <1>8. CASE NoTimestamp(s)
    BY <1>8 DEF NoTimestamp, dataVars
  <1>9. CASE ReadEnds(s)
    BY <1>9 DEF ReadEnds, dataVars
  <1>10. CASE StopChild(s)
    BY <1>10 DEF StopChild, Release, dataVars
  <1>11. CASE Join(s)
    BY <1>11 DEF Join, dataVars
  <1>12. CASE Reconnect(s)
    BY <1>12 DEF Reconnect
  <1>13. CASE Restart(s)
    BY <1>13 DEF Restart, dataVars
  <1>14. CASE Stop(s)
    BY <1>14 DEF Stop, dataVars
  <1> QED
    BY <1>1, <1>2, <1>3, <1>4, <1>5, <1>6, <1>7, <1>8, <1>9, <1>10, <1>11, <1>12,
       <1>13, <1>14 DEF WorkerStep

LEMMA Invariance == Inv /\ [Next]_vars => Inv'
  <1> SUFFICES ASSUME Inv, [Next]_vars
               PROVE  Inv'
    OBVIOUS
  <1>0. Typed /\ \A s \in Sources : Fits(s)
    BY DEF Inv, Fits
  <1>1. Typed'
    BY <1>0, NextKeepsTypes
  <1>2. ASSUME NEW s \in Sources, WorkerStep(s)
        PROVE  \A t \in Sources : Fits(t)'
    BY <1>0, <1>2, WorkerFits, OthersFit
  <1>3. ASSUME NEW s \in Sources, WriteFrame(s) \/ WriteTimestamp(s)
        PROVE  \A t \in Sources : Fits(t)'
    BY <1>0, <1>3 DEF WriteFrame, WriteTimestamp, workerVars, Fits, PhaseFits,
                      FrameFits, Apart
  <1>4. ASSUME NEW s \in Sources, ProducerExits(s)
        PROVE  \A t \in Sources : Fits(t)'
    BY <1>0, <1>4 DEF ProducerExits, Release, dataVars, Typed, Fits, PhaseFits,
                      FrameFits, Apart
  <1>5. ASSUME NEW s \in Sources, Take(s)
        PROVE  \A t \in Sources : Fits(t)'
    BY <1>0, <1>5 DEF Take, workerVars, Typed, Fits, PhaseFits, FrameFits, Apart
  <1>6. ASSUME NEW i \in 1 .. Len(StopOrder), Destroy(i)
        PROVE  \A t \in Sources : Fits(t)'
    BY <1>0, <1>6 DEF Destroy, workerVars, dataVars, Typed, Fits, PhaseFits,
                      FrameFits, Apart
  <1>7. UNCHANGED vars => \A t \in Sources : Fits(t)'
    BY <1>0 DEF vars, workerVars, dataVars, Fits, PhaseFits, FrameFits, Apart
  <1>8. \A t \in Sources : Fits(t)'
    BY <1>2, <1>3, <1>4, <1>5, <1>6, <1>7 DEF Next
  <1> QED
    BY <1>1, <1>8 DEF Inv, Fits

LEMMA InvAlways == Spec => []Inv
  BY Initially, Invariance, PTL DEF Spec

(***************************************************************************)
(* The theorems.                                                           *)
(***************************************************************************)
\* The variables keep their types.
THEOREM TypeCorrect == Spec => []TypeOK
  <1>1. Inv => TypeOK
    BY TypedIsTypeOK DEF Inv
  <1> QED
    BY <1>1, InvAlways, PTL

\* With any number of sources, whose producers inherit each other's pipes, an
\* attempt never begins while something of the one before is left.
THEOREM AttemptsNeverMix == Spec => []AttemptsAreSeparate
  <1>1. Inv => AttemptsAreSeparate
    BY DEF Inv, FrameFits, Apart, Between, AttemptsAreSeparate
  <1> QED
    BY <1>1, InvAlways, PTL

(***************************************************************************)
(* Refinement.  What happens to latest_frame_ and the phase of one source  *)
(* is what happens to the feed.                                            *)
(***************************************************************************)
Full == [s \in Sources |-> latest[s] # NoFrame]

LEMMA FrameArrives ==
    ASSUME Typed, NEW s \in Sources, NEW new, new # NoFrame,
           latest' = [latest EXCEPT ![s] = new]
    PROVE  Full' = [Full EXCEPT ![s] = TRUE]
  BY DEF Full, Typed

LEMMA FrameGoes ==
    ASSUME Typed, NEW s \in Sources, latest' = [latest EXCEPT ![s] = NoFrame]
    PROVE  Full' = [Full EXCEPT ![s] = FALSE]
  BY DEF Full, Typed

LEMMA NoFrameAnyway ==
    ASSUME Typed, NEW s \in Sources, latest[s] = NoFrame,
           latest' = [latest EXCEPT ![s] = NoFrame]
    PROVE  Full' = Full
  BY DEF Full, Typed

LEMMA WorkerStepIsFeedStep ==
    ASSUME Inv, NEW s \in Sources, WorkerStep(s)
    PROVE  [Feed!FeedNext]_<<Full, phase>>
  <1>0. Typed /\ PhaseFits(s) /\ FrameFits(s)
    BY DEF Inv
  <1>a. UNCHANGED latest => UNCHANGED Full
    BY DEF Full
  <1> SUFFICES Feed!FeedStep(s) \/ UNCHANGED <<Full, phase>>
    BY DEF Feed!FeedNext
  <1>1. CASE Open(s)
    <2>1. Full' = [Full EXCEPT ![s] = FALSE] /\ UNCHANGED phase
      BY <1>0, <1>1, FrameGoes DEF Open, Prepare
    <2> QED
      BY <2>1 DEF Feed!FeedStep, Feed!TakeFrame, Full
  <1>2. CASE OpenFails(s)
    <2>1. worker[s] = "preparing" /\ latest' = [latest EXCEPT ![s] = NoFrame]
      BY <1>2 DEF OpenFails, Go, Prepare
    <2>2. UNCHANGED Full
      BY <1>0, <2>1, NoFrameAnyway DEF FrameFits
    <2>3. phase[s] # "stopped" /\ phase' = [phase EXCEPT ![s] = "failed"]
      BY <1>0, <1>2, <2>1 DEF OpenFails, PhaseFits
    <2> QED
      BY <2>2, <2>3 DEF Feed!FeedStep, Feed!Fail, Full
  <1>3. CASE ForkFails(s)
    <2>1. phase[s] # "stopped" /\ phase' = [phase EXCEPT ![s] = "failed"]
      BY <1>0, <1>3 DEF ForkFails, Go, PhaseFits
    <2> QED
      BY <1>3, <1>a, <2>1 DEF ForkFails, dataVars, Feed!FeedStep, Feed!Fail, Full
  <1>4. CASE Fork(s) \/ CloseWriteEnds(s) \/ ReadEnds(s) \/ StopChild(s) \/ Restart(s)
    BY <1>4, <1>a DEF Fork, CloseWriteEnds, ReadEnds, StopChild, Restart, dataVars
  <1>5. CASE ReadFrame(s)
    <2>1. CASE s \in Rpicam
      BY <1>5, <1>a, <2>1 DEF ReadFrame
    <2>2. CASE s \notin Rpicam
      <3>1. worker[s] = "reading" /\ Publish(s, After(framesIn[s]), After(framesIn[s]))
        BY <1>5, <2>2 DEF ReadFrame, Go
      <3>2. After(framesIn[s]) \in Numbers
        BY <1>0, NumbersTurn DEF Typed
      <3>3. Full' = [Full EXCEPT ![s] = TRUE]
        BY <1>0, <3>1, <3>2, NumbersTurn, FrameArrives DEF Publish
      <3>4. /\ phase[s] \in {"starting", "streaming", "reconnecting"}
            /\ phase' = [phase EXCEPT ![s] = "streaming"]
        BY <1>0, <3>1 DEF Publish, PhaseFits, Publishing
      <3> QED
        BY <3>3, <3>4 DEF Feed!FeedStep, Feed!Produce, Full
    <2> QED
      BY <2>1, <2>2
  <1>6. CASE TakeTimestamp(s)
    <2>1. /\ worker[s] = "awaiting_timestamp"
          /\ Publish(s, framesIn[s], Head(timestamps[s]))
      BY <1>6 DEF TakeTimestamp, Go
    <2>2. Full' = [Full EXCEPT ![s] = TRUE]
      BY <1>0, <2>1, NumbersTurn, FrameArrives DEF Publish, Typed
    <2>3. /\ phase[s] \in {"starting", "streaming", "reconnecting"}
          /\ phase' = [phase EXCEPT ![s] = "streaming"]
      BY <1>0, <2>1 DEF Publish, PhaseFits, Publishing
    <2> QED
      BY <2>2, <2>3 DEF Feed!FeedStep, Feed!Produce, Full
  <1>7. CASE NoTimestamp(s) \/ Join(s)
    <2>1. /\ UNCHANGED Full /\ phase[s] # "stopped"
          /\ phase' = IF stopRequested[s] THEN phase ELSE [phase EXCEPT ![s] = "failed"]
      BY <1>0, <1>7, <1>a DEF NoTimestamp, Join, Go, dataVars, PhaseFits
    <2> QED
      BY <2>1 DEF Feed!FeedStep, Feed!Fail, Full
  <1>8. CASE Reconnect(s)
    <2>1. Full' = [Full EXCEPT ![s] = FALSE]
      BY <1>0, <1>8, FrameGoes DEF Reconnect
    <2>2. phase[s] = "failed" /\ phase' = [phase EXCEPT ![s] = "reconnecting"]
      BY <1>0, <1>8 DEF Reconnect, Go, PhaseFits
    <2> QED
      BY <2>1, <2>2 DEF Feed!FeedStep, Feed!StartOver, Full
  <1>9. CASE Stop(s)
    BY <1>9, <1>a DEF Stop, dataVars, Feed!FeedStep, Feed!StopFeed, Full
  <1> QED
    BY <1>1, <1>2, <1>3, <1>4, <1>5, <1>6, <1>7, <1>8, <1>9 DEF WorkerStep

LEMMA NextIsFeedNext ==
    ASSUME Inv, [Next]_vars
    PROVE  [Feed!FeedNext]_<<Full, phase>>
  <1>0. Typed
    BY DEF Inv
  <1>a. UNCHANGED latest => UNCHANGED Full
    BY DEF Full
  <1>1. ASSUME NEW s \in Sources,
               WriteFrame(s) \/ WriteTimestamp(s) \/ ProducerExits(s)
        PROVE  UNCHANGED <<Full, phase>>
    BY <1>1, <1>a DEF WriteFrame, WriteTimestamp, ProducerExits, dataVars
  <1>2. ASSUME NEW s \in Sources, Take(s)
        PROVE  Feed!FeedNext
    <2>1. Full' = [Full EXCEPT ![s] = FALSE] /\ UNCHANGED phase
      BY <1>0, <1>2, FrameGoes DEF Take
    <2> QED
      BY <2>1 DEF Feed!FeedNext, Feed!FeedStep, Feed!TakeFrame, Full
  <1>3. \A i : Destroy(i) => UNCHANGED <<Full, phase>>
    BY <1>a DEF Destroy, dataVars
  <1>4. UNCHANGED vars => UNCHANGED <<Full, phase>>
    BY <1>a DEF vars, dataVars
  <1> QED
    BY <1>1, <1>2, <1>3, <1>4, WorkerStepIsFeedStep DEF Next

\* Whatever happens to pipes, producers and threads, those who poll the sources
\* see feeds that behave as ports::CameraSource promises.
THEOREM SourcesImplementFeeds == Spec => SourcesAreFeeds
  <1>1. Init => Feed!FeedInit
    BY DEF Init, Everywhere, Feed!FeedInit
  <1>2. Inv /\ [Next]_vars => [Feed!FeedNext]_Feed!feedVars
    BY NextIsFeedNext DEF Full, Feed!feedVars
  <1> QED
    BY <1>1, <1>2, InvAlways, PTL DEF Spec, SourcesAreFeeds, Feed!FeedSpec

(***************************************************************************)
(* TimestampsBelong.  The queue of timestamps is a run of consecutive      *)
(* numbers: it begins with that of the next frame to be published, and the *)
(* last one queued is its end.  A frame that is left without its timestamp *)
(* ends the attempt, and the next one begins with an empty queue.          *)
(***************************************************************************)
LinesUp(queue, last, next) ==
    /\ queue = <<>> => After(last) = next
    /\ queue # <<>> => Head(queue) = next /\ queue[Len(queue)] = last
    /\ \A i \in 1 .. Len(queue) - 1 : queue[i + 1] = After(queue[i])

\* The number of the frame that is published next.
NextFrame(s) ==
    IF worker[s] = "awaiting_timestamp" THEN framesIn[s] ELSE After(framesIn[s])

StampFits(s) ==
    /\ worker[s] \in Publishing =>
           LinesUp(timestamps[s], stampsOut[s], NextFrame(s))
    /\ latest[s].frame = latest[s].stamp

StampsFit == \A s \in Rpicam : StampFits(s)

LEMMA QueueGrows ==
    ASSUME NEW queue \in Seq(Numbers), NEW last, NEW next, LinesUp(queue, last, next),
           After(last) \in Numbers
    PROVE  LinesUp(Append(queue, After(last)), After(last), next)
  <1> DEFINE longer == Append(queue, After(last))
  <1>1. /\ longer \in Seq(Numbers) /\ Len(longer) = Len(queue) + 1 /\ Len(queue) \in Nat
        /\ longer[Len(queue) + 1] = After(last)
        /\ \A i \in 1 .. Len(queue) : longer[i] = queue[i]
    OBVIOUS
  <1>2. longer # <<>> /\ Head(longer) = next
    <2>1. longer # <<>> /\ Head(longer) = longer[1]
      OBVIOUS
    <2>2. CASE queue = <<>>
      BY <1>1, <2>1, <2>2 DEF LinesUp
    <2>3. CASE queue # <<>>
      <3>1. Head(queue) = queue[1] /\ longer[1] = queue[1]
        BY <1>1, <2>3
      <3>2. Head(queue) = next
        BY <2>3, Zenon DEF LinesUp
      <3> QED
        BY <2>1, <3>1, <3>2
    <2> QED
      BY <2>2, <2>3
  <1>3. ASSUME NEW i \in 1 .. Len(queue)
        PROVE  longer[i + 1] = After(longer[i])
    <2>1. CASE i = Len(queue)
      BY <1>1, <2>1 DEF LinesUp
    <2>2. CASE i \in 1 .. Len(queue) - 1
      BY <1>1, <2>2 DEF LinesUp
    <2> QED
      BY <1>1, <2>1, <2>2
  <1> HIDE DEF longer
  <1> QED
    BY <1>1, <1>2, <1>3 DEF LinesUp, longer

LEMMA QueueShrinks ==
    ASSUME NEW queue \in Seq(Numbers), NEW last, NEW next, LinesUp(queue, last, next),
           queue # <<>>
    PROVE  LinesUp(Tail(queue), last, After(next))
  <1> DEFINE rest == Tail(queue)
  <1>1. /\ rest \in Seq(Numbers) /\ Len(rest) = Len(queue) - 1 /\ Len(queue) \in Nat \ {0}
        /\ \A i \in 1 .. Len(rest) : rest[i] = queue[i + 1]
        /\ Head(queue) = queue[1]
    OBVIOUS
  <1> HIDE DEF rest
  <1>2. queue[1] = next /\ queue[Len(queue)] = last
    <2>1. Head(queue) = next /\ queue[Len(queue)] = last
      BY Zenon DEF LinesUp
    <2> QED
      BY <1>1, <2>1
  <1>3. rest = <<>> => After(last) = After(next)
    <2>1. rest = <<>> => Len(queue) = 1
      BY <1>1
    <2> QED
      BY <1>2, <2>1
  <1>4. rest # <<>> => Head(rest) = After(next) /\ rest[Len(rest)] = last
    <2>1. SUFFICES ASSUME rest # <<>>
                   PROVE  Head(rest) = After(next) /\ rest[Len(rest)] = last
      OBVIOUS
    <2>2. Len(rest) \in Nat \ {0} /\ Head(rest) = rest[1]
      BY <1>1, <2>1
    <2>3. queue[2] = After(queue[1]) /\ rest[1] = queue[2]
      BY <1>1, <2>2 DEF LinesUp
    <2> QED
      BY <1>1, <1>2, <2>2, <2>3
  <1>5. ASSUME NEW i \in 1 .. Len(rest) - 1
        PROVE  rest[i + 1] = After(rest[i])
    BY <1>1, <1>5 DEF LinesUp
  <1> QED
    BY <1>3, <1>4, <1>5 DEF LinesUp, rest

\* A worker's step leaves the other sources alone.
LEMMA WorkerStampsFit ==
    ASSUME Typed, StampsFit, NEW s \in Sources, WorkerStep(s)
    PROVE  StampsFit'
  <1>0. \A t \in Rpicam : t \in Sources /\ StampFits(t)
    BY SourcesAssumption DEF StampsFit
  <1>1. ASSUME NEW t \in Rpicam, t # s
        PROVE  StampFits(t)'
    <2>1. worker'[t] = worker[t] /\ latest'[t] = latest[t] /\ timestamps'[t] = timestamps[t]
      BY <1>0, <1>1 DEF WorkerStep, Open, OpenFails, ForkFails, Fork, CloseWriteEnds,
         ReadFrame, TakeTimestamp, NoTimestamp, ReadEnds, StopChild, Join, Reconnect,
         Restart, Stop, Go, Prepare, Publish, dataVars, Typed
    <2>2. stampsOut'[t] = stampsOut[t] /\ framesIn'[t] = framesIn[t]
      BY <1>0, <1>1 DEF WorkerStep, Open, OpenFails, ForkFails, Fork, CloseWriteEnds,
         ReadFrame, TakeTimestamp, NoTimestamp, ReadEnds, StopChild, Join, Reconnect,
         Restart, Stop, dataVars, Typed
    <2> QED
      BY <1>0, <1>1, <2>1, <2>2 DEF StampFits, NextFrame
  <1>2. ASSUME s \in Rpicam
        PROVE  StampFits(s)'
    <2>0. StampFits(s)
      BY <1>0, <1>2
    <2>1. CASE Open(s)
      <3>1. /\ worker'[s] = "opened" /\ latest'[s] = NoFrame /\ timestamps'[s] = <<>>
            /\ stampsOut'[s] = 0 /\ framesIn'[s] = 0
        BY <2>1 DEF Open, Go, Prepare, Typed
      <3> QED
        BY <3>1 DEF StampFits, NextFrame, LinesUp, NoFrame
    <2>2. CASE OpenFails(s) \/ Reconnect(s)
      <3>1. worker'[s] \notin Publishing /\ latest'[s] = NoFrame
        BY <2>2 DEF OpenFails, Reconnect, Go, Prepare, Publishing, Typed
      <3> QED
        BY <3>1 DEF StampFits, NoFrame
    <2>3. CASE \/ ForkFails(s) \/ NoTimestamp(s) \/ ReadEnds(s) \/ StopChild(s) \/ Join(s)
               \/ Restart(s) \/ Stop(s)
      <3>1. worker'[s] \notin Publishing /\ latest'[s] = latest[s]
        BY <2>3 DEF ForkFails, NoTimestamp, ReadEnds, StopChild, Join, Restart, Stop, Go,
           dataVars, Publishing, Typed
      <3> QED
        BY <2>0, <3>1 DEF StampFits
    <2>4. CASE Fork(s) \/ CloseWriteEnds(s)
      <3>1. /\ worker[s] \in {"opened", "forked"} /\ worker'[s] \in {"forked", "reading"}
            /\ UNCHANGED dataVars
        BY <2>4 DEF Fork, CloseWriteEnds, Go, Typed
      <3> QED
        BY <2>0, <3>1 DEF StampFits, NextFrame, Publishing, dataVars
    <2>5. CASE ReadFrame(s)
      <3>1. /\ worker[s] = "reading" /\ worker'[s] = "awaiting_timestamp"
            /\ framesIn'[s] = After(framesIn[s])
            /\ UNCHANGED <<latest, timestamps, stampsOut>>
        BY <1>2, <2>5 DEF ReadFrame, Go, Typed
      <3> QED
        BY <2>0, <3>1 DEF StampFits, NextFrame, Publishing
    <2>6. CASE TakeTimestamp(s)
      <3>1. /\ worker[s] = "awaiting_timestamp" /\ worker'[s] \in {"reading", "stopping"}
            /\ timestamps[s] # <<>> /\ timestamps'[s] = Tail(timestamps[s])
            /\ UNCHANGED <<framesIn, stampsOut>>
        BY <2>6, ReadingOrStopping DEF TakeTimestamp, Go, Typed
      <3>2. LinesUp(timestamps[s], stampsOut[s], framesIn[s])
        BY <2>0, <3>1 DEF StampFits, NextFrame, Publishing
      <3>3. LinesUp(timestamps'[s], stampsOut'[s], NextFrame(s)')
        BY <3>1, <3>2, QueueShrinks DEF NextFrame, Typed
      <3>4. Head(timestamps[s]) = framesIn[s]
        BY <3>1, <3>2, Zenon DEF LinesUp
      <3>5. latest'[s] = [frame |-> framesIn[s], stamp |-> Head(timestamps[s])]
        BY <2>6 DEF TakeTimestamp, Publish, Typed
      <3> QED
        BY <3>3, <3>4, <3>5 DEF StampFits
    <2> QED
      BY <2>1, <2>2, <2>3, <2>4, <2>5, <2>6 DEF WorkerStep
  <1> QED
    BY <1>1, <1>2 DEF StampsFit

LEMMA NextKeepsStamps ==
    ASSUME Typed, StampsFit, [Next]_vars
    PROVE  StampsFit'
  <1>0. \A t \in Rpicam : t \in Sources /\ StampFits(t)
    BY SourcesAssumption DEF StampsFit
  <1>1. ASSUME UNCHANGED <<worker, latest, timestamps, stampsOut, framesIn>>
        PROVE  StampsFit'
    BY <1>1 DEF StampsFit, StampFits, NextFrame
  <1>2. ASSUME NEW s \in Sources, WriteTimestamp(s)
        PROVE  StampsFit'
    <2>1. /\ s \in Rpicam /\ UNCHANGED <<worker, latest, framesIn>>
          /\ stampsOut' = [stampsOut EXCEPT ![s] = After(@)]
          /\ timestamps' = [timestamps EXCEPT ![s] = Append(@, After(stampsOut[s]))]
      BY <1>2 DEF WriteTimestamp, workerVars
    <2>2. ASSUME NEW t \in Rpicam, t # s
          PROVE  StampFits(t)'
      <3>1. timestamps'[t] = timestamps[t] /\ stampsOut'[t] = stampsOut[t]
        BY <1>0, <2>1, <2>2 DEF Typed
      <3> QED
        BY <1>0, <2>1, <3>1 DEF StampFits, NextFrame
    <2>3. StampFits(s)'
      <3>1. /\ stampsOut'[s] = After(stampsOut[s])
            /\ timestamps'[s] = Append(timestamps[s], After(stampsOut[s]))
            /\ timestamps[s] \in Seq(Numbers) /\ After(stampsOut[s]) \in Numbers
        BY <2>1, NumbersTurn DEF Typed
      <3>2. NextFrame(s)' = NextFrame(s)
        BY <2>1 DEF NextFrame
      <3>3. ASSUME worker[s] \in Publishing
            PROVE  LinesUp(timestamps[s], stampsOut[s], NextFrame(s))'
        BY <1>0, <2>1, <3>1, <3>2, <3>3, QueueGrows DEF StampFits
      <3> QED
        BY <1>0, <2>1, <3>3 DEF StampFits
    <2> QED
      BY <2>2, <2>3 DEF StampsFit
  <1>3. ASSUME NEW s \in Sources, Take(s)
        PROVE  StampsFit'
    <2>1. ASSUME NEW t \in Rpicam
          PROVE  latest'[t] \in {latest[t], NoFrame}
      BY <1>0, <1>3 DEF Take, Typed
    <2>2. UNCHANGED <<worker, timestamps, stampsOut, framesIn>>
      BY <1>3 DEF Take, workerVars
    <2>3. NoFrame.frame = NoFrame.stamp
      BY DEF NoFrame
    <2> QED
      BY <1>0, <2>1, <2>2, <2>3 DEF StampsFit, StampFits, NextFrame
  <1> QED
    BY <1>1, <1>2, <1>3, WorkerStampsFit
    DEF Next, vars, workerVars, dataVars, WriteFrame, ProducerExits, Destroy

\* The timestamp published with a frame is the one its producer gave that frame,
\* for any number of frames and timestamps on their way and however attempts end.
THEOREM TimestampsAreTheirOwn == Spec => []TimestampsBelong
  <1>1. Init => StampsFit
    <2>1. ASSUME Init, NEW s \in Rpicam
          PROVE  worker[s] = "preparing" /\ latest[s] = NoFrame
      BY <2>1, SourcesAssumption DEF Init, Everywhere
    <2> QED
      BY <2>1 DEF StampsFit, StampFits, NoFrame, Publishing
  <1>2. Inv /\ StampsFit /\ [Next]_vars => StampsFit'
    BY NextKeepsStamps DEF Inv
  <1>3. StampsFit => TimestampsBelong
    BY DEF StampsFit, StampFits, TimestampsBelong
  <1> QED
    BY <1>1, <1>2, <1>3, InvAlways, PTL DEF Spec

(***************************************************************************)
(* What join() may wait for: the safety half of FailuresAreReported and    *)
(* ShutdownFinishes.                                                       *)
(***************************************************************************)
\* Who holds a write end is alive to let it go: a running producer, or the
\* program between pipe() and the start of the readers.
HeldByTheLiving ==
    \A s \in Sources :
        /\ \A t \in Sources : t \in writers[s] => producer[t] = "running"
        /\ Program \in writers[s] => worker[s] \in {"opened", "forked"}

\* No producer holds the write end of another source's pipe.
HeldByItsOwn == \A s \in Sources : \A t \in writers[s] : t = s \/ t = Program

\* A worker that joins its readers waits for running producers of other sources
\* at most: neither for its own child, nor for the program, nor for anyone who
\* has ended.
JoinsWaitForProducers ==
    \A s \in Sources : worker[s] = "joining" =>
        \A t \in writers[s] : t \in Sources \ {s} /\ producer[t] = "running"

\* A worker that joins its readers finds nobody left to wait for.
JoinsNeverWait ==
    \A s \in Sources : worker[s] = "joining" => writers[s] = {}

\* Only these steps touch processes and pipes.
LEMMA PipeSteps ==
    ASSUME Typed, [Next]_vars
    PROVE  \/ \E s \in Sources : Open(s) \/ ForkFails(s) \/ Fork(s) \/ CloseWriteEnds(s)
           \/ \E s \in Sources : StopChild(s) \/ ProducerExits(s)
           \/ /\ UNCHANGED <<producer, writers>>
              /\ \A s \in Sources :
                   worker[s] \in {"opened", "forked"} => worker'[s] = worker[s]
  <1>1. ASSUME NEW s \in Sources, WorkerStep(s)
        PROVE  \/ Open(s) \/ ForkFails(s) \/ Fork(s) \/ CloseWriteEnds(s) \/ StopChild(s)
               \/ /\ UNCHANGED <<producer, writers>>
                  /\ \A t \in Sources :
                       worker[t] \in {"opened", "forked"} => worker'[t] = worker[t]
    <2> USE DEF Typed
    <2>1. CASE OpenFails(s)
      BY <2>1 DEF OpenFails, Go
    <2>2. CASE ReadFrame(s)
      BY <2>2 DEF ReadFrame, Go
    <2>3. CASE TakeTimestamp(s)
      BY <2>3 DEF TakeTimestamp, Go
    <2>4. CASE NoTimestamp(s) \/ ReadEnds(s)
      BY <2>4 DEF NoTimestamp, ReadEnds, Go
    <2>5. CASE Join(s) \/ Reconnect(s) \/ Restart(s) \/ Stop(s)
      BY <2>5 DEF Join, Reconnect, Restart, Stop, Go
    <2> QED
      BY <1>1, <2>1, <2>2, <2>3, <2>4, <2>5 DEF WorkerStep
  <1> QED
    BY <1>1 DEF Next, vars, workerVars, WriteFrame, WriteTimestamp, Take, Destroy

LEMMA NextKeepsHolders ==
    ASSUME Inv, HeldByTheLiving, [Next]_vars
    PROVE  HeldByTheLiving'
  <1> USE DEF HeldByTheLiving, Go
  <1>0. Typed /\ Program \notin Sources
    BY SourcesAssumption DEF Inv
  <1>1. ASSUME NEW s \in Sources, Open(s) \/ ForkFails(s)
        PROVE  HeldByTheLiving'
    <2>1. /\ producer' = producer
          /\ \A t \in Sources \ {s} : writers'[t] = writers[t] /\ worker'[t] = worker[t]
      BY <1>0, <1>1 DEF Open, ForkFails, Typed
    <2>2. writers'[s] = {} \/ (writers'[s] = {Program} /\ worker'[s] = "opened")
      BY <1>0, <1>1 DEF Open, ForkFails, Typed
    <2> QED
      BY <1>0, <2>1, <2>2
  <1>2. ASSUME NEW s \in Sources, Fork(s)
        PROVE  HeldByTheLiving'
    BY <1>0, <1>2 DEF Fork, Typed
  <1>3. ASSUME NEW s \in Sources, CloseWriteEnds(s)
        PROVE  HeldByTheLiving'
    BY <1>0, <1>3 DEF CloseWriteEnds, Typed
  <1>4. ASSUME NEW s \in Sources, StopChild(s)
        PROVE  HeldByTheLiving'
    BY <1>0, <1>4 DEF StopChild, Release, Typed
  <1>5. ASSUME NEW s \in Sources, ProducerExits(s)
        PROVE  HeldByTheLiving'
    BY <1>0, <1>5 DEF ProducerExits, Release, Typed
  <1> QED
    BY <1>0, <1>1, <1>2, <1>3, <1>4, <1>5, PipeSteps

LEMMA HoldersAlways == Spec => [](Inv /\ HeldByTheLiving)
  <1>1. Init => HeldByTheLiving
    BY DEF Init, Everywhere, HeldByTheLiving
  <1>2. Inv /\ HeldByTheLiving /\ [Next]_vars => HeldByTheLiving'
    BY NextKeepsHolders
  <1> QED
    BY <1>1, <1>2, InvAlways, PTL DEF Spec

\* However attempts overlap, a worker that has stopped its own child waits for
\* the child of another source at most, and that one is running.
THEOREM JoinsWaitForTheLiving == Spec => []JoinsWaitForProducers
  <1>1. Inv /\ HeldByTheLiving => JoinsWaitForProducers
    <2> SUFFICES ASSUME Inv, HeldByTheLiving, NEW s \in Sources, worker[s] = "joining",
                        NEW t \in writers[s]
                 PROVE  t \in Sources \ {s} /\ producer[t] = "running"
      BY DEF JoinsWaitForProducers
    <2>1. producer[s] = "none" /\ t \in Sources \cup {Program}
      BY DEF Inv, Apart, Typed
    <2> QED
      BY <2>1 DEF HeldByTheLiving
  <1> QED
    BY <1>1, HoldersAlways, PTL

\* When no two attempts are set up at the same time, every reader has seen the
\* end of its pipe by the time it is joined: no source waits for another.
THEOREM JoinsNeverHang ==
    ASSUME ~ForksOverlap
    PROVE  Spec => []JoinsNeverWait
  <1>1. Init => HeldByItsOwn
    BY DEF Init, Everywhere, HeldByItsOwn
  <1>2. ASSUME Inv, HeldByItsOwn, [Next]_vars
        PROVE  HeldByItsOwn'
    <2> USE DEF HeldByItsOwn, Go
    <2>0. Typed
      BY <1>2 DEF Inv
    <2>1. ASSUME NEW s \in Sources, Open(s) \/ ForkFails(s) \/ CloseWriteEnds(s)
          PROVE  HeldByItsOwn'
      <3>1. /\ \A t \in Sources \ {s} : writers'[t] = writers[t]
            /\ writers'[s] \subseteq writers[s] \cup {Program}
        BY <2>0, <2>1 DEF Open, ForkFails, CloseWriteEnds, Typed
      <3> QED
        BY <1>2, <3>1
    <2>2. ASSUME NEW s \in Sources, Fork(s)
          PROVE  HeldByItsOwn'
      BY <1>2, <2>0, <2>2 DEF Fork, Typed
    <2>3. ASSUME NEW s \in Sources, StopChild(s) \/ ProducerExits(s)
          PROVE  HeldByItsOwn'
      BY <1>2, <2>0, <2>3 DEF StopChild, ProducerExits, Release, Typed
    <2> QED
      BY <1>2, <2>0, <2>1, <2>2, <2>3, PipeSteps
  <1>3. HeldByItsOwn /\ JoinsWaitForProducers => JoinsNeverWait
    BY SourcesAssumption DEF HeldByItsOwn, JoinsWaitForProducers, JoinsNeverWait
  <1>4. Inv /\ HeldByItsOwn /\ [Next]_vars => HeldByItsOwn'
    BY <1>2
  <1> QED
    BY <1>1, <1>3, <1>4, InvAlways, JoinsWaitForTheLiving, PTL DEF Spec
==============================================================================
