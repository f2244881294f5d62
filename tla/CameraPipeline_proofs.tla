------------------------ MODULE CameraPipeline_proofs ------------------------
(***************************************************************************)
(* Every frame is accounted for and shown once at most, and a failure of   *)
(* the detector is told once, for every number of frames and restarts.     *)
(*                                                                         *)
(* FramesAreAccountedFor compares the larger of two counters with the      *)
(* frames produced, and is not inductive: a poll raises the gaps by a      *)
(* difference of sequence numbers and says nothing of the frames that were *)
(* overwritten.  Accounted keeps the two accounts apart, one per counter:  *)
(* what was received, overwritten or still waits is what was produced; and *)
(* what was received or skipped lies before the last sequence number seen, *)
(* which is the last one produced unless a frame waits.                    *)
(***************************************************************************)
EXTENDS CameraPipeline, TLAPS

Waiting == IF slot = NoFrame THEN 0 ELSE 1

Numbered ==
    /\ {slot, lastSequence, processed, ready, published} \subseteq Frames \cup {NoFrame}
    /\ produced \in 0 .. MaxFrames /\ restarts \in 0 .. MaxRestarts
    /\ overwritten \in Nat /\ received \in Nat /\ gaps \in Nat

Accounted ==
    /\ received + overwritten + Waiting <= produced
    /\ restarts = 0 => received + overwritten + Waiting = produced
    /\ received + gaps <= lastSequence
    /\ lastSequence <= produced
    /\ slot # NoFrame => slot = produced /\ lastSequence < produced
    /\ restarts = 0 /\ slot = NoFrame => lastSequence = produced

\* The detector fails once at most, and what is told of it is told once.
Control ==
    /\ {asynchronous, detecting, error, decommissioned, stopping} \subseteq BOOLEAN
    /\ phase \in Feed!FeedPhases
    /\ {failures, told} \subseteq 0 .. 1
    /\ worker \in {"polling", "storing", "failing", "ended"}
    /\ main \in {"constructing", "checking", "polling", "publishing", "stopping",
                 "closing", "ended"}
    /\ age \in 0 .. MaxFrameAge + 1
    /\ sincePublished \in 0 .. FrameInterval
    /\ listener \in {"starting", "listening", "returned", "ended"}

FailsOnce ==
    /\ ~asynchronous => worker = "ended"
    /\ \/ failures = 0
       \/ asynchronous /\ (worker = "failing" \/ ~detecting)
       \/ ~asynchronous /\ main \in {"stopping", "closing", "ended"}
    /\ told = 1 \/ error => ~detecting /\ worker # "failing"
    /\ told = 1 => ~error

Inv == Numbered /\ Accounted /\ Control /\ FailsOnce

LEMMA LargerOfTwo ==
    ASSUME NEW m \in Nat, NEW n \in Nat
    PROVE  Max({m, n}) = IF m >= n THEN m ELSE n
  <1>1. \E x \in {m, n} : \A y \in {m, n} : x >= y
    OBVIOUS
  <1> QED
    BY <1>1 DEF Max

LEMMA StartsAccounted == Init => Inv
  <1> SUFFICES ASSUME Init
               PROVE  Inv
    OBVIOUS
  <1> USE PipelineAssumption DEF Init, NoFrame, Frames
  <1>1. Numbered /\ Accounted
    BY DEF Numbered, Accounted, Waiting
  <1>2. {asynchronous, detecting, error, decommissioned, stopping} \subseteq BOOLEAN
    BY Zenon
  <1>3. /\ phase \in Feed!FeedPhases /\ {failures, told} \subseteq 0 .. 1
        /\ age \in 0 .. MaxFrameAge + 1 /\ sincePublished \in 0 .. FrameInterval
    BY DEF Feed!FeedPhases
  <1>4. Control
    BY <1>2, <1>3 DEF Control
  <1>5. FailsOnce
    BY DEF FailsOnce
  <1> QED
    BY <1>1, <1>4, <1>5 DEF Inv

(***************************************************************************)
(* The accounts.  Only the source and a poll touch them.                   *)
(***************************************************************************)
accounts == <<slot, lastSequence, produced, restarts, overwritten, received, gaps>>

LEMMA SourceKeepsAccounts ==
    ASSUME Numbered, Accounted, Source
    PROVE  Numbered' /\ Accounted'
  <1> USE PipelineAssumption DEF Numbered, Accounted, Waiting, NoFrame, Frames
  <1>0. /\ lastSequence' = lastSequence /\ received' = received /\ gaps' = gaps
        /\ processed' = processed /\ ready' = ready /\ published' = published
    BY DEF Source, monitorVars, asyncVars, serverVars
  <1>1. CASE ProduceFrame
    BY <1>0, <1>1 DEF ProduceFrame
  <1>2. CASE SourceFails
    BY <1>0, <1>2 DEF SourceFails
  <1>3. CASE SourceStartsOver
    BY <1>0, <1>3 DEF SourceStartsOver
  <1> QED
    BY <1>1, <1>2, <1>3 DEF Source

LEMMA PollKeepsAccounts ==
    ASSUME Numbered, Accounted, NEW throws \in BOOLEAN, MonitorPoll(throws),
           ready' = ready, published' = published
    PROVE  Numbered' /\ Accounted'
  <1> USE PipelineAssumption DEF Numbered, Accounted, Waiting, NoFrame, Frames, MonitorPoll
  <1>1. CASE HasFrame
    <2>1. /\ received' = received + 1 /\ lastSequence' = slot /\ slot' = 0
          /\ gaps' = IF lastSequence # 0 /\ slot > lastSequence + 1
                     THEN gaps + slot - lastSequence - 1 ELSE gaps
      BY <1>1 DEF Count
    <2>2. slot # 0 /\ processed' \in {processed, slot}
      BY <1>1 DEF HasFrame
    <2> QED
      BY <2>1, <2>2
  <1>2. CASE ~HasFrame
    BY <1>2
  <1> QED
    BY <1>1, <1>2

LEMMA OthersKeepAccounts ==
    ASSUME Numbered, Accounted, UNCHANGED accounts,
           {processed, ready, published}' \subseteq {processed, ready, published, NoFrame}
    PROVE  Numbered' /\ Accounted'
  BY DEF Numbered, Accounted, Waiting, NoFrame, Frames, accounts

LEMMA NextKeepsAccounts ==
    ASSUME Numbered, Accounted, [Next]_vars
    PROVE  Numbered' /\ Accounted'
  <1> USE DEF sourceVars, monitorVars, asyncVars, serverVars, listenVars, accounts
  <1>1. CASE Source
    BY <1>1, SourceKeepsAccounts
  <1>2. ASSUME NEW throws \in BOOLEAN, WorkerPoll(throws)
        PROVE  Numbered' /\ Accounted'
    BY <1>2, PollKeepsAccounts DEF WorkerPoll
  <1>3. CASE DisableFailedDetector \/ WorkerStore \/ WorkerEnds
    BY <1>3, OthersKeepAccounts DEF DisableFailedDetector, WorkerStore, WorkerEnds
  <1>4. CASE Construct \/ StopLoop \/ Destroy \/ Listen \/ ListenEnds \/ Tick
    BY <1>4, OthersKeepAccounts DEF Construct, StopLoop, Destroy, Listen, ListenEnds, Tick
  <1>5. ASSUME NEW throws \in BOOLEAN, MainPoll(throws)
        PROVE  Numbered' /\ Accounted'
    <2>1. CASE asynchronous
      BY <1>5, <2>1, OthersKeepAccounts DEF MainPoll
    <2>2. CASE ~asynchronous
      BY <1>5, <2>2, PollKeepsAccounts DEF MainPoll
    <2> QED
      BY <2>1, <2>2
  <1>6. CASE PublishCameraFrames
    <2>1. published' \in {published, ready, processed}
      BY <1>6 DEF PublishCameraFrames, PublishFrame
    <2>2. ready' \in {ready, NoFrame} /\ processed' \in {processed, NoFrame}
      BY <1>6 DEF PublishCameraFrames, LeftAfterTake
    <2> QED
      BY <1>6, <2>1, <2>2, OthersKeepAccounts DEF PublishCameraFrames
  <1>7. CASE UNCHANGED vars
    BY <1>7, OthersKeepAccounts DEF vars
  <1> QED
    BY <1>1, <1>2, <1>3, <1>4, <1>5, <1>6, <1>7 DEF Next, Worker, Main

(***************************************************************************)
(* Control.                                                                *)
(***************************************************************************)
LEMMA PollFailsOnce ==
    ASSUME Control, NEW throws \in BOOLEAN, MonitorPoll(throws),
           detecting => failures = 0
    PROVE  /\ failures' \in 0 .. 1 /\ phase' = phase /\ detecting' = detecting
           /\ ~throws => failures' = failures
           /\ throws => detecting
  BY DEF Control, MonitorPoll, Count

LEMMA NextKeepsControl ==
    ASSUME Numbered, Control, FailsOnce, [Next]_vars
    PROVE  Control' /\ FailsOnce'
  <1> USE PipelineAssumption DEF sourceVars, monitorVars, asyncVars, serverVars, listenVars,
          MainUnchanged
  <1>1. CASE Source
    <2>1. phase' \in {phase, "streaming", "failed", "reconnecting"}
      BY <1>1 DEF Source, ProduceFrame, SourceFails, SourceStartsOver
    <2> QED
      BY <1>1, <2>1 DEF Source, Control, FailsOnce, Feed!FeedPhases
  <1>2. ASSUME NEW throws \in BOOLEAN, WorkerPoll(throws)
        PROVE  Control' /\ FailsOnce'
    <2>1. asynchronous /\ (detecting => failures = 0)
      BY <1>2 DEF WorkerPoll, FailsOnce
    <2> QED
      BY <1>2, <2>1, PollFailsOnce DEF WorkerPoll, Control, FailsOnce
  <1>3. CASE DisableFailedDetector
    BY <1>3 DEF DisableFailedDetector, AfterFailure, Control, FailsOnce
  <1>4. CASE WorkerStore \/ WorkerEnds
    BY <1>4 DEF WorkerStore, WorkerEnds, Control, FailsOnce
  <1>5. ASSUME NEW throws \in BOOLEAN, MainPoll(throws)
        PROVE  Control' /\ FailsOnce'
    <2>1. CASE asynchronous
      <3>1. /\ error' = FALSE /\ ~throws /\ told' = IF error THEN told + 1 ELSE told
            /\ UNCHANGED <<asynchronous, detecting, phase, failures, worker, age,
                           sincePublished, listenVars>>
            /\ main' = "publishing"
        BY <1>5, <2>1 DEF MainPoll
      <3>2. told' \in 0 .. 1
        BY <3>1 DEF Control, FailsOnce
      <3>3. Control'
        BY <3>1, <3>2 DEF Control
      <3>4. FailsOnce'
        BY <3>1, <2>1 DEF Control, FailsOnce
      <3> QED
        BY <3>3, <3>4
    <2>2. CASE ~asynchronous
      <3>1. failures = 0
        BY <1>5, <2>2 DEF MainPoll, FailsOnce
      <3> QED
        BY <1>5, <2>2, <3>1, PollFailsOnce DEF MainPoll, Control, FailsOnce
    <2> QED
      BY <2>1, <2>2
  <1>6. CASE PublishCameraFrames
    <2>1. age' \in {age, 0} /\ sincePublished' \in {sincePublished, 0}
      BY <1>6 DEF PublishCameraFrames, PublishFrame
    <2> QED
      BY <1>6, <2>1 DEF PublishCameraFrames, Control, FailsOnce
  <1>7. CASE Construct \/ StopLoop
    BY <1>7 DEF Construct, StopLoop, Control, FailsOnce
  <1>8. CASE Destroy
    BY <1>8 DEF Destroy, Control, FailsOnce
  <1>9. CASE Listen \/ ListenEnds
    <2>1. decommissioned' \in BOOLEAN
      BY <1>9, Zenon DEF Listen, ListenEnds, Decommissions, Control
    <2> QED
      BY <1>9, <2>1 DEF Listen, ListenEnds, Control, FailsOnce
  <1>10. CASE Tick
    BY <1>10 DEF Tick, Control, FailsOnce
  <1>11. CASE UNCHANGED vars
    BY <1>11 DEF vars, Control, FailsOnce
  <1> QED
    BY <1>1, <1>2, <1>3, <1>4, <1>5, <1>6, <1>7, <1>8, <1>9, <1>10, <1>11
    DEF Next, Worker, Main

LEMMA InvAlways == Spec => []Inv
  <1>1. Inv /\ [Next]_vars => Inv'
    BY NextKeepsAccounts, NextKeepsControl DEF Inv
  <1> QED
    BY <1>1, StartsAccounted, PTL DEF Spec

\* The pipeline and the server stay well-typed: no counter exceeds the frames
\* produced, and the detector fails and is reported once at most.
THEOREM TypeCorrect == Spec => []TypeOK
  <1>1. Inv => TypeOK
    <2>1. Inv => {produced, overwritten, received, gaps} \subseteq 0 .. MaxFrames
      BY PipelineAssumption DEF Inv, Numbered, Accounted, Waiting, NoFrame, Frames
    <2> QED
      BY <2>1 DEF Inv, Numbered, Control, TypeOK
  <1> QED
    BY <1>1, InvAlways, PTL

\* However often the source starts over and the detector fails, no frame is
\* counted twice; without a restart none is missing.
THEOREM EveryFrameIsCounted == Spec => []FramesAreAccountedFor
  <1>1. Inv => FramesAreAccountedFor
    <2> SUFFICES ASSUME Inv
                 PROVE  FramesAreAccountedFor
      OBVIOUS
    <2> USE PipelineAssumption DEF Inv, Numbered, Accounted, Waiting, NoFrame, Frames
    <2>1. Dropped = IF gaps >= overwritten THEN gaps ELSE overwritten
      BY LargerOfTwo DEF Dropped
    <2>2. received + Dropped <= produced
      BY <2>1
    <2>3. ASSUME restarts = 0
          PROVE  received + Dropped + Waiting = produced
      BY <2>1, <2>3
    <2> QED
      BY <2>2, <2>3 DEF FramesAreAccountedFor
  <1> QED
    BY <1>1, InvAlways, PTL

(***************************************************************************)
(* Frames are shown once, in the order of their capture.                   *)
(*                                                                         *)
(* That a camera that stalls goes dark rests on this: the age of what is   *)
(* shown falls back to nothing only when something newer is shown.  What   *)
(* makes it hold is an order of all the places a frame can be in, from the *)
(* browser back to the source.                                             *)
(***************************************************************************)
\* What the server shows is replaced, or young again, only by a newer frame.
FramesAreShownOnce ==
    [][published' # published \/ age' < age => published' > published]_vars

ShownInOrder ==
    /\ published <= lastSequence /\ ready <= lastSequence /\ processed <= lastSequence
    /\ ready # NoFrame => published < ready /\ asynchronous
    /\ processed # NoFrame => published < processed /\ ready < processed

LEMMA PollKeepsOrder ==
    ASSUME Numbered, Accounted, ShownInOrder,
           NEW throws \in BOOLEAN, MonitorPoll(throws),
           ready' = ready, published' = published, asynchronous' = asynchronous
    PROVE  ShownInOrder'
  <1> USE DEF Numbered, Accounted, ShownInOrder, NoFrame, Frames, MonitorPoll
  <1>1. CASE HasFrame
    <2>1. lastSequence' = slot /\ lastSequence < slot /\ processed' \in {processed, slot}
      BY <1>1 DEF Count, HasFrame
    <2> QED
      BY <2>1, PipelineAssumption
  <1>2. CASE ~HasFrame
    BY <1>2
  <1> QED
    BY <1>1, <1>2

LEMMA StoreKeepsOrder ==
    ASSUME Numbered, ShownInOrder, WorkerStore, asynchronous
    PROVE  ShownInOrder'
  <1>1. /\ processed' = 0 /\ UNCHANGED <<asynchronous, published, lastSequence>>
        /\ ready' = IF processed = 0 THEN ready ELSE processed
    BY DEF WorkerStore, serverVars, NoFrame
  <1> QED
    BY <1>1 DEF ShownInOrder, NoFrame, Numbered, Frames

LEMMA PublishKeepsOrder ==
    ASSUME Numbered, ShownInOrder, PublishCameraFrames
    PROVE  /\ ShownInOrder'
           /\ UNCHANGED <<published, age>> \/ published' > published
  <1>1. /\ UNCHANGED <<asynchronous, lastSequence>>
        /\ \/ UNCHANGED <<published, age>>
           \/ published' = (IF asynchronous THEN ready ELSE processed) /\ published' # 0
        /\ IF asynchronous THEN ready' = 0 /\ processed' = processed
                           ELSE processed' = 0 /\ ready' = ready
    BY DEF PublishCameraFrames, PublishFrame, LeftAfterTake, NoFrame, MainUnchanged, serverVars
  <1>2. UNCHANGED <<published, age>> \/ published' > published
    BY <1>1 DEF ShownInOrder, NoFrame, Numbered, Frames
  <1> QED
    BY <1>1, <1>2 DEF ShownInOrder, NoFrame, Numbered, Frames

LEMMA NextKeepsOrder ==
    ASSUME Inv, ShownInOrder, [Next]_vars
    PROVE  /\ ShownInOrder'
           /\ \/ published' = published /\ age' >= age
              \/ published' > published
  <1> USE DEF sourceVars, monitorVars, asyncVars, serverVars, listenVars, MainUnchanged
  <1>a. Numbered /\ Accounted /\ age \in Nat
    BY PipelineAssumption DEF Inv, Control
  <1>b. ASSUME UNCHANGED <<asynchronous, lastSequence, processed, ready, published>>
        PROVE  ShownInOrder'
    BY <1>b DEF ShownInOrder, NoFrame
  <1>c. ASSUME UNCHANGED <<published, age>>
        PROVE  published' = published /\ age' >= age
    BY <1>a, <1>c
  <1>1. CASE Source
    BY <1>1, <1>b, <1>c DEF Source
  <1>2. ASSUME NEW throws \in BOOLEAN, WorkerPoll(throws)
        PROVE  ShownInOrder' /\ UNCHANGED <<published, age>>
    BY <1>2, <1>a, PollKeepsOrder DEF WorkerPoll
  <1>3. CASE DisableFailedDetector \/ WorkerEnds
    BY <1>3, <1>b, <1>c DEF DisableFailedDetector, WorkerEnds
  <1>4. CASE WorkerStore
    <2>1. asynchronous
      BY <1>4 DEF WorkerStore, Inv, FailsOnce
    <2> QED
      BY <1>4, <2>1, <1>a, <1>c, StoreKeepsOrder DEF WorkerStore
  <1>5. ASSUME NEW throws \in BOOLEAN, MainPoll(throws)
        PROVE  ShownInOrder' /\ UNCHANGED <<published, age>>
    <2>1. CASE asynchronous
      BY <1>5, <2>1, <1>b DEF MainPoll
    <2>2. CASE ~asynchronous
      BY <1>5, <2>2, <1>a, PollKeepsOrder DEF MainPoll
    <2> QED
      BY <2>1, <2>2
  <1>6. CASE PublishCameraFrames
    BY <1>6, <1>a, <1>c, PublishKeepsOrder
  <1>7. CASE Construct \/ StopLoop \/ Destroy \/ Listen \/ ListenEnds
    BY <1>7, <1>b, <1>c DEF Construct, StopLoop, Destroy, Listen, ListenEnds
  <1>8. CASE Tick
    <2>1. published' = published /\ age' >= age
      BY <1>8, <1>a DEF Tick
    <2> QED
      BY <1>8, <1>b, <2>1 DEF Tick
  <1>9. CASE UNCHANGED vars
    BY <1>9, <1>b, <1>c DEF vars
  <1> QED
    BY <1>1, <1>2, <1>3, <1>4, <1>5, <1>6, <1>7, <1>8, <1>9, <1>c DEF Next, Worker, Main

\* However fast the source, the two loops and the detector are, and however
\* often each of them fails: a frame is shown once and in its turn, and what
\* is shown never looks younger than it is.
THEOREM FramesAreNeverShownAgain == Spec => FramesAreShownOnce
  <1>1. Init => ShownInOrder
    BY DEF Init, ShownInOrder, NoFrame
  <1>2. Inv /\ ShownInOrder /\ [Next]_vars => ShownInOrder'
    BY NextKeepsOrder
  <1>3. ASSUME Inv, Inv', ShownInOrder, [Next]_vars
        PROVE  [published' # published \/ age' < age => published' > published]_vars
    BY <1>3, NextKeepsOrder, PipelineAssumption DEF Inv, Control
  <1> QED
    BY <1>1, <1>2, <1>3, InvAlways, PTL DEF Spec, FramesAreShownOnce

(***************************************************************************)
(* A failure of the detector is told once.                                 *)
(***************************************************************************)
\* A failure of the forward camera's detector is in one place: about to be
\* noted by the worker, in latest_error_, or told to the operator; and nothing
\* but a failure is ever there.
FailureIsInOnePlace ==
    asynchronous =>
        /\ failures = 1 <=> worker = "failing" \/ error \/ told = 1
        /\ worker = "failing" => ~error /\ told = 0
        /\ error => told = 0

LEMMA NextKeepsFailure ==
    ASSUME Inv, FailureIsInOnePlace, [Next]_vars
    PROVE  FailureIsInOnePlace'
  <1> USE DEF sourceVars, monitorVars, asyncVars, serverVars, listenVars, MainUnchanged
  <1>a. Control /\ FailsOnce
    BY DEF Inv
  <1>b. ASSUME UNCHANGED <<asynchronous, failures, error, told>>,
               worker' = "failing" <=> worker = "failing"
        PROVE  FailureIsInOnePlace'
    BY <1>b DEF FailureIsInOnePlace
  <1>1. ASSUME NEW throws \in BOOLEAN, WorkerPoll(throws)
        PROVE  FailureIsInOnePlace'
    <2>1. /\ asynchronous /\ worker = "polling" /\ (throws => detecting)
          /\ worker' = IF throws THEN "failing" ELSE "storing"
          /\ UNCHANGED <<asynchronous, error, told>>
      BY <1>1, <1>a DEF WorkerPoll, MonitorPoll, FailsOnce
    <2>2. CASE throws
      <3>1. failures = 0 /\ ~error /\ told = 0
        BY <2>1, <2>2, <1>a DEF FailsOnce, Control
      <3>2. failures' = failures + 1
        BY <1>1, <2>2 DEF WorkerPoll, MonitorPoll
      <3> QED
        BY <2>1, <2>2, <3>1, <3>2 DEF FailureIsInOnePlace
    <2>3. CASE ~throws
      <3>1. failures' = failures
        BY <1>1, <2>3 DEF WorkerPoll, MonitorPoll
      <3> QED
        BY <1>b, <2>1, <2>3, <3>1
    <2> QED
      BY <2>2, <2>3
  <1>2. CASE DisableFailedDetector
    BY <1>2 DEF DisableFailedDetector, AfterFailure, FailureIsInOnePlace
  <1>3. ASSUME NEW throws \in BOOLEAN, MainPoll(throws)
        PROVE  FailureIsInOnePlace'
    <2>1. CASE asynchronous
      <3>1. /\ error' = FALSE /\ told' = IF error THEN told + 1 ELSE told
            /\ UNCHANGED <<asynchronous, failures, worker>>
        BY <1>3, <2>1 DEF MainPoll
      <3> QED
        BY <2>1, <3>1, <1>a DEF FailureIsInOnePlace, FailsOnce
    <2>2. CASE ~asynchronous
      BY <1>3, <2>2 DEF MainPoll, FailureIsInOnePlace
    <2> QED
      BY <2>1, <2>2
  <1>4. CASE WorkerStore \/ WorkerEnds
    BY <1>4, <1>b DEF WorkerStore, WorkerEnds
  <1>5. CASE \/ Source \/ PublishCameraFrames \/ Construct \/ StopLoop \/ Destroy
             \/ Listen \/ ListenEnds \/ Tick
    BY <1>5, <1>b DEF Source, PublishCameraFrames, Construct, StopLoop, Destroy, Listen,
       ListenEnds, Tick
  <1>6. CASE UNCHANGED vars
    BY <1>6, <1>b DEF vars
  <1> QED
    BY <1>1, <1>2, <1>3, <1>4, <1>5, <1>6 DEF Next, Worker, Main

\* However the worker that notes the failure and the main thread that takes it
\* interleave, the operator is told of a failure not more than once, of nothing
\* that was none, and none is overwritten before it was told.
THEOREM FailureIsToldOnce == Spec => []FailureIsInOnePlace
  <1>1. Init => FailureIsInOnePlace
    BY DEF Init, FailureIsInOnePlace
  <1>2. Inv /\ FailureIsInOnePlace /\ [Next]_vars => FailureIsInOnePlace'
    BY NextKeepsFailure
  <1> QED
    BY <1>1, <1>2, InvAlways, PTL DEF Spec
==============================================================================
