----------------------------- MODULE CameraFeed -----------------------------
(***************************************************************************)
(* What ports::CameraSource promises those who poll it, whatever is behind *)
(* it: at most one frame waits in each source, and the phase says what to  *)
(* expect of it.  A source fails before it reconnects, a frame of a        *)
(* failed attempt does not outlive the failure by more than the way to     *)
(* "reconnecting", and nothing comes from a source that has stopped.       *)
(***************************************************************************)
CONSTANT Sources

VARIABLES
    full,   \* a frame waits to be taken from each source
    phase   \* status().phase

feedVars == <<full, phase>>

FeedPhases == {"starting", "streaming", "reconnecting", "stopped", "failed"}

FeedInit ==
    /\ full = [s \in Sources |-> FALSE]
    /\ phase = [s \in Sources |-> "starting"]

Produce(s) ==
    /\ phase[s] \in {"starting", "streaming", "reconnecting"}
    /\ full' = [full EXCEPT ![s] = TRUE]
    /\ phase' = [phase EXCEPT ![s] = "streaming"]

TakeFrame(s) ==
    /\ full' = [full EXCEPT ![s] = FALSE]
    /\ UNCHANGED phase

Fail(s) ==
    /\ phase[s] # "stopped"
    /\ phase' = [phase EXCEPT ![s] = "failed"]
    /\ UNCHANGED full

StartOver(s) ==
    /\ phase[s] = "failed"
    /\ phase' = [phase EXCEPT ![s] = "reconnecting"]
    /\ full' = [full EXCEPT ![s] = FALSE]

StopFeed(s) ==
    /\ phase' = [phase EXCEPT ![s] = "stopped"]
    /\ UNCHANGED full

FeedStep(s) ==
    Produce(s) \/ TakeFrame(s) \/ Fail(s) \/ StartOver(s) \/ StopFeed(s)

FeedNext == \E s \in Sources : FeedStep(s)

FeedSpec == FeedInit /\ [][FeedNext]_feedVars
=============================================================================
