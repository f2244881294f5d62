--------------------------- MODULE MCTelemetryLink ---------------------------
(***************************************************************************)
(* Small instances of TelemetryLink.  A tick stands for a second, so the   *)
(* timeouts have the values of the source.                                 *)
(***************************************************************************)
EXTENDS TelemetryLink

\* Every answer comes before the acknowledgement timeout, or not at all.
PromptRoundTrip == AckTimeout - 1

\* An answer may still come when its request has been sent again.
SlowRoundTrip == AckTimeout

\* The shortest restart the program cannot fail to notice.
ShortestBoot == HeartbeatTimeout + 2
==============================================================================
