----------------------- MODULE MCCompanionLinkFailsafe -----------------------
(***************************************************************************)
(* CompanionLinkFailsafe on its own, with numbers on both sides of every   *)
(* boundary of the checks: below and above the range of the timeout, both  *)
(* bits of the mask and a bit outside it, a fraction, a negative number,   *)
(* a number that is none, and the system id 0.                             *)
(***************************************************************************)
EXTENDS CompanionLinkFailsafe

TwoAndAHalf == [finite |-> TRUE, halves |-> 5]

EveryBoundary ==
    {NaN, TwoAndAHalf} \cup {Number(n) : n \in {-1, 0, 1, 2, 5, 10, 11, 16}}
==============================================================================
