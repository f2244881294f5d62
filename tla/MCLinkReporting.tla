--------------------------- MODULE MCLinkReporting ---------------------------
(* A small instance of LinkReporting for TLC. *)
EXTENDS LinkReporting

==============================================================================
