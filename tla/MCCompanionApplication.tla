----------------------- MODULE MCCompanionApplication -----------------------
(***************************************************************************)
(* Small instances of CompanionApplication.  Of the failsafe parameters    *)
(* one or two are read, each with a value the policy wants and one that it *)
(* does not; the checks themselves are for MCCompanionLinkFailsafe.        *)
(***************************************************************************)
EXTENDS CompanionApplication

\* 5 is the FS_GCS_ENABLE the policy asks for and 1 the id of vehicle 1.
FiveAndOne == {Number(5), Number(1)}
==============================================================================
