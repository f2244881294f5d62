--------------------------- MODULE MCCameraSource ---------------------------
(***************************************************************************)
(* The two sources run_program() may create: the forward preview camera,   *)
(* always GStreamer and destroyed first, and the downward mission camera.  *)
(***************************************************************************)
EXTENDS CameraSource

CONSTANTS forward, downward

ForwardFirst == <<forward, downward>>
==============================================================================
