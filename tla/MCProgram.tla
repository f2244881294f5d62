------------------------------ MODULE MCProgram ------------------------------
(***************************************************************************)
(* Two or three words for every option: one that is good, one that the     *)
(* parser or a part of the program refuses, the default where another      *)
(* option may bring it back.                                               *)
(***************************************************************************)
EXTENDS Program, TLC

MCDefault ==
  [o \in Flags |-> FALSE] @@
  ("--transport" :> "udp" @@ "--udp-bind" :> "0.0.0.0" @@ "--udp-port" :> 14550 @@
   "--serial-device" :> "" @@ "--baud" :> 115200 @@
   "--camera-source" :> "rpicam" @@ "--camera-udp-port" :> 5601 @@
   "--camera-width" :> 640 @@ "--camera-height" :> 480 @@ "--camera-fps" :> 30 @@
   "--camera-sensor-mode" :> [width |-> 2304, height |-> 1296, depth |-> 10, packing |-> "P"] @@
   "--camera-preview-port" :> 8080 @@ "--forward-camera-udp-port" :> Absent @@
   "--snapshot-ms" :> 1000 @@ "--board-types" :> "" @@ "--diagnostic-log" :> "" @@
   "--sim-wind" :> Absent)

MCWords ==
  "--transport" :> {"udp", "serial", "usb"} @@ "--udp-bind" :> {"10.0.0.1", "localhost"} @@
  "--udp-port" :> {14551, 65536} @@ "--serial-device" :> {"", "/dev/ttyACM0"} @@
  "--baud" :> {57600, 12345} @@ "--camera-source" :> {"gstreamer", "rpicam", "usb"} @@
  "--camera-udp-port" :> {0, 5602} @@ "--camera-width" :> {320, 642, 641} @@
  "--camera-height" :> {240, Malformed} @@ "--camera-fps" :> {0, 15} @@
  "--camera-sensor-mode" :>
     {[width |-> 4608, height |-> 2592, depth |-> 10, packing |-> "U"],
      [width |-> 2304, height |-> 1296, depth |-> 9, packing |-> "P"], Malformed} @@
  "--camera-preview-port" :> {0, 8081} @@ "--forward-camera-udp-port" :> {5601, 5602} @@
  "--snapshot-ms" :> {0, 50} @@ "--board-types" :> {"boards.txt"} @@
  "--diagnostic-log" :> {"", "flight.jsonl"} @@
  "--sim-wind" :> {[speed |-> TRUE, direction |-> TRUE, turbulence |-> TRUE],
                   [speed |-> TRUE, direction |-> FALSE, turbulence |-> TRUE]}
===============================================================================
