--------------------------- MODULE CameraPresenceMC ---------------------------
(* Instances of CameraPresence for TLC.                                     *)
EXTENDS CameraPresence
================================================================================
