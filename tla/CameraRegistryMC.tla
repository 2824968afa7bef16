--------------------------- MODULE CameraRegistryMC ---------------------------
(* Instances of CameraRegistry for TLC.                                     *)
EXTENDS CameraRegistry, TLC

CONSTANTS m1, h1
OneKey == {[mac |-> m1, channel |-> h1]}
Symmetry == Permutations(Cams) \cup Permutations(Workers)
================================================================================
