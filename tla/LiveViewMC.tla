------------------------------ MODULE LiveViewMC ------------------------------
(* Instances of LiveView for TLC.                                           *)
EXTENDS LiveView
================================================================================
