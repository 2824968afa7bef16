---------------------------- MODULE SiteRegistryMC ----------------------------
(* SiteRegistry with symmetric ids and threads. *)
EXTENDS SiteRegistry, TLC

Symmetry == Permutations(Threads) \cup Permutations(Floors) \cup Permutations(APs)
=============================================================================
