--------------------------- MODULE PatrolTrackerMC ---------------------------
(***************************************************************************)
(* PatrolTracker on small floors: three checkpoints at most, and positions *)
(* for the cases the zones tell apart.  With Radius 1 and ExitMargin 1 a   *)
(* distance of 0 or 1 enters a zone, 2 only stays in it, 3 is outside.     *)
(***************************************************************************)
EXTENDS PatrolTracker, TLC

CONSTANTS cpA, cpB, cpC

At(near) == [ap \in APs |-> IF ap \in DOMAIN near THEN near[ap] ELSE 3]

Floor(route) == [enabled |-> TRUE, route |-> route]

\* Inside each zone, between all of them, at the edge of cpA while inside cpB (the
\* hysteresis keeps a visit of cpA going), and as near to cpA as to cpB.
PositionsAll ==
    {At(ap :> 0) : ap \in APs}
        \cup {At(cpA :> 2), At((cpA :> 2) @@ (cpB :> 1)), At((cpA :> 1) @@ (cpB :> 1))}
PositionsFew == {At(cpA :> 0), At(cpB :> 1), At(cpC :> 0), At(cpA :> 2)}

StableConfigs == {Floor(<<cpA, cpB, cpC>>)}
FaultyConfigs ==
    {Floor(<<cpA, cpB, cpC>>), Floor(<<cpA>>),
     [enabled |-> FALSE, route |-> <<cpB, cpA>>], NoFloor}
=============================================================================
