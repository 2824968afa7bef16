------------------------------ MODULE ManDownMC ------------------------------
(***************************************************************************)
(* ManDown with a worker and a forklift, in three places in a row of which *)
(* neighbours are closer than epsilon: jitter and genuine movement.        *)
(***************************************************************************)
EXTENDS ManDown, TLC

CONSTANTS w1, f

Row == 1..3
RowNear == {pq \in Row \X Row : pq[1] - pq[2] \in -1..1}
=============================================================================
