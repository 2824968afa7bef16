---------------------------- MODULE PatrolWindow ----------------------------
(***************************************************************************)
(* What the patrol tracker promises about one guard on one floor,          *)
(* whatever the guard does: time is cut into windows, every checkpoint of  *)
(* the route is judged exactly once at the end of each window, and a       *)
(* checkpoint that was cleared during the window is never reported.        *)
(* PatrolTracker implements it (see PatrolTracker!Abstract).               *)
(***************************************************************************)
EXTENDS FiniteSets

CONSTANT Checkpoints    \* the checkpoints of the floor's patrol route

VARIABLES
    open,       \* a window is in progress for this guard
    cleared,    \* checkpoints that hold a compliant record in this window
    judged,     \* checkpoints whose verdict for this window is out
    reported    \* checkpoints reported as a patrol violation in this window

vars == <<open, cleared, judged, reported>>

Fresh == cleared' = {} /\ judged' = {} /\ reported' = {}

Init ==
    /\ open = FALSE
    /\ cleared = {} /\ judged = {} /\ reported = {}

\* The guard is seen for the first time, or again after the process restarted.
Open == ~open /\ open' = TRUE /\ Fresh

\* A compliant record is filed; once judging has begun the books are closed.
Clear(c) ==
    /\ open /\ judged = {}
    /\ cleared' = cleared \cup {c}
    /\ UNCHANGED <<open, judged, reported>>

\* The one verdict on c in this window.
Judge(c) ==
    /\ open /\ c \notin judged
    /\ judged' = judged \cup {c}
    /\ reported' = IF c \in cleared THEN reported ELSE reported \cup {c}
    /\ UNCHANGED <<open, cleared>>

\* The window ends, and the next begins, only after every verdict is out.
Roll == open /\ judged = Checkpoints /\ Fresh /\ UNCHANGED open

\* The process dies; the window in progress is forgotten.
Forget == open /\ open' = FALSE /\ Fresh

Next ==
    \/ Open \/ Roll \/ Forget
    \/ \E c \in Checkpoints : Clear(c) \/ Judge(c)

Spec == Init /\ [][Next]_vars
=============================================================================
