------------------------- MODULE PatrolTrackerProofs -------------------------
(***************************************************************************)
(* Proofs about PatrolTracker, for every value of its constants.           *)
(***************************************************************************)
EXTENDS PatrolTracker, TLAPS

\* Type correctness is not inductive alone: a dwell is elapsed - entered, and
\* lies in its range only if a visit is entered before it is left.
TypeInv == TypeOK /\ (state # NoState => state.entered <= state.elapsed)

\* What Saturate returns.
LEMMA SaturateBounds ==
    ASSUME NEW n \in Nat, NEW cap \in Nat
    PROVE  Saturate(n, cap) \in 0..cap /\ Saturate(n, cap) <= n
BY DEF Saturate

LEMMA BoundsAreNaturals == MaxDwell \in Nat /\ MaxElapsed \in Nat
BY NumbersAssumption DEF MaxDwell, MaxElapsed, Max2

\* Filing a visit keeps the state a guard state and its clock fields as they were.
LEMMA FiledType ==
    ASSUME state \in GuardState, NEW v \in Visit
    PROVE  /\ Filed(v) \in GuardState
           /\ Filed(v).elapsed = state.elapsed
           /\ Filed(v).entered = state.entered
           /\ Filed(v).cur = state.cur
<1>1. Append(state.keys, v.index) \in Seq(Nat \ {0})
  BY DEF GuardState, Visit
<1>2. state.visits \cup {v} \in SUBSET Visit
  BY DEF GuardState
<1>. QED  BY <1>1, <1>2 DEF Filed, GuardState

\* So does moving the guard into another zone, or out of all of them.
LEMMA MovedType ==
    ASSUME NEW s \in GuardState, NEW i \in Nat, NEW e \in 0..s.elapsed
    PROVE  /\ [s EXCEPT !.cur = i, !.entered = e] \in GuardState
           /\ [s EXCEPT !.cur = i, !.entered = e].entered = e
           /\ [s EXCEPT !.cur = i, !.entered = e].elapsed = s.elapsed
<1>. DEFINE t == [s EXCEPT !.cur = i]
<1>1. e \in 0..MaxElapsed  BY BoundsAreNaturals DEF GuardState
<1>2. t \in GuardState /\ t.elapsed = s.elapsed  BY DEF GuardState
<1>. HIDE DEF t
<1>3. /\ [t EXCEPT !.entered = e] \in GuardState
      /\ [t EXCEPT !.entered = e].entered = e
      /\ [t EXCEPT !.entered = e].elapsed = t.elapsed
  BY <1>1, <1>2 DEF GuardState
<1>. QED  BY <1>2, <1>3 DEF t

LEMMA SaveType ==
    ASSUME alerts \in [Alert -> 0..2], NEW a \in Alert, Save(a)
    PROVE  alerts' \in [Alert -> 0..2]
<1>1. alerts[a] + 1 \in Nat  OBVIOUS
<1>. QED  BY <1>1, SaturateBounds DEF Save

\* What the cache hands a tick is a saved configuration, never "no floor".
LEMMA FloorContextType ==
    ASSUME TypeOK
    PROVE  /\ FloorContext \in [floor : Configs \ {NoFloor}, age : 0..CacheTTL]
                                \cup {NoCtx}
           /\ FloorCacheAfter \in [floor : Configs \ {NoFloor}, age : 0..CacheTTL]
                                   \cup {NoCtx}
           /\ FloorContext # NoCtx => FloorCacheAfter = FloorContext
<1>1. 0 \in 0..CacheTTL  BY NumbersAssumption
<1>. QED  BY <1>1 DEF TypeOK, FloorContext, FloorCacheAfter, CacheIsLive

\* A route is a sequence of APs, the empty one when nothing is cached.
LEMMA RouteType == ASSUME TypeOK PROVE Route \in Seq(APs)
BY ConfigsAssumption DEF TypeOK, Route, Config

LEMMA CandidateType ==
    ASSUME NEW p, NEW route \in Seq(APs), NEW cur \in Nat
    PROVE  Candidate(p, route, cur) \in 0..Len(route)
BY DEF Candidate, NoIndex

LEMMA TickRouteType ==
    ASSUME TypeOK, TickMatters
    PROVE  FloorContext # NoCtx /\ FloorContext.floor.route \in Seq(APs)
BY FloorContextType, ConfigsAssumption DEF TickMatters, Config

\* A new window's state, wherever the guard is entered.
LEMMA OpenedType ==
    ASSUME NEW i \in Nat
    PROVE  Opened(i) \in GuardState /\ Opened(i).entered <= Opened(i).elapsed
<1>1. 0 \in 0..MaxElapsed  BY BoundsAreNaturals
<1>2. << >> \in Seq(Nat \ {0}) /\ {} \in SUBSET Visit  OBVIOUS
<1>. QED  BY <1>1, <1>2 DEF Opened, GuardState

LEMMA RealVisitType ==
    ASSUME TypeInv, state # NoState, state.cur \in Indices
    PROVE  RealVisit \in Visit
<1>1. state \in GuardState /\ state.elapsed - state.entered \in Nat
  BY DEF TypeInv, TypeOK, GuardState
<1>2. Saturate(state.elapsed - state.entered, MaxDwell) \in 0..MaxDwell
  BY <1>1, SaturateBounds, BoundsAreNaturals
<1>3. Route[state.cur] \in APs /\ state.cur \in Nat \ {0}
  BY RouteType DEF TypeInv, Indices
<1>. QED  BY <1>2, <1>3 DEF RealVisit, Visit

LEMMA UnreachedVisitType ==
    ASSUME TypeOK, NEW i \in Indices, NEW b \in BOOLEAN
    PROVE  UnreachedVisit(i, b) \in Visit
<1>1. Route[i] \in APs /\ i \in Nat \ {0}  BY RouteType DEF Indices
<1>2. 0 \in 0..MaxDwell  BY BoundsAreNaturals
<1>. QED  BY <1>1, <1>2 DEF UnreachedVisit, Visit

LEMMA TypeInvInit == Init => TypeInv
<1>1. NoAlerts \in [Alert -> 0..2]  BY DEF NoAlerts
<1>. SUFFICES ASSUME Init PROVE TypeInv
  OBVIOUS
<1>2. floor \in Configs /\ ctx = NoCtx /\ state = NoState  BY DEF Init
<1>3. alerts \in [Alert -> 0..2]  BY <1>1 DEF Init
<1>4. pc = "idle" /\ cand \in Nat /\ k \in Nat /\ ticked \in BOOLEAN /\ spoilt \in BOOLEAN
  BY DEF Init, NoIndex
<1>. QED  BY <1>2, <1>3, <1>4 DEF TypeOK, TypeInv

LEMMA TypeInvNext == TypeInv /\ [Next]_vars => TypeInv'
<1>. SUFFICES ASSUME TypeInv, [Next]_vars PROVE TypeInv'
  OBVIOUS
<1>. USE DEF TypeInv
<1>1. CASE EditFloor  BY <1>1 DEF EditFloor, TypeOK
<1>2. CASE Elapse
  <2>1. ASSUME ctx # NoCtx
        PROVE  [ctx EXCEPT !.age = Saturate(@ + 1, CacheTTL)]
                 \in [floor : Configs \ {NoFloor}, age : 0..CacheTTL]
    <3>1. ctx.age + 1 \in Nat  BY <2>1, NumbersAssumption DEF TypeOK
    <3>2. Saturate(ctx.age + 1, CacheTTL) \in 0..CacheTTL
      BY <3>1, SaturateBounds, NumbersAssumption
    <3>. QED  BY <2>1, <3>2 DEF TypeOK
  <2>2. ASSUME state # NoState
        PROVE  /\ [state EXCEPT !.elapsed = Saturate(@ + 1, MaxElapsed)] \in GuardState
               /\ state.entered <= Saturate(state.elapsed + 1, MaxElapsed)
    <3>1. state \in GuardState  BY <2>2 DEF TypeOK
    <3>0. state.elapsed + 1 \in Nat  BY <3>1, BoundsAreNaturals DEF GuardState
    <3>2. Saturate(state.elapsed + 1, MaxElapsed) \in 0..MaxElapsed
      BY <3>0, SaturateBounds, BoundsAreNaturals
    <3>3. state.entered <= Saturate(state.elapsed + 1, MaxElapsed)
      BY <2>2, <3>1, BoundsAreNaturals DEF GuardState, Saturate
    <3>. QED  BY <3>1, <3>2, <3>3 DEF GuardState
  <2>3. ctx' \in [floor : Configs \ {NoFloor}, age : 0..CacheTTL] \cup {NoCtx}
    BY <1>2, <2>1 DEF Elapse
  <2>4. state' \in GuardState \cup {NoState}
        /\ (state' # NoState => state'.entered <= state'.elapsed)
    <3>1. CASE state = NoState  BY <1>2, <3>1 DEF Elapse
    <3>2. CASE state # NoState
      BY <1>2, <2>2, <3>2 DEF Elapse, TypeOK, GuardState
    <3>. QED  BY <3>1, <3>2
  <2>. QED  BY <1>2, <2>3, <2>4 DEF Elapse, TypeOK
<1>3. CASE Restart
  <2>1. alerts' \in [Alert -> 0..2]  BY <1>3 DEF Restart, NoAlerts
  <2>. QED  BY <1>3, <2>1 DEF Restart, TypeOK, NoIndex
<1>4. CASE TickContextOnly
  BY <1>4, FloorContextType DEF TickContextOnly, RouteMayChange, TypeOK
<1>5. ASSUME NEW p \in Positions, TickFresh(p) PROVE TypeInv'
  <2>1. Candidate(p, FloorContext.floor.route, NoIndex) \in Nat
    BY <1>5, TickRouteType, CandidateType DEF TickFresh, NoIndex
  <2>2. state' \in GuardState /\ state'.entered <= state'.elapsed
    BY <1>5, <2>1, OpenedType DEF TickFresh
  <2>. QED  BY <1>5, <2>2, FloorContextType DEF TickFresh, TickEnds, TypeOK, NoIndex
<1>6. ASSUME NEW p \in Positions, TickCloses(p) PROVE TypeInv'
  <2>1. state \in GuardState  BY <1>6 DEF TickCloses, TypeOK
  <2>2. Candidate(p, FloorContext.floor.route, state.cur) \in Nat
    BY <1>6, <2>1, TickRouteType, CandidateType DEF TickCloses, GuardState
  <2>3. ctx' # NoCtx  BY <1>6, FloorContextType DEF TickCloses, TickMatters
  <2>. QED  BY <1>6, <2>1, <2>2, <2>3, FloorContextType
       DEF TickCloses, RouteMayChange, TypeOK
<1>7. ASSUME NEW p \in Positions, TickMoves(p) PROVE TypeInv'
  <2>1. state \in GuardState  BY <1>7 DEF TickMoves, TypeOK
  <2>2. Candidate(p, FloorContext.floor.route, state.cur) \in Nat
    BY <1>7, <2>1, TickRouteType, CandidateType DEF TickMoves, GuardState
  <2>3. ctx' # NoCtx  BY <1>7, FloorContextType DEF TickMoves, TickMatters
  <2>4. /\ state' \in GuardState /\ state' # NoState
        /\ state'.entered <= state'.elapsed
    BY <1>7, <2>1, NoStateAssumption DEF TickMoves, GuardState
  <2>. QED
    BY <1>7, <2>2, <2>3, <2>4, FloorContextType
    DEF TickMoves, RouteMayChange, TickEnds, TypeOK, NoIndex
<1>8. CASE CloseCurrent
  <2>1. state \in GuardState /\ state # NoState  BY <1>8 DEF CloseCurrent, TypeOK
  <2>2. state' \in GuardState /\ state'.entered <= state'.elapsed
    BY <1>8, <2>1, RealVisitType, FiledType DEF CloseCurrent
  <2>. QED  BY <1>8, <2>2, NoStateAssumption DEF CloseCurrent, TypeOK
<1>9. ASSUME NEW i \in Indices, Backfill(i) PROVE TypeInv'
  <2>1. state \in GuardState /\ state # NoState  BY <1>9 DEF Backfill, TypeOK
  <2>2. state' \in GuardState /\ state'.entered <= state'.elapsed
    BY <1>9, <2>1, UnreachedVisitType, FiledType DEF Backfill
  <2>. QED  BY <1>9, <2>2, NoStateAssumption DEF Backfill, TypeOK
<1>10. CASE BackfillDone  BY <1>10 DEF BackfillDone, TypeOK
<1>11. CASE Judge
  <2>. DEFINE i == state.keys[k + 1]
  <2>1. PICK best \in BestOf(i) :
            IF Compliant(best) THEN UNCHANGED alerts
            ELSE Save([cause |-> CauseOf(best), ap |-> Route[i]])
    BY <1>11 DEF Judge
  <2>2. i \in Indices  BY <1>11 DEF Judge
  <2>3. [cause |-> CauseOf(best), ap |-> Route[i]] \in Alert
    <3>1. Route[i] \in APs  BY <2>2, RouteType DEF Indices
    <3>. QED  BY <3>1 DEF Alert, CauseOf
  <2>4. alerts' \in [Alert -> 0..2]
    BY <2>1, <2>3, SaveType DEF TypeOK
  <2>. QED  BY <1>11, <2>4 DEF Judge, TypeOK
<1>12. CASE CheckNoPatrol
  <2>1. alerts' \in [Alert -> 0..2]
    BY <1>12, SaveType DEF CheckNoPatrol, TypeOK, Alert, NoPatrolAlert
  <2>. QED  BY <1>12, <2>1 DEF CheckNoPatrol, TypeOK
<1>13. CASE ReplaceWindow
  <2>1. state' \in GuardState /\ state'.entered <= state'.elapsed
    BY <1>13, OpenedType DEF ReplaceWindow, TypeOK
  <2>2. alerts' \in [Alert -> 0..2]  BY <1>13 DEF ReplaceWindow, NoAlerts
  <2>. QED  BY <1>13, <2>1, <2>2 DEF ReplaceWindow, TypeOK, TickEnds, NoIndex
<1>14. CASE Leave
  <2>1. state \in GuardState /\ state # NoState  BY <1>14 DEF Leave, TypeOK
  <2>2. /\ Filed(RealVisit) \in GuardState
        /\ Filed(RealVisit).elapsed = state.elapsed
    BY <1>14, <2>1, RealVisitType, FiledType DEF Leave
  <2>3. state' \in GuardState /\ state'.entered <= state'.elapsed
    <3>1. 0 \in 0..Filed(RealVisit).elapsed
      BY <2>2, BoundsAreNaturals DEF GuardState
    <3>2. state' = [Filed(RealVisit) EXCEPT !.cur = 0, !.entered = 0]
      BY <1>14 DEF Leave, NoIndex
    <3>. DEFINE s == Filed(RealVisit)
    <3>. HIDE DEF s
    <3>3. s \in GuardState /\ 0 \in Nat /\ 0 \in 0..s.elapsed  BY <2>2, <3>1 DEF s
    <3>4. state' = [s EXCEPT !.cur = 0, !.entered = 0]  BY <3>2 DEF s
    <3>5. state' \in GuardState /\ state'.entered = 0 /\ state'.elapsed = s.elapsed
      BY <3>3, <3>4, MovedType
    <3>. QED  BY <3>3, <3>5
  <2>. QED  BY <1>14, <2>3, NoStateAssumption DEF Leave, TickEnds, TypeOK, NoIndex
<1>15. ASSUME NEW i \in Indices, Skip(i) PROVE TypeInv'
  <2>1. state \in GuardState /\ state # NoState  BY <1>15 DEF Skip, TypeOK
  <2>2. state' \in GuardState /\ state'.entered <= state'.elapsed
    BY <1>15, <2>1, UnreachedVisitType, FiledType DEF Skip
  <2>. QED  BY <1>15, <2>2, NoStateAssumption DEF Skip, TypeOK
<1>16. CASE Enter
  <2>1. state \in GuardState /\ state # NoState  BY <1>16 DEF Enter, TypeOK
  <2>2. state' \in GuardState /\ state'.entered <= state'.elapsed
    <3>1. state.elapsed \in 0..state.elapsed /\ cand \in Nat
      BY <2>1, BoundsAreNaturals DEF GuardState, TypeOK
    <3>2. state' = [state EXCEPT !.cur = cand, !.entered = state.elapsed]
      BY <1>16 DEF Enter
    <3>3. state' \in GuardState /\ state'.entered = state.elapsed
          /\ state'.elapsed = state.elapsed
      BY <2>1, <3>1, <3>2, MovedType
    <3>. QED  BY <2>1, <3>3, BoundsAreNaturals DEF GuardState
  <2>. QED  BY <1>16, <2>2 DEF Enter, TickEnds, TypeOK, NoIndex
<1>17. CASE SaveRaises  BY <1>17 DEF SaveRaises, TickEnds, TypeOK, NoIndex
<1>18. CASE IndexRaises  BY <1>18 DEF IndexRaises, TickEnds, TypeOK, NoIndex
<1>19. CASE UNCHANGED vars  BY <1>19 DEF vars, TypeOK
<1>. QED
  BY <1>1, <1>2, <1>3, <1>4, <1>5, <1>6, <1>7, <1>8, <1>9, <1>10, <1>11, <1>12,
     <1>13, <1>14, <1>15, <1>16, <1>17, <1>18, <1>19
  DEF Next, TickBegins, TickStep

LEMMA TypeInvariance == Spec => []TypeInv
BY TypeInvInit, TypeInvNext, PTL DEF Spec

\* Type correctness of the tracker, whatever admins edit and whichever saves fail.
THEOREM TypeCorrect == Spec => []TypeOK
<1>1. TypeInv => TypeOK  BY DEF TypeInv
<1>. QED  BY <1>1, TypeInvariance, PTL
-----------------------------------------------------------------------------
(***************************************************************************)
(* The alerting loop, through edits, failing saves and restarts alike.     *)
(***************************************************************************)
Judging == pc \in {"judge", "noPatrol", "replace"}

\* Judging starts only when every checkpoint of the route has a record.
WindowIsComplete == Judging => Unlogged = {}

AllJudged == pc \in {"noPatrol", "replace"} => k = Len(state.keys)

VerdictsSoFar == Judging => \A j \in 1..k : VerdictIsOut(state.keys[j])

LoopInv ==
    /\ ~Judging => k = 0
    /\ WindowIsComplete /\ AllJudged /\ VerdictsSoFar

\* Steps outside the alerting loop leave nothing of it behind.
LEMMA LoopOver ==
    ASSUME pc' \notin {"judge", "noPatrol", "replace"}, k' = 0
    PROVE  LoopInv'
BY DEF LoopInv, WindowIsComplete, AllJudged, VerdictsSoFar, Judging

\* One round puts one verdict out and takes none back.
LEMMA LoopGoesOn ==
    ASSUME TypeInv, LoopInv, Judge
    PROVE  LoopInv'
<1>0. PICK i \in Indices : i = state.keys[k + 1]  BY DEF Judge
<1>1. PICK best \in BestOf(i) :
          IF Compliant(best) THEN UNCHANGED alerts
          ELSE Save([cause |-> CauseOf(best), ap |-> Route[i]])
  BY <1>0 DEF Judge
<1>2. /\ state' = state /\ ctx' = ctx /\ k' = k + 1 /\ pc = "judge"
      /\ pc' = IF k + 1 = Len(state.keys) THEN "noPatrol" ELSE "judge"
  BY DEF Judge
<1>3. /\ Route' = Route /\ \A j : VisitsOf(j)' = VisitsOf(j)
      /\ k \in Nat /\ alerts \in [Alert -> 0..2] /\ Route[i] \in APs
  BY <1>0, <1>2, RouteType DEF Route, VisitsOf, TypeInv, TypeOK, Indices
<1>. DEFINE a0 == [cause |-> CauseOf(best), ap |-> Route[i]]
<1>4. a0 \in Alert /\ a0.ap = Route[i]  BY <1>3 DEF Alert, CauseOf
<1>5. \A a \in Alert : alerts[a] > 0 => alerts'[a] > 0
  BY <1>1, <1>3, <1>4 DEF Save, Saturate
<1>6. VerdictIsOut(i)'
  <2>1. CASE Compliant(best)
    <3>1. best \in state.visits /\ best.index = i  BY DEF BestOf, VisitsOf
    <3>. QED  BY <1>2, <2>1, <3>1 DEF VerdictIsOut, VisitsOf
  <2>2. CASE ~Compliant(best)
    <3>1. alerts' = [alerts EXCEPT ![a0] = Saturate(alerts[a0] + 1, 2)]
      BY <1>1, <2>2 DEF Save
    <3>2. Saturate(alerts[a0] + 1, 2) > 0  BY <1>3, <1>4 DEF Saturate
    <3>. HIDE DEF a0
    <3>3. alerts'[a0] > 0  BY <1>3, <1>4, <3>1, <3>2
    <3>. QED  BY <1>2, <1>3, <1>4, <3>3 DEF VerdictIsOut
  <2>. QED  BY <2>1, <2>2
<1>7. \A j \in 1..k : VerdictIsOut(state.keys[j])'
  <2>. SUFFICES ASSUME NEW j \in 1..k PROVE VerdictIsOut(state.keys[j])'  OBVIOUS
  <2>1. VerdictIsOut(state.keys[j])
    BY <1>2 DEF LoopInv, VerdictsSoFar, Judging
  <2>. QED  BY <1>2, <1>3, <1>5, <2>1 DEF VerdictIsOut, VisitsOf, Compliant
<1>8. VerdictsSoFar'
  <2>1. \A j \in 1..(k + 1) : j \in 1..k \/ j = k + 1  BY <1>3
  <2>. QED  BY <1>0, <1>2, <1>6, <1>7, <2>1 DEF VerdictsSoFar
<1>9. WindowIsComplete'
  <2>1. Unlogged = {} /\ Unlogged' = Unlogged
    BY <1>2, <1>3 DEF LoopInv, WindowIsComplete, Judging, Unlogged, Logged, Indices
  <2>. QED  BY <2>1 DEF WindowIsComplete
<1>. QED  BY <1>2, <1>8, <1>9 DEF LoopInv, AllJudged, Judging

LEMMA LoopInvNext == TypeInv /\ LoopInv /\ [Next]_vars => LoopInv'
<1>. SUFFICES ASSUME TypeInv, LoopInv, [Next]_vars PROVE LoopInv'
  OBVIOUS
<1>0. ~Judging => k = 0  BY DEF LoopInv
<1>1. CASE EditFloor \/ UNCHANGED vars
  <2>1. UNCHANGED <<ctx, state, alerts, pc, k>>  BY <1>1 DEF EditFloor, vars
  <2>. QED
    BY <2>1 DEF LoopInv, WindowIsComplete, AllJudged, VerdictsSoFar, Judging, VerdictIsOut,
       VisitsOf, Compliant, Unlogged, Logged, Indices, Route
<1>2. CASE Elapse \/ Restart \/ TickContextOnly \/ TickBegins
  BY <1>0, <1>2, LoopOver
  DEF Elapse, Restart, TickContextOnly, TickBegins, TickFresh, TickCloses, TickMoves,
      TickEnds, Judging
<1>3. CASE SaveRaises \/ IndexRaises \/ ReplaceWindow \/ Enter \/ Leave \/ CloseCurrent
  BY <1>0, <1>3, LoopOver
  DEF SaveRaises, IndexRaises, ReplaceWindow, Enter, Leave, CloseCurrent, TickEnds, Judging
<1>4. ASSUME NEW i \in Indices, Backfill(i) \/ Skip(i) PROVE LoopInv'
  BY <1>0, <1>4, LoopOver DEF Backfill, Skip, Judging
<1>5. CASE BackfillDone
  <2>1. /\ k = 0 /\ k' = 0 /\ state' = state /\ ctx' = ctx /\ Unlogged = {}
        /\ pc' = IF state.keys = << >> THEN "noPatrol" ELSE "judge"
    BY <1>0, <1>5 DEF BackfillDone, Judging
  <2>. QED
    BY <2>1 DEF LoopInv, WindowIsComplete, AllJudged, VerdictsSoFar, Judging, Unlogged,
       Logged, Indices, Route
<1>6. CASE CheckNoPatrol
  <2>1. UNCHANGED <<ctx, state, k>> /\ pc = "noPatrol" /\ pc' = "replace"
    BY <1>6 DEF CheckNoPatrol
  <2>2. NoPatrolAlert \in Alert /\ alerts \in [Alert -> 0..2]
    BY DEF Alert, NoPatrolAlert, TypeInv, TypeOK
  <2>3. \A a \in Alert : alerts[a] > 0 => alerts'[a] > 0
    BY <1>6, <2>2 DEF CheckNoPatrol, Save, Saturate
  <2>4. WindowIsComplete' /\ AllJudged'
    BY <2>1 DEF LoopInv, WindowIsComplete, AllJudged, Judging, Unlogged, Logged, Indices, Route
  <2>5. VerdictsSoFar'
    BY <2>1, <2>3 DEF LoopInv, VerdictsSoFar, Judging, VerdictIsOut, VisitsOf, Compliant, Route
  <2>. QED  BY <2>1, <2>4, <2>5 DEF LoopInv, Judging
<1>. QED
  BY <1>1, <1>2, <1>3, <1>4, <1>5, <1>6, LoopGoesOn DEF Next, TickStep

LEMMA LoopInvariance == Spec => []LoopInv
<1>1. Init => LoopInv
  BY DEF Init, LoopInv, WindowIsComplete, AllJudged, VerdictsSoFar, Judging
<1>. QED  BY <1>1, LoopInvNext, TypeInvariance, PTL DEF Spec
-----------------------------------------------------------------------------
(***************************************************************************)
(* Alerts.  A route edited in the middle of a window, or a save that       *)
(* raises, may repeat alerts in that window.  What follows is about the    *)
(* windows that are not spoilt in this way, on a floor whose routes are    *)
(* without repetitions.                                                    *)
(***************************************************************************)
DistinctRoute ==
    \A c \in Configs \ {NoFloor} : \A i, j \in 1..Len(c.route) :
        c.route[i] = c.route[j] => i = j

\* What a window stands on, spoilt or not: its context, and a candidate on its route.
Grounded ==
    /\ state # NoState => ctx # NoCtx
    /\ spoilt => state # NoState
    /\ cand \in 0..Len(Route)
    /\ pc = "idle" => cand = NoIndex

\* Everything the state remembers is on the route, and was on it when filed.
OnRoute ==
    state # NoState =>
        /\ state.cur \in 0..Len(Route)
        /\ \A j \in 1..Len(state.keys) : state.keys[j] \in Indices
        /\ \A v \in state.visits : v.index \in Indices /\ v.ap = Route[v.index]

KeysDistinct ==
    state # NoState =>
        \A i, j \in 1..Len(state.keys) : state.keys[i] = state.keys[j] => i = j

InsideWhenClosing == pc \in {"closeCurrent", "leave"} => state.cur # NoIndex

SilentUnlessJudging == ~Judging => alerts = NoAlerts /\ k = 0

JudgeInRange ==
    /\ pc = "judge" => k < Len(state.keys)
    /\ Judging => k <= Len(state.keys)

\* An alert is out only for a checkpoint the loop has passed, and only if no
\* record of that checkpoint was compliant.
ReportsAreJudged ==
    Judging => \A a \in Alert \ {NoPatrolAlert} : alerts[a] > 0 =>
        \E j \in 1..k : /\ Route[state.keys[j]] = a.ap
                         /\ \A v \in VisitsOf(state.keys[j]) : ~Compliant(v)

NoPatrolComesLast == pc \in {"judge", "noPatrol"} => alerts[NoPatrolAlert] = 0

AlertInv ==
    /\ OnRoute /\ KeysDistinct /\ InsideWhenClosing /\ SilentUnlessJudging
    /\ JudgeInRange /\ ReportsAreJudged /\ NoPatrolComesLast
    /\ OncePerCheckpoint

\* Filing a visit adds its index to the keys unless it is there, once.
LEMMA FiledKeys ==
    ASSUME state \in GuardState, KeysDistinct, state # NoState, NEW v \in Visit
    PROVE  LET s == Filed(v) IN
           /\ s.cur = state.cur /\ s.visits = state.visits \cup {v}
           /\ \A j \in 1..Len(s.keys) : s.keys[j] \in Logged \cup {v.index}
           /\ \A i, j \in 1..Len(s.keys) : s.keys[i] = s.keys[j] => i = j
<1>1. /\ Filed(v).cur = state.cur
      /\ Filed(v).visits = state.visits \cup {v}
      /\ Filed(v).keys = IF v.index \in Logged THEN state.keys
                         ELSE Append(state.keys, v.index)
  BY DEF Filed, GuardState
<1>2. state.keys \in Seq(Nat \ {0}) /\ v.index \in Nat \ {0}
  BY DEF GuardState, Visit
<1>3. CASE v.index \in Logged
  BY <1>1, <1>2, <1>3 DEF KeysDistinct, Logged
<1>4. CASE v.index \notin Logged
  <2>1. Filed(v).keys = Append(state.keys, v.index)  BY <1>1, <1>4
  <2>2. \A j \in 1..Len(Append(state.keys, v.index)) :
          \/ j \in 1..Len(state.keys) /\ Append(state.keys, v.index)[j] = state.keys[j]
          \/ j = Len(state.keys) + 1 /\ Append(state.keys, v.index)[j] = v.index
    BY <1>2
  <2>. QED  BY <1>1, <1>2, <1>4, <2>1, <2>2 DEF KeysDistinct, Logged
<1>. QED  BY <1>3, <1>4

KeysIn(keys) == {keys[j] : j \in 1..Len(keys)}

\* A filed visit is one more, and its checkpoint is logged.
LEMMA FiledVisits ==
    ASSUME state \in GuardState, NEW v \in Visit
    PROVE  /\ Filed(v).visits = state.visits \cup {v} /\ Filed(v).cur = state.cur
           /\ KeysIn(Filed(v).keys) = Logged \cup {v.index}
<1>1. /\ Filed(v).cur = state.cur
      /\ Filed(v).visits = state.visits \cup {v}
      /\ Filed(v).keys = IF v.index \in Logged THEN state.keys
                         ELSE Append(state.keys, v.index)
  BY DEF Filed, GuardState
<1>2. state.keys \in Seq(Nat \ {0}) /\ v.index \in Nat \ {0}
  BY DEF GuardState, Visit
<1>3. CASE v.index \in Logged  BY <1>1, <1>3 DEF Logged, KeysIn
<1>4. CASE v.index \notin Logged
  <2>1. Filed(v).keys = Append(state.keys, v.index)  BY <1>1, <1>4
  <2>2. /\ Len(Append(state.keys, v.index)) = Len(state.keys) + 1
        /\ \A j \in 1..Len(state.keys) : Append(state.keys, v.index)[j] = state.keys[j]
        /\ Append(state.keys, v.index)[Len(state.keys) + 1] = v.index
    BY <1>2
  <2>. QED  BY <1>1, <1>2, <2>1, <2>2 DEF Logged, KeysIn
<1>. QED  BY <1>3, <1>4, <1>1

\* The visit that ends is filed, and only then is the guard out of his zone.
LEMMA ClosedVisit ==
    ASSUME TypeInv, CloseCurrent \/ Leave
    PROVE  /\ state' # NoState /\ state'.visits = state.visits \cup {RealVisit}
           /\ state'.keys = Filed(RealVisit).keys
           /\ CloseCurrent => state'.cur = state.cur
           /\ Leave => state'.cur = NoIndex
<1>1. /\ state \in GuardState /\ state # NoState /\ RealVisit \in Visit
  BY RealVisitType DEF CloseCurrent, Leave, TypeInv, TypeOK
<1>2. /\ Filed(RealVisit) \in GuardState /\ Filed(RealVisit).cur = state.cur
      /\ Filed(RealVisit).visits = state.visits \cup {RealVisit}
  BY <1>1, FiledType, FiledVisits
<1>3. CASE CloseCurrent
  <2>1. pc = "closeCurrent"  BY <1>3 DEF CloseCurrent
  <2>2. ~Leave  BY <2>1 DEF Leave
  <2>. QED  BY <1>2, <1>3, <2>2, NoStateAssumption DEF CloseCurrent
<1>4. CASE Leave
  <2>. DEFINE s == Filed(RealVisit)
  <2>. HIDE DEF s
  <2>1. s \in GuardState  BY <1>2 DEF s
  <2>2. state' = [s EXCEPT !.cur = NoIndex, !.entered = 0] /\ pc = "leave"
    BY <1>4 DEF Leave, s
  <2>3. /\ state'.visits = s.visits /\ state'.keys = s.keys /\ state'.cur = NoIndex
    BY <2>1, <2>2 DEF GuardState
  <2>4. state' \in GuardState
    <3>1. 0 \in 0..s.elapsed  BY <2>1, BoundsAreNaturals DEF GuardState
    <3>. QED  BY <2>1, <2>2, <3>1, MovedType DEF NoIndex
  <2>5. ~CloseCurrent  BY <2>2 DEF CloseCurrent
  <2>. QED  BY <1>2, <2>3, <2>4, <2>5, NoStateAssumption DEF s
<1>. QED  BY <1>3, <1>4

\* The cached route is a configuration's.
LEMMA CachedRoute ==
    ASSUME TypeOK, ctx # NoCtx
    PROVE  \E c \in Configs \ {NoFloor} : c.route = Route
BY DEF TypeOK, Route

\* Only a tick's first step and a restart change it.
LEMMA RouteStands ==
    ASSUME TypeOK, ctx' = ctx \/ Elapse
    PROVE  Route' = Route /\ Indices' = Indices /\ (ctx' = NoCtx <=> ctx = NoCtx)
<1>1. CASE ctx' = ctx  BY <1>1 DEF Route, Indices
<1>2. CASE Elapse
  <2>1. CASE ctx = NoCtx  BY <1>2, <2>1 DEF Elapse, Route, Indices
  <2>2. CASE ctx # NoCtx
    <3>1. /\ ctx \in [floor : Configs \ {NoFloor}, age : 0..CacheTTL]
          /\ ctx' = [ctx EXCEPT !.age = Saturate(ctx.age + 1, CacheTTL)]
      BY <1>2, <2>2 DEF Elapse, TypeOK
    <3>2. Saturate(ctx.age + 1, CacheTTL) \in Nat
      BY <3>1, NumbersAssumption DEF Saturate
    <3>3. ctx' \in [floor : Config, age : Nat] /\ ctx'.floor = ctx.floor
      BY <3>1, <3>2, ConfigsAssumption
    <3>. QED  BY <2>2, <3>3, ConfigsAssumption DEF Route, Indices
  <2>. QED  BY <2>1, <2>2
<1>. QED  BY <1>1, <1>2

\* The route a tick that matters caches is the one it looks the guard up on.
LEMMA TickRoute ==
    ASSUME TypeOK, TickMatters, ctx' = FloorCacheAfter
    PROVE  ctx' # NoCtx /\ Route' = FloorContext.floor.route /\ Route' \in Seq(APs)
BY TickRouteType DEF TickMatters, FloorCacheAfter, Route

\* Filing a visit of checkpoint i keeps the state on the route.
LEMMA FiledOnRoute ==
    ASSUME TypeOK, OnRoute, KeysDistinct, state # NoState, NEW v \in Visit,
           v.index \in Indices, v.ap = Route[v.index]
    PROVE  /\ \A j \in 1..Len(Filed(v).keys) : Filed(v).keys[j] \in Indices
           /\ \A w \in Filed(v).visits : w.index \in Indices /\ w.ap = Route[w.index]
<1>1. state \in GuardState  BY DEF TypeOK
<1>2. /\ Filed(v).visits = state.visits \cup {v}
      /\ \A j \in 1..Len(Filed(v).keys) : Filed(v).keys[j] \in Logged \cup {v.index}
  BY <1>1, FiledKeys
<1>3. Logged \subseteq Indices  BY DEF OnRoute, Logged
<1>. QED  BY <1>2, <1>3 DEF OnRoute

LEMMA GroundedNext == TypeInv /\ Grounded /\ [Next]_vars => Grounded'
<1>. SUFFICES ASSUME TypeInv, Grounded, [Next]_vars PROVE Grounded'
  OBVIOUS
<1>0. TypeOK /\ Route \in Seq(APs) /\ Len(Route) \in Nat
  BY RouteType DEF TypeInv
<1>1. CASE EditFloor \/ UNCHANGED vars
  <2>1. UNCHANGED <<ctx, state, pc, cand, spoilt>>  BY <1>1 DEF EditFloor, vars
  <2>. QED  BY <2>1 DEF Grounded, Route
<1>2. CASE Elapse
  <2>1. pc' = "idle" /\ cand' = NoIndex /\ spoilt' = spoilt
    BY <1>2 DEF Elapse, Grounded
  <2>2. state' = NoState <=> state = NoState
    <3>1. CASE state = NoState  BY <1>2, <3>1 DEF Elapse
    <3>2. CASE state # NoState
      <4>1. state \in GuardState  BY <3>2 DEF TypeInv, TypeOK
      <4>2. Saturate(state.elapsed + 1, MaxElapsed) \in 0..MaxElapsed
        <5>1. state.elapsed + 1 \in Nat  BY <4>1, BoundsAreNaturals DEF GuardState
        <5>. QED  BY <5>1, SaturateBounds, BoundsAreNaturals
      <4>3. state' = [state EXCEPT !.elapsed = Saturate(state.elapsed + 1, MaxElapsed)]
        BY <1>2, <3>2 DEF Elapse
      <4>4. state' \in GuardState  BY <4>1, <4>2, <4>3 DEF GuardState
      <4>. QED  BY <3>2, <4>4, NoStateAssumption
    <3>. QED  BY <3>1, <3>2
  <2>3. Route' = Route /\ (ctx' = NoCtx <=> ctx = NoCtx)  BY <1>0, <1>2, RouteStands
  <2>. QED  BY <1>0, <2>1, <2>2, <2>3 DEF Grounded, NoIndex
<1>3. CASE Restart
  <2>1. Route' = << >>  BY <1>3 DEF Restart, Route
  <2>. QED  BY <1>3, <2>1 DEF Restart, Grounded, NoIndex
<1>4. CASE TickContextOnly
  <2>1. state' = state /\ pc = "idle" /\ pc' = pc /\ cand' = cand /\ cand = 0
    BY <1>4 DEF TickContextOnly, Grounded, NoIndex
  <2>2. ctx # NoCtx => ctx' # NoCtx  BY <1>4 DEF TickContextOnly, FloorCacheAfter
  <2>3. Len(Route') \in Nat
    <3>1. ctx' # NoCtx => ctx'.floor \in Configs \ {NoFloor}
      BY <1>0, <1>4, FloorContextType DEF TickContextOnly, FloorCacheAfter, TypeOK
    <3>. QED  BY <3>1, ConfigsAssumption DEF Route, Config
  <2>4. spoilt' => state # NoState
    BY <1>4 DEF TickContextOnly, RouteMayChange, Grounded
  <2>. QED  BY <2>1, <2>2, <2>3, <2>4 DEF Grounded, NoIndex
<1>5. ASSUME NEW p \in Positions, TickFresh(p) PROVE Grounded'
  <2>1. ctx' # NoCtx /\ Len(Route') \in Nat
    BY <1>0, <1>5, TickRoute DEF TickFresh
  <2>. QED  BY <1>5, <2>1 DEF TickFresh, TickEnds, Grounded, NoIndex
<1>6. ASSUME NEW p \in Positions, TickCloses(p) \/ TickMoves(p) PROVE Grounded'
  <2>. DEFINE c == Candidate(p, FloorContext.floor.route, state.cur)
  <2>1. state \in GuardState /\ state # NoState
    BY <1>6 DEF TickCloses, TickMoves, TypeInv, TypeOK
  <2>2. /\ ctx' # NoCtx /\ Route' = FloorContext.floor.route /\ Route' \in Seq(APs)
    BY <1>0, <1>6, TickRoute DEF TickCloses, TickMoves
  <2>3. c \in 0..Len(Route')
    <3>1. TickMatters  BY <1>6 DEF TickCloses, TickMoves
    <3>. QED  BY <1>0, <2>1, <2>2, <3>1, TickRouteType, CandidateType DEF GuardState
  <2>4. cand' \in {c, 0} /\ (pc' = "idle" => cand' = 0)
    BY <1>6 DEF TickCloses, TickMoves, TickEnds, NoIndex
  <2>5. 0 \in 0..Len(Route')  BY <2>2
  <2>6. state' # NoState
    BY <1>6, <2>1, NoStateAssumption DEF TickCloses, TickMoves, GuardState
  <2>. QED  BY <2>2, <2>3, <2>4, <2>5, <2>6 DEF Grounded, NoIndex
<1>7. CASE TickStep \/ SaveRaises
  <2>1. ctx' = ctx
    BY <1>7 DEF TickStep, SaveRaises, CloseCurrent, BackfillDone, Judge, CheckNoPatrol,
       ReplaceWindow, Leave, Enter, IndexRaises, Backfill, Skip
  <2>2. Route' = Route  BY <1>0, <2>1, RouteStands
  <2>3. cand' \in {cand, 0} /\ (pc' = "idle" => cand' = 0)
    BY <1>7 DEF TickStep, SaveRaises, CloseCurrent, BackfillDone, Judge, CheckNoPatrol,
       ReplaceWindow, Leave, Enter, IndexRaises, Backfill, Skip, TickEnds, NoIndex
  <2>4. pc # "idle"
    BY <1>7 DEF TickStep, SaveRaises, AboutToSave, CloseCurrent, BackfillDone, Judge,
       CheckNoPatrol, ReplaceWindow, Leave, Enter, IndexRaises, Backfill, Skip
  <2>5. ctx # NoCtx /\ state # NoState  BY <2>4 DEF TypeInv, TypeOK
  <2>6. spoilt' => state' # NoState
    <3>1. CASE SaveRaises  BY <2>5, <3>1 DEF SaveRaises
    <3>2. CASE CloseCurrent \/ Leave  BY <3>2, ClosedVisit
    <3>3. CASE ReplaceWindow  BY <3>3 DEF ReplaceWindow
    <3>4. CASE IndexRaises \/ BackfillDone \/ Judge \/ CheckNoPatrol
      BY <2>5, <3>4 DEF IndexRaises, BackfillDone, Judge, CheckNoPatrol
    <3>5. CASE Enter
      <4>1. state' \in GuardState
        <5>1. state \in GuardState /\ state.elapsed \in 0..state.elapsed /\ cand \in Nat
          BY <2>5, BoundsAreNaturals DEF GuardState, TypeInv, TypeOK
        <5>. QED  BY <3>5, <5>1, MovedType DEF Enter
      <4>. QED  BY <4>1, NoStateAssumption
    <3>6. ASSUME NEW i \in Indices, Backfill(i) \/ Skip(i) PROVE state' # NoState
      <4>1. PICK v \in Visit : state' = Filed(v)
        BY <1>0, <3>6, UnreachedVisitType DEF Backfill, Skip
      <4>2. state \in GuardState  BY <2>5 DEF TypeInv, TypeOK
      <4>. QED  BY <4>1, <4>2, FiledType, NoStateAssumption
    <3>. QED  BY <1>7, <3>1, <3>2, <3>3, <3>4, <3>5, <3>6 DEF TickStep
  <2>7. 0 \in 0..Len(Route)  BY <1>0
  <2>. QED  BY <2>1, <2>2, <2>3, <2>5, <2>6, <2>7 DEF Grounded, NoIndex
<1>. QED
  BY <1>1, <1>2, <1>3, <1>4, <1>5, <1>6, <1>7 DEF Next, TickBegins

LEMMA GroundedInvariance == Spec => []Grounded
<1>1. Init => Grounded
  <2>1. Init => Route = << >>  BY DEF Init, Route
  <2>. QED  BY <2>1 DEF Init, Grounded, NoIndex
<1>. QED  BY <1>1, GroundedNext, TypeInvariance, PTL DEF Spec

\* Steps outside the alerting loop leave no alert behind them.
LEMMA SilentSteps ==
    ASSUME alerts' = NoAlerts, pc' \notin {"judge", "noPatrol", "replace"}, k' = 0
    PROVE  /\ SilentUnlessJudging' /\ JudgeInRange' /\ ReportsAreJudged'
           /\ NoPatrolComesLast' /\ OncePerCheckpoint'
<1>1. \A a \in Alert : alerts'[a] = 0  BY DEF NoAlerts
<1>2. \A ap \in APs : [cause |-> "missed_checkpoint", ap |-> ap] \in Alert
                      /\ [cause |-> "short_dwell", ap |-> ap] \in Alert
  BY DEF Alert
<1>3. NoPatrolAlert \in Alert  BY DEF Alert, NoPatrolAlert
<1>. QED
  BY <1>1, <1>2, <1>3
  DEF SilentUnlessJudging, JudgeInRange, ReportsAreJudged, NoPatrolComesLast,
      OncePerCheckpoint, Judging

LEMMA AlertInvInit == Init => AlertInv
<1>. SUFFICES ASSUME Init PROVE AlertInv
  OBVIOUS
<1>1. /\ OnRoute /\ KeysDistinct /\ InsideWhenClosing /\ SilentUnlessJudging
      /\ JudgeInRange /\ ReportsAreJudged /\ NoPatrolComesLast
  BY DEF Init, OnRoute, KeysDistinct, InsideWhenClosing, Judging,
     SilentUnlessJudging, JudgeInRange, ReportsAreJudged, NoPatrolComesLast
<1>2. OncePerCheckpoint
  <2>1. \A a \in Alert : alerts[a] = 0  BY DEF Init, NoAlerts
  <2>2. \A ap \in APs : [cause |-> "missed_checkpoint", ap |-> ap] \in Alert
                        /\ [cause |-> "short_dwell", ap |-> ap] \in Alert
    BY DEF Alert
  <2>3. NoPatrolAlert \in Alert  BY DEF Alert, NoPatrolAlert
  <2>. QED  BY <2>1, <2>2, <2>3 DEF OncePerCheckpoint
<1>. QED  BY <1>1, <1>2 DEF AlertInv

\* The alerting loop never repeats itself: the checkpoint it is about to judge
\* has no alert yet, because its key comes only once.
LEMMA NotYetReported ==
    ASSUME DistinctRoute, TypeInv, AlertInv, pc = "judge",
           state.keys[k + 1] \in Indices,
           NEW a \in Alert \ {NoPatrolAlert}, a.ap = Route[state.keys[k + 1]]
    PROVE  alerts[a] = 0
<1>1. SUFFICES ASSUME alerts[a] > 0 PROVE FALSE
  BY DEF TypeInv, TypeOK
<1>2. PICK j \in 1..k : Route[state.keys[j]] = a.ap
  BY <1>1 DEF AlertInv, ReportsAreJudged, Judging
<1>3. k + 1 \in 1..Len(state.keys) /\ j \in 1..Len(state.keys) /\ j # k + 1
  <2>1. Len(state.keys) \in Nat /\ k \in Nat /\ k < Len(state.keys)
    BY DEF AlertInv, JudgeInRange, TypeInv, TypeOK, GuardState
  <2>. QED  BY <2>1
<1>4. ctx # NoCtx /\ state # NoState  BY DEF TypeInv, TypeOK
<1>5. PICK c \in Configs \ {NoFloor} : c.route = Route
  BY <1>4, CachedRoute DEF TypeInv
<1>6. state.keys[j] \in Indices  BY <1>3, <1>4 DEF AlertInv, OnRoute
<1>7. state.keys[j] = state.keys[k + 1]
  BY <1>2, <1>5, <1>6 DEF DistinctRoute, Indices
<1>. QED  BY <1>3, <1>4, <1>7 DEF AlertInv, KeysDistinct

LEMMA JudgeStep ==
    ASSUME DistinctRoute, TypeInv, AlertInv, Judge
    PROVE  AlertInv'
<1>. DEFINE i == state.keys[k + 1]
<1>1. PICK best \in BestOf(i) :
          IF Compliant(best) THEN UNCHANGED alerts
          ELSE Save([cause |-> CauseOf(best), ap |-> Route[i]])
  BY DEF Judge
<1>2. i \in Indices /\ Route[i] \in APs
  BY RouteType DEF Judge, Indices, TypeInv
<1>3. /\ state' = state /\ ctx' = ctx /\ cand' = cand /\ k' = k + 1
      /\ pc = "judge" /\ pc' \in {"judge", "noPatrol"}
      /\ pc' = "judge" => k + 1 # Len(state.keys)
  BY DEF Judge
<1>4. Route' = Route /\ \A j : VisitsOf(j)' = VisitsOf(j)
  BY <1>3 DEF Route, VisitsOf
<1>. DEFINE a0 == [cause |-> CauseOf(best), ap |-> Route[i]]
<1>5. a0 \in Alert /\ a0 # NoPatrolAlert /\ a0.ap = Route[i]
  BY <1>2, NoAPAssumption DEF Alert, CauseOf, NoPatrolAlert
<1>6. \/ alerts' = alerts
      \/ /\ ~Compliant(best)
         /\ alerts' = [alerts EXCEPT ![a0] = Saturate(alerts[a0] + 1, 2)]
  BY <1>1 DEF Save
<1>7. alerts \in [Alert -> 0..2] /\ k \in Nat  BY DEF TypeInv, TypeOK
<1>8. alerts[a0] = 0  BY <1>2, <1>3, <1>5, NotYetReported
<1>9. /\ \A a \in Alert \ {a0} : alerts'[a] = alerts[a]
      /\ alerts'[a0] \in {0, 1}
      /\ alerts'[a0] = 1 => ~Compliant(best)
  BY <1>5, <1>6, <1>7, <1>8 DEF Saturate
<1>10. OnRoute' /\ KeysDistinct' /\ InsideWhenClosing' /\ SilentUnlessJudging'
  BY <1>3, <1>4
  DEF Indices, AlertInv, OnRoute, KeysDistinct, InsideWhenClosing, SilentUnlessJudging, Judging
<1>11. JudgeInRange'
  <2>1. Len(state.keys) \in Nat /\ k < Len(state.keys)
    BY <1>3 DEF AlertInv, JudgeInRange, TypeInv, TypeOK, GuardState
  <2>. QED  BY <1>3, <1>7, <2>1 DEF JudgeInRange, Judging
<1>12. ReportsAreJudged'
  <2>. SUFFICES ASSUME NEW a \in Alert \ {NoPatrolAlert}, alerts'[a] > 0
                PROVE  \E j \in 1..(k + 1) :
                          /\ Route[state.keys[j]] = a.ap
                          /\ \A v \in VisitsOf(state.keys[j]) : ~Compliant(v)
    BY <1>3, <1>4 DEF ReportsAreJudged
  <2>1. CASE a # a0
    <3>1. PICK j \in 1..k : /\ Route[state.keys[j]] = a.ap
                             /\ \A v \in VisitsOf(state.keys[j]) : ~Compliant(v)
      BY <1>3, <1>9, <2>1 DEF AlertInv, ReportsAreJudged, Judging
    <3>. QED  BY <1>7, <3>1
  <2>2. CASE a = a0
    <3>1. ~Compliant(best)  BY <1>9, <2>2
    <3>2. \A v \in VisitsOf(i) : ~Compliant(v)  BY <3>1 DEF BestOf, Beats
    <3>. QED  BY <1>5, <1>7, <2>2, <3>2
  <2>. QED  BY <2>1, <2>2
<1>13. NoPatrolComesLast'
  BY <1>3, <1>5, <1>9 DEF AlertInv, NoPatrolComesLast, Alert, NoPatrolAlert
<1>14. OncePerCheckpoint'
  <2>1. alerts'[NoPatrolAlert] <= 1
    BY <1>5, <1>9 DEF AlertInv, OncePerCheckpoint, Alert, NoPatrolAlert
  <2>2. ASSUME NEW ap \in APs
        PROVE  alerts'[[cause |-> "missed_checkpoint", ap |-> ap]]
                 + alerts'[[cause |-> "short_dwell", ap |-> ap]] <= 1
    <3>. DEFINE m == [cause |-> "missed_checkpoint", ap |-> ap]
                s == [cause |-> "short_dwell", ap |-> ap]
    <3>1. m \in Alert \ {NoPatrolAlert} /\ s \in Alert \ {NoPatrolAlert}
          /\ m # s /\ m.ap = ap /\ s.ap = ap
      BY NoAPAssumption DEF Alert, NoPatrolAlert
    <3>2. CASE a0 \notin {m, s}
      BY <1>9, <3>1, <3>2 DEF AlertInv, OncePerCheckpoint
    <3>3. CASE a0 \in {m, s}
      <4>1. alerts[m] = 0 /\ alerts[s] = 0
        BY <1>2, <1>3, <1>5, <3>1, <3>3, NotYetReported
      <4>2. alerts'[m] \in {0, 1} /\ alerts'[s] \in {0, 1}
            /\ (alerts'[m] = 0 \/ alerts'[s] = 0)
        BY <1>9, <3>1, <3>3, <4>1
      <4>. QED  BY <4>2
    <3>. QED  BY <3>2, <3>3
  <2>. QED  BY <2>1, <2>2 DEF OncePerCheckpoint
<1>. QED
  BY <1>10, <1>11, <1>12, <1>13, <1>14 DEF AlertInv

LEMMA CheckNoPatrolStep ==
    ASSUME TypeInv, AlertInv, CheckNoPatrol
    PROVE  AlertInv'
<1>1. /\ state' = state /\ ctx' = ctx /\ cand' = cand /\ k' = k
      /\ pc = "noPatrol" /\ pc' = "replace"
  BY DEF CheckNoPatrol
<1>2. Route' = Route /\ \A j : VisitsOf(j)' = VisitsOf(j)
  BY <1>1 DEF Route, VisitsOf
<1>3. alerts \in [Alert -> 0..2] /\ NoPatrolAlert \in Alert
      /\ alerts[NoPatrolAlert] = 0
  BY <1>1 DEF TypeInv, TypeOK, Alert, NoPatrolAlert, AlertInv, NoPatrolComesLast
<1>4. /\ \A a \in Alert \ {NoPatrolAlert} : alerts'[a] = alerts[a]
      /\ alerts'[NoPatrolAlert] <= 1
  BY <1>3 DEF CheckNoPatrol, Save, Saturate
<1>5. /\ OnRoute' /\ KeysDistinct' /\ InsideWhenClosing' /\ SilentUnlessJudging'
      /\ JudgeInRange' /\ NoPatrolComesLast'
  BY <1>1, <1>2
  DEF Indices, AlertInv, OnRoute, KeysDistinct, InsideWhenClosing, SilentUnlessJudging,
      Judging, JudgeInRange, NoPatrolComesLast
<1>6. ReportsAreJudged'
  BY <1>1, <1>2, <1>4 DEF AlertInv, ReportsAreJudged, Judging
<1>7. OncePerCheckpoint'
  <2>1. \A ap \in APs :
            /\ [cause |-> "missed_checkpoint", ap |-> ap] \in Alert \ {NoPatrolAlert}
            /\ [cause |-> "short_dwell", ap |-> ap] \in Alert \ {NoPatrolAlert}
    BY NoAPAssumption DEF Alert, NoPatrolAlert
  <2>. QED  BY <1>4, <2>1 DEF AlertInv, OncePerCheckpoint
<1>. QED  BY <1>5, <1>6, <1>7 DEF AlertInv

\* No tick meets an index that the route does not have.
LEMMA NeverOffRoute ==
    ASSUME TypeInv, AlertInv
    PROVE  ~IndexRaises
<1>. SUFFICES ASSUME IndexRaises PROVE FALSE  OBVIOUS
<1>1. state \in GuardState /\ state # NoState /\ k \in Nat
  BY DEF IndexRaises, TypeInv, TypeOK
<1>3. pc \in {"closeCurrent", "leave"} => state.cur \in Indices
  BY <1>1 DEF AlertInv, OnRoute, InsideWhenClosing, NoIndex, Indices, GuardState
<1>4. pc = "judge" => state.keys[k + 1] \in Indices
  BY <1>1 DEF AlertInv, OnRoute, JudgeInRange, GuardState
<1>. QED  BY <1>3, <1>4 DEF IndexRaises

\* A window that just opened has no alert to be wrong.
LEMMA FreshAlerts ==
    ASSUME alerts' = NoAlerts, k' = 0, pc' = "idle",
           state' = NoState \/ (/\ state'.cur \in 0..Len(Route')
                                /\ state'.visits = {} /\ state'.keys = << >>)
    PROVE  AlertInv'
<1>1. /\ SilentUnlessJudging' /\ JudgeInRange' /\ ReportsAreJudged'
      /\ NoPatrolComesLast' /\ OncePerCheckpoint'
  BY SilentSteps
<1>. QED  BY <1>1 DEF AlertInv, OnRoute, KeysDistinct, InsideWhenClosing

LEMMA AlertInvNext ==
    ASSUME DistinctRoute, TypeInv, Grounded, AlertInv, [Next]_vars, ~spoilt'
    PROVE  AlertInv'
<1>0. /\ OnRoute /\ KeysDistinct /\ InsideWhenClosing /\ SilentUnlessJudging
      /\ JudgeInRange /\ ReportsAreJudged /\ NoPatrolComesLast /\ OncePerCheckpoint
  BY DEF AlertInv
<1>. DEFINE Quiet == /\ alerts' = NoAlerts /\ k' = 0
                     /\ pc' \notin {"judge", "noPatrol", "replace"}
<1>1. ASSUME Quiet, OnRoute', KeysDistinct', InsideWhenClosing' PROVE AlertInv'
  BY <1>1, SilentSteps DEF AlertInv
<1>. HIDE DEF Quiet
<1>2. ~Judging => alerts = NoAlerts /\ k = 0  BY <1>0 DEF SilentUnlessJudging
<1>3. TypeOK /\ Route \in Seq(APs) /\ 0 \in 0..Len(Route)
  BY RouteType DEF TypeInv
<1>. DEFINE Stands == Route' = Route /\ Indices' = Indices
<1>s. ctx' = ctx \/ Elapse => Stands  BY <1>3, RouteStands
<1>. HIDE DEF Stands
<1>4. CASE EditFloor \/ UNCHANGED vars
  <2>1. /\ state' = state /\ ctx' = ctx /\ cand' = cand /\ k' = k /\ pc' = pc
        /\ alerts' = alerts
    BY <1>4 DEF EditFloor, vars
  <2>. QED
    BY <1>0, <2>1
    DEF AlertInv, OnRoute, KeysDistinct, InsideWhenClosing, SilentUnlessJudging,
        Judging, JudgeInRange, ReportsAreJudged, NoPatrolComesLast,
        OncePerCheckpoint, Route, Indices, VisitsOf
<1>5. CASE Elapse
  <2>1. pc = "idle" /\ pc' = pc /\ Quiet
    BY <1>2, <1>5 DEF Elapse, Judging, Quiet
  <2>2. /\ state' # NoState => state # NoState
        /\ state # NoState => /\ state'.cur = state.cur
                              /\ state'.keys = state.keys
                              /\ state'.visits = state.visits
    BY <1>5 DEF Elapse, TypeInv, TypeOK, GuardState
  <2>. QED
    BY <1>0, <1>1, <1>5, <1>s, <2>1, <2>2
    DEF Stands, OnRoute, KeysDistinct, InsideWhenClosing
<1>6. CASE Restart
  BY <1>6, FreshAlerts DEF Restart
<1>7. CASE TickContextOnly
  <2>1. Quiet  BY <1>2, <1>7 DEF TickContextOnly, Judging, Quiet
  <2>2. state # NoState => Route' = Route
    BY <1>7 DEF TickContextOnly, RouteMayChange
  <2>. QED
    BY <1>0, <1>1, <1>7, <2>1, <2>2
    DEF TickContextOnly, OnRoute, Indices, KeysDistinct, InsideWhenClosing
<1>8. ASSUME NEW p \in Positions, TickFresh(p) PROVE AlertInv'
  <2>. DEFINE c == Candidate(p, FloorContext.floor.route, NoIndex)
  <2>1. Quiet /\ pc' = "idle"
    BY <1>2, <1>8 DEF TickFresh, TickEnds, Judging, NoIndex, Quiet
  <2>2. c \in 0..Len(Route')
    BY <1>3, <1>8, TickRouteType, CandidateType, TickRoute
    DEF TickFresh, NoIndex
  <2>3. state'.cur = c /\ state'.keys = << >> /\ state'.visits = {}
    BY <1>8 DEF TickFresh, Opened
  <2>. QED
    BY <1>1, <2>1, <2>2, <2>3 DEF OnRoute, KeysDistinct, InsideWhenClosing
<1>9. ASSUME NEW p \in Positions, TickCloses(p) \/ TickMoves(p) PROVE AlertInv'
  <2>. DEFINE c == Candidate(p, FloorContext.floor.route, state.cur)
  <2>1. /\ Quiet
        /\ pc' \in {"closeCurrent", "leave"} => state.cur # NoIndex
    BY <1>2, <1>9
    DEF TickCloses, TickMoves, TickEnds, Judging, NoIndex, Quiet
  <2>2. state \in GuardState /\ state # NoState
    BY <1>9 DEF TickCloses, TickMoves, TypeInv, TypeOK
  <2>3. Route' = Route
    BY <1>9, <2>2 DEF TickCloses, TickMoves, RouteMayChange
  <2>4. /\ state'.cur = state.cur /\ state'.keys = state.keys
        /\ state'.visits = state.visits
    BY <1>9, <2>2 DEF TickCloses, TickMoves, GuardState
  <2>. QED
    BY <1>0, <1>1, <2>1, <2>2, <2>3, <2>4
    DEF OnRoute, Indices, KeysDistinct, InsideWhenClosing
<1>10. CASE CloseCurrent \/ Leave
  <2>1. state \in GuardState /\ state # NoState /\ state.cur \in Indices
    BY <1>10 DEF CloseCurrent, Leave, TypeInv, TypeOK
  <2>2. RealVisit \in Visit /\ RealVisit.index = state.cur
        /\ RealVisit.ap = Route[state.cur]
    BY <2>1, RealVisitType DEF RealVisit, TypeInv
  <2>3. /\ Quiet /\ pc' \notin {"closeCurrent", "leave"} /\ ctx' = ctx
    BY <1>2, <1>10 DEF CloseCurrent, Leave, TickEnds, Judging, NoIndex, Quiet
  <2>4. /\ state'.keys = Filed(RealVisit).keys
        /\ state'.visits = Filed(RealVisit).visits
        /\ state'.cur \in {state.cur, 0}
    <3>1. Filed(RealVisit) \in GuardState /\ Filed(RealVisit).cur = state.cur
      BY <2>1, <2>2, FiledType
    <3>. QED  BY <1>10, <3>1 DEF CloseCurrent, Leave, GuardState, NoIndex
  <2>5. OnRoute'
    BY <1>0, <1>3, <1>s, <2>1, <2>2, <2>3, <2>4, FiledOnRoute DEF OnRoute, Stands
  <2>6. KeysDistinct'
    BY <1>0, <2>1, <2>2, <2>4, FiledKeys DEF KeysDistinct
  <2>. QED  BY <1>1, <2>3, <2>5, <2>6 DEF InsideWhenClosing
<1>11. ASSUME NEW i \in Indices, Backfill(i) \/ Skip(i) PROVE AlertInv'
  <2>1. state \in GuardState /\ state # NoState
    BY <1>11 DEF Backfill, Skip, TypeInv, TypeOK
  <2>2. PICK v \in Visit : /\ state' = Filed(v)
                            /\ v.index = i /\ v.ap = Route[i]
    BY <1>11, UnreachedVisitType DEF Backfill, Skip, TypeInv, UnreachedVisit
  <2>3. /\ Quiet /\ pc' \notin {"closeCurrent", "leave"} /\ ctx' = ctx
    BY <1>2, <1>11 DEF Backfill, Skip, Judging, Quiet
  <2>4. state'.cur = state.cur  BY <2>1, <2>2, FiledType
  <2>5. OnRoute'
    BY <1>0, <1>3, <1>s, <2>1, <2>2, <2>3, <2>4, FiledOnRoute DEF OnRoute, Stands
  <2>6. KeysDistinct'  BY <1>0, <2>1, <2>2, FiledKeys DEF KeysDistinct
  <2>. QED  BY <1>1, <2>3, <2>5, <2>6 DEF InsideWhenClosing
<1>12. CASE BackfillDone
  <2>1. /\ state' = state /\ ctx' = ctx /\ cand' = cand /\ k' = 0 /\ alerts' = NoAlerts
        /\ pc' \in {"judge", "noPatrol"}
        /\ pc' = "judge" => state.keys # << >>
    BY <1>2, <1>12 DEF BackfillDone, Judging
  <2>2. state.keys \in Seq(Nat \ {0})
    BY <1>12 DEF BackfillDone, TypeInv, TypeOK, GuardState
  <2>3. \A a \in Alert : alerts'[a] = 0  BY <2>1 DEF NoAlerts
  <2>4. NoPatrolAlert \in Alert  BY DEF Alert, NoPatrolAlert
  <2>5. JudgeInRange'  BY <2>1, <2>2 DEF JudgeInRange, Judging
  <2>6. OncePerCheckpoint'
    BY <1>0, <1>2, <1>12, <2>1 DEF BackfillDone, Judging, OncePerCheckpoint
  <2>. QED
    BY <1>0, <1>s, <2>1, <2>3, <2>4, <2>5, <2>6
    DEF Stands, AlertInv, OnRoute, KeysDistinct, InsideWhenClosing, SilentUnlessJudging,
        Judging, ReportsAreJudged, NoPatrolComesLast
<1>13. CASE ReplaceWindow
  <2>1. state'.cur \in 0..Len(Route')
    BY <1>13, <1>s DEF ReplaceWindow, Opened, Grounded, Stands
  <2>. QED  BY <1>13, <2>1, FreshAlerts DEF ReplaceWindow, TickEnds, Opened
<1>14. CASE Enter
  <2>1. Quiet /\ pc' = "idle" /\ ctx' = ctx
    BY <1>2, <1>14 DEF Enter, TickEnds, NoIndex, Judging, Quiet
  <2>2. state \in GuardState /\ state # NoState
    BY <1>14 DEF Enter, TypeInv, TypeOK
  <2>3. state'.cur = cand /\ state'.keys = state.keys /\ state'.visits = state.visits
    BY <1>14, <2>2 DEF Enter, GuardState
  <2>. QED
    BY <1>0, <1>1, <1>s, <2>1, <2>2, <2>3
    DEF Grounded, Stands, OnRoute, KeysDistinct, InsideWhenClosing
<1>15. CASE SaveRaises
  <2>1. /\ Quiet /\ pc' = "idle" /\ ctx' = ctx /\ state' = state
    BY <1>2, <1>15 DEF SaveRaises, AboutToSave, TickEnds, Judging, Quiet
  <2>. QED
    BY <1>0, <1>1, <1>s, <2>1 DEF Stands, OnRoute, KeysDistinct, InsideWhenClosing
<1>16. ~IndexRaises  BY NeverOffRoute
<1>. QED
  BY <1>4, <1>5, <1>6, <1>7, <1>8, <1>9, <1>10, <1>11, <1>12, <1>13, <1>14, <1>15, <1>16,
     JudgeStep, CheckNoPatrolStep
  DEF Next, TickBegins, TickStep

\* A spoilt window ends as a window that just opened.
LEMMA SpoiltEnds ==
    ASSUME TypeInv, Grounded, [Next]_vars, spoilt, ~spoilt'
    PROVE  /\ alerts' = NoAlerts /\ k' = 0 /\ pc' = "idle"
           /\ state' = NoState \/ (/\ state'.cur \in 0..Len(Route')
                                    /\ state'.visits = {} /\ state'.keys = << >>)
<1>1. Restart \/ ReplaceWindow
  BY DEF Grounded, Next, TickBegins, TickStep, EditFloor, Elapse, TickContextOnly, TickFresh,
         TickCloses, TickMoves, RouteMayChange, CloseCurrent, BackfillDone, Judge,
         CheckNoPatrol, Leave, Enter, IndexRaises, Backfill, Skip, SaveRaises, vars
<1>2. CASE Restart  BY <1>2 DEF Restart
<1>3. CASE ReplaceWindow
  <2>1. Route' = Route  BY <1>3, RouteStands DEF ReplaceWindow, TypeInv
  <2>. QED  BY <1>3, <2>1 DEF ReplaceWindow, Opened, TickEnds, Grounded
<1>. QED  BY <1>1, <1>2, <1>3

\* The windows that are not spoilt, and those that cannot be.
LEMMA AlertInvariance ==
    ASSUME DistinctRoute
    PROVE  Spec => [](~spoilt => AlertInv)
<1>1. TypeInv /\ Grounded /\ (~spoilt => AlertInv) /\ [Next]_vars
        => (~spoilt => AlertInv)'
  <2>. SUFFICES ASSUME TypeInv, Grounded, ~spoilt => AlertInv, [Next]_vars, ~spoilt'
                PROVE  AlertInv'
    OBVIOUS
  <2>1. CASE spoilt  BY <2>1, SpoiltEnds, FreshAlerts
  <2>2. CASE ~spoilt  BY <2>2, AlertInvNext
  <2>. QED  BY <2>1, <2>2
<1>. QED  BY <1>1, AlertInvInit, TypeInvariance, GroundedInvariance, PTL DEF Spec

\* A floor whose route stays what it is: patrol may still be switched off and on, the floor
\* deleted, the cache expire and the process restart.
StableRoute == DistinctRoute /\ \A c, d \in Configs \ {NoFloor} : c.route = d.route

LEMMA NeverSpoilt ==
    ASSUME StableRoute, ~SavesMayFail
    PROVE  Spec => []~spoilt
<1>1. Init => ~spoilt  BY DEF Init
<1>2. TypeInv /\ Grounded /\ ~spoilt /\ [Next]_vars => ~spoilt'
  <2>. SUFFICES ASSUME TypeInv, Grounded, ~spoilt, [Next]_vars PROVE ~spoilt'
    OBVIOUS
  <2>1. ASSUME ctx' = FloorCacheAfter, state # NoState, RouteMayChange PROVE ~spoilt'
    <3>1. ctx # NoCtx /\ ctx' # NoCtx /\ ctx'.floor \in Configs \ {NoFloor}
      BY <2>1, FloorContextType DEF Grounded, FloorCacheAfter, TypeInv, TypeOK
    <3>2. Route' = Route  BY <3>1 DEF StableRoute, Route, TypeInv, TypeOK
    <3>. QED  BY <2>1, <3>2 DEF RouteMayChange
  <2>2. CASE TickContextOnly  BY <2>1, <2>2 DEF TickContextOnly, RouteMayChange
  <2>3. ASSUME NEW p \in Positions, TickFresh(p) \/ TickCloses(p) \/ TickMoves(p) PROVE ~spoilt'
    BY <2>1, <2>3 DEF TickFresh, TickCloses, TickMoves
  <2>4. CASE EditFloor \/ Elapse \/ Restart \/ TickStep \/ SaveRaises \/ UNCHANGED vars
    BY <2>4 DEF EditFloor, Elapse, Restart, TickStep, SaveRaises, CloseCurrent, BackfillDone,
       Judge, CheckNoPatrol, ReplaceWindow, Leave, Enter, IndexRaises, Backfill, Skip, vars
  <2>. QED  BY <2>2, <2>3, <2>4 DEF Next, TickBegins
<1>. QED  BY <1>1, <1>2, TypeInvariance, GroundedInvariance, PTL DEF Spec

\* The replacement invariant of the window-scope alerting: at most one
\* patrol_violation per checkpoint per window, on a route of any length and
\* through any walk of the guard.
THEOREM OncePerWindow ==
    ASSUME StableRoute, ~SavesMayFail
    PROVE  Spec => []OncePerCheckpoint
<1>1. AlertInv => OncePerCheckpoint  BY DEF AlertInv
<1>2. DistinctRoute  BY DEF StableRoute
<1>. QED  BY <1>1, <1>2, AlertInvariance, NeverSpoilt, PTL

\* A checkpoint with a compliant record in the window is not reported in it: the
\* alert that is out was raised at a key whose checkpoint had none.
LEMMA ClearedInWindow ==
    ASSUME DistinctRoute
    PROVE  TypeInv /\ AlertInv => ClearedNeverReported
<1>. SUFFICES ASSUME TypeInv, AlertInv, NEW v \in Visits, Compliant(v),
                     NEW a \in Alert, a.ap = v.ap, alerts[a] # 0
              PROVE  FALSE
  BY DEF ClearedNeverReported
<1>1. state # NoState /\ state \in GuardState /\ v \in state.visits /\ v \in Visit
  BY DEF Visits, TypeInv, TypeOK, GuardState
<1>2. alerts[a] > 0 /\ a # NoPatrolAlert
  <2>1. a.ap \in APs  BY <1>1 DEF Visit
  <2>. QED  BY <2>1, NoAPAssumption DEF TypeInv, TypeOK, NoPatrolAlert
<1>3. Judging  BY <1>2 DEF AlertInv, SilentUnlessJudging, NoAlerts
<1>4. PICK j \in 1..k : /\ Route[state.keys[j]] = a.ap
                         /\ \A w \in VisitsOf(state.keys[j]) : ~Compliant(w)
  BY <1>2, <1>3 DEF AlertInv, ReportsAreJudged
<1>5. j \in 1..Len(state.keys)
  <2>1. k <= Len(state.keys) /\ k \in Nat /\ Len(state.keys) \in Nat
    BY <1>1, <1>3 DEF AlertInv, JudgeInRange, TypeInv, TypeOK, GuardState
  <2>. QED  BY <2>1
<1>6. PICK c \in Configs \ {NoFloor} : c.route = Route
  BY <1>3 DEF Judging, TypeInv, TypeOK, Route
<1>7. /\ state.keys[j] \in 1..Len(c.route) /\ v.index \in 1..Len(c.route)
      /\ c.route[state.keys[j]] = c.route[v.index]
  BY <1>1, <1>4, <1>5, <1>6 DEF AlertInv, OnRoute, Indices
<1>8. state.keys[j] = v.index  BY <1>6, <1>7 DEF DistinctRoute
<1>. QED  BY <1>1, <1>4, <1>8 DEF VisitsOf

\* A checkpoint with a compliant record in the window is not reported in it, whatever
\* other visits it had.
THEOREM ClearedIsSafe ==
    ASSUME StableRoute, ~SavesMayFail
    PROVE  Spec => []ClearedNeverReported
<1>1. DistinctRoute  BY DEF StableRoute
<1>2. TypeInv /\ AlertInv => ClearedNeverReported  BY <1>1, ClearedInWindow
<1>. QED  BY <1>1, <1>2, AlertInvariance, NeverSpoilt, TypeInvariance, PTL
-----------------------------------------------------------------------------
(***************************************************************************)
(* Records.  What the visits of one window say of the walk.                *)
(***************************************************************************)
Closing == pc \in {"backfill", "judge", "noPatrol", "replace"}

\* The checkpoints that alerting goes through are those that have a visit.
KeysAreVisits ==
    state # NoState =>
        /\ \A v \in state.visits : v.index \in Logged
        /\ \A i \in Logged : \E v \in state.visits : v.index = i

ArrivedInWindow == \A v \in Visits : v.arrived => ~v.notInWindow

\* not_in_window is filed when the window closes, and then it closes.
BackfilledLast == \A v \in Visits : v.notInWindow => Closing

\* The guard is between zones while the checkpoints he skipped are filed.
SkipsBetween == pc = "skip" => state.cur = NoIndex

\* The visit of a guard who is inside a zone when the window closes is filed.
LastVisitFiled ==
    Closing /\ state.cur # NoIndex =>
        \E w \in state.visits : w.arrived /\ w.index = state.cur

RecordInv ==
    /\ KeysAreVisits /\ ArrivedInWindow /\ BackfilledLast /\ SkipsBetween
    /\ LastVisitFiled /\ UnreachedIsOnlyRecord /\ SkippedMeansPassed

\* The rules of alerting agree: a stay that makes a window "never patrolled" is no short
\* one.  By default they are half of the floor's interval, in minutes, and 30 seconds.
ParkedIsLong == MinDwell <= ParkedDwell

LEMMA RecordInvInit == Init => RecordInv
BY DEF Init, RecordInv, KeysAreVisits, ArrivedInWindow, BackfilledLast, SkipsBetween,
       LastVisitFiled, UnreachedIsOnlyRecord, SkippedMeansPassed, Closing, Visits

\* An empty window has no records to be wrong.
LEMMA NoRecords ==
    ASSUME state' = NoState \/ (state'.visits = {} /\ state'.keys = << >>), pc' = "idle"
    PROVE  RecordInv'
BY DEF RecordInv, KeysAreVisits, ArrivedInWindow, BackfilledLast, SkipsBetween, Logged,
       LastVisitFiled, UnreachedIsOnlyRecord, SkippedMeansPassed, Closing, Visits

\* Nor is a tick's first step, which files nothing.
LEMMA SameRecords ==
    ASSUME RecordInv, state # NoState, state' # NoState,
           state'.visits = state.visits, state'.keys = state.keys, state'.cur = state.cur,
           pc = "idle", pc' \in {"idle", "closeCurrent", "backfill", "leave", "skip"},
           pc' \in {"backfill", "skip"} => state.cur = NoIndex
    PROVE  RecordInv'
BY DEF RecordInv, KeysAreVisits, ArrivedInWindow, BackfilledLast, SkipsBetween, Logged,
       LastVisitFiled, UnreachedIsOnlyRecord, SkippedMeansPassed, Closing, Visits

LEMMA RecordInvNext ==
    ASSUME TypeInv, AlertInv, RecordInv, [Next]_vars, ~spoilt'
    PROVE  RecordInv'
<1>. USE DEF Visits
<1>0. /\ KeysAreVisits /\ ArrivedInWindow /\ BackfilledLast /\ SkipsBetween
      /\ LastVisitFiled /\ UnreachedIsOnlyRecord /\ SkippedMeansPassed
  BY DEF RecordInv
<1>1. CASE EditFloor \/ TickContextOnly \/ UNCHANGED vars
  <2>1. UNCHANGED <<state, pc, cand, k>>  BY <1>1 DEF EditFloor, TickContextOnly, vars
  <2>. QED  BY <1>0, <2>1 DEF RecordInv, KeysAreVisits, ArrivedInWindow, BackfilledLast,
       SkipsBetween, LastVisitFiled, UnreachedIsOnlyRecord, SkippedMeansPassed,
       Closing, Logged
<1>2. CASE Elapse
  <2>1. CASE state = NoState  BY <1>2, <2>1, NoRecords DEF Elapse
  <2>2. CASE state # NoState
    <3>1. /\ state' # NoState /\ state'.visits = state.visits /\ state'.keys = state.keys
          /\ state'.cur = state.cur
      <4>1. state \in GuardState  BY <2>2 DEF TypeInv, TypeOK
      <4>2. state' \in GuardState \cup {NoState}  BY TypeInvNext DEF TypeInv, TypeOK
      <4>3. state' = [state EXCEPT !.elapsed = Saturate(state.elapsed + 1, MaxElapsed)]
        BY <1>2, <2>2 DEF Elapse
      <4>4. Saturate(state.elapsed + 1, MaxElapsed) \in 0..MaxElapsed
        <5>1. state.elapsed + 1 \in Nat  BY <4>1, BoundsAreNaturals DEF GuardState
        <5>. QED  BY <5>1, SaturateBounds, BoundsAreNaturals
      <4>. QED  BY <4>1, <4>3, <4>4, NoStateAssumption DEF GuardState
    <3>. QED  BY <1>2, <2>2, <3>1, SameRecords DEF Elapse
  <2>. QED  BY <2>1, <2>2
<1>3. CASE Restart  BY <1>3, NoRecords DEF Restart
<1>4. ASSUME NEW p \in Positions, TickFresh(p) PROVE RecordInv'
  BY <1>4, NoRecords DEF TickFresh, TickEnds, Opened
<1>5. ASSUME NEW p \in Positions, TickCloses(p) PROVE RecordInv'
  BY <1>5, SameRecords DEF TickCloses
<1>6. ASSUME NEW p \in Positions, TickMoves(p) PROVE RecordInv'
  <2>1. state # NoState /\ state \in GuardState  BY <1>6 DEF TickMoves, TypeInv, TypeOK
  <2>2. /\ state' # NoState /\ state'.visits = state.visits /\ state'.keys = state.keys
        /\ state'.cur = state.cur
    BY <1>6, <2>1, NoStateAssumption DEF TickMoves, GuardState
  <2>3. pc' \in {"idle", "leave", "skip"} /\ (pc' = "skip" => state.cur = NoIndex)
    BY <1>6 DEF TickMoves, TickEnds
  <2>. QED  BY <1>6, <2>1, <2>2, <2>3, SameRecords DEF TickMoves
<1>7. CASE CloseCurrent \/ Leave
  <2>1. state \in GuardState /\ state # NoState /\ state.cur \in Indices
    BY <1>7 DEF CloseCurrent, Leave, TypeInv, TypeOK
  <2>2. /\ RealVisit \in Visit /\ RealVisit.index = state.cur
        /\ RealVisit.arrived /\ ~RealVisit.notInWindow
    BY <2>1, RealVisitType DEF RealVisit
  <2>3. /\ state' # NoState /\ state'.visits = state.visits \cup {RealVisit}
        /\ state'.keys = Filed(RealVisit).keys
        /\ CloseCurrent => state'.cur = state.cur
        /\ Leave => state'.cur = NoIndex
    BY <1>7, ClosedVisit
  <2>4. Logged' = Logged \cup {state.cur}
    <3>1. Logged' = KeysIn(state'.keys)  BY DEF Logged, KeysIn
    <3>. QED  BY <2>1, <2>2, <2>3, <3>1, FiledVisits
  <2>5. /\ CloseCurrent => pc = "closeCurrent" /\ pc' = "backfill"
        /\ Leave => pc = "leave" /\ pc' \in {"idle", "skip"}
    BY <1>7 DEF CloseCurrent, Leave, TickEnds
  <2>6. \A v \in state.visits : ~v.notInWindow
    BY <1>0, <1>7, <2>1, <2>5 DEF BackfilledLast, Closing
  <2>7. KeysAreVisits' /\ ArrivedInWindow' /\ BackfilledLast' /\ UnreachedIsOnlyRecord'
    BY <1>0, <2>1, <2>2, <2>3, <2>4, <2>6 DEF KeysAreVisits, ArrivedInWindow, BackfilledLast,
       UnreachedIsOnlyRecord
  <2>8. SkipsBetween' /\ LastVisitFiled'
    BY <1>7, <2>2, <2>3, <2>5 DEF SkipsBetween, LastVisitFiled, Closing
  <2>9. SkippedMeansPassed'
    <3>. SUFFICES ASSUME NEW v \in state'.visits, ~v.arrived, ~v.notInWindow
         PROVE  \E w \in state'.visits : w.arrived /\ w.index > v.index
      BY <2>3 DEF SkippedMeansPassed
    <3>1. v \in state.visits  BY <2>2, <2>3
    <3>2. state.cur > v.index \/ \E w \in state.visits : w.arrived /\ w.index > v.index
      BY <1>0, <1>7, <2>1, <2>5, <3>1 DEF SkippedMeansPassed
    <3>. QED  BY <2>2, <2>3, <3>2
  <2>. QED  BY <2>7, <2>8, <2>9 DEF RecordInv
<1>8. ASSUME NEW i \in Indices, Backfill(i) PROVE RecordInv'
  <2> DEFINE u == UnreachedVisit(i, TRUE)
  <2>1. state \in GuardState /\ state # NoState
    BY <1>8 DEF Backfill, TypeInv, TypeOK
  <2>2. u \in Visit /\ u.index = i /\ ~u.arrived /\ u.notInWindow
    BY UnreachedVisitType DEF UnreachedVisit, TypeInv
  <2>3. /\ state' # NoState /\ state'.visits = state.visits \cup {u}
        /\ state'.keys = Filed(u).keys /\ state'.cur = state.cur
    BY <1>8, <2>1, <2>2, FiledType, FiledVisits, NoStateAssumption DEF Backfill
  <2>4. Logged' = Logged \cup {i}
    <3>1. Logged' = KeysIn(state'.keys)  BY DEF Logged, KeysIn
    <3>. QED  BY <2>1, <2>2, <2>3, <3>1, FiledVisits
  <2>5. pc = "backfill" /\ pc' = "backfill" /\ i \notin Logged
    BY <1>8 DEF Backfill, Unlogged
  <2>. HIDE DEF u
  <2>6. KeysAreVisits' /\ ArrivedInWindow' /\ BackfilledLast'
    BY <1>0, <2>1, <2>2, <2>3, <2>4, <2>5 DEF KeysAreVisits, ArrivedInWindow, BackfilledLast,
       Closing
  <2>7. UnreachedIsOnlyRecord'
    BY <1>0, <2>1, <2>2, <2>3, <2>5 DEF UnreachedIsOnlyRecord, KeysAreVisits
  <2>8. SkipsBetween' /\ LastVisitFiled'
    BY <1>0, <2>3, <2>5 DEF SkipsBetween, LastVisitFiled, Closing
  <2>9. SkippedMeansPassed'
    BY <1>0, <2>1, <2>2, <2>3, <2>5 DEF SkippedMeansPassed
  <2>. QED  BY <2>6, <2>7, <2>8, <2>9 DEF RecordInv
<1>9. ASSUME NEW i \in Indices, Skip(i) PROVE RecordInv'
  <2> DEFINE u == UnreachedVisit(i, FALSE)
  <2>1. state \in GuardState /\ state # NoState
    BY <1>9 DEF Skip, TypeInv, TypeOK
  <2>2. u \in Visit /\ u.index = i /\ ~u.arrived /\ ~u.notInWindow
    BY UnreachedVisitType DEF UnreachedVisit, TypeInv
  <2>3. /\ state' # NoState /\ state'.visits = state.visits \cup {u}
        /\ state'.keys = Filed(u).keys /\ state'.cur = state.cur
    BY <1>9, <2>1, <2>2, FiledType, FiledVisits, NoStateAssumption DEF Skip
  <2>4. Logged' = Logged \cup {i}
    <3>1. Logged' = KeysIn(state'.keys)  BY DEF Logged, KeysIn
    <3>. QED  BY <2>1, <2>2, <2>3, <3>1, FiledVisits
  <2>5. pc = "skip" /\ pc' = "skip" /\ i < cand /\ cand' = cand  BY <1>9 DEF Skip
  <2>. HIDE DEF u
  <2>6. KeysAreVisits' /\ ArrivedInWindow' /\ BackfilledLast' /\ UnreachedIsOnlyRecord'
    BY <1>0, <2>1, <2>2, <2>3, <2>4, <2>5 DEF KeysAreVisits, ArrivedInWindow, BackfilledLast,
       UnreachedIsOnlyRecord, Closing
  <2>7. SkipsBetween' /\ LastVisitFiled'
    BY <1>0, <2>3, <2>5 DEF SkipsBetween, LastVisitFiled, Closing
  <2>8. SkippedMeansPassed'
    <3>1. i \in Nat /\ cand \in Nat /\ cand > i
      BY <2>5, RouteType DEF Indices, TypeInv, TypeOK
    <3>. QED  BY <1>0, <2>1, <2>2, <2>3, <2>5, <3>1 DEF SkippedMeansPassed
  <2>. QED  BY <2>6, <2>7, <2>8 DEF RecordInv
<1>10. CASE BackfillDone
  <2>1. /\ state' = state /\ pc = "backfill" /\ pc' \in {"judge", "noPatrol"}
    BY <1>10 DEF BackfillDone
  <2>. QED  BY <1>0, <2>1 DEF RecordInv, KeysAreVisits, ArrivedInWindow, BackfilledLast, Logged,
       SkipsBetween, LastVisitFiled, UnreachedIsOnlyRecord, SkippedMeansPassed, Closing
<1>11. CASE Judge \/ CheckNoPatrol
  <2>1. /\ state' = state /\ pc \in {"judge", "noPatrol"}
        /\ pc' \in {"judge", "noPatrol", "replace"}
    BY <1>11 DEF Judge, CheckNoPatrol
  <2>. QED  BY <1>0, <2>1 DEF RecordInv, KeysAreVisits, ArrivedInWindow, BackfilledLast, Logged,
       SkipsBetween, LastVisitFiled, UnreachedIsOnlyRecord, SkippedMeansPassed, Closing
<1>12. CASE ReplaceWindow
  BY <1>12, NoRecords DEF ReplaceWindow, TickEnds, Opened
<1>13. CASE Enter
  <2>1. state \in GuardState /\ state # NoState
    BY <1>13 DEF Enter, TypeInv, TypeOK
  <2>2. /\ state' # NoState /\ state'.visits = state.visits /\ state'.keys = state.keys
        /\ state'.cur = cand
    <3>1. state' \in GuardState \cup {NoState}  BY TypeInvNext DEF TypeInv, TypeOK
    <3>. QED  BY <1>13, <2>1, NoStateAssumption DEF Enter, GuardState, TypeInv, TypeOK
  <2>3. pc = "skip" /\ pc' = "idle"  BY <1>13 DEF Enter, TickEnds
  <2>4. SkippedMeansPassed'
    <3>. SUFFICES ASSUME NEW v \in state.visits, ~v.arrived, ~v.notInWindow
         PROVE  cand > v.index \/ \E w \in state.visits : w.arrived /\ w.index > v.index
      BY <2>2 DEF SkippedMeansPassed
    <3>1. state.cur = NoIndex /\ v.index \in Nat \ {0}
      BY <1>0, <2>1, <2>3 DEF SkipsBetween, GuardState, Visit
    <3>. QED  BY <1>0, <2>1, <2>3, <3>1 DEF SkippedMeansPassed, NoIndex
  <2>. QED  BY <1>0, <2>1, <2>2, <2>3, <2>4 DEF RecordInv, KeysAreVisits, ArrivedInWindow,
       BackfilledLast, Logged, SkipsBetween, LastVisitFiled, UnreachedIsOnlyRecord,
       Closing
<1>14. CASE SaveRaises
  <2>1. /\ state' = state /\ pc \in {"closeCurrent", "leave"} /\ pc' = "idle"
    BY <1>14 DEF SaveRaises, TickEnds
  <2>2. state # NoState  BY <2>1 DEF TypeInv, TypeOK
  <2>3. \A v \in state.visits : ~v.notInWindow
    BY <1>0, <2>1, <2>2 DEF BackfilledLast, Closing
  <2>. QED  BY <1>0, <2>1, <2>2, <2>3 DEF RecordInv, KeysAreVisits, ArrivedInWindow,
       BackfilledLast, Logged, SkipsBetween, LastVisitFiled, UnreachedIsOnlyRecord,
       SkippedMeansPassed, Closing
<1>15. ~IndexRaises  BY NeverOffRoute
<1>. QED
  BY <1>1, <1>2, <1>3, <1>4, <1>5, <1>6, <1>7, <1>8, <1>9, <1>10, <1>11, <1>12, <1>13, <1>14,
     <1>15
  DEF Next, TickBegins, TickStep

LEMMA RecordInvariance ==
    ASSUME DistinctRoute
    PROVE  Spec => [](~spoilt => RecordInv)
<1>1. TypeInv /\ Grounded /\ (~spoilt => AlertInv) /\ (~spoilt => RecordInv) /\ [Next]_vars
        => (~spoilt => RecordInv)'
  <2>. SUFFICES ASSUME TypeInv, Grounded, ~spoilt => AlertInv, ~spoilt => RecordInv,
                       [Next]_vars, ~spoilt'
                PROVE  RecordInv'
    OBVIOUS
  <2>1. CASE spoilt  BY <2>1, SpoiltEnds, NoRecords
  <2>2. CASE ~spoilt  BY <2>2, RecordInvNext
  <2>. QED  BY <2>1, <2>2
<1>. QED
  BY <1>1, RecordInvInit, TypeInvariance, GroundedInvariance, AlertInvariance, PTL DEF Spec

\* Alerts are out only for checkpoints that were reached or skipped, and a guard who has
\* reached one for long has cleared it.
LEMMA ReportedWasReached ==
    ASSUME TypeInv, AlertInv, RecordInv, Judging, NEW a \in Alert \ {NoPatrolAlert},
           alerts[a] > 0
    PROVE  \E i \in Reached : \A v \in VisitsOf(i) : ~Compliant(v)
<1>1. PICK j \in 1..k : \A v \in VisitsOf(state.keys[j]) : ~Compliant(v)
  BY DEF AlertInv, ReportsAreJudged
<1>2. state # NoState /\ state \in GuardState  BY DEF Judging, TypeInv, TypeOK
<1>3. state.keys[j] \in Logged
  <2>1. k \in Nat /\ Len(state.keys) \in Nat /\ k <= Len(state.keys)
    BY <1>2 DEF AlertInv, JudgeInRange, TypeInv, TypeOK, GuardState
  <2>. QED  BY <2>1 DEF Logged
<1>4. PICK v \in state.visits : v.index = state.keys[j]
  BY <1>2, <1>3 DEF RecordInv, KeysAreVisits
<1>5. ~v.notInWindow  BY <1>1, <1>4 DEF VisitsOf, Compliant
<1>. QED  BY <1>1, <1>4, <1>5 DEF Reached

\* A window that is never patrolled has no checkpoint without a compliant record, but
\* those that nobody reached.
LEMMA ParkedIsCleared ==
    ASSUME TypeInv, RecordInv, ParkedIsLong, pc = "noPatrol", NeverPatrolled, NEW i \in Reached
    PROVE  \E v \in VisitsOf(i) : Compliant(v)
<1>1. state # NoState /\ state \in GuardState  BY DEF TypeInv, TypeOK
<1>2. PICK v \in VisitsOf(i) : Reached = {i} /\ ~v.notInWindow /\ v.dwell >= ParkedDwell
  BY DEF NeverPatrolled
<1>3. v \in state.visits /\ v \in Visit /\ v.index = i
  BY <1>1, <1>2 DEF VisitsOf, GuardState
<1>4. v.arrived
  <2>. SUFFICES ASSUME ~v.arrived PROVE FALSE  OBVIOUS
  <2>1. state.cur > i \/ \E w \in state.visits : w.arrived /\ w.index > i
    BY <1>1, <1>2, <1>3 DEF RecordInv, SkippedMeansPassed, Visits
  <2>2. i \in Nat \ {0} /\ state.cur \in Nat  BY <1>1, <1>3 DEF Visit, GuardState
  <2>3. PICK w \in state.visits : w.arrived /\ w.index > i
    BY <2>1, <2>2 DEF RecordInv, LastVisitFiled, Closing, NoIndex
  <2>4. w.index \in Reached
    BY <1>1, <2>3 DEF Reached, RecordInv, ArrivedInWindow, Visits
  <2>. QED  BY <1>2, <2>2, <2>3, <2>4
<1>5. v.dwell \in Nat  BY <1>3, BoundsAreNaturals DEF Visit
<1>. QED  BY <1>2, <1>4, <1>5, NumbersAssumption DEF ParkedIsLong, Compliant

LEMMA StandsAloneNext ==
    ASSUME ParkedIsLong, TypeInv, AlertInv, RecordInv, NoPatrolStandsAlone, [Next]_vars
    PROVE  NoPatrolStandsAlone'
<1>1. CASE UNCHANGED alerts  BY <1>1 DEF NoPatrolStandsAlone
<1>2. CASE alerts' = NoAlerts
  <2>1. NoPatrolAlert \in Alert  BY DEF Alert, NoPatrolAlert
  <2>. QED  BY <1>2, <2>1 DEF NoPatrolStandsAlone, NoAlerts
<1>3. CASE Judge
  <2>1. alerts[NoPatrolAlert] = 0 /\ NoPatrolAlert \in Alert
    BY <1>3 DEF Judge, AlertInv, NoPatrolComesLast, Alert, NoPatrolAlert
  <2>2. PICK best : IF Compliant(best) THEN UNCHANGED alerts
                    ELSE Save([cause |-> CauseOf(best), ap |-> Route[state.keys[k + 1]]])
    BY <1>3 DEF Judge
  <2>3. [cause |-> CauseOf(best), ap |-> Route[state.keys[k + 1]]] # NoPatrolAlert
    BY DEF CauseOf, NoPatrolAlert
  <2>4. alerts'[NoPatrolAlert] = 0  BY <2>1, <2>2, <2>3 DEF Save, TypeInv, TypeOK
  <2>. QED  BY <2>4 DEF NoPatrolStandsAlone
<1>4. CASE CheckNoPatrol /\ NeverPatrolled
  <2>1. \A a \in Alert \ {NoPatrolAlert} : alerts[a] = 0
    <3>. SUFFICES ASSUME NEW a \in Alert \ {NoPatrolAlert}, alerts[a] > 0 PROVE FALSE
      BY DEF TypeInv, TypeOK
    <3>1. pc = "noPatrol" /\ Judging  BY <1>4 DEF CheckNoPatrol, Judging
    <3>. QED  BY <1>4, <3>1, ReportedWasReached, ParkedIsCleared
  <2>2. \A a \in Alert \ {NoPatrolAlert} : alerts'[a] = alerts[a]
    BY <1>4 DEF CheckNoPatrol, Save, TypeInv, TypeOK
  <2>. QED  BY <2>1, <2>2 DEF NoPatrolStandsAlone
<1>. QED
  BY <1>1, <1>2, <1>3, <1>4
  DEF Next, EditFloor, Elapse, Restart, TickContextOnly, TickBegins, TickFresh, TickCloses,
      TickMoves, TickStep, CloseCurrent, BackfillDone, CheckNoPatrol, ReplaceWindow, Leave,
      Enter, IndexRaises, Backfill, Skip, SaveRaises, vars

\* No window that is not spoilt is called never patrolled and reported for more.
LEMMA StandsAlone ==
    ASSUME DistinctRoute, ParkedIsLong
    PROVE  Spec => [](~spoilt => NoPatrolStandsAlone)
<1>1. NoPatrolAlert \in Alert  BY DEF Alert, NoPatrolAlert
<1>2. Init => NoPatrolStandsAlone
  BY <1>1 DEF Init, NoPatrolStandsAlone, NoAlerts
<1>3. TypeInv /\ Grounded /\ (~spoilt => AlertInv) /\ (~spoilt => RecordInv)
        /\ (~spoilt => NoPatrolStandsAlone) /\ [Next]_vars
        => (~spoilt => NoPatrolStandsAlone)'
  <2>. SUFFICES ASSUME TypeInv, Grounded, ~spoilt => AlertInv, ~spoilt => RecordInv,
                       ~spoilt => NoPatrolStandsAlone, [Next]_vars, ~spoilt'
                PROVE  NoPatrolStandsAlone'
    OBVIOUS
  <2>1. CASE spoilt
    <3>1. alerts' = NoAlerts  BY <2>1, SpoiltEnds
    <3>. QED  BY <1>1, <3>1 DEF NoPatrolStandsAlone, NoAlerts
  <2>2. CASE ~spoilt  BY <2>2, StandsAloneNext
  <2>. QED  BY <2>1, <2>2
<1>. QED
  BY <1>2, <1>3, RecordInvariance, TypeInvariance, GroundedInvariance, AlertInvariance, PTL
  DEF Spec

\* The records of a window agree with themselves and with what is reported of it, on a
\* route of any length and through any walk of the guard.
THEOREM HonestRecords ==
    ASSUME StableRoute, ~SavesMayFail, ParkedIsLong
    PROVE  Spec => []RecordsAreHonest
<1>1. DistinctRoute  BY DEF StableRoute
<1>2. RecordInv /\ NoPatrolStandsAlone => RecordsAreHonest  BY DEF RecordInv, RecordsAreHonest
<1>. QED  BY <1>1, <1>2, RecordInvariance, StandsAlone, NeverSpoilt, PTL

\* check_patrol_window_compliance(), through edits of the route, failing saves and
\* restarts: a window is replaced only when the verdict on every checkpoint is out, and
\* a window that none of them spoilt is judged exactly, whatever befell those before it.
THEOREM FaultsAreContained ==
    ASSUME DistinctRoute, ParkedIsLong
    PROVE  Spec => []VerdictsSurviveFaults
<1>1. TypeInv /\ LoopInv => (pc = "replace" => \A i \in Indices : VerdictIsOut(i))
  <2>. SUFFICES ASSUME TypeInv, LoopInv, pc = "replace", NEW i \in Indices
                PROVE  VerdictIsOut(i)
    OBVIOUS
  <2>1. i \in Logged  BY DEF LoopInv, WindowIsComplete, Judging, Unlogged
  <2>2. PICK j \in 1..Len(state.keys) : state.keys[j] = i  BY <2>1 DEF Logged
  <2>3. k = Len(state.keys)  BY DEF LoopInv, AllJudged
  <2>. QED  BY <2>2, <2>3 DEF LoopInv, VerdictsSoFar, Judging
<1>2. AlertInv => OncePerCheckpoint  BY DEF AlertInv
<1>3. TypeInv /\ AlertInv => ClearedNeverReported  BY ClearedInWindow
<1>4. RecordInv /\ NoPatrolStandsAlone => RecordsAreHonest  BY DEF RecordInv, RecordsAreHonest
<1>5. /\ TypeInv /\ LoopInv /\ (~spoilt => AlertInv) /\ (~spoilt => RecordInv)
      /\ (~spoilt => NoPatrolStandsAlone)
      => VerdictsSurviveFaults
  BY <1>1, <1>2, <1>3, <1>4 DEF VerdictsSurviveFaults
<1>. QED
  BY <1>5, TypeInvariance, LoopInvariance, AlertInvariance, RecordInvariance, StandsAlone, PTL
-----------------------------------------------------------------------------
(***************************************************************************)
(* Refinement.  On a floor whose route stays what it is the tracker is the *)
(* window that PatrolWindow promises: every step of a tick is one of its   *)
(* steps, or none.                                                         *)
(***************************************************************************)
Cleared == {v.ap : v \in {w \in Visits : Compliant(w)}}
JudgedAPs == {Route[state.keys[j]] : j \in 1..k}
ReportedAPs == {ap \in APs : \E a \in Alert : a.ap = ap /\ alerts[a] > 0}

\* The window's steps, as they are seen in the tracker.
LEMMA WindowSteps ==
    /\ UNCHANGED Abstract!vars <=>
          UNCHANGED <<state # NoState, Cleared, JudgedAPs, ReportedAPs>>
    /\ Abstract!Open <=>
          /\ state = NoState /\ state' # NoState
          /\ Cleared' = {} /\ JudgedAPs' = {} /\ ReportedAPs' = {}
    /\ \A c : Abstract!Clear(c) <=>
          /\ state # NoState /\ JudgedAPs = {} /\ Cleared' = Cleared \cup {c}
          /\ (state' # NoState) = (state # NoState)
          /\ UNCHANGED <<JudgedAPs, ReportedAPs>>
    /\ \A c : Abstract!Judge(c) <=>
          /\ state # NoState /\ c \notin JudgedAPs /\ JudgedAPs' = JudgedAPs \cup {c}
          /\ ReportedAPs' = IF c \in Cleared THEN ReportedAPs ELSE ReportedAPs \cup {c}
          /\ (state' # NoState) = (state # NoState) /\ Cleared' = Cleared
    /\ Abstract!Roll <=>
          /\ state # NoState /\ JudgedAPs = Checkpoints
          /\ Cleared' = {} /\ JudgedAPs' = {} /\ ReportedAPs' = {}
          /\ (state' # NoState) = (state # NoState)
    /\ Abstract!Forget <=>
          /\ state # NoState /\ state' = NoState
          /\ Cleared' = {} /\ JudgedAPs' = {} /\ ReportedAPs' = {}
BY DEF Abstract!vars, Abstract!Open, Abstract!Clear, Abstract!Judge, Abstract!Roll,
       Abstract!Forget, Abstract!Fresh, Cleared, JudgedAPs, ReportedAPs

LEMMA NothingReported == alerts = NoAlerts => ReportedAPs = {}
BY DEF NoAlerts, ReportedAPs

LEMMA NothingJudged == k = 0 => JudgedAPs = {}
BY DEF JudgedAPs

\* A step that judges nothing and files nothing compliant is none of the window's.
LEMMA Stutters ==
    ASSUME (state' # NoState) = (state # NoState), Cleared' = Cleared, alerts' = alerts,
           k = 0, k' = 0
    PROVE  UNCHANGED Abstract!vars
<1>1. JudgedAPs = {} /\ JudgedAPs' = {}  BY DEF JudgedAPs
<1>2. ReportedAPs' = ReportedAPs  BY DEF ReportedAPs
<1>. QED  BY <1>1, <1>2, WindowSteps

\* What is filed clears its checkpoint if it is compliant, and nothing otherwise.
LEMMA Files ==
    ASSUME state # NoState, state' # NoState, NEW v, v.ap \in Checkpoints,
           state'.visits = state.visits \cup {v}, alerts' = alerts, k = 0, k' = 0
    PROVE  (\E c \in Checkpoints : Abstract!Clear(c)) \/ UNCHANGED Abstract!vars
<1>1. CASE Compliant(v)
  <2>1. Cleared' = Cleared \cup {v.ap}  BY <1>1 DEF Cleared, Visits
  <2>2. JudgedAPs = {} /\ JudgedAPs' = {}  BY DEF JudgedAPs
  <2>3. ReportedAPs' = ReportedAPs  BY DEF ReportedAPs
  <2>. QED  BY <2>1, <2>2, <2>3, WindowSteps
<1>2. CASE ~Compliant(v)
  <2>1. Cleared' = Cleared  BY <1>2 DEF Cleared, Visits
  <2>. QED  BY <2>1, Stutters
<1>. QED  BY <1>1, <1>2

\* The route that is cached is the route, and its APs are the checkpoints.
LEMMA CheckpointsAreRoute ==
    ASSUME StableRoute, TypeOK, ctx # NoCtx
    PROVE  Checkpoints = {Route[i] : i \in Indices}
<1>2. PICK c \in Configs \ {NoFloor} : c.route = Route  BY CachedRoute
<1>1. \A d \in Configs \ {NoFloor} : d.route = Route  BY <1>2 DEF StableRoute
<1>3. Route \in Seq(APs)  BY RouteType
<1>4. \A d \in Configs \ {NoFloor} :
        {d.route[i] : i \in DOMAIN d.route} = {Route[i] : i \in Indices}
  BY <1>1, <1>3 DEF Indices
<1>. QED  BY <1>2, <1>4 DEF Checkpoints

\* One round of the alerting loop is the one verdict on its checkpoint.
LEMMA JudgeMaps ==
    ASSUME StableRoute, TypeInv, AlertInv, RecordInv, Judge
    PROVE  \E c \in Checkpoints : Abstract!Judge(c)
<1>. DEFINE i == state.keys[k + 1]
<1>1. PICK best \in BestOf(i) :
          IF Compliant(best) THEN UNCHANGED alerts
          ELSE Save([cause |-> CauseOf(best), ap |-> Route[i]])
  BY DEF Judge
<1>2. /\ i \in Indices /\ Route[i] \in APs
      /\ state' = state /\ ctx' = ctx /\ k' = k + 1 /\ pc = "judge"
  BY RouteType DEF Judge, Indices, TypeInv
<1>3. /\ ctx # NoCtx /\ state # NoState /\ state \in GuardState /\ k \in Nat
      /\ alerts \in [Alert -> 0..2]
  BY <1>2 DEF TypeInv, TypeOK
<1>4. PICK c \in Configs \ {NoFloor} : c.route = Route
  BY <1>3, CachedRoute DEF TypeInv
<1>5. Len(state.keys) \in Nat /\ k + 1 \in 1..Len(state.keys)
  BY <1>2, <1>3 DEF AlertInv, JudgeInRange, GuardState
<1>6. Route[i] \notin JudgedAPs
  <2>. SUFFICES ASSUME NEW j \in 1..k, Route[state.keys[j]] = Route[i] PROVE FALSE
    BY DEF JudgedAPs
  <2>1. j \in 1..Len(state.keys) /\ j # k + 1  BY <1>3, <1>5
  <2>2. state.keys[j] \in Indices  BY <1>3, <2>1 DEF AlertInv, OnRoute
  <2>3. state.keys[j] = i
    BY <1>2, <1>4, <2>2 DEF StableRoute, DistinctRoute, Indices
  <2>. QED  BY <1>3, <1>5, <2>1, <2>3 DEF AlertInv, KeysDistinct
<1>7. JudgedAPs' = JudgedAPs \cup {Route[i]}
  <2>1. Route' = Route /\ 1..(k + 1) = (1..k) \cup {k + 1}  BY <1>2, <1>3 DEF Route
  <2>2. JudgedAPs' = {Route[state.keys[j]] : j \in 1..(k + 1)}
    BY <1>2, <2>1 DEF JudgedAPs
  <2>. QED  BY <2>1, <2>2 DEF JudgedAPs
<1>8. Route[i] \in Cleared <=> Compliant(best)
  <2>1. ASSUME Compliant(best) PROVE Route[i] \in Cleared
    <3>1. best \in state.visits /\ best.index = i  BY DEF BestOf, VisitsOf
    <3>2. best.ap = Route[i]  BY <1>3, <3>1 DEF AlertInv, OnRoute
    <3>. QED  BY <1>3, <2>1, <3>1, <3>2 DEF Cleared, Visits
  <2>2. ASSUME Route[i] \in Cleared PROVE Compliant(best)
    <3>1. PICK v \in state.visits : Compliant(v) /\ v.ap = Route[i]
      BY <1>3, <2>2 DEF Cleared, Visits
    <3>2. v.index \in Indices /\ Route[v.index] = Route[i]
      BY <1>3, <3>1 DEF AlertInv, OnRoute
    <3>3. v.index = i  BY <1>2, <1>4, <3>2 DEF StableRoute, DistinctRoute, Indices
    <3>. QED  BY <3>1, <3>3 DEF BestOf, VisitsOf, Beats
  <2>. QED  BY <2>1, <2>2
<1>9. ReportedAPs' = IF Route[i] \in Cleared THEN ReportedAPs ELSE ReportedAPs \cup {Route[i]}
  <2>1. CASE Compliant(best)
    <3>1. alerts' = alerts  BY <1>1, <2>1
    <3>. QED  BY <1>8, <2>1, <3>1 DEF ReportedAPs
  <2>2. CASE ~Compliant(best)
    <3>. DEFINE a0 == [cause |-> CauseOf(best), ap |-> Route[i]]
    <3>1. a0 \in Alert /\ a0.ap = Route[i]  BY <1>2 DEF Alert, CauseOf
    <3>2. alerts' = [alerts EXCEPT ![a0] = Saturate(alerts[a0] + 1, 2)]
      BY <1>1, <2>2 DEF Save
    <3>3. Saturate(alerts[a0] + 1, 2) > 0  BY <1>3, <3>1 DEF Saturate
    <3>. HIDE DEF a0
    <3>4. /\ alerts'[a0] > 0
          /\ \A a \in Alert \ {a0} : alerts'[a] = alerts[a]
      BY <1>3, <3>1, <3>2, <3>3
    <3>5. ReportedAPs' = ReportedAPs \cup {Route[i]}
      <4>1. \A ap \in APs : ap \in ReportedAPs' <=> ap \in ReportedAPs \/ ap = Route[i]
        BY <3>1, <3>4 DEF ReportedAPs
      <4>2. ReportedAPs \subseteq APs /\ ReportedAPs' \subseteq APs  BY DEF ReportedAPs
      <4>. QED  BY <1>2, <4>1, <4>2
    <3>. QED  BY <1>8, <2>2, <3>5
  <2>. QED  BY <2>1, <2>2
<1>10. Cleared' = Cleared  BY <1>2 DEF Cleared, Visits
<1>11. Route[i] \in Checkpoints  BY <1>2, <1>3, CheckpointsAreRoute DEF TypeInv
<1>. QED  BY <1>2, <1>3, <1>6, <1>7, <1>9, <1>10, <1>11, WindowSteps

\* The window ends when every checkpoint of the route has had its verdict.
LEMMA ReplaceMaps ==
    ASSUME StableRoute, TypeInv, AlertInv, LoopInv, ReplaceWindow
    PROVE  Abstract!Roll
<1>1. /\ pc = "replace" /\ alerts' = NoAlerts /\ k' = 0 /\ state' = Opened(cand)
      /\ state # NoState /\ ctx # NoCtx /\ state \in GuardState
  BY DEF ReplaceWindow, TickEnds, TypeInv, TypeOK
<1>2. state' # NoState /\ state'.visits = {}
  <2>1. cand \in Nat  BY DEF TypeInv, TypeOK
  <2>2. Opened(cand) \in GuardState  BY <2>1, OpenedType
  <2>. QED  BY <1>1, <2>2, NoStateAssumption DEF Opened
<1>3. Cleared' = {} /\ JudgedAPs' = {} /\ ReportedAPs' = {}
  <2>1. ReportedAPs' = {}  BY <1>1 DEF ReportedAPs, NoAlerts
  <2>. QED  BY <1>1, <1>2, <2>1 DEF Cleared, JudgedAPs, Visits
<1>4. JudgedAPs = Checkpoints
  <2>2. Logged = Indices
    BY <1>1 DEF LoopInv, WindowIsComplete, Judging, Unlogged, AlertInv, OnRoute, Logged, Indices
  <2>3. k = Len(state.keys)  BY <1>1 DEF LoopInv, AllJudged
  <2>4. JudgedAPs = {Route[i] : i \in Logged}  BY <2>3 DEF JudgedAPs, Logged
  <2>. QED  BY <1>1, <2>2, <2>4, CheckpointsAreRoute DEF TypeInv
<1>. QED  BY <1>1, <1>2, <1>3, <1>4, WindowSteps

LEMMA StepMaps ==
    ASSUME StableRoute, ~SavesMayFail, TypeInv, AlertInv, RecordInv, LoopInv,
           [Next]_vars
    PROVE  [Abstract!Next]_(Abstract!vars)
<1>0. ~Judging => alerts = NoAlerts /\ k = 0
  BY DEF AlertInv, SilentUnlessJudging
<1>1. CASE EditFloor \/ UNCHANGED vars
  <2>1. UNCHANGED <<state, ctx, alerts, k>>  BY <1>1 DEF EditFloor, vars
  <2>2. UNCHANGED <<state # NoState, Cleared, JudgedAPs, ReportedAPs>>
    BY <2>1 DEF Cleared, JudgedAPs, ReportedAPs, Visits, Route
  <2>. QED  BY <2>2, WindowSteps
<1>2. CASE Elapse
  <2>1. k = 0 /\ k' = 0 /\ alerts' = alerts  BY <1>0, <1>2 DEF Elapse, Judging
  <2>2. (state' # NoState) = (state # NoState) /\ Visits' = Visits
    <3>1. CASE state = NoState  BY <1>2, <3>1 DEF Elapse, Visits
    <3>2. CASE state # NoState
      <4>1. state \in GuardState  BY <3>2 DEF TypeInv, TypeOK
      <4>2. Saturate(state.elapsed + 1, MaxElapsed) \in 0..MaxElapsed
        <5>1. state.elapsed + 1 \in Nat  BY <4>1, BoundsAreNaturals DEF GuardState
        <5>. QED  BY <5>1, SaturateBounds, BoundsAreNaturals
      <4>3. state' = [state EXCEPT !.elapsed = Saturate(state.elapsed + 1, MaxElapsed)]
        BY <1>2, <3>2 DEF Elapse
      <4>4. state' \in GuardState /\ state'.visits = state.visits
        BY <4>1, <4>2, <4>3 DEF GuardState
      <4>. QED  BY <3>2, <4>4, NoStateAssumption DEF Visits
    <3>. QED  BY <3>1, <3>2
  <2>. QED  BY <2>1, <2>2, Stutters DEF Cleared
<1>3. CASE TickContextOnly
  <2>1. k = 0 /\ k' = 0 /\ alerts' = alerts /\ state' = state
    BY <1>0, <1>3 DEF TickContextOnly, Judging
  <2>. QED  BY <2>1, Stutters DEF Cleared, Visits
<1>4. CASE Restart
  <2>1. Cleared' = {} /\ JudgedAPs' = {} /\ ReportedAPs' = {}
    BY <1>4 DEF Restart, NoAlerts, Cleared, JudgedAPs, ReportedAPs, Visits
  <2>2. CASE state # NoState
    BY <1>4, <2>1, <2>2, WindowSteps DEF Restart, Abstract!Next
  <2>3. CASE state = NoState
    <3>1. k = 0 /\ alerts = NoAlerts  BY <1>0, <2>3 DEF TypeInv, TypeOK, Judging
    <3>2. Cleared = {} /\ JudgedAPs = {} /\ ReportedAPs = {}
      BY <2>3, <3>1 DEF NoAlerts, Cleared, JudgedAPs, ReportedAPs, Visits
    <3>. QED  BY <1>4, <2>1, <2>3, <3>2, WindowSteps DEF Restart
  <2>. QED  BY <2>2, <2>3
<1>5. ASSUME NEW p \in Positions, TickFresh(p) PROVE Abstract!Open
  <2>1. /\ state = NoState /\ k' = 0 /\ alerts' = NoAlerts
        /\ state' = Opened(Candidate(p, FloorContext.floor.route, NoIndex))
    BY <1>0, <1>5 DEF TickFresh, TickEnds, Judging
  <2>2. state'.visits = {} /\ state' # NoState
    <3>1. Candidate(p, FloorContext.floor.route, NoIndex) \in Nat
      BY <1>5, TickRouteType, CandidateType DEF TickFresh, NoIndex, TypeInv
    <3>. QED  BY <2>1, <3>1, OpenedType, NoStateAssumption DEF Opened
  <2>3. ReportedAPs' = {}  BY <2>1 DEF ReportedAPs, NoAlerts
  <2>4. Cleared' = {} /\ JudgedAPs' = {}  BY <2>1, <2>2 DEF Cleared, JudgedAPs, Visits
  <2>. QED  BY <2>1, <2>2, <2>3, <2>4, WindowSteps
<1>6. ASSUME NEW p \in Positions, TickCloses(p) \/ TickMoves(p) PROVE UNCHANGED Abstract!vars
  <2>1. k = 0 /\ k' = 0 /\ alerts' = alerts /\ state # NoState /\ state \in GuardState
    BY <1>0, <1>6 DEF TickCloses, TickMoves, TickEnds, Judging, TypeInv, TypeOK
  <2>2. state' # NoState /\ state'.visits = state.visits
    BY <1>6, <2>1, NoStateAssumption DEF TickCloses, TickMoves, GuardState
  <2>. QED  BY <2>1, <2>2, Stutters DEF Cleared, Visits
<1>7. CASE CloseCurrent \/ Leave
  <2>1. /\ state # NoState /\ ctx # NoCtx /\ state.cur \in Indices
        /\ k = 0 /\ k' = 0 /\ alerts' = alerts
    BY <1>0, <1>7 DEF CloseCurrent, Leave, TickEnds, Judging, TypeInv, TypeOK
  <2>2. state' # NoState /\ state'.visits = state.visits \cup {RealVisit}
    BY <1>7, ClosedVisit
  <2>3. RealVisit.ap \in Checkpoints
    BY <2>1, CheckpointsAreRoute DEF RealVisit, TypeInv
  <2>. QED  BY <2>1, <2>2, <2>3, Files DEF Abstract!Next
<1>8. ASSUME NEW i \in Indices, Backfill(i) \/ Skip(i)
      PROVE  (\E c \in Checkpoints : Abstract!Clear(c)) \/ UNCHANGED Abstract!vars
  <2>1. /\ state # NoState /\ state \in GuardState /\ ctx # NoCtx
        /\ k = 0 /\ k' = 0 /\ alerts' = alerts
    BY <1>0, <1>8 DEF Backfill, Skip, Judging, TypeInv, TypeOK
  <2>2. PICK v \in Visit : state' = Filed(v) /\ v.ap = Route[i]
    BY <1>8, UnreachedVisitType DEF Backfill, Skip, TypeInv, UnreachedVisit
  <2>3. state' # NoState /\ state'.visits = state.visits \cup {v}
    BY <2>1, <2>2, FiledType, FiledVisits, NoStateAssumption
  <2>4. v.ap \in Checkpoints  BY <2>1, <2>2, CheckpointsAreRoute DEF TypeInv
  <2>. QED  BY <2>1, <2>3, <2>4, Files
<1>9. CASE BackfillDone \/ Enter
  <2>1. k = 0 /\ k' = 0 /\ alerts' = alerts /\ state # NoState /\ state \in GuardState
    BY <1>0, <1>9 DEF BackfillDone, Enter, TickEnds, Judging, TypeInv, TypeOK
  <2>2. state' # NoState /\ state'.visits = state.visits
    <3>1. CASE BackfillDone  BY <2>1, <3>1 DEF BackfillDone
    <3>2. CASE Enter
      <4>1. state.elapsed \in 0..state.elapsed /\ cand \in Nat
        BY <2>1, BoundsAreNaturals DEF GuardState, TypeInv, TypeOK
      <4>2. state' \in GuardState  BY <2>1, <3>2, <4>1, MovedType DEF Enter
      <4>. QED  BY <2>1, <3>2, <4>2, NoStateAssumption DEF Enter, GuardState
    <3>. QED  BY <1>9, <3>1, <3>2
  <2>. QED  BY <2>1, <2>2, Stutters DEF Cleared, Visits
<1>10. CASE CheckNoPatrol
  <2>1. UNCHANGED <<state, ctx, k>>  BY <1>10 DEF CheckNoPatrol
  <2>2. \A a \in Alert : a.ap \in APs => alerts'[a] = alerts[a]
    <3>1. \A a \in Alert : a.ap \in APs => a # NoPatrolAlert
      BY NoAPAssumption DEF NoPatrolAlert
    <3>. QED  BY <1>10, <3>1 DEF CheckNoPatrol, Save, TypeInv, TypeOK
  <2>3. UNCHANGED <<state # NoState, Cleared, JudgedAPs, ReportedAPs>>
    BY <2>1, <2>2 DEF Cleared, JudgedAPs, ReportedAPs, Visits, Route
  <2>. QED  BY <2>3, WindowSteps
<1>. QED
  BY <1>1, <1>2, <1>3, <1>4, <1>5, <1>6, <1>7, <1>8, <1>9, <1>10, JudgeMaps, ReplaceMaps,
     NeverOffRoute
  DEF Next, TickBegins, TickStep, SaveRaises, Abstract!Next

\* patrol_tracker_service.py, safety_service.py: on a route of any length and through any
\* walk of the guard the tracker implements PatrolWindow: each window of a guard ends with
\* exactly one verdict on every checkpoint, from what was filed in it.
THEOREM ImplementsWindow ==
    ASSUME StableRoute, ~SavesMayFail
    PROVE  Spec => ImplementsPatrolWindow
<1>1. Init => Abstract!Init
  <2>. SUFFICES ASSUME Init PROVE Abstract!Init  OBVIOUS
  <2>1. Cleared = {} /\ JudgedAPs = {} /\ ReportedAPs = {} /\ state = NoState
    BY DEF Init, NoAlerts, Cleared, JudgedAPs, ReportedAPs, Visits
  <2>. QED  BY <2>1 DEF Abstract!Init, Cleared, JudgedAPs, ReportedAPs
<1>2. TypeInv /\ AlertInv /\ RecordInv /\ LoopInv /\ [Next]_vars
        => [Abstract!Next]_(Abstract!vars)
  BY StepMaps
<1>3. DistinctRoute  BY DEF StableRoute
<1>. QED
  BY <1>1, <1>2, <1>3, TypeInvariance, LoopInvariance, AlertInvariance, RecordInvariance,
     NeverSpoilt, PTL
  DEF Spec, ImplementsPatrolWindow, Abstract!Spec
=============================================================================
