---------------------------- MODULE PatrolTracker ----------------------------
(***************************************************************************)
(* The real-time patrol tracker (services/patrol_tracker_service.py) and   *)
(* the window-scope alerting it calls (safety_service.py), for one guard   *)
(* on one floor: _states is keyed by (person, floor) and two keys share    *)
(* nothing but the floor's cached patrol context, which any guard's tick   *)
(* may load.                                                               *)
(*                                                                         *)
(* A tick (check_patrol_progress) runs to completion under pipeline_lock,  *)
(* but each log or alert it saves is a remote write that may raise;        *)
(* run_all_checks swallows the exception, so a tick may stop after any     *)
(* prefix of its effects.  The tick is therefore a sequence of steps, one  *)
(* per save, driven by pc; no time passes and no other tick runs before pc *)
(* is "idle" again.  Route indices start at 1 here, at 0 in the code.      *)
(*                                                                         *)
(* Time is counted in units of at least one second, and a guard ticks at   *)
(* most once per unit (EMIT_MIN_INTERVAL_S is 1.8), so every real visit    *)
(* has a dwell of at least one.                                            *)
(***************************************************************************)
EXTENDS Integers, Sequences, FiniteSets

CONSTANTS
    APs,            \* access points that can be checkpoints
    Configs,        \* the patrol configurations an admin may save, and NoFloor
                    \* if the floor may be deleted
    Positions,      \* a guard's position, as its distance to every AP
    Radius,         \* PATROL_PROXIMITY_RADIUS_M
    ExitMargin,     \* PATROL_PROXIMITY_EXIT_MARGIN_M
    Window,         \* patrol_interval_minutes, in time units
    SoftCloseCap,   \* _SOFT_CLOSE_CAP_S
    MinDwell,       \* MIN_DWELL_SECONDS
    ParkedDwell,    \* PATROL_NO_PATROL_DWELL_RATIO * window, rounded up
    CacheTTL,       \* _FLOOR_CACHE_TTL_S
    SavesMayFail,   \* whether a save may raise
    NoFloor, NoCtx, NoState     \* "None" for a floor, a context and a state

\* A patrol configuration, its route resolved to APs that exist.
Config == [enabled : BOOLEAN, route : Seq(APs)]

ASSUME ConfigsAssumption ==
    /\ Configs \subseteq Config \cup {NoFloor}
    /\ NoFloor \notin Config /\ NoCtx \notin [floor : Config, age : Nat]

ASSUME PositionsAssumption == Positions \subseteq [APs -> Nat]

ASSUME NumbersAssumption ==
    /\ Radius \in Nat /\ ExitMargin \in Nat
    /\ Window \in Nat \ {0} /\ SoftCloseCap \in Nat
    /\ MinDwell \in Nat /\ ParkedDwell \in Nat /\ CacheTTL \in Nat

ASSUME FailAssumption == SavesMayFail \in BOOLEAN

Max2(m, n) == IF m >= n THEN m ELSE n

\* A longer dwell is never told apart from this one, nor a longer window from
\* MaxElapsed: an entry always happens before Window + SoftCloseCap.
MaxDwell == Max2(MinDwell, ParkedDwell)
MaxElapsed == Window + SoftCloseCap + MaxDwell
Saturate(n, cap) == IF n > cap THEN cap ELSE n

NoIndex == 0
NoAP == "no AP"
NotSeen == -1

\* A closed visit: PatrolLogRecord.  arrived is actual_arrival # None; dwell is
\* dwell_time_seconds; ap is checkpoint_id.
Visit == [index : Nat \ {0}, ap : APs, arrived : BOOLEAN,
          dwell : 0..MaxDwell, notInWindow : BOOLEAN]

\* is_patrol_violation(): not_in_window records are never violations.
Compliant(v) == v.notInWindow \/ (v.arrived /\ v.dwell >= MinDwell)

\* _GuardCycleState.  elapsed is the age of cycle_started_at, entered and seen
\* the values of elapsed at current_entered_at and last_seen_at; keys is the
\* insertion order of the visits dict, whose key set is also logged_indices.
GuardState == [elapsed : 0..MaxElapsed, cur : Nat, entered : 0..MaxElapsed,
               seen : 0..MaxElapsed \cup {NotSeen},
               keys : Seq(Nat \ {0}), visits : SUBSET Visit]

ASSUME NoStateAssumption == NoState \notin GuardState

\* A patrol_violation alert: zone is the checkpoint's name, or NoAP for the
\* no_patrol alert, whose zone is the guard's.
Alert == [cause : {"missed_checkpoint", "short_dwell"}, ap : APs]
           \cup {[cause |-> "no_patrol", ap |-> NoAP]}
ASSUME NoAPAssumption == NoAP \notin APs
NoPatrolAlert == [cause |-> "no_patrol", ap |-> NoAP]

VARIABLES
    floor,      \* the floor's patrol configuration in Firestore
    ctx,        \* _floor_cache: the cached configuration and its age
    state,      \* _states[(person, floor)]
    alerts,     \* how often each alert was saved for the window in progress
    pc,         \* where the tick under way is, "idle" between ticks
    cand,       \* the tick's candidate index
    k,          \* how many keys of visits the alerting loop has passed
    ticked,     \* the guard has ticked in this time unit
    spoilt      \* history: the cached route changed under the window in progress, or
                \* a save raised after part of a walk or of a verdict was filed

vars == <<floor, ctx, state, alerts, pc, cand, k, ticked, spoilt>>

Route == IF ctx = NoCtx THEN << >> ELSE ctx.floor.route
Indices == 1..Len(Route)
Logged == {state.keys[j] : j \in 1..Len(state.keys)}
Unlogged == Indices \ Logged

\* A new cycle state, seen by the tick that opens it and inside zone i at once
\* if i is not NoIndex.
Opened(i) == [elapsed |-> 0, cur |-> i, entered |-> 0, seen |-> 0,
              keys |-> << >>, visits |-> {}]

NoAlerts == [a \in Alert |-> 0]

TypeOK ==
    /\ floor \in Configs
    /\ ctx \in [floor : Configs \ {NoFloor}, age : 0..CacheTTL] \cup {NoCtx}
    /\ state \in GuardState \cup {NoState}
    /\ alerts \in [Alert -> 0..2]
    /\ pc \in {"idle", "closeCurrent", "backfill", "judge", "noPatrol",
               "replace", "leave", "skip"}
    /\ cand \in Nat
    /\ k \in Nat
    /\ ticked \in BOOLEAN /\ spoilt \in BOOLEAN
    /\ pc # "idle" => ctx # NoCtx /\ state # NoState

Init ==
    /\ floor \in Configs
    /\ ctx = NoCtx
    /\ state = NoState
    /\ alerts = NoAlerts
    /\ pc = "idle" /\ cand = NoIndex /\ k = 0
    /\ ticked = FALSE /\ spoilt = FALSE
-----------------------------------------------------------------------------
(* The environment: admins, other guards, the clock, the process.          *)

\* An admin saves the patrol configuration or deletes a checkpoint's AP or the
\* floor.  The tracker is not told.
EditFloor ==
    /\ floor' \in Configs
    /\ UNCHANGED <<ctx, state, alerts, pc, cand, k, ticked, spoilt>>

\* One unit of time passes between ticks.
Elapse ==
    /\ pc = "idle"
    /\ ctx' = IF ctx = NoCtx THEN NoCtx
              ELSE [ctx EXCEPT !.age = Saturate(@ + 1, CacheTTL)]
    /\ state' = IF state = NoState THEN NoState
                ELSE [state EXCEPT !.elapsed = Saturate(@ + 1, MaxElapsed)]
    /\ ticked' = FALSE
    /\ UNCHANGED <<floor, alerts, pc, cand, k, spoilt>>

\* The process dies, at any point of a tick, and starts again: everything the
\* tracker knows is in memory.
Restart ==
    /\ ctx' = NoCtx /\ state' = NoState /\ alerts' = NoAlerts
    /\ pc' = "idle" /\ cand' = NoIndex /\ k' = 0
    /\ spoilt' = FALSE
    /\ UNCHANGED <<floor, ticked>>
-----------------------------------------------------------------------------
(* The tick.                                                                *)

\* _get_floor_context(): the cached context while it is young enough, else a
\* new one; a deleted floor yields none and leaves the cache alone.
CacheIsLive == ctx # NoCtx /\ ctx.age < CacheTTL
FloorContext ==
    IF CacheIsLive THEN ctx
    ELSE IF floor = NoFloor THEN NoCtx ELSE [floor |-> floor, age |-> 0]
FloorCacheAfter == IF FloorContext = NoCtx THEN ctx ELSE FloorContext

\* _nearest_checkpoint_index(): stay in the current checkpoint's zone up to the
\* exit margin, else the nearest checkpoint (the first of equals) if the guard
\* is within its radius.
Nearest(p, route, i) ==
    \A j \in DOMAIN route : p[route[i]] < p[route[j]]
                            \/ (p[route[i]] = p[route[j]] /\ i <= j)
Candidate(p, route, cur) ==
    LET entering == {i \in DOMAIN route :
                        Nearest(p, route, i) /\ p[route[i]] <= Radius}
    IN IF cur \in DOMAIN route /\ p[route[cur]] <= Radius + ExitMargin
       THEN cur
       ELSE IF entering # {} THEN CHOOSE i \in entering : TRUE ELSE NoIndex

TickMatters ==
    /\ FloorContext # NoCtx
    /\ FloorContext.floor.enabled
    /\ FloorContext.floor.route # << >>

WindowExpired == state.elapsed >= Window
\* Mutant: the soft close has no cap.
NoHardCap == FALSE
HardCapped == state.elapsed >= Window + SoftCloseCap

\* A new context may bring a new route to a window in progress.
RouteMayChange == spoilt' = (spoilt \/ (state # NoState /\ Route' # Route))

TickEnds == pc' = "idle" /\ cand' = NoIndex /\ k' = 0

\* A tick that reads the context and returns: patrol disabled, no route, no
\* floor.  Another guard's tick does the same to this guard's variables.
TickContextOnly ==
    /\ pc = "idle"
    /\ ctx' = FloorCacheAfter
    /\ RouteMayChange
    /\ UNCHANGED <<floor, state, alerts, pc, cand, k, ticked>>

\* The first exact position of this guard: a fresh state, entered at once if
\* the guard is inside a zone, with no skips fabricated.
TickFresh(p) ==
    /\ pc = "idle" /\ ~ticked /\ TickMatters
    /\ state = NoState
    /\ ctx' = FloorCacheAfter
    /\ state' = Opened(Candidate(p, FloorContext.floor.route, NoIndex))
    /\ ticked' = TRUE
    /\ TickEnds
    /\ spoilt' = FALSE
    /\ UNCHANGED <<floor, alerts>>

\* The window has run out and the guard is between zones, or the cap has run
\* out too: start closing the window.
TickCloses(p) ==
    /\ pc = "idle" /\ ~ticked /\ TickMatters
    /\ state # NoState
    /\ ctx' = FloorCacheAfter
    /\ LET c == Candidate(p, FloorContext.floor.route, state.cur) IN
        /\ WindowExpired /\ (c = NoIndex \/ HardCapped)
        /\ cand' = c
    /\ pc' = IF state.cur # NoIndex THEN "closeCurrent" ELSE "backfill"
    /\ ticked' = TRUE
    /\ RouteMayChange
    /\ UNCHANGED <<floor, state, alerts, k>>

\* Any other tick: stamp last_seen_at, then stay, leave or arrive.
TickMoves(p) ==
    /\ pc = "idle" /\ ~ticked /\ TickMatters
    /\ state # NoState
    /\ ctx' = FloorCacheAfter
    /\ LET c == Candidate(p, FloorContext.floor.route, state.cur) IN
        /\ ~(WindowExpired /\ (c = NoIndex \/ HardCapped))
        /\ \/ c = state.cur /\ TickEnds
           \/ /\ c # state.cur
              /\ pc' = IF state.cur # NoIndex THEN "leave" ELSE "skip"
              /\ cand' = c
              /\ UNCHANGED k
    /\ state' = [state EXCEPT !.seen = state.elapsed]
    /\ ticked' = TRUE
    /\ RouteMayChange
    /\ UNCHANGED <<floor, alerts>>

\* Mutant: a visit is a key of its own, so every visit is judged.
FiledPerVisit(v) ==
    [state EXCEPT !.visits = @ \cup {v}, !.keys = Append(@, v.index)]

\* What one _close_visit() leaves in the state.
Filed(v) ==
    [state EXCEPT
        !.visits = @ \cup {v},
        !.keys = IF v.index \in Logged THEN @ ELSE Append(@, v.index)]

RealVisit ==
    [index |-> state.cur, ap |-> Route[state.cur], arrived |-> TRUE,
     dwell |-> Saturate(state.elapsed - state.entered, MaxDwell),
     notInWindow |-> FALSE]
UnreachedVisit(i, niw) ==
    [index |-> i, ap |-> Route[i], arrived |-> FALSE, dwell |-> 0,
     notInWindow |-> niw]

\* The window closes on a guard still inside a zone: that visit is logged, and
\* current_index is not cleared.
CloseCurrent ==
    /\ pc = "closeCurrent" /\ state.cur \in Indices
    /\ state' = Filed(RealVisit)
    /\ pc' = "backfill"
    /\ UNCHANGED <<floor, ctx, alerts, cand, k, ticked, spoilt>>

\* Checkpoints nobody reached are logged as not_in_window, in route order.
Backfill(i) ==
    /\ pc = "backfill" /\ i \in Unlogged
    /\ \A j \in Unlogged : i <= j
    /\ state' = Filed(UnreachedVisit(i, TRUE))
    /\ UNCHANGED <<floor, ctx, alerts, pc, cand, k, ticked, spoilt>>

\* Mutant: the last checkpoint of the route is not backfilled.
BackfillDoneEarly ==
    /\ pc = "backfill" /\ Unlogged \subseteq {Len(Route)}
    /\ pc' = IF state.keys = << >> THEN "noPatrol" ELSE "judge"
    /\ UNCHANGED <<floor, ctx, state, alerts, cand, k, ticked, spoilt>>

BackfillDone ==
    /\ pc = "backfill" /\ Unlogged = {}
    /\ pc' = IF state.keys = << >> THEN "noPatrol" ELSE "judge"
    /\ UNCHANGED <<floor, ctx, state, alerts, cand, k, ticked, spoilt>>

\* check_patrol_window_compliance(): the best of a checkpoint's visits, a
\* compliant one before others, then the longest dwell.
VisitsOf(i) == {v \in state.visits : v.index = i}
Beats(v, w) ==
    \/ Compliant(v) /\ ~Compliant(w)
    \/ (Compliant(v) <=> Compliant(w)) /\ v.dwell >= w.dwell
\* Mutant: the worst visit is picked instead of the best.
WorstOf(i) == {v \in VisitsOf(i) : \A w \in VisitsOf(i) : Beats(w, v)}
BestOf(i) == {v \in VisitsOf(i) : \A w \in VisitsOf(i) : Beats(v, w)}
CauseOf(v) == IF v.arrived THEN "short_dwell" ELSE "missed_checkpoint"
Save(a) == alerts' = [alerts EXCEPT ![a] = Saturate(@ + 1, 2)]

\* Mutant: the loop stops at the first violation it finds.
JudgeFirstOnly ==
    /\ pc = "judge"
    /\ state.keys[k + 1] \in Indices
    /\ \E best \in BestOf(state.keys[k + 1]) :
          /\ IF Compliant(best) THEN UNCHANGED alerts
             ELSE Save([cause |-> CauseOf(best), ap |-> Route[state.keys[k + 1]]])
          /\ pc' = IF k + 1 = Len(state.keys) \/ ~Compliant(best)
                   THEN "noPatrol" ELSE "judge"
    /\ k' = k + 1
    /\ UNCHANGED <<floor, ctx, state, cand, ticked, spoilt>>

\* One round of the alerting loop over visits.items(); the alert names the AP
\* that the route holds at this index now.
Judge ==
    /\ pc = "judge"
    /\ state.keys[k + 1] \in Indices
    /\ \E best \in BestOf(state.keys[k + 1]) :
          IF Compliant(best) THEN UNCHANGED alerts
          ELSE Save([cause |-> CauseOf(best), ap |-> Route[state.keys[k + 1]]])
    /\ k' = k + 1
    /\ pc' = IF k + 1 = Len(state.keys) THEN "noPatrol" ELSE "judge"
    /\ UNCHANGED <<floor, ctx, state, cand, ticked, spoilt>>

\* check_patrol_window_no_patrol(): seen during the window, and either nothing
\* was reached or the only checkpoint reached held the guard for long.
Reached == {v.index : v \in {w \in state.visits : ~w.notInWindow}}
NeverPatrolled ==
    /\ state.seen # NotSeen
    /\ \/ Reached = {}
       \/ /\ Len(Route) >= 2
          /\ \E i \in Reached :
                /\ Reached = {i}
                /\ \E v \in VisitsOf(i) :
                        ~v.notInWindow /\ v.dwell >= ParkedDwell

CheckNoPatrol ==
    /\ pc = "noPatrol"
    /\ IF NeverPatrolled THEN Save(NoPatrolAlert) ELSE UNCHANGED alerts
    /\ pc' = "replace"
    /\ UNCHANGED <<floor, ctx, state, cand, k, ticked, spoilt>>

\* The next window: a fresh state, seen by this very tick and entered at once
\* if the guard is inside a zone.
ReplaceWindow ==
    /\ pc = "replace"
    /\ alerts' = NoAlerts
    /\ state' = Opened(cand)
    /\ TickEnds
    /\ spoilt' = FALSE
    /\ UNCHANGED <<floor, ctx, ticked>>

\* The guard left a zone: that visit is logged and the tracker is between
\* checkpoints, or on its way into the next one.
Leave ==
    /\ pc = "leave" /\ state.cur \in Indices
    /\ state' = [Filed(RealVisit) EXCEPT !.cur = NoIndex, !.entered = 0]
    /\ IF cand = NoIndex THEN TickEnds ELSE pc' = "skip" /\ UNCHANGED <<cand, k>>
    /\ UNCHANGED <<floor, ctx, alerts, ticked, spoilt>>

\* Mutant: the checkpoint just reached is taken for skipped as well.
SkipThrough(i) ==
    /\ pc = "skip" /\ i \in Unlogged /\ i <= cand
    /\ \A j \in Unlogged : i <= j
    /\ state' = Filed(UnreachedVisit(i, FALSE))
    /\ UNCHANGED <<floor, ctx, alerts, pc, cand, k, ticked, spoilt>>

\* Arriving at cand, every earlier checkpoint without a record was skipped.
Skip(i) ==
    /\ pc = "skip" /\ i \in Unlogged /\ i < cand
    /\ \A j \in Unlogged : i <= j
    /\ state' = Filed(UnreachedVisit(i, FALSE))
    /\ UNCHANGED <<floor, ctx, alerts, pc, cand, k, ticked, spoilt>>

Enter ==
    /\ pc = "skip" /\ \A i \in Unlogged : i >= cand
    /\ state' = [state EXCEPT !.cur = cand, !.entered = state.elapsed]
    /\ TickEnds
    /\ UNCHANGED <<floor, ctx, alerts, ticked, spoilt>>

\* A save raises: run_all_checks logs it and the rest of the tick is lost.
AboutToSave ==
    \/ pc \in {"closeCurrent", "leave"} /\ state.cur \in Indices
    \/ pc = "backfill" /\ Unlogged # {}
    \/ pc = "skip" /\ \E i \in Unlogged : i < cand
    \/ pc = "judge" /\ state.keys[k + 1] \in Indices
                    /\ \A v \in VisitsOf(state.keys[k + 1]) : ~Compliant(v)
    \/ pc = "noPatrol" /\ NeverPatrolled
\* Mutant: each alert's exception is swallowed by itself and the loop goes on.
SaveIsSwallowed ==
    /\ SavesMayFail /\ AboutToSave
    /\ IF pc = "judge" /\ k + 1 < Len(state.keys)
       THEN k' = k + 1 /\ UNCHANGED <<pc, cand>>
       ELSE TickEnds
    /\ spoilt' = (spoilt \/ pc \notin {"closeCurrent", "leave"})
    /\ UNCHANGED <<floor, ctx, state, alerts, ticked>>

SaveRaises ==
    /\ SavesMayFail /\ AboutToSave
    /\ TickEnds
    /\ spoilt' = (spoilt \/ pc \notin {"closeCurrent", "leave"})
    /\ UNCHANGED <<floor, ctx, state, alerts, ticked>>

\* The state holds an index the cached route no longer has: IndexError.
IndexRaises ==
    /\ \/ pc \in {"closeCurrent", "leave"} /\ state.cur \notin Indices
       \/ pc = "judge" /\ state.keys[k + 1] \notin Indices
    /\ TickEnds
    /\ UNCHANGED <<floor, ctx, state, alerts, ticked, spoilt>>
-----------------------------------------------------------------------------
TickBegins == \E p \in Positions : TickFresh(p) \/ TickCloses(p) \/ TickMoves(p)

TickStep ==
    \/ CloseCurrent \/ BackfillDone \/ Judge \/ CheckNoPatrol \/ ReplaceWindow
    \/ Leave \/ Enter \/ IndexRaises
    \/ \E i \in Indices : Backfill(i) \/ Skip(i)

Next ==
    \/ EditFloor \/ Elapse \/ Restart \/ TickContextOnly
    \/ TickBegins \/ TickStep \/ SaveRaises

Spec == Init /\ [][Next]_vars

\* The guard's beacon keeps transmitting while the clock runs, and a tick once
\* begun runs on: nothing in the process can hold it up for ever.
FairSpec ==
    Spec /\ WF_vars(Elapse) /\ WF_vars(TickBegins)
         /\ WF_vars(TickStep)
-----------------------------------------------------------------------------
(* Properties.                                                              *)

Visits == IF state = NoState THEN {} ELSE state.visits

\* The replacement invariant of check_patrol_window_compliance(): at most one
\* patrol_violation per checkpoint per window, and at most one no_patrol.
OncePerCheckpoint ==
    /\ \A ap \in APs : alerts[[cause |-> "missed_checkpoint", ap |-> ap]]
                       + alerts[[cause |-> "short_dwell", ap |-> ap]] <= 1
    /\ alerts[NoPatrolAlert] <= 1

\* The best visit decides: a checkpoint with one compliant record in the window
\* is never reported, however many short or skipped visits it has besides.
ClearedNeverReported ==
    \A v \in Visits :
        Compliant(v) => \A a \in Alert : a.ap = v.ap => alerts[a] = 0

\* A window reported as never patrolled is reported for nothing else: the guard
\* either reached nothing or was parked at one checkpoint, and a skip needs a
\* second one.
NoPatrolStandsAlone ==
    alerts[NoPatrolAlert] > 0 =>
        \A a \in Alert \ {NoPatrolAlert} : alerts[a] = 0

\* not_in_window is the only record of its checkpoint: a checkpoint visited or
\* skipped in the window is never also logged as not reached in it.
UnreachedIsOnlyRecord ==
    \A v, w \in Visits : v.notInWindow /\ v.index = w.index => v = w

\* Missed checkpoints are detected by order: a skip is only ever logged for a
\* checkpoint the guard passed on the way to a later one of the same window.
SkippedMeansPassed ==
    \A v \in Visits : ~v.arrived /\ ~v.notInWindow =>
        \/ state.cur > v.index
        \/ pc = "skip" /\ cand > v.index
        \/ \E w \in Visits : w.arrived /\ w.index > v.index

\* What the records of one window say of the guard's walk agrees with itself and
\* with what is reported of it, in whatever order he walked, skipped and returned.
RecordsAreHonest ==
    NoPatrolStandsAlone /\ UnreachedIsOnlyRecord /\ SkippedMeansPassed

\* The verdict on index i is out: a compliant record clears it, or the AP that the route
\* holds at i has its alert.
VerdictIsOut(i) ==
    \/ \E v \in VisitsOf(i) : Compliant(v)
    \/ \E a \in Alert : a.ap = Route[i] /\ alerts[a] > 0

\* check_patrol_window_compliance() under edits and failing saves: no window is replaced
\* before the verdict on every checkpoint of the route is out, however often its loop
\* was cut off; and what a route edited in mid-window or a save cut off may repeat or
\* muddle stays in that window: the next one is exact again.
VerdictsSurviveFaults ==
    /\ pc = "replace" => \A i \in Indices : VerdictIsOut(i)
    /\ ~spoilt => OncePerCheckpoint /\ ClearedNeverReported /\ RecordsAreHonest

\* The tracker implements PatrolWindow: every checkpoint judged exactly once per
\* window, from what was filed in it, before the next window opens.
Checkpoints ==
    UNION {{c.route[i] : i \in DOMAIN c.route} : c \in Configs \ {NoFloor}}
Abstract == INSTANCE PatrolWindow WITH
    open <- state # NoState,
    cleared <- {v.ap : v \in {w \in Visits : Compliant(w)}},
    judged <- {Route[state.keys[j]] : j \in 1..k},
    reported <- {ap \in APs : \E a \in Alert : a.ap = ap /\ alerts[a] > 0}
ImplementsPatrolWindow == Abstract!Spec

\* A window does not stay open for ever ("a stationary guard must not hold a
\* window open forever", patrol_tracker_service.py:246): once admins leave the
\* floor alone it is judged and replaced, or lost to a restart.
WindowCloses ==
    <>[][~EditFloor]_vars =>
        ((state # NoState) ~> (pc = "replace" \/ state = NoState))
=============================================================================
