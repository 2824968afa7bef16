------------------------------- MODULE SimWalk -------------------------------
(***************************************************************************)
(* What a simulation does while it runs: the walk of the simulated guards  *)
(* from access point to access point (services/simulation_patrol.py), the  *)
(* change of shift (simulation_shift.py) and the scripted safety events    *)
(* (simulation_events.py).  SimControl shows when one runs; the three keep *)
(* their globals apart, so a behaviour is about one of them, chosen in     *)
(* Init, started and stopped any number of times.                          *)
(*                                                                         *)
(* The simulator runs on the event loop; remove_ap() runs on the thread of *)
(* the request that deletes an access point, and changes the same lists    *)
(* under the simulator's feet.  Where a guard is between two access points *)
(* is left out: a moving guard arrives or does not.  Indices start at 1    *)
(* here, at 0 in the code.                                                 *)
(***************************************************************************)
EXTENDS Integers, Sequences, FiniteSets

CONSTANTS
    APs,            \* access points of the floor
    Placements,     \* those that are placed at first
    ByCoordinates,  \* them all, in the order of (x_m, y_m)
    Configs,        \* the floor's patrol configurations, their routes without repetition
                    \* (which the code does not check; see GuardsCanWalk)
    Outgoing,       \* the beacons that walk from the start, in loop order
    Incoming,       \* those that wait for the change of shift
    Segments,       \* SEGMENTS
    Deletable,      \* the APs that may be deleted
    None

Alpha == Outgoing[1]
Range(s) == {s[i] : i \in DOMAIN s}
Guards == Range(Outgoing) \cup Range(Incoming)
Alerts == {"seed", "ghost", "missed"}

VARIABLES
    mode,       \* which of the three simulators
    run,        \* whether it is "stopped", in its setup ("reading") or "running"
    aps,        \* the access points in Firestore
    read,       \* the list its setup has made and not stored yet
    floor,      \* _floor_aps
    guard,      \* its beacons
    turn,       \* the guard the tick under way is at, 0 between two ticks
    adv,        \* what that guard's advance has computed and not stored yet
    complete,   \* _shift_complete
    triggered,  \* _shift_triggered
    removing,   \* the remove_ap() under way: its index and the guards to come
    seg, tick,  \* _segment_idx, _segment_tick
    fired,      \* _event_fired, _mandown_seeded
    raised,     \* how often each scripted event was raised in this segment
    seen,       \* per guard, where it arrived since its loop began
    lastLoop,   \* per guard that has just completed a loop, what it had seen
    torn,       \* guards that an AP was taken from while they wandered at one
    raced,      \* guards that an AP was taken from in the middle of an advance,
                \* or whose setup came in the middle of a removal
    unheard     \* APs removed while a setup had read them and not stored them

walkVars == <<guard, turn, adv, complete, triggered, seen, lastLoop>>
scriptVars == <<seg, tick, fired, raised>>
apVars == <<aps, removing, torn, raced, unheard>>
vars == <<mode, run, read, floor, walkVars, scriptVars, apVars>>

\* A beacon: order is ap_order, cur current_ap_idx, start start_ap_idx, count
\* checkpoints_this_loop.
Beacon == [order : Seq(Nat \ {0}), cur : Nat \ {0}, start : Nat \ {0},
           state : {"moving", "wandering"}, count : Nat, frozen : BOOLEAN]

\* The guards that walk in this mode.
Walkers == Range(Outgoing) \cup IF mode = "shift" THEN Range(Incoming) ELSE {}
Turns == Outgoing \o IF mode = "shift" THEN Incoming ELSE << >>

TypeOK ==
    /\ mode \in {"patrol", "shift", "events"}
    /\ run \in {"stopped", "reading", "running"}
    /\ aps \subseteq APs /\ floor \in Seq(APs)
    /\ read \in Seq(APs) \cup {None}
    /\ guard \in [Guards -> Beacon]
    /\ turn \in 0..(Len(Turns) + 1)
    /\ adv \in [next : Nat \ {0}, whole : BOOLEAN] \cup {None}
    /\ complete \subseteq Range(Outgoing) /\ triggered \in BOOLEAN
    /\ removing \in [ap : APs, at : Nat, left : SUBSET Guards] \cup {None}
    /\ seg \in 1..Len(Segments) /\ tick \in Nat
    /\ fired \subseteq {"event", "seeded"} /\ raised \in [Alerts -> 0..2]
    /\ seen \in [Guards -> SUBSET APs]
    /\ lastLoop \in [Guards -> (SUBSET APs) \cup {None}]
    /\ torn \subseteq Guards /\ raced \subseteq Guards /\ unheard \subseteq APs

\* (i + 1) % n and i % n of the code, for indices that start at 1.
Succ(i, n) == (i % n) + 1
Wrap(i, n) == IF n = 0 THEN 1 ELSE ((i - 1) % n) + 1

\* What is in S of a list, in its order: [x for x in s if x in S].
Nth(places, n) == CHOOSE i \in places : Cardinality({j \in places : j <= i}) = n
Only(s, S) ==
    LET places == {i \in DOMAIN s : s[i] \in S}
    IN  [n \in 1 .. Cardinality(places) |-> s[Nth(places, n)]]

\* The list a simulator walks: the configured route without the APs that are
\* gone if three are left, else every AP by its coordinates.
OrderedRoute(cfg) == Only(cfg.route, aps)
SortedAPs == Only(ByCoordinates, aps)
FloorList(cfg) ==
    IF cfg.enabled /\ cfg.route # << >> /\ Len(OrderedRoute(cfg)) >= 3
    THEN OrderedRoute(cfg) ELSE SortedAPs

\* The first guard of a pair starts at the first AP, the other one mid-route.
FirstInPair(g) == g = Outgoing[1] \/ (Incoming # << >> /\ g = Incoming[1])
Start(g, n) == IF FirstInPair(g) THEN 1 ELSE (n \div 2) + 1

Init ==
    /\ mode \in {"patrol", "shift", "events"}
    /\ run = "stopped" /\ read = None
    /\ aps \in Placements
    /\ floor = << >>
    /\ guard = [g \in Guards |-> [order |-> << >>, cur |-> 1, start |-> 1,
                                  state |-> "moving", count |-> 0, frozen |-> FALSE]]
    /\ turn = 0 /\ adv = None /\ complete = {} /\ triggered = FALSE
    /\ removing = None
    /\ seg = 1 /\ tick = 0 /\ fired = {} /\ raised = [a \in Alerts |-> 0]
    /\ seen = [g \in Guards |-> {}] /\ lastLoop = [g \in Guards |-> None]
    /\ torn = {} /\ raced = {} /\ unheard = {}

--------------------------------------------------------------------------------
(* Setup, up to the first await.                                           *)

\* Fewer than three APs: it returns.
SetupReturns == run = "stopped" /\ Cardinality(aps) < 3 /\ UNCHANGED vars

SetupReads(cfg) ==
    /\ run = "stopped" /\ Cardinality(aps) >= 3
    /\ run' = "reading"
    /\ read' = FloorList(cfg)
    /\ unheard' = {}
    /\ UNCHANGED <<mode, floor, walkVars, scriptVars, aps, removing, torn, raced>>

\* A guard on the route of n APs.  The events simulator leaves state as the
\* last run left it.
Placed(g, n) ==
    [order |-> [i \in 1..n |-> i], cur |-> Start(g, n), start |-> Start(g, n),
     state |-> IF mode = "events" THEN guard[g].state ELSE "moving",
     count |-> 0, frozen |-> FALSE]

NewShift == complete' = {} /\ triggered' = FALSE
NewScript == seg' = 1 /\ tick' = 0 /\ fired' = {} /\ raised' = [a \in Alerts |-> 0]

SetupStores ==
    /\ run = "reading"
    /\ run' = "running" /\ floor' = read /\ read' = None
    /\ guard' = [g \in Guards |->
                   IF g \in Walkers THEN Placed(g, Len(read)) ELSE guard[g]]
    /\ NewShift /\ NewScript
    /\ turn' = 0 /\ adv' = None
    /\ seen' = [g \in Guards |-> {}] /\ lastLoop' = [g \in Guards |-> None]
    /\ torn' = {} /\ raced' = IF removing = None THEN {} ELSE removing.left
    /\ UNCHANGED <<mode, aps, removing, unheard>>

\* Cancelled at one of its awaits, all of which are between two ticks.
Stop ==
    /\ run = "running" /\ turn = 0
    /\ run' = "stopped"
    /\ UNCHANGED <<mode, read, floor, walkVars, scriptVars, apVars>>

\* An exception that no handler of the loop catches ends the simulation.
Dies ==
    /\ run' = "stopped" /\ turn' = 0
    /\ UNCHANGED <<mode, read, floor, guard, adv, complete, triggered, seen,
                   lastLoop, scriptVars, apVars>>

\* The heartbeats at the start of a tick, and the positions that are read before
\* each post at its end, are outside any try.
BreaksDown == run = "running" /\ turn > Len(Turns) /\ Dies

--------------------------------------------------------------------------------
(* The loop of run_simulation().                                           *)

Segment == Segments[seg]

Reset(g) == [guard[g] EXCEPT !.state = "moving", !.cur = Start(g, Len(floor))]

\* A tick begins; when a segment of the script is over the next one does, and
\* every actor is reset.
BeginTick ==
    /\ run = "running" /\ turn = 0
    /\ turn' = 1
    /\ IF mode = "events" /\ tick >= Segment.ticks
       THEN /\ seg' = Succ(seg, Len(Segments)) /\ tick' = 0
            /\ fired' = {} /\ raised' = [a \in Alerts |-> 0]
            /\ guard' = [g \in Guards |-> Reset(g)]
       ELSE UNCHANGED <<scriptVars, guard>>
    /\ UNCHANGED <<mode, run, read, floor, adv, complete, triggered, seen, lastLoop, apVars>>

\* Whether a post of the backdated payload is made: it takes three readings, one
\* per AP that is near enough.
SeedPosts == {FALSE} \cup {Len(floor) >= 3}

\* The end of a tick, with its posts: the backdated one too, at tick 5 of the
\* man_down segment.
EndTick ==
    /\ run = "running" /\ turn > Len(Turns)
    /\ turn' = 0
    /\ IF mode # "events" THEN UNCHANGED scriptVars ELSE
       /\ tick' = tick + 1
       /\ IF Segment.name = "man_down" /\ tick = 5 /\ "seeded" \notin fired
          THEN /\ fired' = fired \cup {"seeded"}
               /\ \E posted \in SeedPosts :
                     raised' = IF posted THEN [raised EXCEPT !["seed"] = @ + 1] ELSE raised
          ELSE UNCHANGED <<fired, raised>>
       /\ UNCHANGED seg
    /\ UNCHANGED <<mode, run, read, floor, guard, adv, complete, triggered, seen, lastLoop, apVars>>

\* It is g's turn in a tick of the given simulators.
Ticks(g, modes) ==
    /\ run = "running" /\ mode \in modes
    /\ turn \in 1..Len(Turns) /\ Turns[turn] = g

\* Frozen, not yet on shift, or without an AP to go to.
Rests(g) ==
    \/ guard[g].frozen
    \/ g \in Range(Incoming) /\ ~triggered
    \/ guard[g].order = << >>

\* _floor_aps[ap_order[i]] raises an IndexError unless both indices exist.
At(g) == IF mode = "events" THEN Wrap(guard[g].cur, Len(guard[g].order)) ELSE guard[g].cur
CanLook(g) ==
    /\ At(g) \in DOMAIN guard[g].order
    /\ guard[g].order[At(g)] \in DOMAIN floor
\* An AP is gone from _floor_aps and not yet from g's list.
Removing(g) == removing # None /\ g \in removing.left
Here(g) == floor[guard[g].order[At(g)]]

NextTurn ==
    /\ turn' = turn + 1
    /\ UNCHANGED <<mode, run, read, floor, apVars>>

Skips(g) ==
    /\ Ticks(g, {"patrol", "shift", "events"}) /\ adv = None /\ Rests(g)
    /\ NextTurn
    /\ UNCHANGED <<guard, adv, complete, triggered, seen, lastLoop, scriptVars>>

\* Caught in the loop of the patrol and the shift: the guard moves on.
Fails(g) ==
    /\ Ticks(g, {"patrol", "shift"}) /\ adv = None /\ ~Rests(g) /\ ~CanLook(g)
    /\ guard' = [guard EXCEPT ![g].state = "moving"]
    /\ NextTurn
    /\ UNCHANGED <<adv, complete, triggered, seen, lastLoop, scriptVars>>

\* _move_toward(): with one step, the longer the farther the APs lie apart, it is
\* there or still on its way.
MovesToward == {"arrives", "goes on"}

\* Moving: when it arrives its patrol log is saved, or fails to be.
Walks(g) ==
    /\ Ticks(g, {"patrol", "shift"}) /\ adv = None /\ ~Rests(g) /\ CanLook(g)
    /\ guard[g].state = "moving"
    /\ \E step \in MovesToward :
          IF step = "arrives"
          THEN /\ guard' = [guard EXCEPT ![g].state = "wandering"]
               /\ seen' = [seen EXCEPT ![g] = @ \cup {Here(g)}]
          ELSE UNCHANGED <<guard, seen>>
    /\ lastLoop' = [lastLoop EXCEPT ![g] = None]
    /\ NextTurn
    /\ UNCHANGED <<adv, complete, triggered, scriptVars>>

\* Wandering, for one tick: the next index and whether this was a whole loop
\* are computed from the lists as they are now ...
Advances(g) ==
    /\ Ticks(g, {"patrol", "shift"}) /\ adv = None /\ ~Rests(g) /\ CanLook(g)
    /\ guard[g].state = "wandering"
    /\ LET n == Len(guard[g].order)
           next == Succ(guard[g].cur, n)
       IN adv' = [next |-> next,
                  whole |-> guard[g].count + 1 >= n /\ next = guard[g].start]
    /\ guard' = [guard EXCEPT ![g].count = @ + 1]
    /\ UNCHANGED <<mode, run, read, floor, turn, complete, triggered, seen,
                   lastLoop, scriptVars, apVars>>

Freezes(g) == adv.whole /\ mode = "shift" /\ g \in Range(Outgoing)

\* ... and stored.  An outgoing guard of the shift freezes after one loop, and
\* when both have the incoming ones begin.
Advanced(g) ==
    /\ Ticks(g, {"patrol", "shift"}) /\ adv # None
    /\ guard' = [guard EXCEPT ![g].cur = adv.next, ![g].state = "moving",
                              ![g].count = IF adv.whole THEN 0 ELSE @,
                              ![g].frozen = Freezes(g)]
    /\ complete' = IF Freezes(g) THEN complete \cup {g} ELSE complete
    /\ triggered' = (triggered \/ (Freezes(g) /\ complete' = Range(Outgoing)))
    /\ seen' = IF adv.whole THEN [seen EXCEPT ![g] = {}] ELSE seen
    /\ lastLoop' = IF adv.whole /\ g \notin torn \cup raced /\ ~Removing(g)
                   THEN [lastLoop EXCEPT ![g] = seen[g]] ELSE lastLoop
    /\ adv' = None
    /\ torn' = IF adv.whole THEN torn \ {g} ELSE torn
    /\ turn' = turn + 1
    /\ UNCHANGED <<mode, run, read, floor, scriptVars, aps, removing, raced, unheard>>

--------------------------------------------------------------------------------
(* The script's tick handlers.                                             *)

\* The guard walks, without counting loops: _tick_patrol().
Strolls(g) ==
    /\ \/ UNCHANGED guard
       \/ /\ guard[g].state = "moving"
          /\ guard' = [guard EXCEPT ![g].state = "wandering"]
       \/ /\ guard[g].state = "wandering"
          /\ guard' = [guard EXCEPT ![g].state = "moving", ![g].cur = @ + 1]
    /\ UNCHANGED <<fired, raised>>

\* The one record of an event: in ghost_patrol the tag was at the AP, and in both
\* nobody was on camera.
Record(a) == [arrived |-> a = "ghost", ble |-> TRUE, vigi |-> FALSE]

\* check_patrol_compliance(): no arrival; dwells of the script are long enough.
IsMissed(record) == ~record.arrived
\* verify_multimodal()
IsGhost(record) == record.ble /\ ~record.vigi

\* A fault: both checks look at every record.
ChecksBoth(a) ==
    {c \in {"ghost", "missed"} : IF c = "ghost" THEN IsGhost(Record(a)) ELSE IsMissed(Record(a))}

\* _write_patrol_log(): the check of the event, and no other, looks at its record.
Checks(a) ==
    {c \in {a} : IF c = "ghost" THEN IsGhost(Record(a)) ELSE IsMissed(Record(a))}

Raises(a) ==
    /\ fired' = fired \cup {"event"}
    /\ raised' = [c \in Alerts |-> IF c \in Checks(a) THEN raised[c] + 1 ELSE raised[c]]

\* In missed_checkpoint Alpha skips the second AP of the floor.
SkipsOne(g) ==
    /\ Segment.name = "missed_checkpoint" /\ g = Alpha
    /\ guard[g].order[At(g)] = 2

Acts(g) ==
    /\ Ticks(g, {"events"}) /\ ~Rests(g) /\ CanLook(g)
    /\ ~(Segment.name = "ghost_patrol" /\ g = Alpha)
    /\ IF SkipsOne(g)
       THEN /\ guard' = [guard EXCEPT ![g].cur = @ + 1]
            /\ IF "event" \notin fired THEN Raises("missed") ELSE UNCHANGED <<fired, raised>>
       ELSE Strolls(g)
    /\ NextTurn
    /\ UNCHANGED <<adv, complete, triggered, seen, lastLoop, seg, tick>>

\* In ghost_patrol Alpha stands still, and at tick 2 was at the first AP with
\* nobody on camera.
StandsStill ==
    /\ Ticks(Alpha, {"events"}) /\ ~Rests(Alpha)
    /\ Segment.name = "ghost_patrol"
    /\ (tick = 2 => floor # << >>)
    /\ IF tick = 2 /\ "event" \notin fired THEN Raises("ghost") ELSE UNCHANGED <<fired, raised>>
    /\ NextTurn
    /\ UNCHANGED <<guard, adv, complete, triggered, seen, lastLoop, seg, tick>>

\* The handlers are called outside any try: a record that cannot be saved, or
\* an AP that is gone, ends the simulation.
ActingFails(g) ==
    /\ Ticks(g, {"events"}) /\ ~Rests(g)
    /\ ~CanLook(g) \/ (g = Alpha /\ Segment.name \in {"ghost_patrol", "missed_checkpoint"})
    /\ Dies

--------------------------------------------------------------------------------
(* delete_ap() of the floor service, on its own thread: the document goes  *)
(* first, then remove_ap() takes the AP from _floor_aps and from one       *)
(* beacon's list after the other.  The shift has no remove_ap().           *)

Deletes(ap) ==
    /\ removing = None /\ ap \in aps
    /\ aps' = aps \ {ap}
    /\ removing' = [ap |-> ap, at |-> 0, left |-> {}]
    /\ UNCHANGED <<mode, run, read, floor, walkVars, scriptVars, torn, raced, unheard>>

FirstIndex(ap) == CHOOSE i \in DOMAIN floor :
    floor[i] = ap /\ \A j \in 1..(i - 1) : floor[j] # ap

RemovesFromFloor ==
    /\ removing # None /\ removing.at = 0
    /\ IF mode # "shift" /\ removing.ap \in Range(floor)
       THEN /\ floor' = Only(floor, APs \ {removing.ap})
            /\ removing' = [removing EXCEPT !.at = FirstIndex(removing.ap),
                                            !.left = Range(Outgoing)]
       ELSE removing' = None /\ UNCHANGED floor
    /\ unheard' = IF run = "reading" THEN unheard \cup {removing.ap} ELSE unheard
    /\ UNCHANGED <<mode, run, read, walkVars, scriptVars, aps, torn, raced>>

WithoutShift(order, i) == Only(order, Nat \ {i})

\* The list without index i, the indices after it moved down.
Without(order, i) ==
    LET kept == Only(order, Nat \ {i})
    IN [j \in DOMAIN kept |-> IF kept[j] < i THEN kept[j] ELSE kept[j] - 1]

NewCountKept(g) == guard[g].count
NewCount(g) == IF mode = "patrol" THEN 0 ELSE guard[g].count

RemovesFromGuard(g) ==
    /\ removing # None /\ removing.at # 0 /\ g \in removing.left
    /\ g = Alpha \/ Alpha \notin removing.left
    /\ LET order == Without(guard[g].order, removing.at)
           n == Len(order)
       IN guard' = [guard EXCEPT
            ![g].order = order, ![g].cur = Wrap(@, n),
            ![g].start = IF mode = "patrol" THEN Wrap(@, n) ELSE @,
            ![g].count = NewCount(g)]
    /\ removing' = IF removing.left = {g} THEN None
                   ELSE [removing EXCEPT !.left = @ \ {g}]
    /\ torn' = IF guard[g].state = "wandering" THEN torn \cup {g} ELSE torn
    /\ raced' = IF adv # None /\ Turns[turn] = g THEN raced \cup {g} ELSE raced
    /\ UNCHANGED <<mode, run, read, floor, turn, adv, complete, triggered, seen,
                   lastLoop, scriptVars, aps, unheard>>

--------------------------------------------------------------------------------
GuardStep(g) ==
    \/ Skips(g) \/ Fails(g) \/ Walks(g) \/ Advances(g) \/ Advanced(g)
    \/ Acts(g) \/ ActingFails(g)

Next ==
    \/ \E cfg \in Configs : SetupReads(cfg)
    \/ SetupReturns \/ SetupStores \/ Stop \/ BeginTick \/ EndTick \/ BreaksDown
    \/ StandsStill
    \/ \E g \in Guards : GuardStep(g) \/ RemovesFromGuard(g)
    \/ \E ap \in Deletable : Deletes(ap)
    \/ RemovesFromFloor

Spec == Init /\ [][Next]_vars

--------------------------------------------------------------------------------
\* simulation_patrol.py:277-278, "Loop completes only when guard has visited all
\* APs": when a loop is counted, the guard has arrived, since it began, at every
\* AP that is still there, also if some were removed meanwhile - unless one was
\* removed while it wandered at its AP or in the middle of its advance.
LoopMeansAll ==
    \A g \in Guards : lastLoop[g] # None => Range(floor) \subseteq lastLoop[g]

\* simulation_shift.py:415, "triggers when BOTH outgoing guards complete one full
\* loop": the incoming guards stand still until each outgoing guard has been at
\* every AP in this run of the simulation.
ShiftAfterLoops ==
    run = "running" /\ mode = "shift" =>
        \A h \in Range(Incoming) :
            guard[h].state = "wandering" \/ guard[h].cur # guard[h].start =>
                \A g \in Range(Outgoing) : lastLoop[g] = Range(floor)

\* Between two removals a guard's indices lead to an AP, so it walks on and the
\* script does not die of an IndexError - unless a removal came between reading
\* the length of its list and storing its next index, or went on during setup.
\* (Where a route names an AP twice, remove_ap() takes both from the floor and
\* one from the guard's list, and the last index leads nowhere.)
GuardsCanWalk ==
    run = "running" /\ removing = None =>
        \A g \in Walkers \ raced : guard[g].order # << >> => CanLook(g)

\* simulation_events.py:245, "exactly its own alert": in a segment at most one
\* event is raised, once, and it is the segment's own.
OwnAlertOnce ==
    /\ \A a \in Alerts : raised[a] <= 1
    /\ raised["ghost"] = 1 => Segment.name = "ghost_patrol"
    /\ raised["missed"] = 1 => Segment.name = "missed_checkpoint"
    /\ raised["seed"] = 1 => Segment.name = "man_down"

\* A guard walks to no AP that is deleted, once remove_ap() has returned, unless
\* setup had read it before and stored its list after.
NoDeletedAP ==
    run = "running" /\ removing = None /\ mode # "shift" =>
        Range(floor) \subseteq aps \cup unheard

\* A loop that counts is a loop round all APs, and the shift changes on such loops alone.
LoopsAreHonest == LoopMeansAll /\ ShiftAfterLoops

\* However APs are deleted under the walk, every guard can take its next step, and none
\* walks to an AP that is gone.
WalkIsSound == TypeOK /\ GuardsCanWalk /\ NoDeletedAP
================================================================================
