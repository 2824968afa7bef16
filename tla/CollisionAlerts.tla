---------------------------- MODULE CollisionAlerts ----------------------------
(***************************************************************************)
(* The collision check of an update (services/safety_service.py) and the   *)
(* distance it uses, which admins set (services/safety_settings_service.py)*)
(* and the check caches.                                                   *)
(*                                                                         *)
(* The checks run one at a time, under positioning_service.pipeline_lock;  *)
(* admins do not take that lock.  Time is kept as ages, each up to the     *)
(* bound from which it makes no difference.  Predicted positions lie on a  *)
(* line.  A call that fails has written nothing.                           *)
(***************************************************************************)
EXTENDS Integers, FiniteSets

CONSTANTS
    Workers, Forklifts,
    Spots,          \* predicted positions, integers
    Limits,         \* collision distances
    Default,        \* the one of the environment (settings.COLLISION_DISTANCE_M)
    Admins,
    TTL,            \* _SETTINGS_TTL_S
    Suppress,       \* how long a pair's next alert is held back
    MaxCheck,       \* bound: time a check takes
    None

People == Workers \cup Forklifts
Pairs == Workers \X Forklifts

VARIABLES
    place,          \* /positions: predicted_x of each person, or None
    doc,            \* settings/safety, which seed_defaults() created at the start
    gone,           \* history: time since the document last held each distance
    saved,          \* admins whose document is saved, the cache not dropped yet
    cache,          \* _settings_cache: the distance, and how it was read; or None
    cacheAge,       \* time since _settings_cache_ts
    last,           \* _last_collision: time since the stamp of each pair's alert
    told,           \* history: time since the last alert of each pair that was saved
    check           \* the check that runs

vars == <<place, doc, gone, saved, cache, cacheAge, last, told, check>>

Long == Suppress + MaxCheck
NoCheck == [at |-> "idle", for |-> "collision", got |-> None, stamp |-> 0,
            todo |-> {}, pair |-> None, pairAge |-> 0, age |-> 0]
Got == [limit : Limits, failed : BOOLEAN, crossed : BOOLEAN]

TypeOK ==
    /\ place \in [People -> Spots \cup {None}]
    /\ doc \in Limits
    /\ gone \in [Limits -> 0 .. TTL]
    /\ saved \subseteq Admins
    /\ cache \in Got \cup {None} /\ cacheAge \in 0 .. TTL
    /\ last \in [Pairs -> 0 .. Suppress] /\ told \in [Pairs -> 0 .. Long]
    /\ check \in [at : {"idle", "settings", "cached", "read", "store", "between", "pairs"},
                  for : {"man_down", "collision"}, got : Got \cup {None},
                  stamp : 0 .. MaxCheck, todo : SUBSET Pairs, pair : Pairs \cup {None},
                  pairAge : 0 .. MaxCheck, age : 0 .. MaxCheck]

Init ==
    /\ place = [p \in People |-> None]
    /\ doc = Default
    /\ gone = [l \in Limits |-> IF l = Default THEN 0 ELSE TTL]
    /\ saved = {}
    /\ cache = None /\ cacheAge = 0
    /\ last = [pr \in Pairs |-> Suppress] /\ told = [pr \in Pairs |-> Long]
    /\ check = NoCheck

Distance(pr) == LET d == place[pr[1]] - place[pr[2]] IN IF d < 0 THEN -d ELSE d
Near(limit) == {pr \in Pairs : place[pr[1]] # None /\ place[pr[2]] # None /\ Distance(pr) < limit}
------------------------------------------------------------------------------
(* The check. *)

Busy(at) == check.at = at
Proceed(new) == check' = new /\ UNCHANGED <<place, doc, gone, saved>>

\* An update is saved and run_all_checks() begins.  A forklift is exempt from man-down,
\* before the settings are read.  A position without a prediction is one of the fallback.
Update(p, s) ==
    /\ Busy("idle")
    /\ place' = [place EXCEPT ![p] = s]
    /\ check' = IF p \in Forklifts THEN [NoCheck EXCEPT !.at = "between"]
                ELSE [NoCheck EXCEPT !.at = "settings", !.for = "man_down"]
    /\ UNCHANGED <<doc, gone, saved, cache, cacheAge, last, told>>

\* The man-down check and the tracker are done, and the positions are read.
Between ==
    /\ Busy("between")
    /\ Proceed([check EXCEPT !.at = "settings", !.for = "collision"])
    /\ UNCHANGED <<cache, cacheAge, last, told>>

\* _get_settings(): the cache is looked at ...
Look ==
    /\ Busy("settings")
    /\ Proceed([check EXCEPT !.at = IF cache # None /\ cacheAge < TTL THEN "cached" ELSE "read",
                             !.stamp = 0])
    /\ UNCHANGED <<cache, cacheAge, last, told>>

\* The settings are there: the collision check compares every pair.
With(got) ==
    IF check.for = "man_down" THEN [check EXCEPT !.at = "between"]
    ELSE [check EXCEPT !.at = "pairs", !.got = got, !.todo = Near(got.limit)]

\* ... and returned.  An admin may have dropped it in between: what is returned is None, and
\* the collision check raises; a man-down check that needs the minutes raises as well.
Return ==
    /\ Busy("cached")
    /\ \/ cache # None /\ Proceed(With(cache))
       \/ cache = None /\ check.for = "man_down" /\ Proceed([check EXCEPT !.at = "between"])
       \/ cache = None /\ Proceed(NoCheck)
    /\ UNCHANGED <<cache, cacheAge, last, told>>

\* The document is read; a missing one and a failure give the default.
Read(failed) ==
    /\ Busy("read")
    /\ Proceed([check EXCEPT !.at = "store",
                             !.got = [limit |-> IF failed THEN Default ELSE doc,
                                      failed |-> failed, crossed |-> FALSE]])
    /\ UNCHANGED <<cache, cacheAge, last, told>>

\* A fault: the time is taken here, after the read.
StoredNow(stamp) == 0
\* The time stored with the settings was taken before the read.
Stored(stamp) == IF stamp < TTL THEN stamp ELSE TTL

Store ==
    /\ Busy("store")
    /\ cache' = check.got /\ cacheAge' = Stored(check.stamp)
    /\ Proceed(With(check.got))
    /\ UNCHANGED <<last, told>>

HeldBack(pr) == last[pr] < Suppress

\* The next pair that is near is held back, or its alert is stamped ...
Pair(pr) ==
    /\ Busy("pairs") /\ check.pair = None /\ pr \in check.todo
    /\ Proceed(IF HeldBack(pr) THEN [check EXCEPT !.todo = @ \ {pr}]
               ELSE [check EXCEPT !.todo = @ \ {pr}, !.pair = pr, !.pairAge = 0])
    /\ UNCHANGED <<cache, cacheAge, last, told>>

\* ... saved, and remembered.
Alert ==
    /\ Busy("pairs") /\ check.pair # None
    /\ last' = [last EXCEPT ![check.pair] = IF check.pairAge < Suppress THEN check.pairAge
                                            ELSE Suppress]
    /\ told' = [told EXCEPT ![check.pair] = check.pairAge]
    /\ Proceed([check EXCEPT !.pair = None])
    /\ UNCHANGED <<cache, cacheAge>>

\* A call fails - an alert's save, or the reads before - and the update's checks end with it.
Raise ==
    /\ Busy("between") \/ (Busy("pairs") /\ check.pair # None)
    /\ Proceed(NoCheck) /\ UNCHANGED <<cache, cacheAge, last, told>>

Done == Busy("pairs") /\ check.todo = {} /\ check.pair = None

Finish ==
    /\ Done
    /\ Proceed(NoCheck) /\ UNCHANGED <<cache, cacheAge, last, told>>
------------------------------------------------------------------------------
(* The settings, time and restarts. *)

Reading == Busy("store")

\* update(): an admin's document is saved ...
SaveSettings(a, limit) ==
    /\ a \notin saved
    /\ doc' = limit /\ saved' = saved \cup {a}
    /\ gone' = [gone EXCEPT ![limit] = 0]
    /\ check' = IF Reading THEN [check EXCEPT !.got.crossed = TRUE] ELSE check
    /\ UNCHANGED <<place, cache, cacheAge, last, told>>

DropCache == cache' = None /\ cacheAge' = 0

\* ... and the cache is dropped.
Invalidate(a) ==
    /\ a \in saved /\ saved' = saved \ {a}
    /\ DropCache
    /\ UNCHANGED <<place, doc, gone, last, told, check>>

Older(age, bound) == IF age < bound THEN age + 1 ELSE bound

Tick ==
    /\ ~Busy("idle") => check.age < MaxCheck
    /\ gone' = [l \in Limits |-> IF doc = l THEN 0 ELSE Older(gone[l], TTL)]
    /\ cacheAge' = IF cache = None THEN 0 ELSE Older(cacheAge, TTL)
    /\ last' = [pr \in Pairs |-> Older(last[pr], Suppress)]
    /\ told' = [pr \in Pairs |-> Older(told[pr], Long)]
    /\ check' = IF Busy("idle") THEN check
                ELSE [check EXCEPT !.age = @ + 1,
                         !.stamp = IF check.at \in {"read", "store"} THEN @ + 1 ELSE @,
                         !.pairAge = IF check.pair # None THEN @ + 1 ELSE 0]
    /\ UNCHANGED <<place, doc, saved, cache>>

\* The worker restarts; seed_defaults() leaves a document that exists.
Restart ==
    /\ cache' = None /\ cacheAge' = 0
    /\ last' = [pr \in Pairs |-> Suppress] /\ told' = [pr \in Pairs |-> Long]
    /\ check' = NoCheck /\ saved' = {}
    /\ UNCHANGED <<place, doc, gone>>

Check ==
    \/ \E p \in People, s \in Spots \cup {None} : Update(p, s)
    \/ Between \/ Look \/ Return \/ Store
    \/ \E failed \in BOOLEAN : Read(failed)
    \/ \E pr \in Pairs : Pair(pr)
    \/ Alert \/ Raise \/ Finish

Next ==
    \/ Check
    \/ \E a \in Admins, limit \in Limits : SaveSettings(a, limit)
    \/ \E a \in Admins : Invalidate(a)
    \/ Tick \/ Restart

Spec == Init /\ [][Next]_vars
------------------------------------------------------------------------------
\* However reads, updates and their invalidations interleave, a distance in the cache was
\* the document's no longer ago than the cache is old: a check never uses one for more than
\* the TTL after it was replaced, unless a read failed and the default stands in for it.
LimitIsRecent ==
    cache # None /\ ~cache.failed => gone[cache.limit] <= cacheAge

\* When no update is between its save and its invalidation, the cache holds the document's
\* distance, unless the read that filled it failed or an update came between that read and
\* its store, after which the invalidation found nothing to drop.
CacheFollowsDoc ==
    saved = {} /\ cache # None
        => cache.limit = doc \/ cache.failed \/ cache.crossed

\* A check that is not broken off leaves no pair that is nearer than its distance without an
\* alert: one was saved in it, or no longer than the suppression before it began - whatever
\* checks before it failed half-way (check_collision).
NearIsAlerted ==
    Done => \A pr \in Near(check.got.limit) : told[pr] - check.age < Suppress
===============================================================================
