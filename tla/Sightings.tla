------------------------------- MODULE Sightings -------------------------------
(***************************************************************************)
(* /beacon_scans, one node for every beacon that was ever heard, known or  *)
(* not (services/omada_ingest_service.py): each AP report writes the nodes *)
(* of the beacons it lists, and now and then begins with a sweep of the    *)
(* nodes of strangers that fell silent.  A report holds pipeline_lock; the *)
(* requests that register and delete beacons (beacon_service.py) do not.   *)
(* BeaconIngest shows what else a report does.                             *)
(*                                                                         *)
(* Times are ages.  No unit of time passes while a report is worked off.   *)
(***************************************************************************)
EXTENDS Integers, FiniteSets

CONSTANTS
    Keys,       \* beacons, by their iBeacon key
    Stale,      \* _STALE_BEACON_S, in time units
    Interval,   \* _JANITOR_INTERVAL_S
    TTL,        \* _BEACON_CACHE_TTL_S
    None

VARIABLES
    registry,   \* the registered beacons, in Firestore
    cache,      \* _beacon_cache, and the age of _beacon_cache_loaded_at
    fetched,    \* what a refresh of the cache has read and not stored yet
    node,       \* the nodes: the registered flag, and the age of last_seen
    since,      \* the age of _last_janitor_run
    report,     \* the report being worked off
    admin,      \* whether a request has changed Firestore and not the cache yet
    settled,    \* history: how long each beacon's registration has stood
    known,      \* history: whether a beacon was registered when its node was
                \* written; "unsure" within TTL of a change
    failed      \* history: whether the last sweep failed

nodes == <<node, since, known, failed>>
caches == <<cache, fetched>>
vars == <<registry, caches, nodes, report, admin, settled>>

Idle == [pc |-> "idle", todo |-> {}]
Oldest == Stale + Interval + 1

TypeOK ==
    /\ registry \subseteq Keys
    /\ cache \in [of : SUBSET Keys, age : 0..(TTL + 1)]
    /\ fetched \in (SUBSET Keys) \cup {None}
    /\ node \in [Keys -> [registered : BOOLEAN, age : 0..Oldest] \cup {None}]
    /\ since \in 0..(Interval + 1)
    /\ report \in [pc : {"idle", "sweep", "entries"}, todo : SUBSET Keys]
    /\ admin \in {"idle", "saved"}
    /\ settled \in [Keys -> 0..(TTL + 1)]
    /\ known \in [Keys -> {"yes", "no", "unsure"}]
    /\ failed \in BOOLEAN

Older(age, cap) == IF age < cap THEN age + 1 ELSE age

Fresh(c, s) == c = [of |-> {}, age |-> TTL + 1] /\ s = Interval + 1

Init ==
    /\ registry = {} /\ fetched = None
    /\ Fresh(cache, since)
    /\ node = [k \in Keys |-> None]
    /\ report = Idle /\ admin = "idle"
    /\ settled = [k \in Keys |-> TTL + 1]
    /\ known = [k \in Keys |-> "no"] /\ failed = FALSE

Elapse ==
    /\ report = Idle
    /\ cache' = [cache EXCEPT !.age = Older(@, TTL + 1)]
    /\ since' = Older(since, Interval + 1)
    /\ node' = [k \in Keys |-> IF node[k] = None THEN None
                               ELSE [node[k] EXCEPT !.age = Older(@, Oldest)]]
    /\ settled' = [k \in Keys |-> Older(settled[k], TTL + 1)]
    /\ UNCHANGED <<registry, fetched, report, admin, known, failed>>

\* The process dies: Firestore and the nodes remain.
Restart ==
    /\ Fresh(cache', since')
    /\ fetched' = None /\ report' = Idle /\ admin' = "idle"
    /\ UNCHANGED <<registry, node, settled, known, failed>>

--------------------------------------------------------------------------------
(* An admin's request: Firestore, then the cache.                          *)

Registers(r, k) ==
    /\ admin = "idle"
    /\ registry' = r
    /\ settled' = [settled EXCEPT ![k] = 0]
    /\ admin' = "saved"
    /\ UNCHANGED <<caches, nodes, report>>

\* A beacon that exists is a duplicate, one that does not is not found.
CreateBeacon(k) == k \notin registry /\ Registers(registry \cup {k}, k)
DeleteBeacon(k) == k \in registry /\ Registers(registry \ {k}, k)

AdminInvalidates ==
    /\ admin = "saved"
    /\ cache' = [cache EXCEPT !.age = TTL + 1]
    /\ admin' = "idle"
    /\ UNCHANGED <<registry, fetched, nodes, report, settled>>

--------------------------------------------------------------------------------
(* A report of an AP.                                                      *)

\* The entries with an iBeacon block; none of them counts if the AP is placed
\* on no floor.
Entries(heard) == report' = [pc |-> "entries", todo |-> heard]

SweepDue == since > Interval

\* A fault: the flag is not looked at.
IsStaleAny(k) == node[k] # None /\ node[k].age > Stale
IsStale(k) == node[k] # None /\ ~node[k].registered /\ node[k].age > Stale

ReportBegins(heard) ==
    /\ report = Idle /\ ~SweepDue
    /\ Entries(heard)
    /\ UNCHANGED <<registry, caches, nodes, admin, settled>>

\* The time of the sweep is taken first, whatever comes of it.
SweepBegins ==
    /\ report = Idle /\ SweepDue
    /\ since' = 0
    /\ report' = [pc |-> "sweep", todo |-> {k \in Keys : IsStale(k)}]
    /\ failed' = FALSE
    /\ UNCHANGED <<registry, caches, node, known, admin, settled>>

SweepDeletes(k) ==
    /\ report.pc = "sweep" /\ k \in report.todo
    /\ node' = [node EXCEPT ![k] = None]
    /\ report' = [report EXCEPT !.todo = @ \ {k}]
    /\ UNCHANGED <<registry, caches, since, known, failed, admin, settled>>

\* All deleted, or one call raised: what is left waits for the next sweep.
SweepEnds(heard) ==
    /\ report.pc = "sweep"
    /\ failed' = (report.todo # {})
    /\ Entries(heard)
    /\ UNCHANGED <<registry, caches, node, since, known, admin, settled>>

\* The read of all nodes raised.
SweepFails(heard) ==
    /\ report = Idle /\ SweepDue
    /\ since' = 0 /\ failed' = TRUE
    /\ Entries(heard)
    /\ UNCHANGED <<registry, caches, node, known, admin, settled>>

\* _resolve_beacon(): an expired cache is read anew, then stored, then looked up.
Resolved == fetched # None \/ cache.age <= TTL

Fetch ==
    /\ report.pc = "entries" /\ report.todo # {} /\ ~Resolved
    /\ fetched' = registry
    /\ UNCHANGED <<registry, cache, nodes, report, admin, settled>>

\* It raises, and the report with it.
FetchRaises ==
    /\ report.pc = "entries" /\ report.todo # {} /\ ~Resolved
    /\ report' = Idle
    /\ UNCHANGED <<registry, caches, nodes, admin, settled>>

Looked == IF fetched = None THEN cache.of ELSE fetched

WhatIsKnown(k) ==
    IF settled[k] <= TTL THEN "unsure" ELSE IF k \in registry THEN "yes" ELSE "no"

Resolves(k) ==
    /\ report.pc = "entries" /\ k \in report.todo /\ Resolved
    /\ cache' = IF fetched = None THEN cache ELSE [of |-> fetched, age |-> 0]
    /\ fetched' = None
    /\ report' = [report EXCEPT !.todo = @ \ {k}]
    /\ UNCHANGED <<registry, since, failed, admin, settled>>

\* The node is written whoever it is.
Hears(k) ==
    /\ Resolves(k)
    /\ node' = [node EXCEPT ![k] = [registered |-> k \in Looked, age |-> 0]]
    /\ known' = [known EXCEPT ![k] = WhatIsKnown(k)]

\* Without a signal strength it is not, nor if the write fails.
HearsNothing(k) == Resolves(k) /\ UNCHANGED <<node, known>>

ReportEnds ==
    /\ report.pc = "entries" /\ report.todo = {}
    /\ report' = Idle
    /\ UNCHANGED <<registry, caches, nodes, admin, settled>>

Next ==
    \/ Elapse \/ Restart \/ AdminInvalidates
    \/ \E k \in Keys : \/ CreateBeacon(k) \/ DeleteBeacon(k)
                       \/ SweepDeletes(k) \/ Hears(k) \/ HearsNothing(k)
    \/ \E heard \in SUBSET Keys : ReportBegins(heard) \/ SweepEnds(heard) \/ SweepFails(heard)
    \/ SweepBegins \/ Fetch \/ FetchRaises \/ ReportEnds

Spec == Init /\ [][Next]_vars

--------------------------------------------------------------------------------
\* "Registered beacons are kept regardless of age" (omada_ingest_service.py:115):
\* no sweep takes the node of a beacon that was registered when it was last heard,
\* however long ago and whatever has become of it, unless its registration was then
\* younger than the cache's time to live.
SparesKnown ==
    report.pc = "sweep" => \A k \in report.todo : known[k] # "yes"

\* The flag a node carries was true when it was written, up to that time to live.
FlagIsHonest ==
    \A k \in Keys : node[k] # None =>
        /\ known[k] = "yes" => node[k].registered
        /\ known[k] = "no" => ~node[k].registered

\* "drop ambient-BLE nodes that haven't been heard in a while": once a report is past
\* its sweep, no stranger's node is older than the limit and the time between two
\* sweeps, unless the last sweep failed.
StrangersAreSwept ==
    report.pc = "entries" /\ ~failed =>
        \A k \in Keys : node[k] # None /\ ~node[k].registered =>
            node[k].age <= Stale + Interval
================================================================================
