----------------------------- MODULE BeaconIngest -----------------------------
(***************************************************************************)
(* From AP reports to positions (services/omada_ingest_service.py), with   *)
(* the beacon registry behind it (services/beacon_service.py).             *)
(*                                                                         *)
(* An AP report is worked off under pipeline_lock: every beacon it lists   *)
(* is resolved to a person and buffered, then every beacon with fresh      *)
(* readings may get a position.  Requests that create, update or delete a  *)
(* beacon take no lock: they change Firestore, then mark the identity      *)
(* cache as stale, then (delete) drop the person's live position.  Both    *)
(* sides are cut at their remote calls.                                    *)
(*                                                                         *)
(* Signal strengths are left out: which reading is the strongest, whether  *)
(* it is too weak, and whether a solve succeeds, is anybody's guess.  APs  *)
(* stay where they are placed.  An AP reports at most once in a unit of    *)
(* time (1 s), and no unit passes while a report is being worked off.      *)
(***************************************************************************)
EXTENDS Integers, FiniteSets

CONSTANTS
    Beacons, People,
    APs,                    \* the placed APs
    MinAPs,                 \* MIN_APS_FOR_POSITION
    BufferWindow,           \* BUFFER_WINDOW_S, in time units
    EmitInterval,           \* EMIT_MIN_INTERVAL_S
    Hold,                   \* POSITION_EXACT_HOLD_SECONDS
    CacheTTL,               \* _BEACON_CACHE_TTL_S
    RadioMayFail,           \* null or weak readings, solves without solution
    CallsMayFail,           \* whether reads of Firestore and saves may raise
    NoOne, NoFetch

ASSUME NumbersAssumption ==
    /\ MinAPs \in Nat /\ BufferWindow \in Nat
    /\ EmitInterval \in Nat \ {0} /\ Hold \in Nat \ {0} /\ CacheTTL \in Nat
ASSUME FaultsAssumption == RadioMayFail \in BOOLEAN /\ CallsMayFail \in BOOLEAN

\* Whom each beacon is registered to.
Registry == [Beacons -> People \cup {NoOne}]
ASSUME NobodyAssumption == NoOne \notin People /\ NoFetch \notin Registry

Older(age, cap) == IF age < cap THEN age + 1 ELSE age

VARIABLES
    registry,   \* the beacons in Firestore
    cache,      \* _beacon_cache and the age of _beacon_cache_loaded_at, which is
                \* CacheTTL + 1 once it has expired or was invalidated
    fetched,    \* what a refresh of the cache has read and not stored yet
    readings,   \* _buffers: the age of each AP's reading of each beacon, which is
                \* BufferWindow + 1 if there is none fresh
    lastEmit,   \* _last_emit: the age of the last decision on each beacon
    lastExact,  \* _last_exact_solve: its age for each person
    position,   \* the kind of each person's record in /positions
    ingest,     \* the report being worked off
    reported,   \* the APs that have reported in this unit of time
    admin,      \* the registry request under way
    settled,    \* history: how long each beacon's registration has stood
    solved,     \* history: how long ago this process saved a person's last solve
    dropped     \* history: people whose live position a delete has dropped, and
                \* who have had no beacon since

caches == <<cache, fetched>>
limits == <<lastEmit, lastExact>>
history == <<settled, solved, dropped>>
vars == <<registry, caches, readings, limits, position, ingest, reported, admin,
          history>>

\* pc is "buffer" in the loop over the report's entries, "flush" in the one over
\* the buffered beacons, "write" while a position is being saved.
NoIngest == [pc |-> "idle", ap |-> NoOne, todo |-> {}, beacon |-> NoOne,
             who |-> NoOne, kind |-> "none"]
NoAdmin == [pc |-> "idle", who |-> NoOne]

TypeOK ==
    /\ registry \in Registry
    /\ cache \in [of : Registry, age : 0..(CacheTTL + 1)]
    /\ fetched \in Registry \cup {NoFetch}
    /\ readings \in [Beacons -> [APs -> 0..(BufferWindow + 1)]]
    /\ lastEmit \in [Beacons -> 0..EmitInterval]
    /\ lastExact \in [People -> 0..Hold]
    /\ position \in [People -> {"none", "exact", "approx"}]
    /\ ingest \in {NoIngest}
         \cup [pc : {"buffer", "flush"}, ap : APs, todo : SUBSET Beacons,
               beacon : {NoOne}, who : {NoOne}, kind : {"none"}]
         \cup [pc : {"write"}, ap : APs, todo : SUBSET Beacons, beacon : Beacons,
               who : People, kind : {"exact", "approx"}]
    /\ reported \subseteq APs
    /\ admin \in {NoAdmin} \cup [pc : {"invalidate"}, who : People \cup {NoOne}]
                   \cup [pc : {"drop"}, who : People]
    /\ settled \in [Beacons -> 0..(CacheTTL + 1)]
    /\ solved \in [People -> 0..Hold]
    /\ dropped \subseteq People

\* The empty state of the ingest service.
Fresh(r, c, l, x) ==
    /\ r = [b \in Beacons |-> [a \in APs |-> BufferWindow + 1]]
    /\ c = [of |-> [b \in Beacons |-> NoOne], age |-> CacheTTL + 1]
    /\ l = [b \in Beacons |-> EmitInterval]
    /\ x = [p \in People |-> Hold]

Init ==
    /\ registry \in Registry
    /\ Fresh(readings, cache, lastEmit, lastExact)
    /\ fetched = NoFetch
    /\ position = [p \in People |-> "none"]
    /\ ingest = NoIngest /\ reported = {} /\ admin = NoAdmin
    /\ settled = [b \in Beacons |-> CacheTTL + 1]
    /\ solved = lastExact /\ dropped = {}
-----------------------------------------------------------------------------
Elapse ==
    /\ ingest = NoIngest
    /\ cache' = [cache EXCEPT !.age = Older(@, CacheTTL + 1)]
    /\ readings' = [b \in Beacons |->
                      [a \in APs |-> Older(readings[b][a], BufferWindow + 1)]]
    /\ lastEmit' = [b \in Beacons |-> Older(lastEmit[b], EmitInterval)]
    /\ lastExact' = [p \in People |-> Older(lastExact[p], Hold)]
    /\ settled' = [b \in Beacons |-> Older(settled[b], CacheTTL + 1)]
    /\ solved' = [p \in People |-> Older(solved[p], Hold)]
    /\ reported' = {}
    /\ UNCHANGED <<registry, fetched, position, ingest, admin, dropped>>

\* The process dies: only Firestore and /positions remain.
Restart ==
    /\ Fresh(readings', cache', lastEmit', lastExact')
    /\ fetched' = NoFetch /\ ingest' = NoIngest /\ admin' = NoAdmin
    /\ solved' = lastExact'
    /\ UNCHANGED <<registry, position, reported, settled, dropped>>
-----------------------------------------------------------------------------
(* The registry requests of an admin.                                       *)

Register(b, p) ==
    /\ registry' = [registry EXCEPT ![b] = p]
    /\ settled' = [settled EXCEPT ![b] = 0]
    /\ dropped' = dropped \ {p}

\* Create a beacon, or update whom an existing one belongs to.
AdminSaves(b) ==
    /\ admin = NoAdmin
    /\ \E p \in People \ {registry[b]} : Register(b, p)
    /\ admin' = [pc |-> "invalidate", who |-> NoOne]
    /\ UNCHANGED <<caches, readings, limits, position, ingest, reported, solved>>

AdminDeletes(b) ==
    /\ admin = NoAdmin /\ registry[b] # NoOne
    /\ Register(b, NoOne)
    /\ admin' = [pc |-> "invalidate", who |-> registry[b]]
    /\ UNCHANGED <<caches, readings, limits, position, ingest, reported, solved>>

AdminInvalidates ==
    /\ admin.pc = "invalidate"
    /\ cache' = [cache EXCEPT !.age = CacheTTL + 1]
    /\ admin' = IF admin.who = NoOne THEN NoAdmin ELSE [admin EXCEPT !.pc = "drop"]
    /\ UNCHANGED <<registry, fetched, readings, limits, position, ingest, reported,
                   history>>

\* The live position of the deleted beacon's person goes too.
AdminDrops ==
    /\ admin.pc = "drop"
    /\ position' = [position EXCEPT ![admin.who] = "none"]
    /\ dropped' = IF \E b \in Beacons : registry[b] = admin.who THEN dropped
                  ELSE dropped \cup {admin.who}
    /\ admin' = NoAdmin
    /\ UNCHANGED <<registry, caches, readings, limits, ingest, reported, settled,
                   solved>>

\* The delete of the position raises and is only logged.
AdminDropFails ==
    /\ CallsMayFail /\ admin.pc = "drop"
    /\ admin' = NoAdmin
    /\ UNCHANGED <<registry, caches, readings, limits, position, ingest, reported,
                   history>>
-----------------------------------------------------------------------------
(* One AP report.                                                           *)

\* A report lists any beacons.  Entries without an RSSI average are resolved and
\* not buffered (NullReading).
Report(a, heard) ==
    /\ ingest = NoIngest /\ a \notin reported
    /\ ingest' = [NoIngest EXCEPT !.pc = "buffer", !.ap = a, !.todo = heard]
    /\ reported' = reported \cup {a}
    /\ UNCHANGED <<registry, caches, readings, limits, position, admin, history>>

\* _resolve_beacon(): an expired cache is read anew, then stored, then looked up;
\* an invalidation in between is overwritten by the store.
Expired == cache.age > CacheTTL
Resolved == fetched # NoFetch \/ ~Expired
IdentityOf(b) == IF fetched = NoFetch THEN cache.of[b] ELSE fetched[b]
\* Mutant: every lookup renews the cache.
StoreSliding ==
    /\ cache' = [of |-> IF fetched = NoFetch THEN cache.of ELSE fetched, age |-> 0]
    /\ fetched' = NoFetch

StoreFetched ==
    /\ cache' = IF fetched = NoFetch THEN cache ELSE [of |-> fetched, age |-> 0]
    /\ fetched' = NoFetch

\* A beacon of the flush that is looked up: something fresh, not too soon.
FreshAPs(b) == {a \in APs : readings[b][a] <= BufferWindow}
Ready(b) == FreshAPs(b) # {} /\ lastEmit[b] >= EmitInterval
LooksUp(b) ==
    /\ b \in ingest.todo
    /\ ingest.pc = "buffer" \/ (ingest.pc = "flush" /\ Ready(b))

Fetch ==
    /\ ~Resolved /\ \E b \in Beacons : LooksUp(b)
    /\ fetched' = registry
    /\ UNCHANGED <<registry, cache, readings, limits, position, ingest, reported, admin,
                   history>>

\* The read raises: the whole report is answered with an error.
FetchRaises ==
    /\ CallsMayFail /\ ~Resolved /\ \E b \in Beacons : LooksUp(b)
    /\ ingest' = NoIngest
    /\ UNCHANGED <<registry, caches, readings, limits, position, reported, admin,
                   history>>

Done(b) == [ingest EXCEPT !.todo = @ \ {b}]

Buffer(b) ==
    /\ ingest.pc = "buffer" /\ b \in ingest.todo /\ Resolved
    /\ readings' = IF IdentityOf(b) = NoOne THEN readings
                   ELSE [readings EXCEPT ![b][ingest.ap] = 0]
    /\ StoreFetched
    /\ ingest' = Done(b)
    /\ UNCHANGED <<registry, limits, position, reported, admin, history>>

NullReading(b) ==
    /\ RadioMayFail
    /\ ingest.pc = "buffer" /\ b \in ingest.todo /\ Resolved
    /\ StoreFetched
    /\ ingest' = Done(b)
    /\ UNCHANGED <<registry, readings, limits, position, reported, admin, history>>

BufferDone ==
    /\ ingest.pc = "buffer" /\ ingest.todo = {}
    /\ ingest' = [ingest EXCEPT !.pc = "flush", !.todo = Beacons]
    /\ UNCHANGED <<registry, caches, readings, limits, position, reported, admin,
                   history>>

\* Nothing fresh, or decided on too recently.
FlushSkips(b) ==
    /\ ingest.pc = "flush" /\ b \in ingest.todo /\ ~Ready(b)
    /\ ingest' = Done(b)
    /\ UNCHANGED <<registry, caches, readings, limits, position, reported, admin,
                   history>>

\* The beacon was unregistered since it was buffered.
FlushUnknown(b) ==
    /\ ingest.pc = "flush" /\ b \in ingest.todo /\ Ready(b) /\ Resolved
    /\ IdentityOf(b) = NoOne
    /\ StoreFetched
    /\ ingest' = Done(b)
    /\ UNCHANGED <<registry, readings, limits, position, reported, admin, history>>

\* The stamp of a decision on b comes before its outcome.
Stamp(b) == lastEmit' = [lastEmit EXCEPT ![b] = 0]

Few(b) == Cardinality(FreshAPs(b)) < MinAPs
\* Mutant: off by one.
HadExactSolveBefore(p) == lastExact[p] < Hold - 1
HadRecentExactSolve(p) == lastExact[p] < Hold

\* Mutant: holding counts as a solve.
HoldsRenew(b) ==
    /\ ingest.pc = "flush" /\ b \in ingest.todo /\ Ready(b) /\ Resolved
    /\ IdentityOf(b) # NoOne
    /\ Few(b) /\ HadRecentExactSolve(IdentityOf(b))
    /\ Stamp(b) /\ StoreFetched
    /\ lastExact' = [lastExact EXCEPT ![IdentityOf(b)] = 0]
    /\ ingest' = Done(b)
    /\ UNCHANGED <<registry, readings, position, reported, admin, settled, solved,
                   dropped>>

\* Too few APs for a solve, and a recent solve stands: nothing is written.
FlushHolds(b) ==
    /\ ingest.pc = "flush" /\ b \in ingest.todo /\ Ready(b) /\ Resolved
    /\ IdentityOf(b) # NoOne
    /\ Few(b) /\ HadRecentExactSolve(IdentityOf(b))
    /\ Stamp(b) /\ StoreFetched
    /\ ingest' = Done(b)
    /\ UNCHANGED <<registry, readings, lastExact, position, reported, admin, settled,
                   solved, dropped>>

\* proximity_service.compute_position(): the strongest AP's position, or nothing
\* if even that AP hears the beacon too faintly.
Anchor == {"approx"} \cup IF RadioMayFail THEN {"none"} ELSE {}

\* positioning_service.compute_position(): a solve, or nothing if the APs stand in
\* one spot or the least squares find none.
Solve == {"exact"} \cup IF RadioMayFail THEN {"none"} ELSE {}

\* What is found is saved next; the time of a solve is taken before.
FlushDecides(b) ==
    LET who == IdentityOf(b) IN
    /\ ingest.pc = "flush" /\ b \in ingest.todo /\ Ready(b) /\ Resolved
    /\ who # NoOne
    /\ ~(Few(b) /\ HadRecentExactSolve(who))
    /\ Stamp(b) /\ StoreFetched
    /\ \E kind \in IF Few(b) THEN Anchor ELSE Solve :
          /\ ingest' = IF kind = "none" THEN Done(b)
                       ELSE [ingest EXCEPT !.pc = "write", !.todo = @ \ {b},
                                           !.beacon = b, !.who = who, !.kind = kind]
          /\ lastExact' = IF kind = "exact" THEN [lastExact EXCEPT ![who] = 0]
                          ELSE lastExact
    /\ UNCHANGED <<registry, readings, position, reported, admin, settled, solved,
                   dropped>>

Written == [NoIngest EXCEPT !.pc = "flush", !.ap = ingest.ap, !.todo = ingest.todo]

Write ==
    /\ ingest.pc = "write"
    /\ position' = [position EXCEPT ![ingest.who] = ingest.kind]
    /\ solved' = IF ingest.kind = "exact" THEN [solved EXCEPT ![ingest.who] = 0]
                 ELSE solved
    /\ ingest' = Written
    /\ UNCHANGED <<registry, caches, readings, limits, reported, admin, settled,
                   dropped>>

\* The save raises: the flush goes on with the next beacon.
WriteRaises ==
    /\ CallsMayFail /\ ingest.pc = "write"
    /\ ingest' = Written
    /\ UNCHANGED <<registry, caches, readings, limits, position, reported, admin,
                   history>>

FlushDone ==
    /\ ingest.pc = "flush" /\ ingest.todo = {}
    /\ ingest' = NoIngest
    /\ UNCHANGED <<registry, caches, readings, limits, position, reported, admin,
                   history>>
-----------------------------------------------------------------------------
AdminStep == AdminInvalidates \/ AdminDrops

IngestStep ==
    \/ Fetch \/ BufferDone \/ Write \/ FlushDone
    \/ \E b \in Beacons : Buffer(b) \/ FlushSkips(b) \/ FlushUnknown(b)
                            \/ FlushHolds(b) \/ FlushDecides(b)

Next ==
    \/ Elapse \/ Restart \/ AdminStep \/ AdminDropFails
    \/ \E b \in Beacons : AdminSaves(b) \/ AdminDeletes(b) \/ NullReading(b)
    \/ \E a \in APs, heard \in SUBSET Beacons : Report(a, heard)
    \/ IngestStep \/ FetchRaises \/ WriteRaises

Spec == Init /\ [][Next]_vars

\* The clock runs, and what has begun is worked off.
Fairness == WF_vars(Elapse) /\ WF_vars(IngestStep) /\ WF_vars(AdminStep)

FairSpec == Spec /\ Fairness
-----------------------------------------------------------------------------
(* Properties.                                                              *)

\* A position is saved for whom the beacon belongs to, or belonged to within the
\* cache's time to live: an invalidation may be lost to a refresh under way, and
\* then only the expiry of the cache corrects it.
IdentityIsRecent ==
    ingest.pc = "write" =>
        \/ registry[ingest.beacon] = ingest.who
        \/ settled[ingest.beacon] <= CacheTTL

\* An approximate position does not replace a solve that this process saved less
\* than Hold ago, whichever of the person's beacons it comes from.
ExactStands ==
    [][\A p \in People : position[p] = "exact" /\ position'[p] = "approx"
          => solved[p] >= Hold]_vars

\* A person whose beacon is heard again and again gets positions again and again,
\* a held solve giving way to approximate ones ("should degrade, not freeze
\* permanently"), once calls no longer raise and solves find a solution.
Unsolved(b) == FlushDecides(b) /\ ingest'.pc # "write"
HeardIsPositioned ==
    \A b \in Beacons, p \in People :
        /\ <>[][/\ registry'[b] = p /\ ~Restart
                /\ ~FetchRaises /\ ~WriteRaises /\ ~Unsolved(b)]_vars
        /\ <>[](registry[b] = p)
        /\ []<><<Buffer(b)>>_vars
        => []<><<Write /\ ingest.who = p>>_vars

\* Not so, and listed in no run: (comment, beacon_service.py:72-74) "Drop the live
\* position too, or a deleted beacon's person keeps showing up in the dashboard's
\* Personnel list": once the delete is over and no report is being worked off, the
\* position is gone.  A report that looked the beacon up before saves it again after.
DeletedIsGone ==
    ingest = NoIngest => \A p \in dropped : position[p] = "none"
=============================================================================
