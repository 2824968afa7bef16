-------------------------- MODULE BeaconIngestProofs --------------------------
(***************************************************************************)
(* Proofs about BeaconIngest, for every value of its constants, and about  *)
(* the nodes of heard beacons (Sightings) and access points (Heartbeats).  *)
(***************************************************************************)
EXTENDS BeaconIngestMC, TLAPS

LEMMA OlderType ==
    ASSUME NEW cap \in Nat, NEW age \in 0..cap
    PROVE  Older(age, cap) \in 0..cap
BY DEF Older

\* What the records of a report look like in each of its three places.
Loop(pcs) ==
    [pc : pcs, ap : APs, todo : SUBSET Beacons, beacon : {NoOne}, who : {NoOne},
     kind : {"none"}]
Writing ==
    [pc : {"write"}, ap : APs, todo : SUBSET Beacons, beacon : Beacons,
     who : People, kind : {"exact", "approx"}]

LEMMA IngestType ==
    ASSUME TypeOK
    PROVE  /\ ingest = NoIngest \/ ingest \in Loop({"buffer", "flush"}) \/ ingest \in Writing
           /\ ingest.pc = "idle" <=> ingest = NoIngest
           /\ ingest.pc \in {"buffer", "flush"} => ingest \in Loop({"buffer", "flush"})
           /\ ingest.pc = "write" => ingest \in Writing
<1>1. ingest = NoIngest \/ ingest \in Loop({"buffer", "flush"}) \/ ingest \in Writing
  BY DEF TypeOK, Loop, Writing
<1>. QED  BY <1>1 DEF NoIngest, Loop, Writing

\* Working off an entry, and coming back from a write, stay in the loop.
LEMMA DoneType ==
    ASSUME TypeOK, NEW b, ingest.pc \in {"buffer", "flush"}
    PROVE  Done(b) \in Loop({ingest.pc}) /\ Done(b).todo = ingest.todo \ {b}
<1>1. ingest \in Loop({"buffer", "flush"})  BY IngestType
<1>. QED  BY <1>1 DEF Loop, Done

LEMMA WrittenType ==
    ASSUME TypeOK, ingest.pc = "write"
    PROVE  Written \in Loop({"flush"}) /\ Written.todo = ingest.todo
<1>1. ingest \in Writing  BY IngestType
<1>. QED  BY <1>1 DEF Writing, Loop, Written, NoIngest

LEMMA LoopIsTyped ==
    ASSUME NEW r, r \in Loop({"buffer"}) \/ r \in Loop({"flush"})
    PROVE  r \in Loop({"buffer", "flush"})
BY DEF Loop

\* A lookup leaves a cache of the right type, and finds a person or nobody.
LEMMA StoreType ==
    ASSUME TypeOK, StoreFetched
    PROVE  /\ cache' \in [of : Registry, age : 0..(CacheTTL + 1)]
           /\ fetched' \in Registry \cup {NoFetch}
BY NumbersAssumption DEF TypeOK, StoreFetched

LEMMA IdentityType ==
    ASSUME TypeOK, NEW b \in Beacons
    PROVE  IdentityOf(b) \in People \cup {NoOne}
BY DEF TypeOK, IdentityOf, Registry
-----------------------------------------------------------------------------
LEMMA TypeInit == Init => TypeOK
<1>. SUFFICES ASSUME Init PROVE TypeOK  OBVIOUS
<1>1. /\ readings \in [Beacons -> [APs -> 0..(BufferWindow + 1)]]
      /\ cache \in [of : Registry, age : 0..(CacheTTL + 1)]
      /\ lastEmit \in [Beacons -> 0..EmitInterval]
      /\ lastExact \in [People -> 0..Hold]
  BY NumbersAssumption DEF Init, Fresh, Registry
<1>2. settled \in [Beacons -> 0..(CacheTTL + 1)]  BY NumbersAssumption DEF Init
<1>. QED  BY <1>1, <1>2 DEF Init, TypeOK

LEMMA TypeNext == TypeOK /\ [Next]_vars => TypeOK'
<1>. SUFFICES ASSUME TypeOK, [Next]_vars PROVE TypeOK'  OBVIOUS
<1>0. CASE UNCHANGED vars
  BY <1>0 DEF vars, caches, limits, history, TypeOK
<1>1. CASE Elapse
  <2>0. CacheTTL + 1 \in Nat /\ BufferWindow + 1 \in Nat  BY NumbersAssumption
  <2>1. cache' \in [of : Registry, age : 0..(CacheTTL + 1)]
    <3>1. cache.age \in 0..(CacheTTL + 1)  BY DEF TypeOK
    <3>2. Older(cache.age, CacheTTL + 1) \in 0..(CacheTTL + 1)  BY <2>0, <3>1, OlderType
    <3>. QED  BY <1>1, <3>2 DEF Elapse, TypeOK
  <2>2. readings' \in [Beacons -> [APs -> 0..(BufferWindow + 1)]]
    <3>1. \A b \in Beacons, a \in APs :
             Older(readings[b][a], BufferWindow + 1) \in 0..(BufferWindow + 1)
      BY <2>0, OlderType DEF TypeOK
    <3>. QED  BY <1>1, <3>1 DEF Elapse
  <2>3. lastEmit' \in [Beacons -> 0..EmitInterval]
    BY <1>1, OlderType, NumbersAssumption DEF Elapse, TypeOK
  <2>4. lastExact' \in [People -> 0..Hold] /\ solved' \in [People -> 0..Hold]
    BY <1>1, OlderType, NumbersAssumption DEF Elapse, TypeOK
  <2>5. settled' \in [Beacons -> 0..(CacheTTL + 1)]
    BY <1>1, <2>0, OlderType DEF Elapse, TypeOK
  <2>6. /\ reported' = {}
        /\ UNCHANGED <<registry, fetched, position, ingest, admin, dropped>>
    BY <1>1 DEF Elapse
  <2>. QED  BY <2>1, <2>2, <2>3, <2>4, <2>5, <2>6 DEF TypeOK
<1>2. CASE Restart
  <2>1. /\ readings' \in [Beacons -> [APs -> 0..(BufferWindow + 1)]]
        /\ cache' \in [of : Registry, age : 0..(CacheTTL + 1)]
        /\ lastEmit' \in [Beacons -> 0..EmitInterval]
        /\ lastExact' \in [People -> 0..Hold] /\ solved' \in [People -> 0..Hold]
    BY <1>2, NumbersAssumption DEF Restart, Fresh, Registry
  <2>. QED  BY <1>2, <2>1 DEF Restart, TypeOK
<1>3. ASSUME NEW b \in Beacons, NEW p \in People \cup {NoOne}, Register(b, p)
      PROVE  /\ registry' \in Registry /\ dropped' \subseteq People
             /\ settled' \in [Beacons -> 0..(CacheTTL + 1)]
  BY <1>3, NumbersAssumption DEF Register, TypeOK, Registry
<1>4. ASSUME NEW b \in Beacons, AdminSaves(b) PROVE TypeOK'
  BY <1>3, <1>4 DEF AdminSaves, TypeOK, caches, limits
<1>5. ASSUME NEW b \in Beacons, AdminDeletes(b) PROVE TypeOK'
  <2>1. registry[b] \in People  BY <1>5 DEF AdminDeletes, TypeOK, Registry
  <2>. QED  BY <1>3, <1>5, <2>1 DEF AdminDeletes, TypeOK, caches, limits
<1>6. CASE AdminInvalidates
  <2>1. cache' \in [of : Registry, age : 0..(CacheTTL + 1)]
    BY <1>6, NumbersAssumption DEF AdminInvalidates, TypeOK
  <2>2. admin \in [pc : {"invalidate"}, who : People \cup {NoOne}]
    BY <1>6 DEF AdminInvalidates, TypeOK, NoAdmin
  <2>3. admin' \in {NoAdmin} \cup [pc : {"drop"}, who : People]
    BY <1>6, <2>2 DEF AdminInvalidates
  <2>. QED  BY <1>6, <2>1, <2>3 DEF AdminInvalidates, TypeOK, limits, history
<1>7. CASE AdminDrops
  <2>1. admin.who \in People  BY <1>7 DEF AdminDrops, TypeOK, NoAdmin
  <2>. QED  BY <1>7, <2>1 DEF AdminDrops, TypeOK, caches, limits
<1>8. CASE AdminDropFails
  BY <1>8 DEF AdminDropFails, TypeOK, caches, limits, history
<1>9. ASSUME NEW a \in APs, NEW heard \in SUBSET Beacons, Report(a, heard) PROVE TypeOK'
  <2>1. ingest' \in Loop({"buffer", "flush"})
    BY <1>9 DEF Report, Loop, NoIngest
  <2>. QED  BY <1>9, <2>1 DEF Report, TypeOK, Loop, caches, limits, history
<1>10. CASE Fetch
  BY <1>10 DEF Fetch, TypeOK, limits, history
<1>11. CASE FetchRaises
  BY <1>11 DEF FetchRaises, TypeOK, caches, limits, history
<1>12. ASSUME NEW b \in Beacons, Buffer(b) PROVE TypeOK'
  <2>1. ingest' \in Loop({"buffer", "flush"})
    BY <1>12, DoneType, LoopIsTyped DEF Buffer
  <2>2. ingest.ap \in APs  BY <1>12, IngestType DEF Buffer, Loop
  <2>3. readings' \in [Beacons -> [APs -> 0..(BufferWindow + 1)]]
    BY <1>12, <2>2, NumbersAssumption DEF Buffer, TypeOK
  <2>. QED  BY <1>12, <2>1, <2>3, StoreType DEF Buffer, TypeOK, Loop, limits, history
<1>13. ASSUME NEW b \in Beacons, NullReading(b) PROVE TypeOK'
  <2>1. ingest' \in Loop({"buffer", "flush"})
    BY <1>13, DoneType, LoopIsTyped DEF NullReading
  <2>. QED  BY <1>13, <2>1, StoreType DEF NullReading, TypeOK, Loop, limits, history
<1>14. CASE BufferDone
  <2>1. ingest \in Loop({"buffer", "flush"})  BY <1>14, IngestType DEF BufferDone
  <2>2. ingest' \in Loop({"buffer", "flush"})  BY <1>14, <2>1 DEF BufferDone, Loop
  <2>. QED  BY <1>14, <2>2 DEF BufferDone, TypeOK, Loop, caches, limits, history
<1>15. ASSUME NEW b \in Beacons, FlushSkips(b) PROVE TypeOK'
  <2>1. ingest' \in Loop({"buffer", "flush"})
    BY <1>15, DoneType, LoopIsTyped DEF FlushSkips
  <2>. QED  BY <1>15, <2>1 DEF FlushSkips, TypeOK, Loop, caches, limits, history
<1>16. ASSUME NEW b \in Beacons, FlushUnknown(b) PROVE TypeOK'
  <2>1. ingest' \in Loop({"buffer", "flush"})
    BY <1>16, DoneType, LoopIsTyped DEF FlushUnknown
  <2>. QED  BY <1>16, <2>1, StoreType DEF FlushUnknown, TypeOK, Loop, limits, history
<1>17. ASSUME NEW b \in Beacons, Stamp(b) PROVE lastEmit' \in [Beacons -> 0..EmitInterval]
  BY <1>17, NumbersAssumption DEF Stamp, TypeOK
<1>18. ASSUME NEW b \in Beacons, FlushHolds(b) PROVE TypeOK'
  <2>1. ingest' \in Loop({"buffer", "flush"})
    BY <1>18, DoneType, LoopIsTyped DEF FlushHolds
  <2>. QED  BY <1>17, <1>18, <2>1, StoreType DEF FlushHolds, TypeOK, Loop
<1>19. ASSUME NEW b \in Beacons, FlushDecides(b) PROVE TypeOK'
  <2>1. ingest \in Loop({"buffer", "flush"})
    BY <1>19, IngestType DEF FlushDecides
  <2>0. ingest.pc = "flush"  BY <1>19 DEF FlushDecides
  <2>2. IdentityOf(b) \in People  BY <1>19, IdentityType DEF FlushDecides
  <2>3. ingest' \in Loop({"buffer", "flush"}) \cup Writing
    <3>1. CASE ingest' = Done(b)  BY <2>0, <3>1, DoneType, LoopIsTyped
    <3>2. ASSUME NEW kind \in {"exact", "approx"},
                 ingest' = [ingest EXCEPT !.pc = "write", !.todo = @ \ {b}, !.beacon = b,
                                !.who = IdentityOf(b), !.kind = kind]
          PROVE  ingest' \in Writing
      BY <2>1, <2>2, <3>2 DEF Loop, Writing
    <3>. QED  BY <1>19, <3>1, <3>2 DEF FlushDecides, Anchor, Solve
  <2>4. lastExact' \in [People -> 0..Hold]
    <3>1. lastExact' = lastExact \/ lastExact' = [lastExact EXCEPT ![IdentityOf(b)] = 0]
      BY <1>19 DEF FlushDecides
    <3>. QED  BY <2>2, <3>1, NumbersAssumption DEF TypeOK
  <2>5. /\ Stamp(b) /\ StoreFetched
        /\ UNCHANGED <<registry, readings, position, reported, admin, settled, solved,
                       dropped>>
    BY <1>19 DEF FlushDecides
  <2>. QED  BY <1>17, <2>3, <2>4, <2>5, StoreType DEF TypeOK, Loop, Writing
<1>20. CASE Write
  <2>1. ingest \in Writing  BY <1>20, IngestType DEF Write
  <2>2. ingest' \in Loop({"buffer", "flush"})
    BY <1>20, WrittenType, LoopIsTyped DEF Write
  <2>3. position' \in [People -> {"none", "exact", "approx"}]
    BY <1>20, <2>1 DEF Write, Writing, TypeOK
  <2>4. solved' \in [People -> 0..Hold]
    BY <1>20, <2>1, NumbersAssumption DEF Write, Writing, TypeOK
  <2>. QED  BY <1>20, <2>2, <2>3, <2>4 DEF Write, TypeOK, Loop, caches, limits
<1>21. CASE WriteRaises
  <2>1. ingest' \in Loop({"buffer", "flush"})
    BY <1>21, WrittenType, LoopIsTyped DEF WriteRaises
  <2>. QED  BY <1>21, <2>1 DEF WriteRaises, TypeOK, Loop, caches, limits, history
<1>22. CASE FlushDone
  BY <1>22 DEF FlushDone, TypeOK, caches, limits, history
<1>. QED
  BY <1>0, <1>1, <1>2, <1>4, <1>5, <1>6, <1>7, <1>8, <1>9, <1>10, <1>11, <1>12, <1>13,
     <1>14, <1>15, <1>16, <1>18, <1>19, <1>20, <1>21, <1>22
  DEF Next, AdminStep, IngestStep

\* The ingest's state keeps its type.
THEOREM TypeCorrect == Spec => []TypeOK
<1>. QED  BY TypeInit, TypeNext, PTL DEF Spec
-----------------------------------------------------------------------------
(* Identities.  A live cache differs from the registry only in beacons that *)
(* were changed since it was read; what a refresh holds, only in beacons    *)
(* changed in this unit of time, and it is held only while someone is to be *)
(* looked up.                                                               *)

CacheIsRecent ==
    cache.age <= CacheTTL =>
        \A b \in Beacons : cache.of[b] = registry[b] \/ settled[b] <= cache.age
FetchedIsRecent ==
    fetched # NoFetch => \A b \in Beacons : fetched[b] = registry[b] \/ settled[b] = 0
FetchedIsWanted == fetched # NoFetch => \E b \in Beacons : LooksUp(b)
CacheInv == CacheIsRecent /\ FetchedIsRecent /\ FetchedIsWanted /\ IdentityIsRecent

\* A lookup finds whom the beacon belongs, or recently belonged, to.
LEMMA LookupIsRecent ==
    ASSUME TypeOK, CacheInv, Resolved, NEW b \in Beacons
    PROVE  IdentityOf(b) = registry[b] \/ settled[b] <= CacheTTL
<1>1. CASE fetched # NoFetch
  BY <1>1, NumbersAssumption DEF IdentityOf, CacheInv, FetchedIsRecent
<1>2. CASE fetched = NoFetch
  <2>1. cache.age <= CacheTTL
    BY <1>2, NumbersAssumption DEF Resolved, Expired, TypeOK
  <2>2. cache.of[b] = registry[b] \/ settled[b] <= cache.age
    BY <2>1 DEF CacheInv, CacheIsRecent
  <2>3. cache.age \in Nat /\ settled[b] \in Nat  BY NumbersAssumption DEF TypeOK
  <2>. QED  BY <1>2, <2>1, <2>2, <2>3, NumbersAssumption DEF IdentityOf
<1>. QED  BY <1>1, <1>2

\* Storing what was fetched keeps the cache recent.
LEMMA StoreIsRecent ==
    ASSUME TypeOK, CacheInv, StoreFetched, UNCHANGED <<registry, settled>>
    PROVE  CacheIsRecent' /\ FetchedIsRecent' /\ FetchedIsWanted'
<1>1. fetched' = NoFetch  BY DEF StoreFetched
<1>2. CASE fetched = NoFetch
  BY <1>1, <1>2 DEF StoreFetched, CacheInv, CacheIsRecent, FetchedIsRecent, FetchedIsWanted
<1>3. CASE fetched # NoFetch
  <2>1. cache' = [of |-> fetched, age |-> 0]  BY <1>3 DEF StoreFetched
  <2>2. \A b \in Beacons : fetched[b] = registry[b] \/ settled[b] = 0
    BY <1>3 DEF CacheInv, FetchedIsRecent
  <2>. QED  BY <1>1, <2>1, <2>2 DEF CacheIsRecent, FetchedIsRecent, FetchedIsWanted
<1>. QED  BY <1>2, <1>3

\* A change of the registry starts the clock of the beacon it changes.
LEMMA RegisterIsRecent ==
    ASSUME TypeOK, CacheInv, NEW b \in Beacons, NEW p \in People \cup {NoOne},
           Register(b, p), UNCHANGED <<cache, fetched, ingest, readings, lastEmit>>
    PROVE  CacheInv'
<1>1. /\ \A c \in Beacons \ {b} : registry'[c] = registry[c] /\ settled'[c] = settled[c]
      /\ settled'[b] = 0
  BY DEF Register, TypeOK, Registry
<1>2. CacheIsRecent'
  <2>1. cache.age \in Nat  BY NumbersAssumption DEF TypeOK
  <2>. QED  BY <1>1, <2>1 DEF CacheInv, CacheIsRecent
<1>3. FetchedIsRecent'  BY <1>1 DEF CacheInv, FetchedIsRecent
<1>4. FetchedIsWanted'
  BY DEF CacheInv, FetchedIsWanted, LooksUp, Ready, FreshAPs
<1>5. IdentityIsRecent'
  <2>1. ingest.pc = "write" => ingest.beacon \in Beacons  BY IngestType DEF Writing
  <2>. QED  BY <1>1, <2>1, NumbersAssumption DEF CacheInv, IdentityIsRecent
<1>. QED  BY <1>2, <1>3, <1>4, <1>5 DEF CacheInv

LEMMA CacheInvInit == Init => CacheInv
<1>. SUFFICES ASSUME Init PROVE CacheInv  OBVIOUS
<1>1. cache.age = CacheTTL + 1 /\ fetched = NoFetch  BY DEF Init, Fresh
<1>2. ingest.pc = "idle"  BY DEF Init, NoIngest
<1>. QED
  BY <1>1, <1>2, NumbersAssumption
  DEF CacheInv, CacheIsRecent, FetchedIsRecent, FetchedIsWanted, IdentityIsRecent

LEMMA CacheInvNext == TypeOK /\ CacheInv /\ [Next]_vars => CacheInv'
<1>. SUFFICES ASSUME TypeOK, CacheInv, [Next]_vars PROVE CacheInv'  OBVIOUS
<1>. USE DEF CacheInv
<1>0. ASSUME UNCHANGED <<registry, cache, fetched, settled>>
      PROVE  CacheIsRecent' /\ FetchedIsRecent'
  BY <1>0 DEF CacheIsRecent, FetchedIsRecent
<1>1. ASSUME UNCHANGED <<ingest, fetched, readings, lastEmit>> PROVE FetchedIsWanted'
  BY <1>1 DEF FetchedIsWanted, LooksUp, Ready, FreshAPs
<1>2. ASSUME UNCHANGED <<ingest, registry, settled>> PROVE IdentityIsRecent'
  BY <1>2 DEF IdentityIsRecent
<1>3. ASSUME ingest'.pc # "write" PROVE IdentityIsRecent'
  BY <1>3 DEF IdentityIsRecent
<1>4. ASSUME ingest.pc \notin {"buffer", "flush"} PROVE fetched = NoFetch
  BY <1>4 DEF FetchedIsWanted, LooksUp
<1>5. ASSUME fetched' = NoFetch PROVE FetchedIsRecent' /\ FetchedIsWanted'
  BY <1>5 DEF FetchedIsRecent, FetchedIsWanted
<1>6. CASE UNCHANGED vars
  BY <1>0, <1>1, <1>2, <1>6 DEF vars, caches, limits, history
<1>7. CASE Elapse
  <2>1. ingest' = NoIngest /\ fetched' = fetched /\ registry' = registry  BY <1>7 DEF Elapse
  <2>2. fetched' = NoFetch  BY <1>4, <1>7, <2>1 DEF NoIngest, Elapse
  <2>3. CacheIsRecent'
    <3>1. cache'.of = cache.of /\ cache'.age = Older(cache.age, CacheTTL + 1)
      BY <1>7 DEF Elapse, TypeOK
    <3>2. \A b \in Beacons : settled'[b] = Older(settled[b], CacheTTL + 1)
      BY <1>7 DEF Elapse
    <3>3. cache.age \in Nat /\ \A b \in Beacons : settled[b] \in Nat
      BY NumbersAssumption DEF TypeOK
    <3>4. SUFFICES ASSUME cache'.age <= CacheTTL, NEW b \in Beacons
                   PROVE  cache'.of[b] = registry'[b] \/ settled'[b] <= cache'.age
      BY DEF CacheIsRecent
    <3>5. cache'.age = cache.age + 1 /\ cache.age <= CacheTTL
      BY <3>1, <3>3, <3>4, NumbersAssumption DEF Older
    <3>6. settled'[b] <= settled[b] + 1
      BY <3>2, <3>3, NumbersAssumption DEF Older
    <3>7. settled'[b] \in Nat  BY <3>2, <3>3, NumbersAssumption DEF Older
    <3>8. cache.of[b] = registry[b] \/ settled[b] <= cache.age  BY <3>5 DEF CacheIsRecent
    <3>. QED  BY <2>1, <3>1, <3>3, <3>5, <3>6, <3>7, <3>8
  <2>. QED  BY <1>3, <1>5, <2>1, <2>2, <2>3 DEF NoIngest
<1>8. CASE Restart
  <2>1. cache'.age = CacheTTL + 1 /\ fetched' = NoFetch /\ ingest' = NoIngest
    BY <1>8 DEF Restart, Fresh
  <2>. QED  BY <1>3, <1>5, <2>1, NumbersAssumption DEF CacheIsRecent, NoIngest
<1>9. ASSUME NEW b \in Beacons, AdminSaves(b) PROVE CacheInv'
  BY <1>9, RegisterIsRecent DEF AdminSaves, caches, limits
<1>10. ASSUME NEW b \in Beacons, AdminDeletes(b) PROVE CacheInv'
  BY <1>10, RegisterIsRecent DEF AdminDeletes, caches, limits
<1>11. CASE AdminInvalidates
  <2>1. cache'.age = CacheTTL + 1  BY <1>11 DEF AdminInvalidates, TypeOK
  <2>2. UNCHANGED <<registry, settled, fetched, ingest, readings, lastEmit>>
    BY <1>11 DEF AdminInvalidates, limits, history
  <2>3. CacheIsRecent'  BY <2>1, NumbersAssumption DEF CacheIsRecent
  <2>4. FetchedIsRecent'  BY <2>2 DEF FetchedIsRecent
  <2>. QED  BY <1>1, <1>2, <2>2, <2>3, <2>4
<1>12. CASE AdminDrops
  BY <1>0, <1>1, <1>2, <1>12 DEF AdminDrops, caches, limits
<1>13. CASE AdminDropFails
  BY <1>0, <1>1, <1>2, <1>13 DEF AdminDropFails, caches, limits, history
<1>14. ASSUME NEW a \in APs, NEW heard \in SUBSET Beacons, Report(a, heard) PROVE CacheInv'
  <2>1. ingest'.pc = "buffer"  BY <1>14 DEF Report, NoIngest
  <2>2. fetched' = NoFetch  BY <1>4, <1>14 DEF Report, NoIngest, caches
  <2>. QED  BY <1>0, <1>3, <1>5, <1>14, <2>1, <2>2 DEF Report, caches, history
<1>15. CASE Fetch
  <2>1. \A b \in Beacons : fetched'[b] = registry'[b]  BY <1>15 DEF Fetch
  <2>2. UNCHANGED <<registry, cache, settled, ingest, readings, lastEmit>>
    BY <1>15 DEF Fetch, limits, history
  <2>3. FetchedIsWanted'
    BY <1>15, <2>2 DEF Fetch, FetchedIsWanted, LooksUp, Ready, FreshAPs
  <2>4. CacheIsRecent'  BY <2>2 DEF CacheIsRecent
  <2>. QED  BY <1>2, <2>1, <2>2, <2>3, <2>4 DEF FetchedIsRecent
<1>16. CASE FetchRaises
  <2>1. fetched' = NoFetch  BY <1>16 DEF FetchRaises, Resolved, caches
  <2>2. ingest'.pc # "write"  BY <1>16 DEF FetchRaises, NoIngest
  <2>. QED  BY <1>0, <1>3, <1>5, <1>16, <2>1, <2>2 DEF FetchRaises, caches, history
<1>17. ASSUME NEW b \in Beacons, StoreFetched, UNCHANGED <<registry, settled>>,
              ingest.pc \in {"buffer", "flush"}, ingest' = Done(b)
       PROVE  CacheInv'
  <2>1. ingest'.pc # "write"  BY <1>17, DoneType DEF Loop
  <2>. QED  BY <1>3, <1>17, <2>1, StoreIsRecent
<1>18. ASSUME NEW b \in Beacons, Buffer(b) PROVE CacheInv'
  BY <1>17, <1>18 DEF Buffer, history
<1>19. ASSUME NEW b \in Beacons, NullReading(b) PROVE CacheInv'
  BY <1>17, <1>19 DEF NullReading, history
<1>20. CASE BufferDone
  <2>1. ingest \in Loop({"buffer", "flush"})  BY <1>20, IngestType DEF BufferDone
  <2>2. fetched' = NoFetch  BY <1>20 DEF BufferDone, FetchedIsWanted, LooksUp, caches
  <2>3. ingest'.pc = "flush"  BY <1>20, <2>1 DEF BufferDone, Loop
  <2>. QED  BY <1>0, <1>3, <1>5, <1>20, <2>2, <2>3 DEF BufferDone, caches, history
<1>21. ASSUME NEW b \in Beacons, FlushSkips(b) PROVE CacheInv'
  <2>1. ingest'.pc = "flush" /\ ingest'.todo = ingest.todo \ {b}
    BY <1>21, DoneType DEF FlushSkips, Loop
  <2>2. FetchedIsWanted'
    <3>1. SUFFICES ASSUME fetched # NoFetch PROVE \E c \in Beacons : LooksUp(c)'
      BY <1>21 DEF FlushSkips, FetchedIsWanted, caches
    <3>2. PICK c \in Beacons : LooksUp(c)  BY <3>1 DEF FetchedIsWanted
    <3>3. Ready(c) /\ c # b  BY <1>21, <3>2 DEF FlushSkips, LooksUp
    <3>4. Ready(c)'  BY <1>21, <3>3 DEF FlushSkips, Ready, FreshAPs, limits
    <3>. QED  BY <2>1, <3>2, <3>3, <3>4 DEF LooksUp
  <2>. QED  BY <1>0, <1>3, <1>21, <2>1, <2>2 DEF FlushSkips, caches, history
<1>22. ASSUME NEW b \in Beacons, FlushUnknown(b) PROVE CacheInv'
  BY <1>17, <1>22 DEF FlushUnknown, history
<1>23. ASSUME NEW b \in Beacons, FlushHolds(b) PROVE CacheInv'
  BY <1>17, <1>23 DEF FlushHolds
<1>24. ASSUME NEW b \in Beacons, FlushDecides(b) PROVE CacheInv'
  <2>0. /\ ingest.pc = "flush" /\ Resolved /\ StoreFetched
        /\ UNCHANGED <<registry, settled>>
    BY <1>24 DEF FlushDecides
  <2>1. CASE ingest' = Done(b)  BY <1>17, <2>0, <2>1
  <2>2. ASSUME ingest'.beacon = b, ingest'.who = IdentityOf(b) PROVE CacheInv'
    <3>1. IdentityIsRecent'  BY <2>0, <2>2, LookupIsRecent DEF IdentityIsRecent
    <3>. QED  BY <2>0, <3>1, StoreIsRecent
  <2>3. ASSUME NEW kind,
               ingest' = [ingest EXCEPT !.pc = "write", !.todo = @ \ {b}, !.beacon = b,
                              !.who = IdentityOf(b), !.kind = kind]
        PROVE  ingest'.beacon = b /\ ingest'.who = IdentityOf(b)
    <3>1. ingest \in Loop({"buffer", "flush"})  BY <2>0, IngestType
    <3>. QED  BY <2>3, <3>1 DEF Loop
  <2>4. \/ ingest' = Done(b)
        \/ \E kind :
              ingest' = [ingest EXCEPT !.pc = "write", !.todo = @ \ {b}, !.beacon = b,
                              !.who = IdentityOf(b), !.kind = kind]
    BY <1>24 DEF FlushDecides
  <2>. QED  BY <2>1, <2>2, <2>3, <2>4
<1>25. CASE Write
  <2>1. ingest'.pc = "flush"  BY <1>25, WrittenType DEF Write, Loop
  <2>2. fetched' = NoFetch  BY <1>4, <1>25 DEF Write, caches
  <2>. QED  BY <1>0, <1>3, <1>5, <1>25, <2>1, <2>2 DEF Write, caches
<1>26. CASE WriteRaises
  <2>1. ingest'.pc = "flush"  BY <1>26, WrittenType DEF WriteRaises, Loop
  <2>2. fetched' = NoFetch  BY <1>4, <1>26 DEF WriteRaises, caches
  <2>. QED  BY <1>0, <1>3, <1>5, <1>26, <2>1, <2>2 DEF WriteRaises, caches, history
<1>27. CASE FlushDone
  <2>1. fetched' = NoFetch  BY <1>27 DEF FlushDone, FetchedIsWanted, LooksUp, caches
  <2>. QED  BY <1>0, <1>3, <1>5, <1>27, <2>1 DEF FlushDone, NoIngest, caches, history
<1>. QED
  BY <1>6, <1>7, <1>8, <1>9, <1>10, <1>11, <1>12, <1>13, <1>14, <1>15, <1>16, <1>18,
     <1>19, <1>20, <1>21, <1>22, <1>23, <1>24, <1>25, <1>26, <1>27
  DEF Next, AdminStep, IngestStep

\* A position is never saved for someone the beacon ceased to belong to longer
\* ago than the cache lives, although invalidations are lost to refreshes.
THEOREM RecentIdentity == Spec => []IdentityIsRecent
<1>1. Init => TypeOK /\ CacheInv  BY TypeInit, CacheInvInit
<1>2. TypeOK /\ CacheInv /\ [Next]_vars => (TypeOK /\ CacheInv)'
  BY TypeNext, CacheInvNext
<1>3. TypeOK /\ CacheInv => IdentityIsRecent  BY DEF CacheInv
<1>. QED  BY <1>1, <1>2, <1>3, PTL DEF Spec
-----------------------------------------------------------------------------
(* Holding.  The service's own clock of a person's last solve never runs    *)
(* behind the time since a solve was saved, and a write under way agrees    *)
(* with it.                                                                 *)

SolveInv ==
    /\ \A p \in People : lastExact[p] <= solved[p]
    /\ ingest.pc = "write" =>
         lastExact[ingest.who] = IF ingest.kind = "exact" THEN 0 ELSE Hold

LEMMA SolveInvInit == Init => SolveInv
BY NumbersAssumption DEF Init, Fresh, SolveInv, NoIngest

LEMMA SolveInvNext == TypeOK /\ SolveInv /\ [Next]_vars => SolveInv'
<1>. SUFFICES ASSUME TypeOK, SolveInv, [Next]_vars PROVE SolveInv'  OBVIOUS
<1>0. lastExact \in [People -> Nat] /\ solved \in [People -> Nat]
  BY NumbersAssumption DEF TypeOK
<1>1. ASSUME UNCHANGED <<lastExact, solved>>, ingest' = ingest \/ ingest'.pc # "write"
      PROVE  SolveInv'
  BY <1>1 DEF SolveInv
<1>2. CASE UNCHANGED vars  BY <1>1, <1>2 DEF vars, limits, history
<1>3. CASE Elapse
  <2>1. \A p \in People : Older(lastExact[p], Hold) <= Older(solved[p], Hold)
    <3>1. \A p \in People : lastExact[p] \in 0..Hold /\ solved[p] \in 0..Hold
      BY DEF TypeOK
    <3>. QED  BY <3>1, NumbersAssumption DEF SolveInv, Older
  <2>. QED  BY <1>3, <2>1 DEF Elapse, SolveInv, NoIngest
<1>4. CASE Restart
  BY <1>4, NumbersAssumption DEF Restart, Fresh, SolveInv, NoIngest
<1>5. ASSUME NEW b \in Beacons, AdminSaves(b) \/ AdminDeletes(b) PROVE SolveInv'
  BY <1>1, <1>5 DEF AdminSaves, AdminDeletes, limits
<1>6. CASE AdminInvalidates \/ AdminDrops \/ AdminDropFails
  BY <1>1, <1>6 DEF AdminInvalidates, AdminDrops, AdminDropFails, limits, history
<1>7. ASSUME NEW a \in APs, NEW heard \in SUBSET Beacons, Report(a, heard) PROVE SolveInv'
  BY <1>1, <1>7 DEF Report, NoIngest, limits, history
<1>8. CASE Fetch \/ FetchRaises \/ FlushDone
  BY <1>1, <1>8 DEF Fetch, FetchRaises, FlushDone, NoIngest, limits, history
<1>9. ASSUME NEW b \in Beacons,
             Buffer(b) \/ NullReading(b) \/ FlushSkips(b) \/ FlushUnknown(b) \/ FlushHolds(b)
      PROVE  SolveInv'
  <2>1. ingest.pc \in {"buffer", "flush"} /\ ingest' = Done(b)
    BY <1>9 DEF Buffer, NullReading, FlushSkips, FlushUnknown, FlushHolds
  <2>2. ingest'.pc # "write"  BY <2>1, DoneType DEF Loop
  <2>3. UNCHANGED <<lastExact, solved>>
    BY <1>9 DEF Buffer, NullReading, FlushSkips, FlushUnknown, FlushHolds, limits, history
  <2>. QED  BY <1>1, <2>2, <2>3
<1>10. CASE BufferDone
  <2>1. ingest'.pc # "write"  BY <1>10, IngestType DEF BufferDone, Loop
  <2>. QED  BY <1>1, <1>10, <2>1 DEF BufferDone, limits, history
<1>11. ASSUME NEW b \in Beacons, FlushDecides(b) PROVE SolveInv'
  <2>0. ingest.pc = "flush" /\ solved' = solved  BY <1>11 DEF FlushDecides
  <2>1. CASE ingest' = Done(b) /\ lastExact' = lastExact
    BY <1>1, <2>0, <2>1, DoneType DEF Loop
  <2>2. DEFINE kind == IF Few(b) THEN "approx" ELSE "exact"
  <2>3. CASE /\ ingest' = [ingest EXCEPT !.pc = "write", !.todo = @ \ {b}, !.beacon = b,
                                 !.who = IdentityOf(b), !.kind = kind]
             /\ lastExact' = IF kind = "exact" THEN [lastExact EXCEPT ![IdentityOf(b)] = 0]
                             ELSE lastExact
    <3>1. IdentityOf(b) \in People  BY <1>11, IdentityType DEF FlushDecides
    <3>2. ingest'.who = IdentityOf(b) /\ ingest'.kind = kind
      <4>1. ingest \in Loop({"buffer", "flush"})  BY <2>0, IngestType
      <4>. QED  BY <2>3, <4>1 DEF Loop
    <3>3. CASE Few(b)
      <4>1. lastExact[IdentityOf(b)] \in 0..Hold  BY <3>1 DEF TypeOK
      <4>2. ~HadRecentExactSolve(IdentityOf(b))  BY <1>11, <3>3 DEF FlushDecides
      <4>3. lastExact[IdentityOf(b)] = Hold
        BY <4>1, <4>2, NumbersAssumption DEF HadRecentExactSolve
      <4>. QED  BY <2>0, <2>3, <3>2, <3>3, <4>3 DEF SolveInv
    <3>4. CASE ~Few(b)
      <4>1. lastExact' = [lastExact EXCEPT ![IdentityOf(b)] = 0]  BY <2>3, <3>4
      <4>2. \A p \in People : lastExact'[p] <= solved[p]
        BY <1>0, <3>1, <4>1 DEF SolveInv
      <4>3. lastExact'[IdentityOf(b)] = 0  BY <1>0, <3>1, <4>1
      <4>. QED  BY <2>0, <3>2, <3>4, <4>2, <4>3 DEF SolveInv
    <3>. QED  BY <3>3, <3>4
  <2>. QED  BY <1>11, <2>1, <2>3 DEF FlushDecides, Anchor, Solve
<1>12. CASE Write
  <2>1. ingest \in Writing  BY <1>12, IngestType DEF Write
  <2>2. ingest'.pc # "write"  BY <1>12, WrittenType DEF Write, Loop
  <2>3. lastExact' = lastExact  BY <1>12 DEF Write, limits
  <2>4. \A p \in People : lastExact[p] <= solved'[p]
    BY <1>0, <1>12, <2>1 DEF Write, SolveInv, Writing
  <2>. QED  BY <2>2, <2>3, <2>4 DEF SolveInv
<1>13. CASE WriteRaises
  <2>1. ingest'.pc # "write"  BY <1>13, WrittenType DEF WriteRaises, Loop
  <2>. QED  BY <1>1, <1>13, <2>1 DEF WriteRaises, limits, history
<1>. QED
  BY <1>2, <1>3, <1>4, <1>5, <1>6, <1>7, <1>8, <1>9, <1>10, <1>11, <1>12, <1>13
  DEF Next, AdminStep, IngestStep

\* An approximate position never replaces a solve this process saved less than
\* Hold ago.
THEOREM ExactIsHeld == Spec => ExactStands
<1>1. Init => TypeOK /\ SolveInv  BY TypeInit, SolveInvInit
<1>2. TypeOK /\ SolveInv /\ [Next]_vars => (TypeOK /\ SolveInv)'
  BY TypeNext, SolveInvNext
<1>3. TypeOK /\ SolveInv /\ [Next]_vars =>
        [\A p \in People : position[p] = "exact" /\ position'[p] = "approx"
            => solved[p] >= Hold]_vars
  <2>. SUFFICES ASSUME TypeOK, SolveInv, Next, NEW p \in People,
                       position[p] = "exact", position'[p] = "approx"
                PROVE  solved[p] >= Hold
    BY DEF vars
  <2>1. position' # position  OBVIOUS
  <2>2. Write \/ AdminDrops
    BY <2>1 DEF Next, AdminStep, IngestStep, Elapse, Restart, AdminInvalidates,
       AdminDropFails, AdminSaves, AdminDeletes, NullReading, Report, Fetch, BufferDone,
       FlushDone, Buffer, FlushSkips, FlushUnknown, FlushHolds, FlushDecides, FetchRaises,
       WriteRaises
  <2>3. CASE AdminDrops
    <3>1. position'[p] \in {"none", position[p]}  BY <2>3 DEF AdminDrops, TypeOK
    <3>. QED  BY <3>1
  <2>4. CASE Write
    <3>1. ingest.who = p /\ ingest.kind = "approx"  BY <2>4 DEF Write, TypeOK
    <3>2. lastExact[p] = Hold  BY <2>4, <3>1 DEF SolveInv, Write
    <3>3. solved[p] \in Nat  BY NumbersAssumption DEF TypeOK
    <3>. QED  BY <3>2, <3>3, NumbersAssumption DEF SolveInv
  <2>. QED  BY <2>2, <2>3, <2>4
<1>. QED  BY <1>1, <1>2, <1>3, PTL DEF Spec, ExactStands
--------------------------------------------------------------------------------
(* The nodes of heard beacons and access points (Sightings and Heartbeats, *)
(* parts "scans" and "beats").  Of the first, v1 is registry,              *)
(* v2 cache, v3 fetched, v4 node, v5 since, v6 report, v7 admin,           *)
(* v8 settled, v9 known and v10 failed.                                    *)

\* What the cache and a refresh under way hold of a registration that has stood since.
CacheAgrees ==
    /\ v3 # None =>
          /\ v6.pc = "entries" /\ v6.todo # {}
          /\ \A k \in Keys : v8[k] > 0 => (k \in v3 <=> k \in v1)
    /\ v2.age <= TTL =>
          \A k \in Keys : v8[k] > v2.age => (k \in v2.of <=> k \in v1)

\* A stranger's node is no older than the limit and the time since the sweep, or the
\* sweep is about to delete it.
SweptSince ==
    /\ v6.pc = "sweep" => v5 = 0 /\ ~v10
    /\ v6.pc = "entries" => v5 <= Every
    /\ ~v10 => \A k \in Keys : v4[k] # None /\ ~v4[k].registered =>
          v4[k].age <= Keep + v5 \/ (v6.pc = "sweep" /\ k \in v6.todo)

ScansInv ==
    /\ Scans!TypeOK /\ Scans!FlagIsHonest /\ Scans!SparesKnown
    /\ CacheAgrees /\ SweptSince

LEMMA ScansInit ==
    ASSUME TTL \in Nat, Keep \in Nat, Every \in Nat, Scans!Init
    PROVE  ScansInv
<1>. USE DEF Scans!Init, Scans!Fresh, Scans!Idle
<1>1. Scans!TypeOK
  <2>1. v2 \in [of : SUBSET Keys, age : 0..(TTL + 1)] /\ v5 \in 0..(Every + 1)  OBVIOUS
  <2>2. v6 \in [pc : {"idle", "sweep", "entries"}, todo : SUBSET Keys]  OBVIOUS
  <2>3. v8 \in [Keys -> 0..(TTL + 1)]  OBVIOUS
  <2>. QED  BY <2>1, <2>2, <2>3 DEF Scans!TypeOK
<1>2. Scans!FlagIsHonest /\ Scans!SparesKnown
  BY DEF Scans!FlagIsHonest, Scans!SparesKnown
<1>3. CacheAgrees  BY DEF CacheAgrees
<1>4. SweptSince  BY DEF SweptSince
<1>. QED  BY <1>1, <1>2, <1>3, <1>4 DEF ScansInv

LEMMA ScansTimes ==
    ASSUME TTL \in Nat, Keep \in Nat, Every \in Nat, ScansInv, Scans!Elapse
    PROVE  ScansInv'
<1>. USE DEF ScansInv, Scans!TypeOK, Scans!Oldest, Scans!Elapse, Scans!Idle,
             Scans!Older
<1>1. Scans!TypeOK'  OBVIOUS
<1>2. Scans!FlagIsHonest' /\ Scans!SparesKnown'
  BY DEF Scans!FlagIsHonest, Scans!SparesKnown
<1>3. CacheAgrees'  BY DEF CacheAgrees
<1>4. SweptSince'  BY DEF SweptSince
<1>. QED  BY <1>1, <1>2, <1>3, <1>4

LEMMA ScansStep ==
    ASSUME TTL \in Nat, Keep \in Nat, Every \in Nat, ScansInv, Scans!Next
    PROVE  ScansInv'
<1>. USE DEF ScansInv, Scans!TypeOK, Scans!FlagIsHonest, Scans!SparesKnown,
             CacheAgrees, SweptSince, Scans!Idle
<1>1. CASE Scans!Elapse  BY <1>1, ScansTimes
<1>2. CASE Scans!Restart
  BY <1>2 DEF Scans!Restart, Scans!Fresh, Scans!Oldest
<1>3. CASE Scans!AdminInvalidates
  BY <1>3 DEF Scans!AdminInvalidates, Scans!nodes
<1>4. ASSUME NEW k \in Keys, Scans!CreateBeacon(k) \/ Scans!DeleteBeacon(k)
      PROVE  ScansInv'
  BY <1>4 DEF Scans!CreateBeacon, Scans!DeleteBeacon, Scans!Registers,
              Scans!caches, Scans!nodes
<1>5. ASSUME NEW k \in Keys, Scans!SweepDeletes(k)  PROVE ScansInv'
  BY <1>5 DEF Scans!SweepDeletes, Scans!caches
<1>6. ASSUME NEW k \in Keys, Scans!Resolves(k)
      PROVE  /\ CacheAgrees'
             /\ v6.pc = "entries" /\ v6'.pc = "entries"
             /\ UNCHANGED <<v5, v10>>
  BY <1>6 DEF Scans!Resolves
<1>7. ASSUME NEW k \in Keys, Scans!Hears(k)  PROVE ScansInv'
  <2>1. Scans!Resolves(k)  BY <1>7 DEF Scans!Hears
  <2>2. v8[k] > TTL => (k \in Scans!Looked <=> k \in v1)
    BY <2>1 DEF Scans!Resolves, Scans!Resolved, Scans!Looked
  <2>3. Scans!TypeOK'
    BY <1>7 DEF Scans!Hears, Scans!Resolves, Scans!WhatIsKnown, Scans!Oldest
  <2>4. Scans!FlagIsHonest'
    <3>1. ASSUME NEW l \in Keys \ {k}  PROVE v4'[l] = v4[l] /\ v9'[l] = v9[l]
      BY <1>7 DEF Scans!Hears
    <3>2. v4'[k].registered <=> k \in Scans!Looked  BY <1>7 DEF Scans!Hears
    <3>3. v9'[k] = Scans!WhatIsKnown(k)  BY <1>7 DEF Scans!Hears
    <3>4. /\ v9'[k] = "yes" => k \in Scans!Looked
          /\ v9'[k] = "no" => k \notin Scans!Looked
      BY <2>2, <3>3 DEF Scans!WhatIsKnown
    <3>. QED  BY <3>1, <3>2, <3>4
  <2>5. SweptSince'  BY <1>6, <1>7, <2>1 DEF Scans!Hears
  <2>. QED  BY <1>6, <2>1, <2>3, <2>4, <2>5
<1>8. ASSUME NEW k \in Keys, Scans!HearsNothing(k)  PROVE ScansInv'
  <2>1. Scans!Resolves(k) /\ UNCHANGED <<v4, v9>>  BY <1>8 DEF Scans!HearsNothing
  <2>2. Scans!TypeOK'  BY <2>1 DEF Scans!Resolves, Scans!Oldest
  <2>. QED  BY <1>6, <2>1, <2>2
<1>9. ASSUME NEW heard \in SUBSET Keys,
             Scans!ReportBegins(heard) \/ Scans!SweepEnds(heard) \/ Scans!SweepFails(heard)
      PROVE  ScansInv'
  <2>. USE DEF Scans!Entries, Scans!caches
  <2>1. CASE Scans!ReportBegins(heard)
    BY <2>1 DEF Scans!ReportBegins, Scans!SweepDue, Scans!nodes
  <2>2. CASE Scans!SweepEnds(heard)
    <3>1. UNCHANGED <<v1, v2, v3, v4, v5, v7, v8, v9>> /\ v10' = (v6.todo # {})
          /\ v6.pc = "sweep" /\ v6' = [pc |-> "entries", todo |-> heard]
      BY <2>2 DEF Scans!SweepEnds
    <3>2. v6'.pc = "entries" /\ v6' \in [pc : {"idle", "sweep", "entries"}, todo : SUBSET Keys]
      BY <3>1
    <3>3. v10' \in BOOLEAN /\ (~v10' => v6.todo = {})  BY <3>1
    <3>4. v3 = None  BY <3>1
    <3>5. SweptSince'  BY <3>1, <3>2, <3>3
    <3>. QED  BY <3>1, <3>2, <3>3, <3>4, <3>5
  <2>3. CASE Scans!SweepFails(heard)  BY <2>3 DEF Scans!SweepFails
  <2>. QED  BY <1>9, <2>1, <2>2, <2>3
<1>10. CASE Scans!SweepBegins
  <2>. USE <1>10 DEF Scans!SweepBegins, Scans!caches
  <2>1. Scans!TypeOK' /\ Scans!FlagIsHonest' /\ CacheAgrees'
    <3>1. Scans!FlagIsHonest'  OBVIOUS
    <3>2. CacheAgrees'  OBVIOUS
    <3>3. v6' \in [pc : {"idle", "sweep", "entries"}, todo : SUBSET Keys]  OBVIOUS
    <3>4. UNCHANGED <<v1, v2, v3, v4, v7, v8, v9>> /\ v5' = 0 /\ v10' = FALSE  OBVIOUS
    <3>. HIDE <1>10
    <3>5. Scans!TypeOK'
      <4>1. v5' \in 0..(Every + 1)  BY <3>4
      <4>2. v10' \in BOOLEAN  BY <3>4
      <4>. QED  BY <3>3, <3>4, <4>1, <4>2 DEF Scans!Oldest
    <3>. QED  BY <3>1, <3>2, <3>5
  <2>2. Scans!SparesKnown'  BY DEF Scans!IsStale
  <2>3. SweptSince'  BY DEF Scans!IsStale, Scans!Oldest
  <2>. QED  BY <2>1, <2>2, <2>3
<1>11. CASE Scans!Fetch \/ Scans!FetchRaises \/ Scans!ReportEnds
  BY <1>11 DEF Scans!Fetch, Scans!FetchRaises, Scans!ReportEnds, Scans!caches,
               Scans!nodes, Scans!Resolved
<1>. QED
  BY <1>1, <1>2, <1>3, <1>4, <1>5, <1>7, <1>8, <1>9, <1>10, <1>11 DEF Scans!Next

\* Of the second, v1 is placed, v2 node, v3 sim, v4 list, v5 beat, v6 post, v7 request,
\* v8 heard, v9 erased and v10 slipped.

\* What the simulator walks between, or is about to write, is placed, is being deleted
\* now, or slipped; and time stands while something is being written.
WalkedIsExcused ==
    /\ v7 # Hearts!Idle => v9[v7.ap] = 0
    /\ \A a \in v4 \ v1 : a \in v10 \/ (v7 # Hearts!Idle /\ v7.ap = a)
    /\ \A a \in (v5 \cup v6) \ v1 : a \in v10 \/ v9[a] = 0

\* An AP that is not placed and has a young node was heard, or deleted, no earlier than
\* its node was written, or slipped.
GhostsAge ==
    \A a \in Macs \ v1 : Hearts!Online(a) =>
        v8[a] <= v2[a] \/ v9[a] <= v2[a] \/ a \in v10

BeatsInv == Hearts!TypeOK /\ WalkedIsExcused /\ GhostsAge

\* The node of a is written.
LEMMA BeatWritten ==
    ASSUME Keep \in Nat, BeatsInv, NEW a \in Macs, Hearts!Heartbeat(a),
           a \in v1 \/ v9[a] = 0 \/ a \in v10 \/ v8'[a] = 0,
           UNCHANGED <<v1, v9, v10>>, v8' = v8 \/ v8' = [v8 EXCEPT ![a] = 0]
    PROVE  GhostsAge' /\ v2' \in [Macs -> 0..Keep \cup {None}]
  BY DEF BeatsInv, GhostsAge, Hearts!TypeOK, Hearts!Heartbeat, Hearts!Online

LEMMA BeatsTime ==
    ASSUME Keep \in Nat, None \notin Nat, BeatsInv, Hearts!Elapse
    PROVE  BeatsInv'
<1>. USE DEF BeatsInv, Hearts!TypeOK, Hearts!Elapse, Hearts!Older, Hearts!writers
<1>1. Hearts!TypeOK'  OBVIOUS
<1>2. WalkedIsExcused'  BY DEF WalkedIsExcused, Hearts!Idle
<1>3. GhostsAge'
  <2>. SUFFICES ASSUME NEW a \in Macs \ v1, v2'[a] # None, v2'[a] < Keep
                PROVE  v8'[a] <= v2'[a] \/ v9'[a] <= v2'[a] \/ a \in v10'
    BY DEF GhostsAge, Hearts!Online
  <2>1. v2[a] \in 0..Keep /\ v2'[a] = v2[a] + 1 /\ v2[a] < Keep  OBVIOUS
  <2>2. v8[a] <= v2[a] \/ v9[a] <= v2[a] \/ a \in v10
    BY <2>1 DEF GhostsAge, Hearts!Online
  <2>3. v8'[a] <= v8[a] + 1 /\ v9'[a] <= v9[a] + 1  OBVIOUS
  <2>4. a \in v10 => a \in v10'  BY <2>1
  <2>5. v8[a] \in Nat /\ v9[a] \in Nat /\ v8'[a] \in Nat /\ v9'[a] \in Nat  OBVIOUS
  <2>. QED  BY <2>1, <2>2, <2>3, <2>4, <2>5
<1>. QED  BY <1>1, <1>2, <1>3

LEMMA BeatsStep ==
    ASSUME Keep \in Nat, None \notin Nat, BeatsInv, Hearts!Next
    PROVE  BeatsInv'
<1>. USE DEF BeatsInv, Hearts!TypeOK, WalkedIsExcused, Hearts!Idle, Hearts!Walking
<1>1. CASE Hearts!Elapse  BY <1>1, BeatsTime
<1>2. CASE Hearts!Restart
  BY <1>2 DEF Hearts!Restart, Hearts!histories, GhostsAge, Hearts!Online
<1>3. ASSUME NEW a \in Macs, Hearts!Reports(a)  PROVE BeatsInv'
  <2>. USE DEF Hearts!Reports, Hearts!writers
  <2>1. v8' = [v8 EXCEPT ![a] = 0] /\ v8'[a] = 0  BY <1>3
  <2>2. GhostsAge' /\ v2' \in [Macs -> 0..Keep \cup {None}]  BY <1>3, <2>1, BeatWritten
  <2>3. v8' \in [Macs -> 0..Keep]  BY <2>1
  <2>. QED  BY <1>3, <2>2, <2>3
<1>4. ASSUME NEW a \in Macs, Hearts!BeatWrites(a) \/ Hearts!PostWrites(a)
      PROVE  BeatsInv'
  BY <1>4, BeatWritten DEF Hearts!BeatWrites, Hearts!PostWrites, Hearts!histories
<1>5. ASSUME NEW a \in Macs, Hearts!Place(a)  PROVE BeatsInv'
  BY <1>5 DEF Hearts!Place, Hearts!writers, Hearts!histories, GhostsAge,
              Hearts!Online
<1>6. ASSUME NEW a \in Macs, NEW of \in {"ap", "floor"}, Hearts!Delete(a, of)
      PROVE  BeatsInv'
  <2>1. Hearts!TypeOK' /\ WalkedIsExcused'
    BY <1>6 DEF Hearts!Delete, Hearts!writers
  <2>2. GhostsAge'
    BY <1>6 DEF Hearts!Delete, Hearts!writers, GhostsAge, Hearts!Online
  <2>. QED  BY <2>1, <2>2
<1>7. ASSUME NEW aps \in SUBSET Macs, Hearts!SetupReads(aps) \/ Hearts!Posts(aps)
      PROVE  BeatsInv'
  BY <1>7 DEF Hearts!SetupReads, Hearts!Posts, Hearts!histories, GhostsAge,
              Hearts!Online
<1>8. ASSUME NEW mode \in Hearts!Walking, Hearts!SetupStores(mode)  PROVE BeatsInv'
  BY <1>8 DEF Hearts!SetupStores, Hearts!histories, GhostsAge, Hearts!Online
<1>9. CASE Hearts!BeatBegins \/ Hearts!PostFails \/ Hearts!SimEnds
  BY <1>9 DEF Hearts!BeatBegins, Hearts!PostFails, Hearts!SimEnds,
              Hearts!histories, GhostsAge, Hearts!Online
<1>10. CASE Hearts!DeleteNode
  <2>1. Hearts!TypeOK' /\ WalkedIsExcused'
    BY <1>10 DEF Hearts!DeleteNode, Hearts!EndsUntold, Hearts!writers
  <2>2. GhostsAge'
    BY <1>10 DEF Hearts!DeleteNode, Hearts!EndsUntold, Hearts!writers, GhostsAge,
                 Hearts!Online
  <2>. QED  BY <2>1, <2>2
<1>11. CASE Hearts!DeleteNodeRaises
  BY <1>11 DEF Hearts!DeleteNodeRaises, Hearts!EndsUntold, Hearts!writers,
               GhostsAge, Hearts!Online
<1>12. CASE Hearts!Forget
  BY <1>12 DEF Hearts!Forget, Hearts!EndsUntold, GhostsAge, Hearts!Online
<1>. QED
  BY <1>1, <1>2, <1>3, <1>4, <1>5, <1>6, <1>7, <1>8, <1>9, <1>10, <1>11, <1>12
  DEF Hearts!Next

NodesInv == /\ part = "scans" => ScansInv
            /\ part = "beats" => BeatsInv

LEMMA BeatsInit == Hearts!Init => BeatsInv
BY NodesAssumption
DEF Hearts!Init, BeatsInv, Hearts!TypeOK, WalkedIsExcused, GhostsAge, Hearts!Online

LEMMA NodesStep == NodesInv /\ [ReportsNext]_<<vars, shared, part>> => NodesInv'
<1>. SUFFICES ASSUME NodesInv, [ReportsNext]_<<vars, shared, part>>  PROVE NodesInv'
  OBVIOUS
<1>1. CASE UNCHANGED <<shared, part>>
  <2>1. UNCHANGED <<part, v1, v2, v3, v4, v5, v6, v7, v8, v9, v10>>
    BY <1>1 DEF shared
  <2>2. ScansInv => ScansInv'
    BY <2>1 DEF ScansInv, Scans!TypeOK, Scans!FlagIsHonest, Scans!SparesKnown,
         CacheAgrees, SweptSince
  <2>3. BeatsInv => BeatsInv'
    BY <2>1 DEF BeatsInv, Hearts!TypeOK, WalkedIsExcused, GhostsAge, Hearts!Online
  <2>. QED  BY <2>1, <2>2, <2>3 DEF NodesInv
<1>2. CASE part = "scans" /\ Scans!Next /\ UNCHANGED part
  BY <1>2, ScansStep, NodesAssumption DEF NodesInv
<1>3. CASE part = "beats" /\ Hearts!Next /\ UNCHANGED part
  BY <1>3, BeatsStep, NodesAssumption DEF NodesInv
<1>. QED  BY <1>1, <1>2, <1>3 DEF ReportsNext

\* omada_ingest_service.py, floor_service.py: for any number of beacons and access points
\* and whatever the times are, no sweep takes the node of a beacon that was registered
\* when it was heard and strangers' nodes go, and who is offered as a new access point
\* reported itself or was deleted lately, but for the causes that the property tells.
THEOREM NodesAreKept == ReportsSpec => []NodesHold
<1>1. ReportsInit => NodesInv
  BY ScansInit, BeatsInit, NodesAssumption DEF ReportsInit, NodesInv
<1>2. NodesInv => NodesHold
  <2>1. BeatsInv => Hearts!GhostsFade
    BY NodesAssumption
    DEF BeatsInv, GhostsAge, Hearts!GhostsFade, Hearts!Online, Hearts!TypeOK
  <2>2. SweptSince /\ Scans!TypeOK => Scans!StrangersAreSwept
    BY NodesAssumption
    DEF SweptSince, Scans!StrangersAreSwept, Scans!TypeOK, Scans!Oldest
  <2>. QED  BY <2>1, <2>2 DEF NodesInv, ScansInv, BeatsInv, NodesHold
<1>. QED  BY <1>1, <1>2, NodesStep, PTL DEF ReportsSpec

=============================================================================
