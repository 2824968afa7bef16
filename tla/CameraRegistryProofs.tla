------------------------- MODULE CameraRegistryProofs -------------------------
(***************************************************************************)
(* Proofs about CameraRegistry, for every set of cameras, MACs and         *)
(* channels; and about what FaultsMC composes: the presence of a camera    *)
(* (CameraPresence), its live view (LiveView), the capture log and its     *)
(* listener (CaptureLog, CaptureListener) and the lines about who is       *)
(* turned away (LogLimit), for every set of addresses, threads,            *)
(* connections and sources.  The logs' variables have the names that       *)
(* FaultsMC gives them.                                                    *)
(***************************************************************************)
EXTENDS CameraRegistry, FaultsMC, FiniteSetTheorems, TLAPS

\* The thread that saves is the one that holds the lock.
OneSaves == \A w \in Workers : pc[w] = "save" => writer = w

\* What a request that is under way knows.
RequestsInOrder ==
    \A w \in Workers :
        /\ pc[w] \in {"lock", "save"} =>
              /\ cam[w] \in Cams /\ new[w] \in Docs
              /\ op[w] = "create" \/ (op[w] = "update" /\ old[w] \in Docs)
        /\ pc[w] \in {"erase", "zone"} => cam[w] \in Cams
        /\ pc[w] = "erase" => op[w] = "delete"
        /\ pc[w] = "floor" => op[w] = "floor"
        /\ pc[w] = "inval" /\ op[w] \in {"create", "update"} => cam[w] \in Cams

\* The identity that is about to be written was looked for on a fresh read.
Checked ==
    \A w \in Workers : pc[w] = "save" /\ NeedsCheck(w) /\ new[w].mac # None =>
        \A c \in Cams \ {cam[w]} : docs[c] # new[w]

\* An alarm that is looked up or about to be added has a key.
AlarmsInOrder == \A a \in Alarms : apc[a] # "idle" => key[a] \in Watched

\* A camera that is being created has no document, and is created once.
NewIsFree ==
    \A w \in Workers : pc[w] \in {"lock", "save"} /\ op[w] = "create" =>
        /\ docs[cam[w]] = None
        /\ \A v \in Workers \ {w} : pc[v] \in {"lock", "save"} /\ op[v] = "create" =>
              cam[v] # cam[w]

\* The deletion of a floor drops no events.
FloorDropsNothing == \A w \in Workers : op[w] = "floor" => old[w] = None

\* What a reader has read for the cache is the registry, unless the registry has changed
\* since and was, or is to be, invalidated.
FillsAreFresh ==
    \A a \in Alarms : apc[a] = "filling" /\ snap[a] # Registered =>
        late[a] \/ \E w \in Workers : Pending(w)

Inv ==
    /\ TypeOK /\ AlarmsInOrder /\ OneSaves /\ RequestsInOrder /\ Checked /\ UniqueIdentity
    /\ NewIsFree /\ FloorDropsNothing
    /\ FillsAreFresh /\ CacheIsRegistry
    /\ EventsOfRegistered

--------------------------------------------------------------------------------
LEMMA GotoType ==
    ASSUME TypeOK, NEW w \in Workers,
           NEW l \in {"idle", "lock", "save", "erase", "floor", "inval", "zone"}, Goto(w, l)
    PROVE  pc' \in [Workers -> {"idle", "lock", "save", "erase", "floor", "inval", "zone"}]
BY DEF TypeOK, Goto

LEMMA ReturnType ==
    ASSUME TypeOK, NEW w \in Workers, Return(w)
    PROVE  /\ pc' \in [Workers -> {"idle", "lock", "save", "erase", "floor", "inval", "zone"}]
           /\ op' \in [Workers -> {"none", "create", "update", "delete", "floor"}]
           /\ cam' \in [Workers -> Cams \cup {None}]
           /\ old' \in [Workers -> Docs \cup {None}]
           /\ new' \in [Workers -> Docs \cup {None}]
           /\ todo' \in [Workers -> SUBSET Cams]
BY DEF TypeOK, Return, Goto

LEMMA WrittenType ==
    ASSUME TypeOK, NEW w \in Workers, NEW gone \in Docs \cup {None}, Written(w, gone)
    PROVE  /\ pc' \in [Workers -> {"idle", "lock", "save", "erase", "floor", "inval", "zone"}]
           /\ op' = op /\ todo' = todo
           /\ old' \in [Workers -> Docs \cup {None}]
           /\ new' \in [Workers -> Docs \cup {None}]
BY DEF TypeOK, Written, Goto

LEMMA RequestType ==
    ASSUME TypeOK, NEW w \in Workers, NEW o \in {"create", "update", "delete", "floor"},
           NEW c \in Cams \cup {None}, NEW b \in Docs \cup {None}, NEW d \in Docs \cup {None},
           NEW l \in {"lock", "erase", "floor"}, Request(w, o, c, b, d, l),
           todo' \in [Workers -> SUBSET Cams]
    PROVE  TypeOK'
<1>1. pc' \in [Workers -> {"idle", "lock", "save", "erase", "floor", "inval", "zone"}]
  BY GotoType DEF Request
<1>2. /\ op' \in [Workers -> {"none", "create", "update", "delete", "floor"}]
      /\ cam' \in [Workers -> Cams \cup {None}]
      /\ old' \in [Workers -> Docs \cup {None}]
      /\ new' \in [Workers -> Docs \cup {None}]
  BY DEF Request, TypeOK
<1>3. UNCHANGED <<docs, writer, theCache, alarm, buffer, torn, unsure, stray>>
  BY DEF Request
<1>. QED  BY <1>1, <1>2, <1>3 DEF TypeOK, theCache, alarm

LEMMA MergedType ==
    \A d, b, a \in Docs : Merged(d, b, a) \in Docs
BY DEF Merged, Docs

LEMMA KeyOfType == \A d : KeyOf(d) \subseteq Watched
BY DEF KeyOf

LEMMA TypeInit == Init => TypeOK
<1>. SUFFICES ASSUME Init PROVE TypeOK  OBVIOUS
<1>1. docs \in [Cams -> Docs \cup {None}] /\ writer \in Workers \cup {None}  BY DEF Init
<1>2. /\ pc \in [Workers -> {"idle", "lock", "save", "erase", "floor", "inval", "zone"}]
      /\ op \in [Workers -> {"none", "create", "update", "delete", "floor"}]
      /\ cam \in [Workers -> Cams \cup {None}]
      /\ old \in [Workers -> Docs \cup {None}] /\ new \in [Workers -> Docs \cup {None}]
      /\ todo \in [Workers -> SUBSET Cams]
  BY DEF Init
<1>3. /\ apc \in [Alarms -> {"idle", "filling", "adding"}]
      /\ key \in [Alarms -> Watched \cup {None}]
      /\ snap \in [Alarms -> SUBSET Watched] /\ late \in [Alarms -> BOOLEAN]
  BY DEF Init
<1>4. /\ cache \subseteq Watched /\ cached \in BOOLEAN /\ buffer \subseteq Watched
      /\ stray \subseteq Watched /\ torn \subseteq Cams /\ unsure \in BOOLEAN
  BY DEF Init
<1>. QED  BY <1>1, <1>2, <1>3, <1>4 DEF TypeOK

LEMMA TypeSave ==
    ASSUME TypeOK, RequestsInOrder, NEW w \in Workers, Save(w)
    PROVE  TypeOK'
<1>1. /\ cam[w] \in Cams /\ new[w] \in Docs
      /\ op[w] = "update" => old[w] \in Docs
  BY DEF Save, RequestsInOrder
<1>2. UNCHANGED <<theCache, alarm, buffer, unsure>> /\ writer' = None  BY DEF Save
<1>3. CASE SaveNew(w)
  <2>1. docs' \in [Cams -> Docs \cup {None}]  BY <1>1, <1>3 DEF SaveNew, TypeOK
  <2>2. Written(w, None) /\ UNCHANGED <<cam, stray>> /\ torn' \subseteq Cams
    BY <1>3 DEF SaveNew, TypeOK
  <2>. QED  BY <1>2, <2>1, <2>2, WrittenType DEF TypeOK, theCache, alarm
<1>4. CASE SaveFails(w)
  <2>1. Return(w) /\ UNCHANGED <<docs, torn, stray>>  BY <1>4 DEF SaveFails
  <2>. QED  BY <1>2, <2>1, ReturnType DEF TypeOK, theCache, alarm
<1>5. CASE SaveChanges(w)
  <2>1. docs[cam[w]] \in Docs /\ old[w] \in Docs  BY <1>1, <1>5 DEF SaveChanges, TypeOK
  <2>2. docs' = [docs EXCEPT ![cam[w]] = Merged(docs[cam[w]], old[w], new[w])]
    BY <1>5 DEF SaveChanges
  <2>3. docs' \in [Cams -> Docs \cup {None}]
    BY <1>1, <2>1, <2>2, MergedType DEF TypeOK
  <2>4. torn' \subseteq Cams  BY <1>1, <1>5 DEF SaveChanges, TypeOK
  <2>5. stray' \subseteq Watched  BY <1>5, KeyOfType DEF SaveChanges, TypeOK
  <2>6. UNCHANGED cam /\ \E gone \in Docs \cup {None} : Written(w, gone)
    BY <1>5, <2>1 DEF SaveChanges
  <2>. QED  BY <1>2, <2>3, <2>4, <2>5, <2>6, WrittenType DEF TypeOK, theCache, alarm
<1>6. CASE SaveNothing(w)
  <2>1. Written(w, None) /\ UNCHANGED <<docs, torn, stray, cam>>  BY <1>6 DEF SaveNothing
  <2>. QED  BY <1>2, <2>1, WrittenType DEF TypeOK, theCache, alarm
<1>. QED  BY <1>3, <1>4, <1>5, <1>6 DEF Save

LEMMA TypeOther ==
    ASSUME TypeOK, RequestsInOrder, NEW w \in Workers,
           \/ CheckUnique(w) \/ Erase(w) \/ Invalidate(w) \/ ZoneSaved(w) \/ FloorFails(w)
           \/ \E c \in Cams : EraseOfFloor(w, c)
    PROVE  TypeOK'
<1>1. CASE CheckUnique(w)
  <2>1. UNCHANGED <<docs, theCache, alarm, buffer, torn, unsure, stray>>
    BY <1>1 DEF CheckUnique
  <2>2. CASE Return(w) /\ UNCHANGED writer
    BY <2>1, <2>2, ReturnType DEF TypeOK, theCache, alarm
  <2>3. CASE writer' = w /\ Goto(w, "save") /\ UNCHANGED <<op, cam, old, new, todo>>
    BY <2>1, <2>3, GotoType DEF TypeOK, theCache, alarm
  <2>. QED  BY <1>1, <2>2, <2>3 DEF CheckUnique
<1>2. CASE Erase(w)
  <2>1. cam[w] \in Cams  BY <1>2 DEF Erase, RequestsInOrder
  <2>2. docs' \in [Cams -> Docs \cup {None}] /\ torn' \subseteq Cams
    BY <1>2, <2>1 DEF Erase, TypeOK
  <2>3. stray' \subseteq Watched  BY <1>2, KeyOfType DEF Erase, TypeOK
  <2>4. cam' \in [Workers -> Cams \cup {None}]  BY <1>2 DEF Erase, TypeOK
  <2>5. old[w] \in Docs \cup {None} /\ Written(w, old[w])  BY <1>2 DEF Erase, TypeOK
  <2>6. UNCHANGED <<writer, theCache, alarm, buffer, unsure>>  BY <1>2 DEF Erase
  <2>. QED  BY <2>2, <2>3, <2>4, <2>5, <2>6, WrittenType DEF TypeOK, theCache, alarm
<1>3. CASE Invalidate(w)
  <2>1. UNCHANGED <<docs, writer, apc, key, snap, torn>> /\ InvalidateCache
    BY <1>3 DEF Invalidate
  <2>2. buffer' \subseteq Watched /\ stray' \subseteq Watched
    BY <1>3, KeyOfType DEF Invalidate, Drop, TypeOK
  <2>3. CASE Return(w)
    BY <2>1, <2>2, <2>3, ReturnType DEF TypeOK, InvalidateCache
  <2>4. CASE /\ Goto(w, "zone")
             /\ old' = [old EXCEPT ![w] = None] /\ op' = [op EXCEPT ![w] = "none"]
             /\ UNCHANGED <<cam, new, todo>>
    <3>1. /\ old' \in [Workers -> Docs \cup {None}]
          /\ op' \in [Workers -> {"none", "create", "update", "delete", "floor"}]
      BY <2>4 DEF TypeOK
    <3>2. pc' \in [Workers -> {"idle", "lock", "save", "erase", "floor", "inval", "zone"}]
      BY <2>4, GotoType
    <3>. QED  BY <2>1, <2>2, <2>4, <3>1, <3>2 DEF TypeOK, InvalidateCache
  <2>. QED  BY <1>3, <2>3, <2>4 DEF Invalidate
<1>4. CASE ZoneSaved(w)
  <2>1. Return(w) /\ UNCHANGED <<docs, writer, apc, key, snap, buffer, torn, stray>>
    BY <1>4 DEF ZoneSaved
  <2>2. cache' \subseteq Watched /\ cached' \in BOOLEAN /\ unsure' \in BOOLEAN
        /\ late' \in [Alarms -> BOOLEAN]
    BY <1>4 DEF ZoneSaved, InvalidateCache, TypeOK, theCache
  <2>. QED  BY <2>1, <2>2, ReturnType DEF TypeOK
<1>5. CASE FloorFails(w)
  <2>1. Return(w) /\ UNCHANGED <<docs, writer, theCache, apc, key, snap, buffer, torn, stray>>
    BY <1>5 DEF FloorFails
  <2>2. unsure' \in BOOLEAN /\ late' \in [Alarms -> BOOLEAN]  BY <1>5 DEF FloorFails
  <2>. QED  BY <2>1, <2>2, ReturnType DEF TypeOK, theCache
<1>6. ASSUME NEW c \in Cams, EraseOfFloor(w, c) PROVE TypeOK'
  <2>1. docs' \in [Cams -> Docs \cup {None}] /\ torn' \subseteq Cams
    BY <1>6 DEF EraseOfFloor, TypeOK
  <2>2. stray' \subseteq Watched  BY <1>6, KeyOfType DEF EraseOfFloor, TypeOK
  <2>3. todo' \in [Workers -> SUBSET Cams]  BY <1>6 DEF EraseOfFloor, TypeOK
  <2>4. pc' \in [Workers -> {"idle", "lock", "save", "erase", "floor", "inval", "zone"}]
    BY <1>6, GotoType DEF EraseOfFloor, TypeOK
  <2>5. UNCHANGED <<writer, theCache, op, cam, old, new, alarm, buffer, unsure>>
    BY <1>6 DEF EraseOfFloor
  <2>. QED  BY <2>1, <2>2, <2>3, <2>4, <2>5 DEF TypeOK, theCache, alarm
<1>. QED  BY <1>1, <1>2, <1>3, <1>4, <1>5, <1>6

LEMMA TypeStart ==
    ASSUME TypeOK, NEW w \in Workers,
           \/ DeleteFloor(w)
           \/ \E c \in Cams : Create(w, c) \/ Update(w, c) \/ Delete(w, c)
    PROVE  TypeOK'
<1>1. CASE DeleteFloor(w)
  <2>1. todo' \in [Workers -> SUBSET Cams]  BY <1>1 DEF DeleteFloor, TypeOK
  <2>2. Request(w, "floor", None, None, None, "floor")  BY <1>1 DEF DeleteFloor
  <2>. QED  BY <2>1, <2>2, RequestType
<1>2. ASSUME NEW c \in Cams, Delete(w, c) PROVE TypeOK'
  <2>1. docs[c] \in Docs \cup {None} /\ todo' \in [Workers -> SUBSET Cams]
    BY <1>2 DEF Delete, TypeOK
  <2>2. Request(w, "delete", c, docs[c], None, "erase")  BY <1>2 DEF Delete
  <2>. QED  BY <2>1, <2>2, RequestType
<1>3. ASSUME NEW c \in Cams, Create(w, c) PROVE TypeOK'
  <2>1. todo' \in [Workers -> SUBSET Cams]  BY <1>3 DEF Create, TypeOK
  <2>2. PICK d \in Docs : Request(w, "create", c, None, d, "lock")  BY <1>3 DEF Create
  <2>. QED  BY <2>1, <2>2, RequestType
<1>4. ASSUME NEW c \in Cams, Update(w, c) PROVE TypeOK'
  <2>1. docs[c] \in Docs \cup {None} /\ todo' \in [Workers -> SUBSET Cams]
    BY <1>4 DEF Update, TypeOK
  <2>2. PICK d \in Docs : Request(w, "update", c, docs[c], d, "lock")  BY <1>4 DEF Update
  <2>. QED  BY <2>1, <2>2, RequestType
<1>. QED  BY <1>1, <1>2, <1>3, <1>4

LEMMA RegisteredType == Registered \subseteq Watched
BY DEF Registered

LEMMA TypeAlarm ==
    ASSUME TypeOK, AlarmsInOrder,
           \/ \E a \in Alarms : AlarmStep(a)
           \/ CacheExpires
           \/ \E k \in Watched : EventsAge(k)
    PROVE  TypeOK'
<1>0. ASSUME NEW a \in Alarms, NEW k \in Watched, NEW known, Decide(a, known, k)
      PROVE  /\ apc' \in [Alarms -> {"idle", "filling", "adding"}]
             /\ key' \in [Alarms -> Watched \cup {None}]
  BY <1>0 DEF Decide, TypeOK
<1>1. ASSUME NEW a \in Alarms, NEW k \in Watched, AlarmHits(a, k) PROVE TypeOK'
  <2>1. Decide(a, cache, k)  BY <1>1 DEF AlarmHits
  <2>2. UNCHANGED <<docs, writer, theCache, request, snap, late, buffer, torn, unsure, stray>>
    BY <1>1 DEF AlarmHits, theCache
  <2>. QED  BY <2>1, <2>2, <1>0 DEF TypeOK, theCache, request
<1>2. ASSUME NEW a \in Alarms, NEW k \in Watched, AlarmMisses(a, k) PROVE TypeOK'
  <2>1. /\ apc' \in [Alarms -> {"idle", "filling", "adding"}]
        /\ key' \in [Alarms -> Watched \cup {None}]
    BY <1>2 DEF AlarmMisses, TypeOK
  <2>2. snap' \in [Alarms -> SUBSET Watched] /\ late' \in [Alarms -> BOOLEAN]
    BY <1>2, RegisteredType DEF AlarmMisses, TypeOK
  <2>3. UNCHANGED <<docs, writer, theCache, request, buffer, torn, unsure, stray>>
    BY <1>2 DEF AlarmMisses, theCache
  <2>. QED  BY <2>1, <2>2, <2>3 DEF TypeOK, theCache, request
<1>3. ASSUME NEW a \in Alarms, AlarmFills(a) PROVE TypeOK'
  <2>1. /\ apc' \in [Alarms -> {"idle", "filling", "adding"}]
        /\ key' \in [Alarms -> Watched \cup {None}]
    BY <1>3 DEF AlarmFills, Decide, TypeOK
  <2>2. snap' \in [Alarms -> SUBSET Watched] /\ late' \in [Alarms -> BOOLEAN]
    BY <1>3 DEF AlarmFills, TypeOK
  <2>3. cache' \subseteq Watched /\ cached' \in BOOLEAN  BY <1>3 DEF AlarmFills, TypeOK
  <2>4. unsure' \in BOOLEAN  BY <1>3 DEF AlarmFills, TypeOK
  <2>5. UNCHANGED <<docs, writer, request, buffer, torn, stray>>  BY <1>3 DEF AlarmFills
  <2>. QED  BY <2>1, <2>2, <2>3, <2>4, <2>5 DEF TypeOK, request
<1>4. ASSUME NEW a \in Alarms, AlarmAdds(a) PROVE TypeOK'
  <2>1. /\ apc' \in [Alarms -> {"idle", "filling", "adding"}]
        /\ key' \in [Alarms -> Watched \cup {None}]
    BY <1>4 DEF AlarmAdds, TypeOK
  <2>2. key[a] \in Watched  BY <1>4 DEF AlarmAdds, AlarmsInOrder
  <2>3. buffer' \subseteq Watched /\ stray' \subseteq Watched
    BY <1>4, <2>2 DEF AlarmAdds, TypeOK
  <2>4. UNCHANGED <<docs, writer, theCache, request, snap, late, torn, unsure>>
    BY <1>4 DEF AlarmAdds, theCache
  <2>. QED  BY <2>1, <2>3, <2>4 DEF TypeOK, theCache, request
<1>5. CASE CacheExpires
  BY <1>5 DEF CacheExpires, TypeOK, request, alarm
<1>6. ASSUME NEW k \in Watched, EventsAge(k) PROVE TypeOK'
  BY <1>6 DEF EventsAge, TypeOK, request, alarm, theCache
<1>. QED  BY <1>1, <1>2, <1>3, <1>4, <1>5, <1>6 DEF AlarmStep

--------------------------------------------------------------------------------
\* Everything but the requests leaves these alone.
LEMMA AlarmsFrame ==
    ASSUME \/ \E a \in Alarms : AlarmStep(a)
           \/ CacheExpires
           \/ \E k \in Watched : EventsAge(k)
           \/ UNCHANGED vars
    PROVE  UNCHANGED <<docs, writer, torn, request>>
BY DEF AlarmStep, AlarmHits, AlarmMisses, AlarmFills, AlarmAdds, CacheExpires, EventsAge, vars

LEMMA AlarmsOrder ==
    ASSUME TypeOK, AlarmsInOrder, [Next]_vars
    PROVE  AlarmsInOrder'
<1>1. ASSUME UNCHANGED <<apc, key>> PROVE AlarmsInOrder'  BY <1>1 DEF AlarmsInOrder
<1>2. ASSUME NEW a \in Alarms, AlarmStep(a) PROVE AlarmsInOrder'
  <2>1. CASE \E k \in Watched : AlarmHits(a, k)
    BY <2>1 DEF AlarmHits, Decide, AlarmsInOrder, TypeOK
  <2>2. CASE \E k \in Watched : AlarmMisses(a, k)
    BY <2>2 DEF AlarmMisses, AlarmsInOrder, TypeOK
  <2>3. CASE AlarmFills(a)
    <3>1. key[a] \in Watched  BY <2>3 DEF AlarmFills, AlarmsInOrder
    <3>. QED  BY <2>3, <3>1 DEF AlarmFills, Decide, AlarmsInOrder, TypeOK
  <2>4. CASE AlarmAdds(a)  BY <2>4 DEF AlarmAdds, AlarmsInOrder, TypeOK
  <2>. QED  BY <1>2, <2>1, <2>2, <2>3, <2>4 DEF AlarmStep
<1>3. ASSUME NEW w \in Workers, RequestStep(w) PROVE UNCHANGED <<apc, key>>
  BY <1>3
  DEF RequestStep, Create, Update, Delete, DeleteFloor, Request, CheckUnique, Save, Erase,
      EraseOfFloor, FloorFails, Invalidate, ZoneSaved, alarm
<1>4. CASE CacheExpires \/ (\E k \in Watched : EventsAge(k)) \/ UNCHANGED vars
  <2>1. UNCHANGED <<apc, key>>  BY <1>4 DEF CacheExpires, EventsAge, vars, alarm
  <2>. QED  BY <1>1, <2>1
<1>. QED  BY <1>1, <1>2, <1>3, <1>4 DEF Next

LEMMA TypeNext == Inv /\ [Next]_vars => TypeOK'
<1>. SUFFICES ASSUME Inv, [Next]_vars PROVE TypeOK'  OBVIOUS
<1>1. TypeOK /\ AlarmsInOrder /\ RequestsInOrder  BY DEF Inv
<1>2. ASSUME NEW w \in Workers, RequestStep(w) PROVE TypeOK'
  BY <1>1, <1>2, TypeStart, TypeSave, TypeOther DEF RequestStep
<1>3. CASE UNCHANGED vars
  BY <1>1, <1>3 DEF vars, TypeOK, theCache, request, alarm
<1>. QED  BY <1>1, <1>2, <1>3, TypeAlarm DEF Next

--------------------------------------------------------------------------------
\* What a step of w does to the other requests: nothing.
LEMMA OthersKeep ==
    ASSUME TypeOK, NEW w \in Workers, RequestStep(w), NEW v \in Workers, v # w
    PROVE  /\ pc'[v] = pc[v] /\ op'[v] = op[v] /\ cam'[v] = cam[v]
           /\ old'[v] = old[v] /\ new'[v] = new[v]
<1>1. CASE \/ DeleteFloor(w)
           \/ \E c \in Cams : Create(w, c) \/ Update(w, c) \/ Delete(w, c)
  BY <1>1 DEF Create, Update, Delete, DeleteFloor, Request, Goto, TypeOK
<1>2. CASE Save(w)
  BY <1>2 DEF Save, SaveNew, SaveFails, SaveChanges, SaveNothing, Written, Return, Goto, TypeOK
<1>3. CASE CheckUnique(w)  BY <1>3 DEF CheckUnique, Return, Goto, TypeOK
<1>4. CASE Erase(w) \/ \E c \in Cams : EraseOfFloor(w, c)
  BY <1>4 DEF Erase, EraseOfFloor, Written, Goto, TypeOK
<1>5. CASE Invalidate(w) \/ ZoneSaved(w) \/ FloorFails(w)
  BY <1>5 DEF Invalidate, ZoneSaved, FloorFails, Return, Goto, TypeOK
<1>. QED  BY <1>1, <1>2, <1>3, <1>4, <1>5 DEF RequestStep

LEMMA OrderNext ==
    ASSUME Inv, [Next]_vars
    PROVE  OneSaves' /\ RequestsInOrder'
<1>0. TypeOK /\ OneSaves /\ RequestsInOrder  BY DEF Inv
<1>1. ASSUME UNCHANGED <<writer, request>> PROVE OneSaves' /\ RequestsInOrder'
  BY <1>0, <1>1 DEF OneSaves, RequestsInOrder, request
<1>2. ASSUME NEW w \in Workers, RequestStep(w) PROVE OneSaves' /\ RequestsInOrder'
  <2>1. \A v \in Workers \ {w} :
          /\ pc'[v] = pc[v] /\ op'[v] = op[v] /\ cam'[v] = cam[v]
          /\ old'[v] = old[v] /\ new'[v] = new[v]
    BY <1>0, <1>2, OthersKeep
  <2>2. /\ pc'[w] = "save" => writer' = w
        /\ pc'[w] # "save" => \A v \in Workers \ {w} : pc[v] = "save" => writer' = v
        /\ pc'[w] = "save" => writer = None
    <3>1. CASE \/ DeleteFloor(w)
               \/ \E c \in Cams : Create(w, c) \/ Update(w, c) \/ Delete(w, c)
      BY <1>0, <3>1 DEF Create, Update, Delete, DeleteFloor, Request, Goto, TypeOK, OneSaves
    <3>2. CASE Save(w)
      <4>1. pc'[w] # "save"
        BY <1>0, <3>2
        DEF Save, SaveNew, SaveFails, SaveChanges, SaveNothing, Written, Return, Goto, TypeOK
      <4>2. \A v \in Workers \ {w} : pc[v] # "save"  BY <1>0, <3>2 DEF Save, OneSaves
      <4>. QED  BY <4>1, <4>2
    <3>3. CASE CheckUnique(w)
      BY <1>0, <3>3 DEF CheckUnique, Return, Goto, TypeOK, OneSaves
    <3>4. CASE Erase(w) \/ \E c \in Cams : EraseOfFloor(w, c)
      BY <1>0, <3>4 DEF Erase, EraseOfFloor, Written, Goto, TypeOK, OneSaves
    <3>5. CASE Invalidate(w) \/ ZoneSaved(w) \/ FloorFails(w)
      BY <1>0, <3>5 DEF Invalidate, ZoneSaved, FloorFails, Return, Goto, TypeOK, OneSaves
    <3>. QED  BY <1>2, <3>1, <3>2, <3>3, <3>4, <3>5 DEF RequestStep
  <2>3. /\ pc'[w] \in {"lock", "save"} =>
              /\ cam'[w] \in Cams /\ new'[w] \in Docs
              /\ op'[w] = "create" \/ (op'[w] = "update" /\ old'[w] \in Docs)
        /\ pc'[w] \in {"erase", "zone"} => cam'[w] \in Cams
        /\ pc'[w] = "erase" => op'[w] = "delete"
        /\ pc'[w] = "floor" => op'[w] = "floor"
        /\ pc'[w] = "inval" /\ op'[w] \in {"create", "update"} => cam'[w] \in Cams
    <3>1. CASE DeleteFloor(w) \/ \E c \in Cams : Delete(w, c)
      BY <1>0, <3>1 DEF Delete, DeleteFloor, Request, Goto, TypeOK
    <3>2. CASE \E c \in Cams : Create(w, c) \/ Update(w, c)
      BY <1>0, <3>2 DEF Create, Update, Request, Goto, TypeOK
    <3>3. CASE Save(w)
      BY <1>0, <3>3
      DEF Save, SaveNew, SaveFails, SaveChanges, SaveNothing, Written, Return, Goto, TypeOK,
          RequestsInOrder
    <3>4. CASE CheckUnique(w)
      BY <1>0, <3>4 DEF CheckUnique, Return, Goto, TypeOK, RequestsInOrder
    <3>5. CASE Erase(w) \/ \E c \in Cams : EraseOfFloor(w, c)
      BY <1>0, <3>5 DEF Erase, EraseOfFloor, Written, Goto, TypeOK, RequestsInOrder
    <3>6. CASE Invalidate(w) \/ ZoneSaved(w) \/ FloorFails(w)
      BY <1>0, <3>6 DEF Invalidate, ZoneSaved, FloorFails, Return, Goto, TypeOK, RequestsInOrder
    <3>. QED  BY <1>2, <3>1, <3>2, <3>3, <3>4, <3>5, <3>6 DEF RequestStep
  <2>4. OneSaves'
    <3>. SUFFICES ASSUME NEW v \in Workers, pc'[v] = "save" PROVE writer' = v
      BY DEF OneSaves
    <3>1. CASE v = w  BY <2>2, <3>1
    <3>2. CASE v # w
      <4>1. pc[v] = "save"  BY <2>1, <3>2
      <4>2. writer # None  BY <1>0, <4>1, NoneAssumption DEF OneSaves
      <4>. QED  BY <2>2, <3>2, <4>1, <4>2
    <3>. QED  BY <3>1, <3>2
  <2>5. RequestsInOrder'
    <3>. SUFFICES ASSUME NEW v \in Workers
         PROVE  /\ pc'[v] \in {"lock", "save"} =>
                      /\ cam'[v] \in Cams /\ new'[v] \in Docs
                      /\ op'[v] = "create" \/ (op'[v] = "update" /\ old'[v] \in Docs)
                /\ pc'[v] \in {"erase", "zone"} => cam'[v] \in Cams
                /\ pc'[v] = "erase" => op'[v] = "delete"
                /\ pc'[v] = "floor" => op'[v] = "floor"
                /\ pc'[v] = "inval" /\ op'[v] \in {"create", "update"} => cam'[v] \in Cams
      BY DEF RequestsInOrder
    <3>1. CASE v = w  BY <2>3, <3>1
    <3>2. CASE v # w  BY <1>0, <2>1, <3>2 DEF RequestsInOrder
    <3>. QED  BY <3>1, <3>2
  <2>. QED  BY <2>4, <2>5
<1>. QED  BY <1>1, <1>2, AlarmsFrame DEF Next

--------------------------------------------------------------------------------
\* A step that writes one identity, and to one camera, keeps identities apart if
\* no other camera has it or the camera is known to be torn.
LEMMA OneWritten ==
    ASSUME TypeOK, UniqueIdentity, NEW c \in Cams, NEW d \in Docs \cup {None},
           docs' = [docs EXCEPT ![c] = d],
           \A e \in Cams \ {c} : e \in torn => e \in torn',
           \/ d = None \/ d.mac = None \/ c \in torn'
           \/ \A e \in Cams \ {c} : docs[e] # d
    PROVE  UniqueIdentity'
<1>. SUFFICES ASSUME NEW e \in Cams, NEW f \in Cams, e # f, docs'[e] # None,
                     docs'[e] = docs'[f], docs'[e].mac # None
     PROVE  e \in torn' \/ f \in torn'
  BY DEF UniqueIdentity
<1>1. \A g \in Cams : docs'[g] = IF g = c THEN d ELSE docs[g]  BY DEF TypeOK
<1>2. CASE e # c /\ f # c  BY <1>1, <1>2 DEF UniqueIdentity
<1>3. CASE e = c \/ f = c  BY <1>1, <1>3
<1>. QED  BY <1>2, <1>3

LEMMA MergedWhole ==
    \A b, a \in Docs : Merged(b, b, a) = a
BY DEF Merged, Docs

LEMMA MergedNothing ==
    \A d, b \in Docs : Merged(d, b, b) = d
BY DEF Merged, Docs

LEMMA UniqueSave ==
    ASSUME Inv, NEW w \in Workers, Save(w)
    PROVE  UniqueIdentity'
<1>0. TypeOK /\ UniqueIdentity /\ pc[w] = "save" /\ cam[w] \in Cams /\ new[w] \in Docs
  BY DEF Inv, RequestsInOrder, Save
<1>1. CASE SaveNew(w)
  <2>1. NeedsCheck(w)  BY <1>1 DEF SaveNew, NeedsCheck
  <2>2. new[w].mac = None \/ \A e \in Cams \ {cam[w]} : docs[e] # new[w]
    BY <1>0, <2>1 DEF Inv, Checked
  <2>. QED  BY <1>0, <1>1, <2>2, OneWritten DEF SaveNew
<1>2. CASE SaveFails(w) \/ SaveNothing(w)
  BY <1>0, <1>2 DEF SaveFails, SaveNothing, UniqueIdentity
<1>3. CASE SaveChanges(w)
  <2> DEFINE c == cam[w]
  <2>1. docs[c] \in Docs /\ old[w] \in Docs
    BY <1>0, <1>3 DEF SaveChanges, TypeOK, Inv, RequestsInOrder
  <2>2. docs' = [docs EXCEPT ![c] = Merged(docs[c], old[w], new[w])]  BY <1>3 DEF SaveChanges
  <2>3. CASE new[w] = old[w]
    <3>1. Merged(docs[c], old[w], new[w]) = docs[c]  BY <2>1, <2>3, MergedNothing
    <3>2. docs' = docs  BY <1>0, <2>2, <3>1 DEF TypeOK
    <3>3. torn' = torn  BY <1>3, <2>3 DEF SaveChanges
    <3>. QED  BY <1>0, <3>2, <3>3 DEF UniqueIdentity
  <2>4. CASE new[w] # old[w] /\ docs[c] # old[w]
    <3>1. torn' = torn \cup {c}  BY <1>3, <2>4 DEF SaveChanges
    <3>2. Merged(docs[c], old[w], new[w]) \in Docs  BY <1>0, <2>1, MergedType
    <3>. QED  BY <1>0, <2>2, <3>1, <3>2, OneWritten
  <2>5. CASE new[w] # old[w] /\ docs[c] = old[w]
    <3>1. torn' = torn \ {c}  BY <1>3, <2>5 DEF SaveChanges
    <3>2. Merged(docs[c], old[w], new[w]) = new[w]  BY <1>0, <2>1, <2>5, MergedWhole
    <3>3. new[w].mac = None \/ \A e \in Cams \ {c} : docs[e] # new[w]
      BY <1>0, <2>5 DEF Inv, Checked, NeedsCheck
    <3>. QED  BY <1>0, <2>2, <3>1, <3>2, <3>3, OneWritten
  <2>. QED  BY <2>3, <2>4, <2>5
<1>. QED  BY <1>1, <1>2, <1>3 DEF Save

\* Nobody saves while another holds what it checked; a document can only go.
LEMMA CheckedNext ==
    ASSUME Inv, [Next]_vars
    PROVE  Checked'
<1>0. TypeOK /\ OneSaves /\ RequestsInOrder /\ Checked  BY DEF Inv
<1>1. ASSUME UNCHANGED <<docs, request>> PROVE Checked'
  BY <1>0, <1>1 DEF Checked, NeedsCheck, request
<1>2. ASSUME NEW w \in Workers, RequestStep(w) PROVE Checked'
  <2>. SUFFICES ASSUME NEW v \in Workers, pc'[v] = "save", NeedsCheck(v)', new'[v].mac # None,
                       NEW c \in Cams \ {cam'[v]}
       PROVE  docs'[c] # new'[v]
    BY DEF Checked
  <2>1. CASE v # w
    <3>1. /\ pc[v] = "save" /\ new'[v] = new[v] /\ cam'[v] = cam[v]
          /\ op'[v] = op[v] /\ old'[v] = old[v]
      BY <1>0, <1>2, <2>1, OthersKeep
    <3>2. docs[c] # new[v]  BY <1>0, <3>1 DEF Checked, NeedsCheck
    <3>3. ~Save(w)  BY <1>0, <2>1, <3>1 DEF Save, OneSaves
    <3>4. docs'[c] \in {docs[c], None}
      BY <1>0, <1>2, <3>3
      DEF RequestStep, Create, Update, Delete, DeleteFloor, Request, CheckUnique, Erase,
          EraseOfFloor, FloorFails, Invalidate, ZoneSaved, TypeOK
    <3>5. new[v] # None  BY <1>0, <3>1, DocsAssumption DEF RequestsInOrder
    <3>. QED  BY <3>1, <3>2, <3>4, <3>5
  <2>2. CASE v = w
    <3>1. CheckUnique(w)
      BY <1>0, <1>2, <2>2
      DEF RequestStep, Create, Update, Delete, DeleteFloor, Request, Save, SaveNew, SaveFails,
          SaveChanges, SaveNothing, Erase, EraseOfFloor, FloorFails, Invalidate, ZoneSaved,
          Written, Return, Goto, TypeOK
    <3>2. pc'[w] = "save" /\ ~Return(w)
      BY <1>0, <2>2 DEF Return, Goto, TypeOK
    <3>3. /\ ~(NeedsCheck(w) /\ Carriers(new[w]) \ {cam[w]} # {})
          /\ UNCHANGED <<op, cam, old, new, docs>>
      BY <3>1, <3>2 DEF CheckUnique
    <3>4. NeedsCheck(w) /\ new[w].mac # None  BY <2>2, <3>3 DEF NeedsCheck
    <3>. QED  BY <2>2, <3>3, <3>4 DEF Carriers
  <2>. QED  BY <2>1, <2>2
<1>. QED  BY <1>1, <1>2, AlarmsFrame DEF Next

LEMMA UniqueNext ==
    ASSUME Inv, [Next]_vars
    PROVE  UniqueIdentity'
<1>0. TypeOK /\ UniqueIdentity /\ RequestsInOrder  BY DEF Inv
<1>1. ASSUME UNCHANGED <<docs, torn>> PROVE UniqueIdentity'
  BY <1>0, <1>1 DEF UniqueIdentity
<1>2. ASSUME NEW w \in Workers, RequestStep(w) PROVE UniqueIdentity'
  <2>1. CASE Save(w)  BY <2>1, UniqueSave
  <2>2. CASE Erase(w)
    <3>1. cam[w] \in Cams  BY <1>0, <2>2 DEF Erase, RequestsInOrder
    <3>2. docs' = [docs EXCEPT ![cam[w]] = None] /\ torn' = torn \ {cam[w]}
      BY <2>2 DEF Erase
    <3>. QED  BY <1>0, <3>1, <3>2, OneWritten
  <2>3. ASSUME NEW c \in Cams, EraseOfFloor(w, c) PROVE UniqueIdentity'
    <3>1. docs' = [docs EXCEPT ![c] = None] /\ torn' = torn \ {c}
      BY <2>3 DEF EraseOfFloor
    <3>. QED  BY <1>0, <3>1, OneWritten
  <2>4. CASE ~Save(w) /\ ~Erase(w) /\ ~(\E c \in Cams : EraseOfFloor(w, c))
    <3>1. UNCHANGED <<docs, torn>>
      BY <1>2, <2>4
      DEF RequestStep, Create, Update, Delete, DeleteFloor, Request, CheckUnique, FloorFails,
          Invalidate, ZoneSaved
    <3>. QED  BY <1>1, <3>1
  <2>. QED  BY <2>1, <2>2, <2>3, <2>4
<1>. QED  BY <1>1, <1>2, AlarmsFrame DEF Next

--------------------------------------------------------------------------------
LEMMA NewNext ==
    ASSUME Inv, [Next]_vars
    PROVE  NewIsFree'
<1>0. TypeOK /\ RequestsInOrder /\ NewIsFree  BY DEF Inv
<1>1. ASSUME UNCHANGED <<docs, request>> PROVE NewIsFree'
  BY <1>0, <1>1 DEF NewIsFree, request
<1>2. ASSUME NEW w \in Workers, RequestStep(w) PROVE NewIsFree'
  <2>1. \A v \in Workers \ {w} :
          /\ pc'[v] = pc[v] /\ op'[v] = op[v] /\ cam'[v] = cam[v]
    BY <1>0, <1>2, OthersKeep
  <2>2. CASE \E c \in Cams : Create(w, c)
    <3>1. PICK c \in Cams : Create(w, c)  BY <2>2
    <3>2. docs[c] = None /\ docs' = docs /\ cam'[w] = c /\ \A v \in Workers : cam[v] # c
      BY <1>0, <3>1 DEF Create, Request, TypeOK
    <3>. QED  BY <1>0, <2>1, <3>2 DEF NewIsFree
  <2>3. CASE DeleteFloor(w) \/ \E c \in Cams : Update(w, c) \/ Delete(w, c)
    <3>1. docs' = docs /\ op'[w] # "create"
      BY <1>0, <2>3 DEF DeleteFloor, Update, Delete, Request, TypeOK
    <3>. QED  BY <1>0, <2>1, <3>1 DEF NewIsFree
  <2>4. CASE CheckUnique(w)
    <3>1. docs' = docs /\ (pc'[w] = "save" => cam'[w] = cam[w] /\ op'[w] = op[w])
          /\ pc[w] = "lock" /\ pc'[w] \in {"idle", "save"}
      BY <1>0, <2>4 DEF CheckUnique, Return, Goto, TypeOK
    <3>. QED  BY <1>0, <2>1, <3>1 DEF NewIsFree
  <2>5. CASE Save(w)
    <3>1. pc'[w] \notin {"lock", "save"}
      BY <1>0, <2>5
      DEF Save, SaveNew, SaveFails, SaveChanges, SaveNothing, Written, Return, Goto, TypeOK
    <3>2. /\ \A c \in Cams \ {cam[w]} : docs'[c] = docs[c]
          /\ op[w] = "create" \/ docs[cam[w]] # None \/ docs' = docs
      BY <1>0, <2>5 DEF Save, SaveNew, SaveFails, SaveChanges, SaveNothing, TypeOK
    <3>3. pc[w] = "save"  BY <2>5 DEF Save
    <3>. QED  BY <1>0, <2>1, <3>1, <3>2, <3>3 DEF NewIsFree, RequestsInOrder
  <2>6. CASE Erase(w) \/ (\E c \in Cams : EraseOfFloor(w, c)) \/ FloorFails(w)
             \/ Invalidate(w) \/ ZoneSaved(w)
    <3>1. /\ pc'[w] \notin {"lock", "save"}
          /\ \A c \in Cams : docs'[c] \in {docs[c], None}
      BY <1>0, <2>6 DEF Erase, EraseOfFloor, FloorFails, Invalidate, ZoneSaved, Written,
                       Return, Goto, TypeOK
    <3>. QED  BY <1>0, <2>1, <3>1 DEF NewIsFree, RequestsInOrder
  <2>. QED  BY <1>2, <2>2, <2>3, <2>4, <2>5, <2>6 DEF RequestStep
<1>. QED  BY <1>1, <1>2, AlarmsFrame DEF Next

LEMMA FloorNext ==
    ASSUME Inv, [Next]_vars
    PROVE  FloorDropsNothing'
<1>0. TypeOK /\ RequestsInOrder /\ FloorDropsNothing  BY DEF Inv
<1>1. ASSUME UNCHANGED request PROVE FloorDropsNothing'
  BY <1>0, <1>1 DEF FloorDropsNothing, request
<1>2. ASSUME NEW w \in Workers, RequestStep(w) PROVE FloorDropsNothing'
  <2>1. \A v \in Workers \ {w} : op'[v] = op[v] /\ old'[v] = old[v]
    BY <1>0, <1>2, OthersKeep
  <2>2. op'[w] = "floor" => old'[w] = None
    <3>1. CASE \/ DeleteFloor(w)
               \/ \E c \in Cams : Create(w, c) \/ Update(w, c) \/ Delete(w, c)
      BY <1>0, <3>1 DEF DeleteFloor, Create, Update, Delete, Request, TypeOK
    <3>2. CASE CheckUnique(w) \/ Save(w)
      BY <1>0, <3>2 DEF CheckUnique, Save, SaveNew, SaveFails, SaveChanges, SaveNothing,
                       Written, Return, TypeOK, RequestsInOrder
    <3>3. CASE \/ Erase(w) \/ FloorFails(w) \/ Invalidate(w) \/ ZoneSaved(w)
               \/ \E c \in Cams : EraseOfFloor(w, c)
      BY <1>0, <3>3 DEF Erase, EraseOfFloor, FloorFails, Invalidate, ZoneSaved, Written,
                       Return, TypeOK, RequestsInOrder, FloorDropsNothing
    <3>. QED  BY <1>2, <3>1, <3>2, <3>3 DEF RequestStep
  <2>. QED  BY <1>0, <2>1, <2>2 DEF FloorDropsNothing
<1>. QED  BY <1>1, <1>2, AlarmsFrame DEF Next

--------------------------------------------------------------------------------
\* What becomes of a camera's identity that is no longer registered.
LEMMA GivenUp ==
    ASSUME Inv, NEW w \in Workers, RequestStep(w), NEW k \in Watched,
           k \in Registered, k \notin Registered'
    PROVE  k \in stray' \/ WillDrop(w, k)'
<1>0. TypeOK /\ RequestsInOrder /\ NewIsFree  BY DEF Inv
<1>1. k \in Docs /\ k # None /\ k.mac # None
  BY WatchedAssumption, NoneAssumption, DocsAssumption DEF Docs
<1>2. PICK c \in Cams : docs[c] = k /\ docs'[c] # k
  BY <1>1 DEF Registered, Carriers
<1>3. KeyOf(k) = {k}  BY DEF KeyOf
<1>4. CASE Save(w)
  <2>1. ~ SaveFails(w) /\ ~ SaveNothing(w)  BY <1>2 DEF SaveFails, SaveNothing
  <2>2. ~ SaveNew(w)
    BY <1>0, <1>1, <1>2, <1>4 DEF Save, SaveNew, NewIsFree, TypeOK
  <2>3. SaveChanges(w)  BY <1>4, <2>1, <2>2 DEF Save
  <2>4. c = cam[w]  BY <1>0, <1>2, <2>3 DEF SaveChanges, TypeOK
  <2>5. CASE k # old[w]
    BY <1>2, <1>3, <2>3, <2>4, <2>5 DEF SaveChanges
  <2>6. CASE k = old[w]
    <3>1. new[w] \in Docs  BY <1>0, <1>4 DEF Save, RequestsInOrder
    <3>2. docs'[c] = new[w]
      BY <1>0, <1>1, <1>2, <2>3, <2>4, <2>6, <3>1, MergedWhole DEF SaveChanges, TypeOK
    <3>3. new[w] # old[w]  BY <1>2, <2>6, <3>2
    <3>. QED  BY <1>0, <2>3, <2>6, <3>3 DEF SaveChanges, Written, Goto, WillDrop, TypeOK
  <2>. QED  BY <2>5, <2>6
<1>5. CASE Erase(w)
  <2>1. c = cam[w]  BY <1>0, <1>2, <1>5 DEF Erase, TypeOK
  <2>2. CASE k # old[w]  BY <1>1, <1>2, <1>3, <1>5, <2>1, <2>2 DEF Erase
  <2>3. CASE k = old[w]
    BY <1>0, <1>5, <2>3 DEF Erase, Written, Goto, WillDrop, TypeOK
  <2>. QED  BY <2>2, <2>3
<1>6. ASSUME NEW e \in Cams, EraseOfFloor(w, e) PROVE k \in stray'
  <2>1. c = e  BY <1>0, <1>2, <1>6 DEF EraseOfFloor, TypeOK
  <2>. QED  BY <1>1, <1>2, <1>3, <1>6, <2>1 DEF EraseOfFloor
<1>7. docs' # docs  BY <1>2
<1>. QED  BY <1>4, <1>5, <1>6, <1>7
     DEF RequestStep, Create, Update, Delete, DeleteFloor, Request, CheckUnique, FloorFails,
         Invalidate, ZoneSaved

\* A request that is to drop the events of k does so, or is still to.
LEMMA DropKept ==
    ASSUME Inv, NEW w \in Workers, RequestStep(w), NEW k \in Watched, WillDrop(w, k)
    PROVE  WillDrop(w, k)' \/ k \notin buffer'
<1>0. TypeOK /\ RequestsInOrder /\ FloorDropsNothing  BY DEF Inv
<1>1. k # None /\ KeyOf(k) = {k}
  BY WatchedAssumption, DocsAssumption DEF Docs, KeyOf
<1>2. old[w] = k /\ pc[w] \in {"erase", "inval"}  BY DEF WillDrop
<1>3. op[w] # "floor"  BY <1>0, <1>1, <1>2 DEF FloorDropsNothing
<1>4. Erase(w) \/ Invalidate(w)
  BY <1>2, <1>3
  DEF RequestStep, Create, Update, Delete, DeleteFloor, CheckUnique, Save, EraseOfFloor,
      FloorFails, ZoneSaved
<1>5. CASE Erase(w)
  BY <1>0, <1>2, <1>5 DEF Erase, Written, Goto, WillDrop, TypeOK
<1>6. CASE Invalidate(w)  BY <1>1, <1>2, <1>6 DEF Invalidate, Drop
<1>. QED  BY <1>4, <1>5, <1>6

\* A request adds no events, and forgets no stray ones but those it drops.
LEMMA RequestEvents ==
    ASSUME NEW w \in Workers, RequestStep(w)
    PROVE  buffer' \subseteq buffer /\ \A k \in stray \ stray' : k \notin buffer'
BY DEF RequestStep, Create, Update, Delete, DeleteFloor, Request, CheckUnique, Save, SaveNew,
       SaveFails, SaveChanges, SaveNothing, Erase, EraseOfFloor, FloorFails, Invalidate, Drop,
       ZoneSaved

LEMMA EventsNext ==
    ASSUME Inv, [Next]_vars
    PROVE  EventsOfRegistered'
<1>0. TypeOK /\ AlarmsInOrder /\ EventsOfRegistered  BY DEF Inv
<1>1. ASSUME NEW w \in Workers, RequestStep(w) PROVE EventsOfRegistered'
  <2>. SUFFICES ASSUME NEW k \in buffer', k \notin Registered', k \notin stray'
       PROVE  \E v \in Workers : WillDrop(v, k)'
    BY DEF EventsOfRegistered
  <2>1. k \in buffer /\ k \notin stray /\ k \in Watched  BY <1>0, <1>1, RequestEvents DEF TypeOK
  <2>2. CASE k \in Registered  BY <1>1, <2>1, <2>2, GivenUp
  <2>3. ASSUME NEW v \in Workers, WillDrop(v, k) PROVE WillDrop(v, k)'
    <3>1. CASE v = w  BY <1>1, <2>1, <2>3, <3>1, DropKept
    <3>2. CASE v # w  BY <1>0, <1>1, <2>3, <3>2, OthersKeep DEF WillDrop
    <3>. QED  BY <3>1, <3>2
  <2>. QED  BY <1>0, <2>1, <2>2, <2>3 DEF EventsOfRegistered
<1>2. ASSUME UNCHANGED <<docs, pc, old>>
      PROVE  /\ Registered' = Registered
             /\ \A k : (\E w \in Workers : WillDrop(w, k))' = (\E w \in Workers : WillDrop(w, k))
  BY <1>2 DEF Registered, Carriers, WillDrop
<1>3. ASSUME NEW a \in Alarms, AlarmStep(a) PROVE EventsOfRegistered'
  <2>1. UNCHANGED <<docs, pc, old>>  BY <1>3, AlarmsFrame DEF request
  <2>2. CASE AlarmAdds(a)
    BY <1>0, <1>2, <2>1, <2>2 DEF AlarmAdds, EventsOfRegistered
  <2>3. CASE ~ AlarmAdds(a)
    <3>1. UNCHANGED <<buffer, stray>>
      BY <1>3, <2>3 DEF AlarmStep, AlarmHits, AlarmMisses, AlarmFills
    <3>. QED  BY <1>0, <1>2, <2>1, <3>1 DEF EventsOfRegistered
  <2>. QED  BY <2>2, <2>3
<1>4. CASE CacheExpires \/ (\E k \in Watched : EventsAge(k)) \/ UNCHANGED vars
  <2>1. UNCHANGED <<docs, pc, old>>  BY <1>4, AlarmsFrame DEF request
  <2>2. buffer' \subseteq buffer /\ \A k \in stray \ stray' : k \notin buffer'
    BY <1>4 DEF CacheExpires, EventsAge, vars
  <2>. QED  BY <1>0, <1>2, <2>1, <2>2 DEF EventsOfRegistered
<1>. QED  BY <1>1, <1>3, <1>4 DEF Next

--------------------------------------------------------------------------------
\* A step of a request changes the registry only if it is to be invalidated afterwards, or
\* marks what is cached and being read as old.
LEMMA PendingKept ==
    ASSUME TypeOK, NEW w \in Workers, RequestStep(w)
    PROVE  \/ docs' = docs /\ (Pending(w) => Pending(w)')
           \/ Pending(w)'
           \/ (~ cached' \/ unsure') /\ \A a \in Alarms : apc[a] = "filling" => late'[a]
<1>1. CASE \/ DeleteFloor(w)
           \/ \E c \in Cams : Create(w, c) \/ Update(w, c) \/ Delete(w, c)
  BY <1>1 DEF DeleteFloor, Create, Update, Delete, Request, Goto, Pending, TypeOK
<1>2. CASE CheckUnique(w)  BY <1>2 DEF CheckUnique, Pending
<1>3. CASE Save(w)
  BY <1>3 DEF Save, SaveNew, SaveFails, SaveChanges, SaveNothing, Written, Goto, Pending, TypeOK
<1>4. CASE Erase(w) \/ \E c \in Cams : EraseOfFloor(w, c)
  BY <1>4 DEF Erase, EraseOfFloor, Written, Goto, Pending, TypeOK
<1>5. CASE FloorFails(w) \/ Invalidate(w)
  BY <1>5 DEF FloorFails, Invalidate, InvalidateCache, TypeOK
<1>6. CASE ZoneSaved(w)  BY <1>6 DEF ZoneSaved, Pending
<1>. QED  BY <1>1, <1>2, <1>3, <1>4, <1>5, <1>6 DEF RequestStep

\* A request marks nothing as fresh.
LEMMA RequestMarks ==
    ASSUME TypeOK, NEW w \in Workers, RequestStep(w)
    PROVE  /\ UNCHANGED <<apc, key, snap>>
           /\ UNCHANGED <<cached, cache, unsure, late>> \/
              \/ cached' = FALSE /\ \A a \in Alarms : apc[a] = "filling" => late'[a]
              \/ unsure' = TRUE /\ UNCHANGED <<cached, cache>>
                 /\ \A a \in Alarms : apc[a] = "filling" => late'[a]
BY DEF RequestStep, Create, Update, Delete, DeleteFloor, Request, CheckUnique, Save, Erase,
       EraseOfFloor, FloorFails, Invalidate, InvalidateCache, ZoneSaved, alarm, theCache, TypeOK

LEMMA CacheNext ==
    ASSUME Inv, [Next]_vars
    PROVE  FillsAreFresh' /\ CacheIsRegistry'
<1>0. TypeOK /\ FillsAreFresh /\ CacheIsRegistry  BY DEF Inv
<1>1. ASSUME NEW w \in Workers, RequestStep(w) PROVE FillsAreFresh' /\ CacheIsRegistry'
  <2>1. \A v \in Workers \ {w} : Pending(v)' = Pending(v)
    BY <1>0, <1>1, OthersKeep DEF Pending
  <2>2. docs' = docs => Registered' = Registered  BY DEF Registered, Carriers
  <2>3. CASE docs' = docs /\ (Pending(w) => Pending(w)')
    <3>1. (\E v \in Workers : Pending(v)) => (\E v \in Workers : Pending(v)')
      BY <2>1, <2>3
    <3>. QED  BY <1>0, <1>1, <2>2, <2>3, <3>1, RequestMarks DEF FillsAreFresh, CacheIsRegistry
  <2>4. CASE Pending(w)'  BY <2>4 DEF FillsAreFresh, CacheIsRegistry
  <2>5. CASE (~ cached' \/ unsure') /\ \A a \in Alarms : apc[a] = "filling" => late'[a]
    BY <1>0, <1>1, <2>5, RequestMarks DEF FillsAreFresh, CacheIsRegistry
  <2>. QED  BY <1>0, <1>1, <2>3, <2>4, <2>5, PendingKept
<1>2. ASSUME UNCHANGED <<docs, pc>>
      PROVE  /\ Registered' = Registered
             /\ (\E w \in Workers : Pending(w))' = (\E w \in Workers : Pending(w))
  BY <1>2 DEF Registered, Carriers, Pending
<1>3. ASSUME NEW a \in Alarms, AlarmStep(a) PROVE FillsAreFresh' /\ CacheIsRegistry'
  <2>1. UNCHANGED <<docs, pc>>  BY <1>3, AlarmsFrame DEF request
  <2>2. CASE \E k \in Watched : AlarmHits(a, k)
    BY <1>0, <1>2, <2>1, <2>2
    DEF AlarmHits, Decide, theCache, FillsAreFresh, CacheIsRegistry, TypeOK
  <2>3. CASE \E k \in Watched : AlarmMisses(a, k)
    BY <1>0, <1>2, <2>1, <2>3 DEF AlarmMisses, theCache, FillsAreFresh, CacheIsRegistry, TypeOK
  <2>4. CASE AlarmFills(a)
    BY <1>0, <1>2, <2>1, <2>4 DEF AlarmFills, Decide, FillsAreFresh, CacheIsRegistry, TypeOK
  <2>5. CASE AlarmAdds(a)
    BY <1>0, <1>2, <2>1, <2>5 DEF AlarmAdds, theCache, FillsAreFresh, CacheIsRegistry, TypeOK
  <2>. QED  BY <1>3, <2>2, <2>3, <2>4, <2>5 DEF AlarmStep
<1>4. CASE CacheExpires \/ (\E k \in Watched : EventsAge(k)) \/ UNCHANGED vars
  <2>1. UNCHANGED <<docs, pc>>  BY <1>4, AlarmsFrame DEF request
  <2>2. UNCHANGED <<apc, snap, late>> /\ (cached' = FALSE \/ UNCHANGED <<cached, cache, unsure>>)
    BY <1>4 DEF CacheExpires, EventsAge, vars, alarm, theCache
  <2>. QED  BY <1>0, <1>2, <2>1, <2>2 DEF FillsAreFresh, CacheIsRegistry
<1>. QED  BY <1>1, <1>3, <1>4 DEF Next

LEMMA InvInit == Init => Inv
<1>. SUFFICES ASSUME Init PROVE Inv  OBVIOUS
<1>1. AlarmsInOrder /\ OneSaves /\ RequestsInOrder /\ Checked
  BY DEF Init, AlarmsInOrder, OneSaves, RequestsInOrder, Checked
<1>2. NewIsFree /\ FloorDropsNothing /\ FillsAreFresh
  BY DEF Init, NewIsFree, FloorDropsNothing, FillsAreFresh
<1>3. UniqueIdentity /\ CacheIsRegistry /\ EventsOfRegistered
  BY DEF Init, UniqueIdentity, CacheIsRegistry, EventsOfRegistered
<1>. QED  BY <1>1, <1>2, <1>3, TypeInit DEF Inv

LEMMA InvNext == Inv /\ [Next]_vars => Inv'
<1>. SUFFICES ASSUME Inv, [Next]_vars PROVE Inv'  OBVIOUS
<1>1. TypeOK' /\ AlarmsInOrder'  BY TypeNext, AlarmsOrder DEF Inv
<1>. QED  BY <1>1, OrderNext, CheckedNext, UniqueNext, NewNext, FloorNext, CacheNext, EventsNext
     DEF Inv

LEMMA Invariance == Spec => []Inv
BY InvInit, InvNext, PTL DEF Spec

\* The registry of cameras keeps its type.
THEOREM TypeCorrect == Spec => []TypeOK
<1>1. Inv => TypeOK  BY DEF Inv
<1>. QED  BY <1>1, Invariance, PTL

\* cctv_service.py:6: however creations, edits and deletions overlap, two cameras
\* share (device_mac, channel) only if two updates of one of them overlapped.
THEOREM IdentitiesApart == Spec => []UniqueIdentity
<1>1. Inv => UniqueIdentity  BY DEF Inv
<1>. QED  BY <1>1, Invariance, PTL

\* cctv_service.py, vigi_service.py: for any number of requests and alarms, the cache that
\* alarms are judged by is the registry, but for the causes that the property tells.
THEOREM CacheTells == Spec => []CacheIsRegistry
<1>1. Inv => CacheIsRegistry  BY DEF Inv
<1>. QED  BY <1>1, Invariance, PTL

\* cctv_service.py, camera_detection_buffer.py: no events are held of a camera that is not
\* registered, but for those that a request is about to drop and the strays.
THEOREM EventsHaveACamera == Spec => []EventsOfRegistered
<1>1. Inv => EventsOfRegistered  BY DEF Inv
<1>. QED  BY <1>1, Invariance, PTL
--------------------------------------------------------------------------------
(* The presence of one device (CameraPresence).                            *)

\* A round that found the device unregistered knows of a registration since.
PruneKnows == round \in {"read", "delete"} /\ Presence!Registered => during

PresenceInv == Presence!NodesAreOwned /\ PruneKnows

LEMMA PresenceBegins == Presence!Init => PresenceInv
  BY DEF Presence!Init, PresenceInv, PruneKnows, Presence!NodesAreOwned, Presence!TypeOK,
         Presence!NodeHasOwner, Presence!Registered, Presence!Has, Presence!Nodes,
         Presence!NoNode

\* An admin's request: it leaves the node alone.
LEMMA PresenceRequest ==
    ASSUME PresenceInv, Presence!Request
    PROVE  PresenceInv'
<1>. USE DEF PresenceInv, PruneKnows, Presence!NodesAreOwned, Presence!TypeOK,
             Presence!NodeHasOwner, Presence!Registered, Presence!Has
<1>1. ASSUME NEW c \in Members, Presence!Leave(c)  PROVE PresenceInv'
  BY <1>1 DEF Presence!Leave, Presence!Writes, Presence!Leads
<1>2. ASSUME NEW c \in Members, NEW a \in Ips, Presence!Register(c, a)  PROVE PresenceInv'
  <2>1. address' \in [Members -> Ips \cup {Nothing}] /\ address'[c] # Nothing
    BY <1>2, CamerasAssumption DEF Presence!Register, Presence!Writes
  <2>2. Presence!Registered'  BY <2>1
  <2>. QED  BY <1>2, <2>1, <2>2 DEF Presence!Register, Presence!Writes
<1>3. ASSUME NEW c \in Members, NEW a \in Ips, Presence!Readdress(c, a)  PROVE PresenceInv'
  BY <1>3, CamerasAssumption DEF Presence!Readdress, Presence!Writes, Presence!Leads
<1>4. ASSUME NEW there \in (SUBSET Members) \ {{}}, Presence!DeleteFloor(there)
      PROVE  PresenceInv'
  BY <1>4 DEF Presence!DeleteFloor, Presence!Writes, Presence!Leads
<1>. QED  BY <1>1, <1>2, <1>3, <1>4 DEF Presence!Request

\* A write of some fields: the node keeps its mark, or gets the mark.
LEMMA PresencePut ==
    ASSUME PresenceInv, NEW n \in Presence!Nodes, Presence!Put(n),
           n.via \/ n.via = Presence!Base.via,
           UNCHANGED address
    PROVE  /\ node' \in Presence!Nodes
           /\ orphan' \in BOOLEAN
           /\ node' # Presence!NoNode /\ ~Presence!Registered' /\ ~node'.via =>
                 orphan' \/ steps \cap (Members \cup {"drop"}) # {}
  BY DEF PresenceInv, Presence!Put, Presence!Base, Presence!NodesAreOwned, Presence!TypeOK,
         Presence!NodeHasOwner, Presence!Registered, Presence!Has, Presence!Nodes

LEMMA BaseIsANode == Presence!TypeOK => Presence!Base \in Presence!Nodes
  BY DEF Presence!TypeOK, Presence!Base, Presence!Nodes

LEMMA PresenceStep ==
    ASSUME PresenceInv, [Presence!Next]_(Presence!vars)
    PROVE  PresenceInv'
<1>. USE DEF PresenceInv, PruneKnows, Presence!NodesAreOwned, Presence!TypeOK,
             Presence!NodeHasOwner, Presence!Registered, Presence!Has
<1>1. CASE Presence!Request  BY <1>1, PresenceRequest
<1>2. CASE Presence!ClearMismatch
  <2>1. [Presence!Base EXCEPT !.mismatch = Nothing] \in Presence!Nodes
    BY BaseIsANode DEF Presence!Nodes
  <2>2. [Presence!Base EXCEPT !.mismatch = Nothing].via = Presence!Base.via
    BY BaseIsANode DEF Presence!Nodes
  <2>. QED
    BY <1>2, <2>1, <2>2, PresencePut, StepsAssumption DEF Presence!ClearMismatch, Presence!Ends
<1>3. ASSUME NEW c \in Members, Presence!LookForOthers(c)  PROVE PresenceInv'
  <2>1. Presence!TypeOK'
    BY <1>3 DEF Presence!LookForOthers, Presence!Ends
  <2>2. Presence!NodeHasOwner'
    BY <1>3 DEF Presence!LookForOthers, Presence!Ends
  <2>. QED  BY <1>3, <2>1, <2>2 DEF Presence!LookForOthers
<1>4. CASE Presence!Drop
  BY <1>4 DEF Presence!Drop, Presence!DeleteNode, Presence!Ends
<1>5. CASE Presence!DropFails  BY <1>5 DEF Presence!DropFails, Presence!Ends
<1>6. CASE Presence!Sweep \/ Presence!Checks
  BY <1>6 DEF Presence!Sweep, Presence!Checks, Presence!Leads
<1>7. CASE Presence!WriteLastSeen
  <2>1. [Presence!Base EXCEPT !.recent = TRUE] \in Presence!Nodes
    BY BaseIsANode DEF Presence!Nodes
  <2>2. [Presence!Base EXCEPT !.recent = TRUE].via = Presence!Base.via
    BY BaseIsANode DEF Presence!Nodes
  <2>. QED
    BY <1>7, <2>1, <2>2, PresencePut, StepsAssumption DEF Presence!WriteLastSeen, Presence!Ends
<1>8. CASE Presence!WriteProbe
  BY <1>8, BaseIsANode, PresencePut, StepsAssumption DEF Presence!WriteProbe, Presence!Ends
<1>9. CASE Presence!AlarmOfStranger
  <2>1. [Presence!Base EXCEPT !.via = TRUE, !.recent = TRUE] \in Presence!Nodes
    BY BaseIsANode DEF Presence!Nodes
  <2>2. [Presence!Base EXCEPT !.via = TRUE, !.recent = TRUE].via
    BY BaseIsANode DEF Presence!Nodes
  <2>. QED  BY <1>9, <2>1, <2>2, PresencePut DEF Presence!AlarmOfStranger
<1>10. CASE Presence!Record
  <2>. DEFINE Kept == [Presence!Base EXCEPT !.via = TRUE, !.recent = TRUE]
              Told(c) == [Presence!Base EXCEPT !.via = TRUE, !.recent = TRUE,
                                               !.mismatch = Presence!Mismatch(c)]
  <2>1. Kept \in Presence!Nodes /\ Kept.via  BY BaseIsANode DEF Presence!Nodes
  <2>2. ASSUME NEW c \in Members  PROVE Told(c) \in Presence!Nodes /\ Told(c).via
    BY BaseIsANode DEF Presence!Nodes, Presence!Mismatch
  <2>3. UNCHANGED <<address, seen, where, steps, during, still>> /\ round' = "recorded"
    BY <1>10 DEF Presence!Record
  <2>4. \E n \in Presence!Nodes : n.via /\ Presence!Put(n) /\ found' \in BOOLEAN
    <3>. HIDE DEF Kept, Told
    <3>1. CASE found' = TRUE /\ Presence!Put(Kept)  BY <2>1, <3>1
    <3>2. ASSUME NEW c \in Members, Presence!Put(Told(c)), UNCHANGED found
          PROVE  \E n \in Presence!Nodes : n.via /\ Presence!Put(n) /\ found' \in BOOLEAN
      BY <2>2, <3>2
    <3>. QED  BY <1>10, <3>1, <3>2 DEF Presence!Record, Kept, Told
  <2>. QED  BY <2>3, <2>4, PresencePut
<1>11. CASE Presence!RecordNothing \/ Presence!PruneReads \/ Presence!PruneLooks
  BY <1>11 DEF Presence!RecordNothing, Presence!PruneReads, Presence!PruneLooks
<1>12. CASE Presence!PruneDeletes
  BY <1>12 DEF Presence!PruneDeletes, Presence!DeleteNode
<1>13. ASSUME NEW a \in Ips \cup {Nothing}, Presence!Moves(a)  PROVE PresenceInv'
  BY <1>13 DEF Presence!Moves
<1>14. CASE Presence!NodeAges
  BY <1>14 DEF Presence!NodeAges, Presence!Nodes, Presence!NoNode
<1>15. CASE Presence!FoundAges \/ Presence!CacheRenews \/ Presence!Calm
  BY <1>15 DEF Presence!FoundAges, Presence!CacheRenews, Presence!Calm
<1>16. CASE UNCHANGED Presence!vars  BY <1>16 DEF Presence!vars
<1>. QED
  BY <1>1, <1>2, <1>3, <1>4, <1>5, <1>6, <1>7, <1>8, <1>9, <1>10, <1>11, <1>12, <1>13,
     <1>14, <1>15, <1>16 DEF Presence!Next, Presence!RoundStep, Presence!Ages

\* A step of the run is one of the device's, or leaves it alone.
LEMMA PresenceMoves ==
    [FaultsNext]_<<logs, cameras, part>> => [Presence!Next]_(Presence!vars)
  BY DEF FaultsNext, cameras, presence, Presence!vars

LEMMA PresenceInvariance == FaultsSpec => []PresenceInv
<1>1. FaultsInit => PresenceInv  BY PresenceBegins DEF FaultsInit
<1>. QED  BY <1>1, PresenceMoves, PresenceStep, PTL DEF FaultsSpec

\* cctv_service.py, camera_health_service.py, camera_discovery_service.py: however
\* requests, checks, alarms and rounds overlap, the node of a device that nobody has
\* registered is a discovered one, or will be dropped, or was left for a cause.
THEOREM NodesHaveOwners == FaultsSpec => []NodesAreOwned
<1>1. PresenceInv => NodesAreOwned  BY DEF PresenceInv, NodesAreOwned
<1>. QED  BY <1>1, PresenceInvariance, PTL

\* camera_discovery_service.py:264: prune removes the node of no registered device, but of
\* one that was registered after the round had read the registry.
THEOREM RegisteredAreSpared == FaultsSpec => PruneSparesRegistered
<1>1. PresenceInv /\ [Presence!Next]_(Presence!vars)
          => [Presence!PruneDeletes /\ Presence!Registered => during]_(Presence!vars)
  BY DEF PresenceInv, PruneKnows, Presence!PruneDeletes
<1>. QED
  BY <1>1, PresenceInvariance, PresenceMoves, PTL
  DEF FaultsSpec, PruneSparesRegistered, Presence!PruneSparesRegistered

--------------------------------------------------------------------------------
(* Live view (LiveView).                                                   *)

\* A config that is about to be written and has not aged is the registry's.
RenderedIsWanted ==
    \A t \in Requests : stage[t] = "write" /\ ~aged[t] => data[t] = Live!Wanted

\* Between its stamps and go2rtc's start, start.ps1 knows of the password what it will know.
StampedPassword == relay = "stamped" /\ ~fresh => envTouched \/ missed

LiveInv == Live!RelayFollows /\ RenderedIsWanted /\ StampedPassword

LEMMA WantedIsAConfig == Live!TypeOK => Live!Wanted \in Live!Configs
  BY DEF Live!TypeOK, Live!Wanted, Live!Configs

LEMMA LiveBegins == Live!Init => LiveInv
  BY DEF Live!Init, LiveInv, RenderedIsWanted, StampedPassword, Live!RelayFollows,
         Live!TypeOK, Live!ConfigCurrent, Live!RelayCurrent, Live!PasswordCurrent

\* Requests and the host: they leave start.ps1 alone, but may write the file.
LEMMA LiveBackend ==
    ASSUME LiveInv, UNCHANGED <<relay, loaded, fresh, envTouched, missed>>,
           Live!TypeOK', RenderedIsWanted', Live!ConfigCurrent',
           UNCHANGED <<file, touched>> \/ (touched' = (touched \/ file # file'))
    PROVE  LiveInv'
  BY DEF LiveInv, Live!RelayFollows, StampedPassword, Live!RelayCurrent,
         Live!PasswordCurrent, Live!TypeOK

\* A thread that begins to refresh the config, the registry being as it was.
LEMMA LiveReads ==
    ASSUME LiveInv, NEW t \in Requests, stage[t] # "write",
           stage' = [stage EXCEPT ![t] = "read"],
           UNCHANGED <<shown, host, file, owed, data, aged>>
    PROVE  RenderedIsWanted' /\ Live!ConfigCurrent'
  BY DEF LiveInv, Live!RelayFollows, RenderedIsWanted, Live!ConfigCurrent, Live!TypeOK,
         Live!Refreshes, Live!Wanted

\* A thread that ends: its cause is told, or it had nothing to refresh.
LEMMA LiveEnds ==
    ASSUME LiveInv, NEW t \in Requests,
           stage' \in {[stage EXCEPT ![t] = "idle"], [stage EXCEPT ![t] = "ask"]},
           data' = [data EXCEPT ![t] = Live!NoFile], aged' = [aged EXCEPT ![t] = FALSE],
           UNCHANGED <<shown, host>>,
           owed' \/ file' = Live!Wanted \/ (stage[t] = "ask" /\ UNCHANGED <<file, owed>>)
    PROVE  RenderedIsWanted' /\ Live!ConfigCurrent'
  BY DEF LiveInv, Live!RelayFollows, RenderedIsWanted, Live!ConfigCurrent, Live!TypeOK,
         Live!Refreshes, Live!Wanted

\* The registry or the host changes, and what was rendered ages with it.
LEMMA LiveAges ==
    ASSUME LiveInv, Live!Ages, UNCHANGED data,
           owed' \/ \E t \in Requests : stage'[t] = "read",
           \A t \in Requests : stage'[t] = "write" => stage[t] = "write"
    PROVE  RenderedIsWanted' /\ Live!ConfigCurrent'
  BY DEF RenderedIsWanted, Live!ConfigCurrent, Live!Refreshes, Live!Ages

\* The types of what a request changes.
LEMMA LiveTypes ==
    ASSUME Live!TypeOK, Live!Next
    PROVE  Live!TypeOK'
<1>. USE DEF Live!TypeOK
<1>1. ASSUME NEW t \in Requests, Live!Boot(t)  PROVE Live!TypeOK'
  BY <1>1 DEF Live!Boot, Live!Begin, Live!config, Live!script
<1>2. ASSUME NEW t \in Requests, Live!Read(t)  PROVE Live!TypeOK'
  BY <1>2, WantedIsAConfig DEF Live!Read, Live!config, Live!script
<1>3. ASSUME NEW t \in Requests, Live!Write(t)  PROVE Live!TypeOK'
  BY <1>3 DEF Live!Write, Live!Goes, Live!End, Live!script, Live!NewStamp
<1>4. ASSUME NEW t \in Requests, Live!WriteFails(t)  PROVE Live!TypeOK'
  BY <1>4 DEF Live!WriteFails, Live!Goes, Live!End, Live!script
<1>5. ASSUME NEW t \in Requests, Live!Answered(t)  PROVE Live!TypeOK'
  BY <1>5 DEF Live!Answered, Live!End, Live!config, Live!script
<1>6. ASSUME NEW t \in Requests, Live!NotLoaded(t)  PROVE Live!TypeOK'
  BY <1>6 DEF Live!NotLoaded, Live!config, Live!script
<1>7. ASSUME NEW t \in Requests, Live!ChangeRaises(t)  PROVE Live!TypeOK'
  BY <1>7 DEF Live!ChangeRaises, Live!End, Live!script
<1>8. ASSUME NEW t \in Requests, NEW c \in Viewed, NEW v \in Addresses \cup {Nothing},
             Live!Change(t, c, v)
      PROVE  Live!TypeOK'
  BY <1>8 DEF Live!Change, Live!Begin, Live!Ages, Live!config, Live!script
<1>9. ASSUME NEW t \in Requests, NEW c \in Viewed, Live!View(t, c)  PROVE Live!TypeOK'
  BY <1>9 DEF Live!View, Live!Begin, Live!config, Live!script
<1>10. CASE Live!DeleteFloor  BY <1>10 DEF Live!DeleteFloor, Live!Ages, Live!script
<1>11. CASE Live!Crash  BY <1>11 DEF Live!Crash, Live!script
<1>12. ASSUME NEW h \in Hosts, Live!NewHost(h)  PROVE Live!TypeOK'
  BY <1>12 DEF Live!NewHost, Live!Ages, Live!script
<1>13. CASE Live!RelayStep
  BY <1>13 DEF Live!RelayStep, Live!ReadPassword, Live!TakeStamps, Live!Start,
               Live!SeesConfig, Live!SeesEnv, Live!Stops, Live!Admin, Live!threads
<1>14. CASE Live!Dies \/ Live!SaveEnv \/ Live!Calm
  BY <1>14 DEF Live!Dies, Live!SaveEnv, Live!Calm, Live!Stops, Live!Admin, Live!threads,
               Live!config, Live!script
<1>. QED
  BY <1>1, <1>2, <1>3, <1>4, <1>5, <1>6, <1>7, <1>8, <1>9, <1>10, <1>11, <1>12, <1>13, <1>14
  DEF Live!Next, Live!ThreadStep, Live!Opens

\* start.ps1 and backend/.env: they leave the registry, the file and the requests alone.
LEMMA LiveRelay ==
    ASSUME LiveInv, Live!TypeOK', UNCHANGED Live!Admin,
           Live!RelayStep \/ Live!Dies \/ Live!SaveEnv
    PROVE  LiveInv'
<1>1. RenderedIsWanted' /\ Live!ConfigCurrent'
  BY DEF LiveInv, Live!RelayFollows, RenderedIsWanted, Live!ConfigCurrent, Live!Refreshes,
         Live!Wanted, Live!Admin, Live!threads
<1>2. StampedPassword' /\ Live!RelayCurrent' /\ Live!PasswordCurrent'
  BY DEF LiveInv, Live!RelayFollows, Live!TypeOK, StampedPassword, Live!RelayCurrent,
         Live!PasswordCurrent, Live!RelayStep, Live!ReadPassword, Live!TakeStamps,
         Live!Start, Live!SeesConfig, Live!SeesEnv, Live!Stops, Live!Dies, Live!SaveEnv,
         Live!Admin
<1>. QED  BY <1>1, <1>2 DEF LiveInv, Live!RelayFollows

LEMMA LiveStep ==
    ASSUME LiveInv, [Live!Next]_(Live!vars)
    PROVE  LiveInv'
<1>1. CASE UNCHANGED Live!vars
  BY <1>1 DEF LiveInv, Live!RelayFollows, RenderedIsWanted, StampedPassword, Live!TypeOK,
              Live!ConfigCurrent, Live!RelayCurrent, Live!PasswordCurrent, Live!Refreshes,
              Live!Wanted, Live!vars, Live!config, Live!script, Live!threads
<1>2. CASE Live!Next
  <2>1. Live!TypeOK /\ Live!TypeOK'  BY <1>2, LiveTypes DEF LiveInv, Live!RelayFollows
  <2>. USE DEF Live!config, Live!script
  <2>2. ASSUME NEW t \in Requests,
               \/ Live!Boot(t) \/ Live!NotLoaded(t)
               \/ \E c \in Viewed : Live!View(t, c)
        PROVE  LiveInv'
    <3>1. /\ stage[t] # "write" /\ stage' = [stage EXCEPT ![t] = "read"]
          /\ UNCHANGED <<shown, host, file, touched, owed, data, aged>>
          /\ UNCHANGED <<relay, loaded, fresh, envTouched, missed>>
      BY <2>2 DEF Live!Boot, Live!NotLoaded, Live!View, Live!Begin
    <3>. QED  BY <3>1, <2>1, LiveReads, LiveBackend
  <2>3. ASSUME NEW t \in Requests, Live!Read(t)  PROVE LiveInv'
    <3>1. RenderedIsWanted' /\ Live!ConfigCurrent'
      BY <2>1, <2>3 DEF LiveInv, Live!RelayFollows, RenderedIsWanted, Live!ConfigCurrent,
                        Live!TypeOK, Live!Refreshes, Live!Wanted, Live!Read
    <3>. QED  BY <2>1, <2>3, <3>1, LiveBackend DEF Live!Read
  <2>4. ASSUME NEW t \in Requests, Live!Write(t)  PROVE LiveInv'
    <3>1. owed' \/ file' = Live!Wanted
      BY <2>1, <2>4 DEF LiveInv, RenderedIsWanted, Live!TypeOK, Live!Write
    <3>2. touched' = (touched \/ file # file')  BY <2>4 DEF Live!Write, Live!NewStamp
    <3>3. RenderedIsWanted' /\ Live!ConfigCurrent'
      BY <2>4, <3>1, LiveEnds DEF Live!Write, Live!Goes, Live!End
    <3>. QED  BY <2>1, <2>4, <3>2, <3>3, LiveBackend DEF Live!Write
  <2>5. ASSUME NEW t \in Requests, Live!WriteFails(t) \/ Live!ChangeRaises(t)
        PROVE  LiveInv'
    <3>1. RenderedIsWanted' /\ Live!ConfigCurrent'
      BY <2>5, LiveEnds DEF Live!WriteFails, Live!ChangeRaises, Live!Goes, Live!End
    <3>. QED
      BY <2>1, <2>5, <3>1, LiveBackend DEF Live!WriteFails, Live!ChangeRaises
  <2>6. ASSUME NEW t \in Requests, Live!Answered(t)  PROVE LiveInv'
    <3>1. RenderedIsWanted' /\ Live!ConfigCurrent'
      BY <2>6, LiveEnds DEF Live!Answered, Live!End
    <3>. QED  BY <2>1, <2>6, <3>1, LiveBackend DEF Live!Answered
  <2>7. ASSUME NEW t \in Requests, NEW c \in Viewed, NEW v \in Addresses \cup {Nothing},
               Live!Change(t, c, v)
        PROVE  LiveInv'
    <3>1. /\ stage'[t] = "read" /\ \A u \in Requests : stage'[u] = "write" => stage[u] = "write"
          /\ Live!Ages /\ UNCHANGED data
      BY <2>1, <2>7 DEF Live!Change, Live!Begin, Live!TypeOK
    <3>2. RenderedIsWanted' /\ Live!ConfigCurrent'  BY <3>1, LiveAges
    <3>. QED  BY <2>1, <2>7, <3>2, LiveBackend DEF Live!Change
  <2>8. CASE Live!DeleteFloor \/ \E h \in Hosts : Live!NewHost(h)
    <3>1. RenderedIsWanted' /\ Live!ConfigCurrent'
      BY <2>8, LiveAges DEF Live!DeleteFloor, Live!NewHost
    <3>. QED  BY <2>1, <2>8, <3>1, LiveBackend DEF Live!DeleteFloor, Live!NewHost
  <2>9. CASE Live!Crash
    <3>1. RenderedIsWanted' /\ Live!ConfigCurrent'
      BY <2>9 DEF Live!Crash, RenderedIsWanted, Live!ConfigCurrent
    <3>. QED  BY <2>1, <2>9, <3>1, LiveBackend DEF Live!Crash
  <2>10. CASE Live!Calm
    BY <2>1, <2>10 DEF LiveInv, Live!RelayFollows, RenderedIsWanted, StampedPassword,
         Live!ConfigCurrent, Live!RelayCurrent, Live!PasswordCurrent, Live!Refreshes,
         Live!Wanted, Live!threads, Live!Calm
  <2>11. CASE Live!RelayStep \/ Live!Dies \/ Live!SaveEnv
    <3>1. UNCHANGED Live!Admin
      BY <2>11 DEF Live!RelayStep, Live!ReadPassword, Live!TakeStamps, Live!Start,
           Live!SeesConfig, Live!SeesEnv, Live!Stops, Live!Dies, Live!SaveEnv, Live!Admin
    <3>. QED  BY <2>1, <2>11, <3>1, LiveRelay
  <2>. QED
    BY <1>2, <2>2, <2>3, <2>4, <2>5, <2>6, <2>7, <2>8, <2>9, <2>10, <2>11
    DEF Live!Next, Live!ThreadStep, Live!Opens
<1>. QED  BY <1>1, <1>2

LEMMA LiveMoves == [FaultsNext]_<<logs, cameras, part>> => [Live!Next]_(Live!vars)
  BY DEF FaultsNext, cameras, live, Live!vars, Live!config, Live!threads, Live!script

\* live_view_service.py, start.ps1: for any number of requests and cameras, the config file
\* follows the registry, go2rtc the file, and its password backend/.env, but for the causes
\* that the property names.
THEOREM ViewersFollow == FaultsSpec => []RelayFollows
<1>1. FaultsInit => LiveInv  BY LiveBegins DEF FaultsInit
<1>2. LiveInv => RelayFollows  BY DEF LiveInv, RelayFollows
<1>. QED  BY <1>1, <1>2, LiveMoves, LiveStep, PTL DEF FaultsSpec


--------------------------------------------------------------------------------
(* The capture log (CaptureLog). *)

\* An entry of the capture.
Entry == [kind : {"line", "dead", "skip"}, pieces : Seq(Capture!Piece), s : Capture!Streams]

CaptureType ==
    /\ v1 \in [Writers -> [Capture!Streams -> Seq(Capture!Piece)]]
    /\ v2 \in [Capture!Streams -> BOOLEAN] /\ v3 \in [Capture!Streams -> BOOLEAN]
    /\ v4 \in Seq(Seq(Entry)) /\ v4 # << >>
    /\ \A i \in DOMAIN v4 : Len(v4[i]) <= PartMax
    /\ v5 \in {"open", "none", "closed"}
    /\ v6 \in Seq(Entry)
    /\ v7 \in [Writers -> [Capture!Streams -> Nat]]
    /\ v8 \in [Writers -> [at : {"idle", "console", "failed", "skipped", "tell", "note"},
                           s : Capture!Streams]]
    /\ v9 \in {"no", "stderr", "stdout", "clean"}

\* How many writes of a thread have left it.
Left(t, s) == v7[t][s] - Len(v1[t][s])

\* What is pending are the thread's own last writes, without a gap and without a newline.
PendingRuns ==
    \A t \in Writers, s \in Capture!Streams :
        /\ Left(t, s) \in Nat
        /\ \A j \in 1 .. Len(v1[t][s]) :
              v1[t][s][j] = [t |-> t, s |-> s, n |-> Left(t, s) + j, ends |-> FALSE]

\* What has left is in the file or lost, and in the file in its order.
Accounted ==
    \A t \in Writers, s \in Capture!Streams :
        /\ 1 .. Left(t, s) =
              UNION ({Capture!Numbers(Capture!EntryAt(a).pieces, t, s) : a \in Capture!InFile}
                     \cup {Capture!Numbers(v6[i].pieces, t, s) : i \in DOMAIN v6})
        /\ \A a, b \in Capture!InFile : Capture!Before(a, b) =>
              \A m \in Capture!Numbers(Capture!EntryAt(a).pieces, t, s),
                 n \in Capture!Numbers(Capture!EntryAt(b).pieces, t, s) : m < n

\* At exit the main thread's lines are flushed one after the other.
FlushedInTurn ==
    /\ v9 \in {"stdout", "clean"} => v1[Main]["stderr"] = << >>
    /\ v9 = "clean" => v1[Main]["stdout"] = << >>

\* A warning is nowhere, or in one place.
InOnePlace(kind, place, s) == \E w : Capture!Tellings(kind, place, s) = {w}
OneTelling(kind, place, s, due) ==
    IF due THEN InOnePlace(kind, place, s) ELSE Capture!Tellings(kind, place, s) = {}
WarnedOnce ==
    \A s \in Capture!Streams :
        OneTelling("dead", "tell", s, ~v2[s]) /\ OneTelling("skip", "note", s, v3[s])

CaptureInv ==
    /\ CaptureType /\ PendingRuns /\ Accounted /\ FlushedInTurn /\ WarnedOnce
    /\ Capture!LinesAreWhole

--------------------------------------------------------------------------------
(* An entry that is emitted is added at the end of the file, or lost. *)

Adds(e) ==
    /\ v6' = v6
    /\ \E b \in Capture!InFile' :
          /\ Capture!InFile' = Capture!InFile \cup {b} /\ b \notin Capture!InFile
          /\ Capture!EntryAt(b)' = e
          /\ \A a \in Capture!InFile :
                /\ Capture!EntryAt(a)' = Capture!EntryAt(a)
                /\ Capture!Before(a, b) /\ ~Capture!Before(b, a)
          /\ ~Capture!Before(b, b)
Loses(e) ==
    /\ v6' = Append(v6, e)
    /\ Capture!InFile' = Capture!InFile
    /\ \A a \in Capture!InFile : Capture!EntryAt(a)' = Capture!EntryAt(a)

LEMMA InFileIs ==
    ASSUME NEW p, NEW i
    PROVE  <<p, i>> \in Capture!InFile <=> p \in DOMAIN v4 /\ i \in DOMAIN v4[p]
BY DEF Capture!InFile

LEMMA InFileIsNext ==
    ASSUME NEW p, NEW i
    PROVE  <<p, i>> \in Capture!InFile' <=> p \in DOMAIN v4' /\ i \in DOMAIN v4'[p]
BY DEF Capture!InFile

LEMMA PlacesArePairs ==
    /\ \A a \in Capture!InFile : a = <<a[1], a[2]>>
    /\ \A a \in Capture!InFile' : a = <<a[1], a[2]>>
BY DEF Capture!InFile

LEMMA PrefixOfAppended ==
    ASSUME NEW S, NEW q \in Seq(S), NEW e \in S
    PROVE  Capture!IsPrefix(q, q) /\ Capture!IsPrefix(q, Append(q, e))
<1>1. Append(q, e) \in Seq(S) /\ Len(Append(q, e)) = Len(q) + 1  OBVIOUS
<1>2. /\ SubSeq(q, 1, Len(q)) \in Seq(S) /\ Len(SubSeq(q, 1, Len(q))) = Len(q)
      /\ \A i \in 1 .. Len(q) : SubSeq(q, 1, Len(q))[i] = q[i]
  OBVIOUS
<1>3. /\ SubSeq(Append(q, e), 1, Len(q)) \in Seq(S)
      /\ Len(SubSeq(Append(q, e), 1, Len(q))) = Len(q)
      /\ \A i \in 1 .. Len(q) : SubSeq(Append(q, e), 1, Len(q))[i] = q[i]
  BY <1>1
<1>4. SubSeq(q, 1, Len(q)) = SubSeq(Append(q, e), 1, Len(q))  BY <1>2, <1>3
<1>. QED  BY <1>1, <1>4 DEF Capture!IsPrefix

\* An entry is put at place i of part p, and nothing else is changed.
LEMMA PutAtEnd ==
    ASSUME CaptureType, v4' \in Seq(Seq(Entry)), UNCHANGED v6,
           NEW e, NEW p \in Nat, NEW i \in Nat,
           p \in DOMAIN v4', DOMAIN v4 \subseteq 1 .. p,
           \A q \in DOMAIN v4' \ {p} : q \in DOMAIN v4 /\ v4'[q] = v4[q],
           \A q \in DOMAIN v4 : q \in DOMAIN v4',
           DOMAIN v4'[p] = 1 .. i, i >= 1, v4'[p][i] = e,
           IF p \in DOMAIN v4 THEN /\ DOMAIN v4[p] = 1 .. i - 1
                                   /\ \A j \in 1 .. i - 1 : v4'[p][j] = v4[p][j]
                              ELSE i = 1
    PROVE  Adds(e)
<1>1. <<p, i>> \in Capture!InFile' /\ <<p, i>> \notin Capture!InFile
  BY InFileIs, InFileIsNext
<1>2. \A q, j : <<q, j>> \in Capture!InFile' <=>
                    <<q, j>> \in Capture!InFile \/ (q = p /\ j = i)
  <2>. TAKE q, j
  <2>1. CASE q = p  BY <2>1, InFileIs, InFileIsNext
  <2>2. CASE q # p  BY <2>2, InFileIs, InFileIsNext
  <2>. QED  BY <2>1, <2>2
<1>3. Capture!InFile' = Capture!InFile \cup {<<p, i>>}
  BY <1>2, PlacesArePairs
<1>4. Capture!EntryAt(<<p, i>>)' = e /\ ~Capture!Before(<<p, i>>, <<p, i>>)
  BY DEF Capture!EntryAt, Capture!Before
<1>5. ASSUME NEW a \in Capture!InFile
      PROVE  /\ Capture!EntryAt(a)' = Capture!EntryAt(a)
             /\ Capture!Before(a, <<p, i>>) /\ ~Capture!Before(<<p, i>>, a)
  <2>1. v4 \in Seq(Seq(Entry))  BY DEF CaptureType
  <2>2. a[1] \in DOMAIN v4 /\ a[2] \in DOMAIN v4[a[1]]
    BY InFileIs, PlacesArePairs
  <2>3. a[1] \in 1 .. p /\ a[2] \in Nat  BY <2>1, <2>2
  <2>4. CASE a[1] = p
    BY <2>2, <2>3, <2>4 DEF Capture!EntryAt, Capture!Before
  <2>5. CASE a[1] # p
    BY <2>2, <2>3, <2>5 DEF Capture!EntryAt, Capture!Before
  <2>. QED  BY <2>4, <2>5
<1>. QED  BY <1>1, <1>3, <1>4, <1>5 DEF Adds

\* An entry is added to the last part.
LEMMA AddedAtEnd ==
    ASSUME CaptureType, NEW e \in Entry, UNCHANGED v6,
           v4' = Capture!AddedTo(v4, e), ~Capture!Full
    PROVE  /\ v4' \in Seq(Seq(Entry)) /\ v4' # << >>
           /\ \A i \in DOMAIN v4' : Len(v4'[i]) <= PartMax
           /\ Capture!Grows /\ Adds(e)
<1>1. PICK m \in Nat \ {0} : m = Len(v4) /\ v4 \in [1 .. m -> Seq(Entry)]
  BY DEF CaptureType
<1>2. PICK k \in Nat : k = Len(v4[m]) + 1  BY <1>1
<1>3. v4[m] \in Seq(Entry) /\ k - 1 < PartMax /\ PartMax \in Nat
  BY <1>1, <1>2, LogsAssumption DEF Capture!Full, Capture!Last
<1>4. /\ Append(v4[m], e) \in Seq(Entry) /\ Len(Append(v4[m], e)) = k
      /\ Append(v4[m], e)[k] = e
      /\ \A j \in 1 .. k - 1 : Append(v4[m], e)[j] = v4[m][j]
  BY <1>2, <1>3
<1>5. /\ v4' \in [1 .. m -> Seq(Entry)]
      /\ v4'[m] = Append(v4[m], e) /\ \A i \in 1 .. m - 1 : v4'[i] = v4[i]
  <2>1. v4' = [v4 EXCEPT ![m] = Append(v4[m], e)]  BY <1>1 DEF Capture!AddedTo
  <2>2. m \in 1 .. m  BY <1>1
  <2>3. v4' \in [1 .. m -> Seq(Entry)]  BY <1>1, <1>4, <2>1, <2>2, Zenon
  <2>4. v4'[m] = Append(v4[m], e)  BY <1>1, <2>1, <2>2, Zenon
  <2>5. ASSUME NEW i \in 1 .. m - 1  PROVE v4'[i] = v4[i]
    <3>1. i \in 1 .. m /\ i # m  OBVIOUS
    <3>. QED  BY <1>1, <2>1, <3>1, Zenon
  <2>. QED  BY <2>3, <2>4, <2>5
<1>6. v4' \in Seq(Seq(Entry)) /\ Len(v4') = m /\ v4' # << >>
  BY <1>5
<1>7. \A i \in DOMAIN v4' : Len(v4'[i]) <= PartMax
  <2>1. ASSUME NEW i \in 1 .. m - 1  PROVE Len(v4'[i]) <= PartMax
    BY <1>1, <1>5, <2>1 DEF CaptureType
  <2>2. Len(v4'[m]) <= PartMax  BY <1>3, <1>4, <1>5
  <2>. QED  BY <1>5, <2>1, <2>2
<1>8. Capture!Grows
  <2>1. ASSUME NEW i \in 1 .. m  PROVE Capture!IsPrefix(v4[i], v4'[i])
    <3>1. v4[i] \in Seq(Entry)  BY <1>1
    <3>2. CASE i = m  BY <1>5, <3>1, <3>2, PrefixOfAppended
    <3>3. CASE i # m
      <4>1. v4'[i] = v4[i]  BY <1>5, <3>3
      <4>. QED  BY <3>1, <4>1, PrefixOfAppended
    <3>. QED  BY <3>2, <3>3
  <2>. QED  BY <1>1, <1>5, <1>6, <2>1 DEF Capture!Grows
<1>9. Adds(e)
  <2>1. DOMAIN v4 = 1 .. m /\ DOMAIN v4' = 1 .. m  BY <1>1, <1>5
  <2>2. DOMAIN v4[m] = 1 .. k - 1 /\ DOMAIN v4'[m] = 1 .. k /\ k >= 1
    BY <1>2, <1>3, <1>4, <1>5
  <2>3. v4'[m][k] = e /\ \A j \in 1 .. k - 1 : v4'[m][j] = v4[m][j]
    BY <1>4, <1>5
  <2>4. /\ m \in DOMAIN v4' /\ DOMAIN v4 \subseteq 1 .. m
        /\ \A q \in DOMAIN v4' \ {m} : q \in DOMAIN v4 /\ v4'[q] = v4[q]
        /\ \A q \in DOMAIN v4 : q \in DOMAIN v4'
    BY <1>5, <2>1
  <2>5. IF m \in DOMAIN v4 THEN /\ DOMAIN v4[m] = 1 .. k - 1
                                /\ \A j \in 1 .. k - 1 : v4'[m][j] = v4[m][j]
                           ELSE k = 1
    BY <1>1, <2>2, <2>3
  <2>6. m \in Nat /\ k \in Nat  OBVIOUS
  <2>. HIDE <1>1, <1>2 DEF Adds
  <2>. QED  BY <1>6, <2>2, <2>3, <2>4, <2>5, <2>6, PutAtEnd
<1>. QED  BY <1>6, <1>7, <1>8, <1>9

\* A part is begun, with an entry or none.
LEMMA BegunPart ==
    ASSUME CaptureType, NEW e \in Entry, NEW q \in Seq(Entry),
           q = << >> \/ q = <<e>>, v4' = Append(v4, q)
    PROVE  /\ v4' \in Seq(Seq(Entry)) /\ v4' # << >>
           /\ \A i \in DOMAIN v4' : Len(v4'[i]) <= PartMax
           /\ Capture!Grows
           /\ q = <<e>> /\ UNCHANGED v6 => Adds(e)
           /\ q = << >> /\ v6' = Append(v6, e) => Loses(e)
<1>1. PICK m \in Nat : m = Len(v4) /\ v4 \in Seq(Seq(Entry)) /\ DOMAIN v4 = 1 .. m
  BY DEF CaptureType
<1>2. Len(q) <= 1 /\ PartMax \in Nat \ {0}
  <2>1. Len(<< >>) = 0 /\ Len(<<e>>) = 1  OBVIOUS
  <2>2. CASE q = << >>  BY <2>1, <2>2, LogsAssumption
  <2>3. CASE q = <<e>>  BY <2>1, <2>3, LogsAssumption
  <2>. QED  BY <2>2, <2>3
<1>3. /\ v4' \in Seq(Seq(Entry)) /\ Len(v4') = m + 1 /\ DOMAIN v4' = 1 .. m + 1
      /\ v4'[m + 1] = q /\ \A i \in 1 .. m : v4'[i] = v4[i]
  BY <1>1
<1>4. \A i \in DOMAIN v4' : Len(v4'[i]) <= PartMax
  <2>1. ASSUME NEW i \in 1 .. m  PROVE Len(v4'[i]) <= PartMax
    BY <1>1, <1>3, <2>1 DEF CaptureType
  <2>2. Len(v4'[m + 1]) <= PartMax  BY <1>2, <1>3
  <2>. QED  BY <1>1, <1>3, <2>1, <2>2
<1>5. Capture!Grows
  <2>1. ASSUME NEW i \in 1 .. m  PROVE Capture!IsPrefix(v4[i], v4'[i])
    <3>1. v4[i] \in Seq(Entry)  BY <1>1
    <3>. QED  BY <1>3, <3>1, PrefixOfAppended
  <2>. QED  BY <1>1, <1>3, <2>1 DEF Capture!Grows
<1>6. ASSUME q = <<e>>, UNCHANGED v6  PROVE Adds(e)
  <2>1. DOMAIN v4'[m + 1] = 1 .. 1 /\ v4'[m + 1][1] = e  BY <1>3, <1>6
  <2>2. m + 1 \in Nat /\ 1 \in Nat /\ m + 1 \notin DOMAIN v4  BY <1>1
  <2>3. /\ m + 1 \in DOMAIN v4' /\ DOMAIN v4 \subseteq 1 .. m + 1
        /\ \A i \in DOMAIN v4' \ {m + 1} : i \in DOMAIN v4 /\ v4'[i] = v4[i]
        /\ \A i \in DOMAIN v4 : i \in DOMAIN v4'
    BY <1>1, <1>3
  <2>4. IF m + 1 \in DOMAIN v4 THEN /\ DOMAIN v4[m + 1] = 1 .. 1 - 1
                                    /\ \A j \in 1 .. 1 - 1 : v4'[m + 1][j] = v4[m + 1][j]
                               ELSE 1 = 1
    BY <2>2
  <2>5. 1 >= 1  OBVIOUS
  <2>. QED  BY <1>3, <1>6, <2>1, <2>2, <2>3, <2>4, <2>5, PutAtEnd
<1>7. ASSUME q = << >>, v6' = Append(v6, e)  PROVE Loses(e)
  <2>1. DOMAIN v4'[m + 1] = {}  BY <1>3, <1>7
  <2>2. \A p, i : <<p, i>> \in Capture!InFile' <=> <<p, i>> \in Capture!InFile
    <3>. TAKE p, i
    <3>1. CASE p = m + 1
      BY <1>1, <2>1, <3>1, InFileIs, InFileIsNext
    <3>2. CASE p # m + 1
      BY <1>1, <1>3, <3>2, InFileIs, InFileIsNext
    <3>. QED  BY <3>1, <3>2
  <2>3. Capture!InFile' = Capture!InFile
    <3>1. ASSUME NEW a  PROVE a \in Capture!InFile' <=> a \in Capture!InFile
      BY <2>2, PlacesArePairs
    <3>. QED  BY <3>1
  <2>4. ASSUME NEW a \in Capture!InFile  PROVE Capture!EntryAt(a)' = Capture!EntryAt(a)
    <3>1. a[1] \in 1 .. m  BY <1>1, InFileIs, PlacesArePairs
    <3>. QED  BY <1>1, <1>3, <3>1 DEF Capture!EntryAt
  <2>. QED  BY <1>7, <2>3, <2>4 DEF Loses
<1>. QED  BY <1>3, <1>4, <1>5, <1>6, <1>7

LEMMA Emitted ==
    ASSUME CaptureType, NEW e \in Entry, Capture!Emit(e)
    PROVE  /\ v4' \in Seq(Seq(Entry)) /\ v4' # << >>
           /\ \A i \in DOMAIN v4' : Len(v4'[i]) <= PartMax
           /\ v5' \in {"open", "none", "closed"} /\ v6' \in Seq(Entry)
           /\ Capture!Grows
           /\ Adds(e) \/ Loses(e)
<1>1. CASE Capture!Written(e)
  <2>1. CASE Capture!Full
    <3>1. v4' = Append(v4, <<e>>) /\ UNCHANGED v6 /\ v5' = "open"
      BY <1>1, <2>1 DEF Capture!Written, Capture!RolledOver
    <3>2. <<e>> \in Seq(Entry)  OBVIOUS
    <3>. QED  BY <3>1, <3>2, BegunPart DEF CaptureType
  <2>2. CASE ~Capture!Full
    BY <1>1, <2>2, AddedAtEnd DEF Capture!Written, CaptureType
  <2>. QED  BY <2>1, <2>2
<1>2. CASE Capture!NotWritten(e)
  <2>1. v6' = Append(v6, e) /\ v6' \in Seq(Entry)
    BY <1>2 DEF Capture!NotWritten, CaptureType
  <2>2. CASE UNCHANGED v4
    <3>1. Loses(e)  BY <2>1, <2>2 DEF Loses, Capture!InFile, Capture!EntryAt
    <3>2. Capture!Grows
      <4>1. v4 \in Seq(Seq(Entry))  BY DEF CaptureType
      <4>. QED  BY <2>2, <4>1 DEF Capture!Grows, Capture!IsPrefix
    <3>3. v5' \in {"open", "none", "closed"}
      BY <1>2 DEF Capture!NotWritten, CaptureType
    <3>. QED  BY <2>1, <2>2, <3>1, <3>2, <3>3 DEF CaptureType
  <2>3. CASE v4' = Append(v4, << >>) /\ v5' = "none"
    <3>1. << >> \in Seq(Entry)  OBVIOUS
    <3>. QED  BY <2>1, <2>3, <3>1, BegunPart
  <2>. QED  BY <1>2, <2>2, <2>3 DEF Capture!NotWritten
<1>. QED  BY <1>1, <1>2 DEF Capture!Emit
--------------------------------------------------------------------------------
(* What an entry that is emitted does to the accounts. *)

Numbers(e, t, s) == Capture!Numbers(e.pieces, t, s)

\* A line, and nothing else, is whole.
IsWhole(e, end) ==
    e.kind = "line" =>
        /\ \A j \in 1 .. Len(e.pieces) - 1 :
              /\ e.pieces[j + 1] =
                    [e.pieces[j] EXCEPT !.n = @ + 1, !.ends = e.pieces[j + 1].ends]
              /\ ~e.pieces[j].ends
        /\ ~Capture!Last(e.pieces).ends =>
              Capture!Last(e.pieces).t = Main /\ end \in {"stdout", "clean"}

LEMMA WholeStays ==
    ASSUME Capture!LinesAreWhole, NEW e,
           Adds(e) \/ Loses(e), IsWhole(e, v9'),
           v9' = v9 \/ v9' \in {"stdout", "clean"} \/ v9 \notin {"stdout", "clean"}
    PROVE  Capture!LinesAreWhole'
<1>. SUFFICES ASSUME NEW a \in Capture!InFile'
              PROVE  IsWhole(Capture!EntryAt(a)', v9')
  BY DEF Capture!LinesAreWhole, IsWhole
<1>1. ASSUME NEW b \in Capture!InFile, Capture!EntryAt(b)' = Capture!EntryAt(b)
      PROVE  IsWhole(Capture!EntryAt(b)', v9')
  BY <1>1 DEF Capture!LinesAreWhole, IsWhole
<1>. QED  BY <1>1 DEF Adds, Loses

\* The entry holds what has left a thread by this step and had not before.
LEMMA AccountsStay ==
    ASSUME CaptureType, Accounted, NEW e \in Entry, Adds(e) \/ Loses(e),
           \A t \in Writers, s \in Capture!Streams :
              /\ Left(t, s) \in Nat /\ Left(t, s)' \in Nat /\ Left(t, s) <= Left(t, s)'
              /\ Numbers(e, t, s) = Left(t, s) + 1 .. Left(t, s)'
    PROVE  Accounted'
<1>. SUFFICES ASSUME NEW t \in Writers, NEW s \in Capture!Streams
              PROVE  /\ 1 .. Left(t, s)' =
                          UNION ({Numbers(Capture!EntryAt(a)', t, s) : a \in Capture!InFile'}
                                 \cup {Numbers(v6'[i], t, s) : i \in DOMAIN v6'})
                     /\ \A a, b \in Capture!InFile' : Capture!Before(a, b) =>
                           \A m \in Numbers(Capture!EntryAt(a)', t, s),
                              n \in Numbers(Capture!EntryAt(b)', t, s) : m < n
  BY DEF Accounted, Numbers, Capture!Numbers, Capture!Before
<1>. DEFINE before == UNION ({Numbers(Capture!EntryAt(a), t, s) : a \in Capture!InFile}
                          \cup {Numbers(v6[i], t, s) : i \in DOMAIN v6})
<1>1. /\ 1 .. Left(t, s) = before
      /\ \A a, b \in Capture!InFile : Capture!Before(a, b) =>
            \A m \in Numbers(Capture!EntryAt(a), t, s),
               n \in Numbers(Capture!EntryAt(b), t, s) : m < n
  BY DEF Accounted, Numbers
<1>2. /\ Left(t, s) \in Nat /\ Left(t, s)' \in Nat /\ Left(t, s) <= Left(t, s)'
      /\ Numbers(e, t, s) = Left(t, s) + 1 .. Left(t, s)'
  OBVIOUS
<1>3. 1 .. Left(t, s)' = before \cup Numbers(e, t, s)
  <2>. HIDE DEF before
  <2>. QED  BY <1>1, <1>2
<1>4. ASSUME NEW a \in Capture!InFile, NEW m \in Numbers(Capture!EntryAt(a), t, s),
             NEW n \in Numbers(e, t, s)
      PROVE  m < n
  <2>1. m \in before  OBVIOUS
  <2>2. m \in 1 .. Left(t, s)  BY <1>1, <2>1
  <2>. QED  BY <1>2, <2>2
<1>5. CASE Adds(e)
  <2>1. PICK b \in Capture!InFile' :
              /\ Capture!InFile' = Capture!InFile \cup {b}
              /\ Capture!EntryAt(b)' = e /\ ~Capture!Before(b, b)
              /\ \A a \in Capture!InFile :
                    /\ Capture!EntryAt(a)' = Capture!EntryAt(a) /\ ~Capture!Before(b, a)
    BY <1>5 DEF Adds
  <2>2. v6' = v6  BY <1>5 DEF Adds
  <2>3. UNION ({Numbers(Capture!EntryAt(a)', t, s) : a \in Capture!InFile'}
               \cup {Numbers(v6'[i], t, s) : i \in DOMAIN v6'}) = before \cup Numbers(e, t, s)
    <3>1. {Numbers(Capture!EntryAt(a)', t, s) : a \in Capture!InFile'}
             = {Numbers(Capture!EntryAt(a), t, s) : a \in Capture!InFile}
                  \cup {Numbers(e, t, s)}
      BY <2>1
    <3>. QED  BY <2>2, <3>1
  <2>4. ASSUME NEW a \in Capture!InFile', NEW c \in Capture!InFile', Capture!Before(a, c),
               NEW m \in Numbers(Capture!EntryAt(a)', t, s),
               NEW n \in Numbers(Capture!EntryAt(c)', t, s)
        PROVE  m < n
    <3>1. a \in Capture!InFile /\ Capture!EntryAt(a)' = Capture!EntryAt(a)
      BY <2>1, <2>4
    <3>2. CASE c = b  BY <1>4, <2>1, <3>1, <3>2
    <3>3. CASE c # b
      <4>1. c \in Capture!InFile /\ Capture!EntryAt(c)' = Capture!EntryAt(c)
        BY <2>1, <3>3
      <4>. QED  BY <1>1, <2>4, <3>1, <4>1
    <3>. QED  BY <3>2, <3>3
  <2>. QED  BY <1>3, <2>3, <2>4
<1>6. CASE Loses(e)
  <2>1. /\ Capture!InFile' = Capture!InFile
        /\ \A a \in Capture!InFile : Capture!EntryAt(a)' = Capture!EntryAt(a)
        /\ v6' = Append(v6, e)
    BY <1>6 DEF Loses
  <2>2. UNION ({Numbers(Capture!EntryAt(a)', t, s) : a \in Capture!InFile'}
               \cup {Numbers(v6'[i], t, s) : i \in DOMAIN v6'}) = before \cup Numbers(e, t, s)
    <3>1. /\ v6 \in Seq(Entry) /\ DOMAIN v6 = 1 .. Len(v6)
          /\ DOMAIN v6' = 1 .. Len(v6) + 1
          /\ v6'[Len(v6) + 1] = e /\ \A i \in DOMAIN v6 : v6'[i] = v6[i]
      BY <2>1 DEF CaptureType
    <3>2. {Numbers(v6'[i], t, s) : i \in DOMAIN v6'}
             = {Numbers(v6[i], t, s) : i \in DOMAIN v6} \cup {Numbers(e, t, s)}
      <4>1. /\ DOMAIN v6' = DOMAIN v6 \cup {Len(v6) + 1}
            /\ \A i \in DOMAIN v6 : Numbers(v6'[i], t, s) = Numbers(v6[i], t, s)
            /\ Numbers(v6'[Len(v6) + 1], t, s) = Numbers(e, t, s)
        BY <3>1
      <4>. QED  BY <4>1
    <3>3. {Numbers(Capture!EntryAt(a)', t, s) : a \in Capture!InFile'}
             = {Numbers(Capture!EntryAt(a), t, s) : a \in Capture!InFile}
      BY <2>1
    <3>. QED  BY <3>2, <3>3
  <2>. QED  BY <1>1, <1>3, <2>1, <2>2
<1>. QED  BY <1>5, <1>6

LEMMA AccountsSame ==
    ASSUME Accounted, UNCHANGED <<v4, v6>>,
           \A t \in Writers, s \in Capture!Streams : Left(t, s)' = Left(t, s)
    PROVE  Accounted'
<1>1. /\ Capture!InFile' = Capture!InFile /\ v6' = v6
      /\ \A a : Capture!EntryAt(a)' = Capture!EntryAt(a)
  BY DEF Capture!InFile, Capture!EntryAt
<1>. SUFFICES ASSUME NEW t \in Writers, NEW s \in Capture!Streams
              PROVE  /\ 1 .. Left(t, s)' =
                          UNION ({Numbers(Capture!EntryAt(a)', t, s) : a \in Capture!InFile'}
                                 \cup {Numbers(v6'[i], t, s) : i \in DOMAIN v6'})
                     /\ \A a, b \in Capture!InFile' : Capture!Before(a, b) =>
                           \A m \in Numbers(Capture!EntryAt(a)', t, s),
                              n \in Numbers(Capture!EntryAt(b)', t, s) : m < n
  BY DEF Accounted, Numbers, Capture!Numbers, Capture!Before
<1>. QED  BY <1>1 DEF Accounted, Numbers

--------------------------------------------------------------------------------
(* The warnings. *)

SameTellers(place, s) ==
    \A t \in Writers : v8'[t] = Capture!At(place, s) <=> v8[t] = Capture!At(place, s)

LEMMA TellingsSame ==
    ASSUME NEW kind, NEW place, NEW s, UNCHANGED <<v4, v6>>, SameTellers(place, s)
    PROVE  Capture!Tellings(kind, place, s)' = Capture!Tellings(kind, place, s)
BY DEF Capture!Tellings, Capture!InFile, Capture!EntryAt, SameTellers, Capture!At

\* Another entry changes nothing ...
LEMMA TellingsOfOthers ==
    ASSUME CaptureType, NEW kind, NEW place, NEW s, SameTellers(place, s),
           NEW e \in Entry, Adds(e) \/ Loses(e), e.kind # kind \/ e.s # s
    PROVE  Capture!Tellings(kind, place, s)' = Capture!Tellings(kind, place, s)
<1>1. {t \in Writers : v8'[t] = Capture!At(place, s)}
         = {t \in Writers : v8[t] = Capture!At(place, s)}
  BY DEF SameTellers
<1>2. CASE Adds(e)
  <2>1. /\ v6' = v6
        /\ {a \in Capture!InFile' : (Capture!EntryAt(a)').kind = kind
                                       /\ (Capture!EntryAt(a)').s = s}
             = {a \in Capture!InFile : Capture!EntryAt(a).kind = kind
                                          /\ Capture!EntryAt(a).s = s}
    BY <1>2 DEF Adds
  <2>. QED  BY <1>1, <2>1 DEF Capture!Tellings, Capture!At
<1>3. CASE Loses(e)
  <2>1. {a \in Capture!InFile' : (Capture!EntryAt(a)').kind = kind
                                    /\ (Capture!EntryAt(a)').s = s}
          = {a \in Capture!InFile : Capture!EntryAt(a).kind = kind
                                       /\ Capture!EntryAt(a).s = s}
    BY <1>3 DEF Loses
  <2>2. {i \in DOMAIN v6' : v6'[i].kind = kind /\ v6'[i].s = s}
          = {i \in DOMAIN v6 : v6[i].kind = kind /\ v6[i].s = s}
    <3>1. /\ v6 \in Seq(Entry) /\ v6' = Append(v6, e)  BY <1>3 DEF Loses, CaptureType
    <3>2. /\ DOMAIN v6' = DOMAIN v6 \cup {Len(v6) + 1} /\ v6'[Len(v6) + 1] = e
          /\ \A i \in DOMAIN v6 : v6'[i] = v6[i]
      BY <3>1
    <3>. QED  BY <3>2
  <2>. QED  BY <1>1, <2>1, <2>2 DEF Capture!Tellings, Capture!At
<1>. QED  BY <1>2, <1>3

\* ... and the one that a thread was about to write takes its place.
LEMMA TellingsMove ==
    ASSUME CaptureType, NEW kind, NEW place, NEW s,
           NEW e \in Entry, Adds(e) \/ Loses(e), e.kind = kind, e.s = s,
           NEW t \in Writers, v8[t] = Capture!At(place, s), place # "idle",
           \A u \in Writers : v8'[u] = IF u = t THEN Capture!Idle ELSE v8[u],
           InOnePlace(kind, place, s)
    PROVE  InOnePlace(kind, place, s)'
<1>. DEFINE About(f) == f.kind = kind /\ f.s = s
<1>1. <<"telling", t>> \in Capture!Tellings(kind, place, s)
  BY DEF Capture!Tellings, Capture!At
<1>2. /\ \A a \in Capture!InFile : ~About(Capture!EntryAt(a))
      /\ \A i \in DOMAIN v6 : ~About(v6[i])
      /\ \A u \in Writers : v8[u] = Capture!At(place, s) => u = t
  <2>1. /\ \A a \in Capture!InFile : About(Capture!EntryAt(a)) =>
              <<"told", a>> \in Capture!Tellings(kind, place, s)
        /\ \A i \in DOMAIN v6 : About(v6[i]) =>
              <<"lost", i>> \in Capture!Tellings(kind, place, s)
        /\ \A u \in Writers : v8[u] = Capture!At(place, s) =>
              <<"telling", u>> \in Capture!Tellings(kind, place, s)
    BY DEF Capture!Tellings, Capture!At
  <2>. QED  BY <1>1, <2>1 DEF InOnePlace
<1>3. \A u \in Writers : v8'[u] # Capture!At(place, s)
  <2>1. Capture!Idle # Capture!At(place, s)  BY DEF Capture!At, Capture!Idle
  <2>. QED  BY <1>2, <2>1
<1>4. CASE Adds(e)
  <2>1. PICK b \in Capture!InFile' :
              /\ Capture!InFile' = Capture!InFile \cup {b} /\ Capture!EntryAt(b)' = e
              /\ \A a \in Capture!InFile : Capture!EntryAt(a)' = Capture!EntryAt(a)
    BY <1>4 DEF Adds
  <2>2. v6' = v6 /\ b \notin Capture!InFile
    BY <1>2, <1>4, <2>1 DEF Adds
  <2>3. {a \in Capture!InFile' : About(Capture!EntryAt(a)')} = {b}
    BY <1>2, <2>1
  <2>4. {i \in DOMAIN v6' : About(v6'[i])} = {}
    BY <1>2, <2>2
  <2>5. Capture!Tellings(kind, place, s)' = {<<"told", b>>}
    BY <1>3, <2>3, <2>4 DEF Capture!Tellings, Capture!At
  <2>. QED  BY <2>5 DEF InOnePlace
<1>5. CASE Loses(e)
  <2>1. {a \in Capture!InFile' : About(Capture!EntryAt(a)')} = {}
    BY <1>2, <1>5 DEF Loses
  <2>2. \E i : {j \in DOMAIN v6' : About(v6'[j])} = {i}
    <3>1. v6 \in Seq(Entry) /\ v6' = Append(v6, e)  BY <1>5 DEF Loses, CaptureType
    <3>2. /\ DOMAIN v6' = DOMAIN v6 \cup {Len(v6) + 1} /\ v6'[Len(v6) + 1] = e
          /\ \A j \in DOMAIN v6 : v6'[j] = v6[j] /\ Len(v6) + 1 \notin DOMAIN v6
      BY <3>1
    <3>3. {j \in DOMAIN v6' : About(v6'[j])} = {Len(v6) + 1}  BY <1>2, <3>2
    <3>. QED  BY <3>3
  <2>3. PICK i : {j \in DOMAIN v6' : About(v6'[j])} = {i}  BY <2>2
  <2>4. Capture!Tellings(kind, place, s)' = {<<"lost", i>>}
    BY <1>3, <2>1, <2>3 DEF Capture!Tellings, Capture!At
  <2>. QED  BY <2>4 DEF InOnePlace
<1>. QED  BY <1>4, <1>5

\* A thread is about to write the first.
LEMMA TellingsBegin ==
    ASSUME CaptureType, NEW kind, NEW place \in {"tell", "note"}, NEW s \in Capture!Streams,
           NEW t \in Writers, UNCHANGED <<v4, v6>>,
           v8' = [v8 EXCEPT ![t] = Capture!At(place, s)],
           Capture!Tellings(kind, place, s) = {}
    PROVE  Capture!Tellings(kind, place, s)' = {<<"telling", t>>}
<1>1. /\ \A a \in Capture!InFile : ~(Capture!EntryAt(a).kind = kind /\ Capture!EntryAt(a).s = s)
      /\ \A i \in DOMAIN v6 : ~(v6[i].kind = kind /\ v6[i].s = s)
      /\ \A u \in Writers : v8[u] # Capture!At(place, s)
  <2>1. /\ \A a \in Capture!InFile : Capture!EntryAt(a).kind = kind /\ Capture!EntryAt(a).s = s =>
              <<"told", a>> \in Capture!Tellings(kind, place, s)
        /\ \A i \in DOMAIN v6 : v6[i].kind = kind /\ v6[i].s = s =>
              <<"lost", i>> \in Capture!Tellings(kind, place, s)
        /\ \A u \in Writers : v8[u] = Capture!At(place, s) =>
              <<"telling", u>> \in Capture!Tellings(kind, place, s)
    BY DEF Capture!Tellings, Capture!At
  <2>. QED  BY <2>1
<1>2. /\ Capture!InFile' = Capture!InFile
      /\ \A a : Capture!EntryAt(a)' = Capture!EntryAt(a)
      /\ v6' = v6
  BY DEF Capture!InFile, Capture!EntryAt
<1>3. {u \in Writers : v8'[u] = Capture!At(place, s)} = {t}
  BY <1>1 DEF CaptureType
<1>. QED  BY <1>1, <1>2, <1>3 DEF Capture!Tellings, Capture!At

--------------------------------------------------------------------------------
(* The actions. *)

\* What a thread wrote to a stream in a row is a line.
LEMMA RunIsALine ==
    ASSUME NEW t \in Writers, NEW s \in Capture!Streams, NEW base \in Nat,
           NEW q \in Seq(Capture!Piece), q # << >>,
           \A j \in 1 .. Len(q) :
              q[j] = [t |-> t, s |-> s, n |-> base + j, ends |-> q[j].ends],
           \A j \in 1 .. Len(q) - 1 : ~q[j].ends
    PROVE  /\ Capture!LineOf(q) \in Entry
           /\ Capture!LineOf(q).kind = "line" /\ Capture!LineOf(q).s = s
           /\ Numbers(Capture!LineOf(q), t, s) = base + 1 .. base + Len(q)
           /\ \A u \in Writers, r \in Capture!Streams :
                 u # t \/ r # s => Numbers(Capture!LineOf(q), u, r) = {}
           /\ \A end : q[Len(q)].ends \/ (t = Main /\ end \in {"stdout", "clean"}) =>
                 IsWhole(Capture!LineOf(q), end)
<1>1. Len(q) \in Nat \ {0} /\ DOMAIN q = 1 .. Len(q)  OBVIOUS
<1>2. \A j \in 1 .. Len(q) : q[j].t = t /\ q[j].s = s /\ q[j].n = base + j
  <2>. TAKE j \in 1 .. Len(q)
  <2>. DEFINE piece(ends) == [t |-> t, s |-> s, n |-> base + j, ends |-> ends]
  <2>1. q[j] = piece(q[j].ends)  OBVIOUS
  <2>2. \A ends : piece(ends).t = t /\ piece(ends).s = s /\ piece(ends).n = base + j
    OBVIOUS
  <2>. HIDE DEF piece
  <2>3. PICK ends : q[j] = piece(ends)  BY <2>1
  <2>. QED  BY <2>2, <2>3
<1>3. Head(q) = q[1] /\ Head(q).s = s  BY <1>1, <1>2
<1>4. Capture!LineOf(q) = [kind |-> "line", pieces |-> q, s |-> s]
  BY <1>3 DEF Capture!LineOf
<1>5. Numbers(Capture!LineOf(q), t, s) = base + 1 .. base + Len(q)
  <2>1. {i \in DOMAIN q : q[i].t = t /\ q[i].s = s} = 1 .. Len(q)  BY <1>1, <1>2
  <2>2. Numbers(Capture!LineOf(q), t, s) = {q[j].n : j \in 1 .. Len(q)}
    BY <1>4, <2>1 DEF Numbers, Capture!Numbers
  <2>3. ASSUME NEW n \in base + 1 .. base + Len(q)
        PROVE  n \in {q[j].n : j \in 1 .. Len(q)}
    <3>1. n - base \in 1 .. Len(q) /\ q[n - base].n = n  BY <1>1, <1>2
    <3>. QED  BY <3>1
  <2>4. ASSUME NEW j \in 1 .. Len(q)  PROVE q[j].n \in base + 1 .. base + Len(q)
    BY <1>1, <1>2
  <2>. QED  BY <2>2, <2>3, <2>4
<1>6. ASSUME NEW u \in Writers, NEW r \in Capture!Streams, u # t \/ r # s
      PROVE  Numbers(Capture!LineOf(q), u, r) = {}
  BY <1>1, <1>2, <1>4, <1>6 DEF Numbers, Capture!Numbers
<1>7. ASSUME NEW end, q[Len(q)].ends \/ (t = Main /\ end \in {"stdout", "clean"})
      PROVE  IsWhole(Capture!LineOf(q), end)
  <2>1. ASSUME NEW j \in 1 .. Len(q) - 1
        PROVE  /\ q[j + 1] = [q[j] EXCEPT !.n = @ + 1, !.ends = q[j + 1].ends]
               /\ ~q[j].ends
    <3>1. j \in 1 .. Len(q) /\ j + 1 \in 1 .. Len(q) /\ base + j + 1 = base + (j + 1)
      BY <1>1
    <3>2. /\ q[j] = [t |-> t, s |-> s, n |-> base + j, ends |-> q[j].ends]
          /\ q[j + 1] = [t |-> t, s |-> s, n |-> base + (j + 1), ends |-> q[j + 1].ends]
      BY <3>1
    <3>3. PICK p, n, ends, after :
              n \in Int /\ p = q[j] /\ n = base + j /\ ends = q[j].ends /\ after = q[j + 1].ends
      BY <3>1
    <3>4. p = [t |-> t, s |-> s, n |-> n, ends |-> ends]  BY <3>2, <3>3
    <3>5. [p EXCEPT !.n = @ + 1, !.ends = after]
             = [t |-> t, s |-> s, n |-> n + 1, ends |-> after]
      <4>1. [p EXCEPT !.n = @ + 1] = [t |-> t, s |-> s, n |-> n + 1, ends |-> ends]
        BY <3>4
      <4>2. [[t |-> t, s |-> s, n |-> n + 1, ends |-> ends] EXCEPT !.ends = after]
               = [t |-> t, s |-> s, n |-> n + 1, ends |-> after]
        OBVIOUS
      <4>. QED  BY <4>1, <4>2
    <3>6. q[j + 1] = [t |-> t, s |-> s, n |-> n + 1, ends |-> after]
      BY <3>1, <3>2, <3>3
    <3>7. q[j + 1] = [q[j] EXCEPT !.n = @ + 1, !.ends = q[j + 1].ends]
      BY <3>3, <3>5, <3>6, Zenon
    <3>. QED  BY <3>7
  <2>2. Capture!Last(q).ends \/ (Capture!Last(q).t = Main /\ end \in {"stdout", "clean"})
    BY <1>1, <1>2, <1>7 DEF Capture!Last
  <2>3. Capture!LineOf(q).pieces = q  BY <1>4
  <2>. QED  BY <2>1, <2>2, <2>3 DEF IsWhole
<1>8. Capture!LineOf(q) \in Entry  BY <1>4 DEF Entry
<1>9. Capture!LineOf(q).kind = "line" /\ Capture!LineOf(q).s = s  BY <1>4
<1>. QED  BY <1>5, <1>6, <1>7, <1>8, <1>9

\* A line or a warning is written while the consoles are not looked at.
LEMMA WarnedOnceStays ==
    ASSUME CaptureType, WarnedOnce, UNCHANGED <<v2, v3>>,
           \A s \in Capture!Streams : SameTellers("tell", s) /\ SameTellers("note", s),
           \/ UNCHANGED <<v4, v6>>
           \/ \E e \in Entry : (Adds(e) \/ Loses(e)) /\ e.kind = "line"
    PROVE  WarnedOnce'
<1>. SUFFICES ASSUME NEW s \in Capture!Streams
              PROVE  /\ OneTelling("dead", "tell", s, ~v2[s])'
                     /\ OneTelling("skip", "note", s, v3[s])'
  BY DEF WarnedOnce
<1>1. /\ OneTelling("dead", "tell", s, ~v2[s]) /\ OneTelling("skip", "note", s, v3[s])
      /\ SameTellers("tell", s) /\ SameTellers("note", s)
  BY DEF WarnedOnce
<1>2. /\ Capture!Tellings("dead", "tell", s)' = Capture!Tellings("dead", "tell", s)
      /\ Capture!Tellings("skip", "note", s)' = Capture!Tellings("skip", "note", s)
  BY <1>1, TellingsSame, TellingsOfOthers
<1>. QED  BY <1>1, <1>2 DEF OneTelling, InOnePlace

\* Another step of write(), or none.
LEMMA WrittenSame ==
    ASSUME CaptureInv, UNCHANGED <<v1, v4, v6, v7>>, CaptureType',
           v9' = v9 \/ (v9' = "stderr" /\ v9 = "no"), WarnedOnce'
    PROVE  CaptureInv'
<1>1. PendingRuns'  BY DEF CaptureInv, PendingRuns, Left
<1>2. Accounted'  BY AccountsSame DEF CaptureInv, Left
<1>3. FlushedInTurn'  BY DEF CaptureInv, FlushedInTurn
<1>4. Capture!LinesAreWhole'
  <2>1. Capture!InFile' = Capture!InFile /\ \A a : Capture!EntryAt(a)' = Capture!EntryAt(a)
    BY DEF Capture!InFile, Capture!EntryAt
  <2>2. \A a \in Capture!InFile : IsWhole(Capture!EntryAt(a), v9)
    BY DEF CaptureInv, Capture!LinesAreWhole, IsWhole
  <2>3. \A a \in Capture!InFile' : IsWhole(Capture!EntryAt(a)', v9')
    BY <2>1, <2>2 DEF IsWhole
  <2>. QED  BY <2>3 DEF Capture!LinesAreWhole, IsWhole
<1>. QED  BY <1>1, <1>2, <1>3, <1>4 DEF CaptureInv

LEMMA CaptureConsole ==
    ASSUME CaptureInv, NEW t \in Writers,
           Capture!Console(t) \/ Capture!ConsoleFailed(t) \/ Capture!ConsoleSkipped(t)
    PROVE  CaptureInv'
<1>. DEFINE s == v8[t].s
<1>1. CaptureType /\ WarnedOnce /\ s \in Capture!Streams
  BY DEF CaptureInv, CaptureType
<1>2. CASE Capture!Console(t)
  <2>1. PICK next \in [at : {"idle", "failed", "skipped"}, s : Capture!Streams] :
              v8' = [v8 EXCEPT ![t] = next]
    BY <1>1, <1>2 DEF Capture!Console, Capture!Idle, Capture!At, Capture!Streams
  <2>2. CaptureType'
    BY <1>1, <1>2, <2>1 DEF Capture!Console, CaptureType
  <2>3. \A r \in Capture!Streams : SameTellers("tell", r) /\ SameTellers("note", r)
    <3>1. \A r \in Capture!Streams, place \in {"tell", "note"} :
            next # Capture!At(place, r) /\ v8[t] # Capture!At(place, r)
      BY <1>2 DEF Capture!Console, Capture!At
    <3>. QED  BY <1>1, <2>1, <3>1 DEF SameTellers, CaptureType
  <2>4. WarnedOnce'  BY <1>1, <1>2, <2>3, WarnedOnceStays DEF Capture!Console
  <2>. QED  BY <1>2, <2>2, <2>4, WrittenSame DEF Capture!Console
<1>3. CASE Capture!ConsoleFailed(t)
  <2>1. CaptureType'
    BY <1>1, <1>3
    DEF Capture!ConsoleFailed, CaptureType, Capture!Idle, Capture!At, Capture!Streams
  <2>2. ASSUME NEW r \in Capture!Streams  PROVE OneTelling("skip", "note", r, v3[r])'
    <3>1. SameTellers("note", r) /\ UNCHANGED <<v3, v4, v6>>
      BY <1>1, <1>3
      DEF Capture!ConsoleFailed, SameTellers, CaptureType, Capture!Idle, Capture!At
    <3>. QED  BY <1>1, <3>1, TellingsSame DEF OneTelling, InOnePlace, WarnedOnce
  <2>3. ASSUME NEW r \in Capture!Streams  PROVE OneTelling("dead", "tell", r, ~v2[r])'
    <3>1. CASE r = s /\ v2[s]
      <4>1. /\ v8' = [v8 EXCEPT ![t] = Capture!At("tell", r)] /\ UNCHANGED <<v4, v6>>
            /\ v2'[r] = FALSE
        BY <1>1, <1>3, <3>1 DEF Capture!ConsoleFailed, CaptureType
      <4>2. Capture!Tellings("dead", "tell", r) = {}
        BY <1>1, <3>1 DEF WarnedOnce, OneTelling
      <4>3. Capture!Tellings("dead", "tell", r)' = {<<"telling", t>>}
        <5>1. "tell" \in {"tell", "note"}  OBVIOUS
        <5>. QED  BY <1>1, <4>1, <4>2, <5>1, TellingsBegin
      <4>. QED  BY <4>1, <4>3 DEF OneTelling, InOnePlace
    <3>2. CASE r # s \/ ~v2[s]
      <4>1. UNCHANGED <<v4, v6>> /\ v2'[r] = v2[r]
        BY <1>1, <1>3, <3>2 DEF Capture!ConsoleFailed, CaptureType
      <4>2. PICK next : /\ v8' = [v8 EXCEPT ![t] = next]
                        /\ next # Capture!At("tell", r)
        <5>1. CASE v2[s]
          <6>1. v8' = [v8 EXCEPT ![t] = Capture!At("tell", s)]
            BY <1>3, <5>1 DEF Capture!ConsoleFailed
          <6>2. Capture!At("tell", s) # Capture!At("tell", r)
            BY <3>2, <5>1 DEF Capture!At
          <6>. QED  BY <6>1, <6>2
        <5>2. CASE ~(v2[s])
          <6>1. v8' = [v8 EXCEPT ![t] = Capture!Idle]
            BY <1>3, <5>2 DEF Capture!ConsoleFailed
          <6>2. Capture!Idle # Capture!At("tell", r)
            BY DEF Capture!At, Capture!Idle
          <6>. QED  BY <6>1, <6>2
        <5>. QED  BY <5>1, <5>2
      <4>3. v8[t] # Capture!At("tell", r)
        BY <1>3 DEF Capture!ConsoleFailed, Capture!At
      <4>4. SameTellers("tell", r)
        BY <1>1, <4>2, <4>3 DEF SameTellers, CaptureType
      <4>. QED  BY <1>1, <4>1, <4>4, TellingsSame DEF OneTelling, InOnePlace, WarnedOnce
    <3>. QED  BY <3>1, <3>2
  <2>4. WarnedOnce'  BY <2>2, <2>3 DEF WarnedOnce
  <2>. QED  BY <1>3, <2>1, <2>4, WrittenSame DEF Capture!ConsoleFailed
<1>4. CASE Capture!ConsoleSkipped(t)
  <2>1. CaptureType'
    BY <1>1, <1>4
    DEF Capture!ConsoleSkipped, CaptureType, Capture!Idle, Capture!At, Capture!Streams
  <2>2. ASSUME NEW r \in Capture!Streams  PROVE OneTelling("dead", "tell", r, ~v2[r])'
    <3>1. SameTellers("tell", r) /\ UNCHANGED <<v2, v4, v6>>
      BY <1>1, <1>4
      DEF Capture!ConsoleSkipped, SameTellers, CaptureType, Capture!Idle, Capture!At
    <3>. QED  BY <1>1, <3>1, TellingsSame DEF OneTelling, InOnePlace, WarnedOnce
  <2>3. ASSUME NEW r \in Capture!Streams  PROVE OneTelling("skip", "note", r, v3[r])'
    <3>1. CASE r = s /\ ~v3[s]
      <4>1. /\ v8' = [v8 EXCEPT ![t] = Capture!At("note", r)] /\ UNCHANGED <<v4, v6>>
            /\ v3'[r] = TRUE
        BY <1>1, <1>4, <3>1 DEF Capture!ConsoleSkipped, CaptureType
      <4>2. Capture!Tellings("skip", "note", r) = {}
        BY <1>1, <3>1 DEF WarnedOnce, OneTelling
      <4>3. Capture!Tellings("skip", "note", r)' = {<<"telling", t>>}
        <5>1. "note" \in {"tell", "note"}  OBVIOUS
        <5>. QED  BY <1>1, <4>1, <4>2, <5>1, TellingsBegin
      <4>. QED  BY <4>1, <4>3 DEF OneTelling, InOnePlace
    <3>2. CASE r # s \/ v3[s]
      <4>1. UNCHANGED <<v4, v6>> /\ v3'[r] = v3[r]
        BY <1>1, <1>4, <3>2 DEF Capture!ConsoleSkipped, CaptureType
      <4>2. PICK next : /\ v8' = [v8 EXCEPT ![t] = next]
                        /\ next # Capture!At("note", r)
        <5>1. CASE ~v3[s]
          <6>1. v8' = [v8 EXCEPT ![t] = Capture!At("note", s)]
            BY <1>4, <5>1 DEF Capture!ConsoleSkipped
          <6>2. Capture!At("note", s) # Capture!At("note", r)
            BY <3>2, <5>1 DEF Capture!At
          <6>. QED  BY <6>1, <6>2
        <5>2. CASE ~(~v3[s])
          <6>1. v8' = [v8 EXCEPT ![t] = Capture!Idle]
            BY <1>4, <5>2 DEF Capture!ConsoleSkipped
          <6>2. Capture!Idle # Capture!At("note", r)
            BY DEF Capture!At, Capture!Idle
          <6>. QED  BY <6>1, <6>2
        <5>. QED  BY <5>1, <5>2
      <4>3. v8[t] # Capture!At("note", r)
        BY <1>4 DEF Capture!ConsoleSkipped, Capture!At
      <4>4. SameTellers("note", r)
        BY <1>1, <4>2, <4>3 DEF SameTellers, CaptureType
      <4>. QED  BY <1>1, <4>1, <4>4, TellingsSame DEF OneTelling, InOnePlace, WarnedOnce
    <3>. QED  BY <3>1, <3>2
  <2>4. WarnedOnce'  BY <2>2, <2>3 DEF WarnedOnce
  <2>. QED  BY <1>4, <2>1, <2>4, WrittenSame DEF Capture!ConsoleSkipped
<1>. QED  BY <1>2, <1>3, <1>4

\* A warning is written.
LEMMA CaptureWarns ==
    ASSUME CaptureInv, NEW t \in Writers, Capture!Tell(t) \/ Capture!Note(t)
    PROVE  CaptureInv' /\ Capture!Grows
<1>1. CaptureType /\ WarnedOnce /\ v8[t].s \in Capture!Streams
  BY DEF CaptureInv, CaptureType
<1>2. PICK s \in Capture!Streams, kind \in {"dead", "skip"}, place \in {"tell", "note"} :
          /\ v8[t] = Capture!At(place, s) /\ Capture!Emit(Capture!Warning(kind, s))
          /\ kind = "dead" <=> place = "tell"
  <2>1. v8[t] = Capture!At(v8[t].at, v8[t].s)  BY DEF CaptureInv, CaptureType, Capture!At
  <2>. QED  BY <1>1, <2>1 DEF Capture!Tell, Capture!Note
<1>3. /\ v8' = [v8 EXCEPT ![t] = Capture!Idle] /\ UNCHANGED <<v1, v2, v3, v7, v9>>
  BY DEF Capture!Tell, Capture!Note
<1>4. PICK e \in Entry : /\ e = Capture!Warning(kind, s)
                         /\ e.kind = kind /\ e.s = s /\ e.pieces = << >>
  <2>1. << >> \in Seq(Capture!Piece)  OBVIOUS
  <2>2. Capture!Warning(kind, s) \in Entry  BY <2>1 DEF Capture!Warning, Entry
  <2>3. /\ Capture!Warning(kind, s).kind = kind /\ Capture!Warning(kind, s).s = s
        /\ Capture!Warning(kind, s).pieces = << >>
    BY DEF Capture!Warning
  <2>. QED  BY <2>2, <2>3
<1>5. /\ v4' \in Seq(Seq(Entry)) /\ v4' # << >>
      /\ \A i \in DOMAIN v4' : Len(v4'[i]) <= PartMax
      /\ v5' \in {"open", "none", "closed"} /\ v6' \in Seq(Entry)
      /\ Capture!Grows
      /\ Adds(e) \/ Loses(e)
  BY <1>1, <1>2, <1>4, Emitted
<1>6. CaptureType'
  BY <1>1, <1>3, <1>5 DEF CaptureType, Capture!Idle, Capture!Streams
<1>7. PendingRuns' /\ FlushedInTurn'
  BY <1>3 DEF CaptureInv, PendingRuns, FlushedInTurn, Left
<1>8. Accounted'
  <2>1. ASSUME NEW u \in Writers, NEW r \in Capture!Streams
        PROVE  /\ Left(u, r) \in Nat /\ Left(u, r)' = Left(u, r)
               /\ Numbers(e, u, r) = {}
    BY <1>3, <1>4 DEF CaptureInv, PendingRuns, Left, Numbers, Capture!Numbers
  <2>2. \A n \in Nat : n + 1 .. n = {}  OBVIOUS
  <2>3. \A u \in Writers, r \in Capture!Streams :
          /\ Left(u, r) \in Nat /\ Left(u, r)' \in Nat /\ Left(u, r) <= Left(u, r)'
          /\ Numbers(e, u, r) = Left(u, r) + 1 .. Left(u, r)'
    <3>. TAKE u \in Writers, r \in Capture!Streams
    <3>1. Left(u, r) \in Nat /\ Left(u, r)' = Left(u, r) /\ Numbers(e, u, r) = {}
      BY <2>1
    <3>2. Left(u, r) + 1 .. Left(u, r) = {}  BY <2>2, <3>1
    <3>. QED  BY <3>1, <3>2
  <2>. QED  BY <1>1, <1>4, <1>5, <2>3, AccountsStay DEF CaptureInv
<1>9. Capture!LinesAreWhole'
  BY <1>2, <1>3, <1>4, <1>5, WholeStays DEF CaptureInv, IsWhole
<1>10. WarnedOnce'
  <2>1. ASSUME NEW r \in Capture!Streams, NEW k \in {"dead", "skip"},
               NEW p \in {"tell", "note"}, k = "dead" <=> p = "tell", k # kind \/ r # s
        PROVE  Capture!Tellings(k, p, r)' = Capture!Tellings(k, p, r)
    <3>1. SameTellers(p, r)
      BY <1>1, <1>2, <1>3, <2>1 DEF SameTellers, CaptureType, Capture!At, Capture!Idle
    <3>. QED  BY <1>1, <1>4, <1>5, <2>1, <3>1, TellingsOfOthers
  <2>2. InOnePlace(kind, place, s)'
    <3>1. <<"telling", t>> \in Capture!Tellings(kind, place, s)
      BY <1>2 DEF Capture!Tellings, Capture!At
    <3>2. InOnePlace(kind, place, s)
      BY <1>1, <1>2, <3>1 DEF WarnedOnce, OneTelling
    <3>3. place # "idle" /\ v8[t] = Capture!At(place, s)  BY <1>2
    <3>4. \A u \in Writers : v8'[u] = IF u = t THEN Capture!Idle ELSE v8[u]
      BY <1>1, <1>3 DEF CaptureType
    <3>5. Adds(e) \/ Loses(e)  BY <1>5
    <3>. QED  BY <1>1, <1>4, <3>2, <3>3, <3>4, <3>5, TellingsMove
  <2>3. Capture!Tellings(kind, place, s) # {}
    <3>1. <<"telling", t>> \in Capture!Tellings(kind, place, s)
      BY <1>2 DEF Capture!Tellings, Capture!At
    <3>. QED  BY <3>1
  <2>4. ASSUME NEW r \in Capture!Streams
        PROVE  /\ OneTelling("dead", "tell", r, ~v2[r])'
               /\ OneTelling("skip", "note", r, v3[r])'
    <3>1. OneTelling("dead", "tell", r, ~v2[r]) /\ OneTelling("skip", "note", r, v3[r])
      BY <1>1 DEF WarnedOnce
    <3>2. OneTelling("dead", "tell", r, ~v2[r])'
      BY <1>2, <1>3, <2>1, <2>2, <2>3, <3>1 DEF OneTelling, InOnePlace
    <3>3. OneTelling("skip", "note", r, v3[r])'
      BY <1>2, <1>3, <2>1, <2>2, <2>3, <3>1 DEF OneTelling, InOnePlace
    <3>. QED  BY <3>2, <3>3
  <2>. QED  BY <2>4 DEF WarnedOnce
<1>. QED  BY <1>5, <1>6, <1>7, <1>8, <1>9, <1>10 DEF CaptureInv

\* A line is written: it takes from the thread what was pending, with this write or without.
LEMMA CaptureTakesALine ==
    ASSUME CaptureInv, NEW t \in Writers, NEW s \in Capture!Streams,
           NEW q \in Seq(Capture!Piece), q # << >>,
           \A j \in 1 .. Len(q) :
              q[j] = [t |-> t, s |-> s, n |-> Left(t, s) + j, ends |-> q[j].ends],
           \A j \in 1 .. Len(q) - 1 : ~q[j].ends,
           q[Len(q)].ends \/ (t = Main /\ v9' \in {"stdout", "clean"}),
           Capture!Emit(Capture!LineOf(q)),
           v1' = [v1 EXCEPT ![t][s] = << >>],
           v7' \in [Writers -> [Capture!Streams -> Nat]],
           v7'[t][s] = Left(t, s) + Len(q),
           \A u \in Writers, r \in Capture!Streams : u # t \/ r # s => v7'[u][r] = v7[u][r],
           v8' \in [Writers -> [at : {"idle", "console", "failed", "skipped", "tell", "note"},
                                s : Capture!Streams]],
           \A r \in Capture!Streams : SameTellers("tell", r) /\ SameTellers("note", r),
           UNCHANGED <<v2, v3>>, v9' \in {"no", "stderr", "stdout", "clean"},
           v9' = v9 \/ v9' \in {"stdout", "clean"}, FlushedInTurn'
    PROVE  CaptureInv' /\ Capture!Grows
<1>1. CaptureType /\ PendingRuns /\ Accounted /\ WarnedOnce /\ Capture!LinesAreWhole
  BY DEF CaptureInv
<1>2. Left(t, s) \in Nat /\ Len(q) \in Nat \ {0}  BY <1>1 DEF PendingRuns
<1>3. PICK e : e = Capture!LineOf(q)  OBVIOUS
<1>4. /\ e \in Entry /\ e.kind = "line" /\ e.s = s
      /\ Numbers(e, t, s) = Left(t, s) + 1 .. Left(t, s) + Len(q)
      /\ \A u \in Writers, r \in Capture!Streams : u # t \/ r # s => Numbers(e, u, r) = {}
      /\ IsWhole(e, v9')
  <2>1. /\ Capture!LineOf(q) \in Entry
        /\ Capture!LineOf(q).kind = "line" /\ Capture!LineOf(q).s = s
        /\ Numbers(Capture!LineOf(q), t, s) = Left(t, s) + 1 .. Left(t, s) + Len(q)
        /\ \A u \in Writers, r \in Capture!Streams :
              u # t \/ r # s => Numbers(Capture!LineOf(q), u, r) = {}
        /\ \A end : q[Len(q)].ends \/ (t = Main /\ end \in {"stdout", "clean"}) =>
              IsWhole(Capture!LineOf(q), end)
    <3>1. PICK base \in Nat : base = Left(t, s)  BY <1>2
    <3>2. \A j \in 1 .. Len(q) :
            q[j] = [t |-> t, s |-> s, n |-> base + j, ends |-> q[j].ends]
      BY <3>1
    <3>. HIDE DEF Left
    <3>. QED  BY <3>1, <3>2, RunIsALine
  <2>2. IsWhole(Capture!LineOf(q), v9')  BY <2>1
  <2>. QED  BY <1>3, <2>1, <2>2
<1>5. /\ v4' \in Seq(Seq(Entry)) /\ v4' # << >>
      /\ \A i \in DOMAIN v4' : Len(v4'[i]) <= PartMax
      /\ v5' \in {"open", "none", "closed"} /\ v6' \in Seq(Entry)
      /\ Capture!Grows
      /\ Adds(e) \/ Loses(e)
  BY <1>1, <1>3, <1>4, Emitted
<1>6. /\ v1' \in [Writers -> [Capture!Streams -> Seq(Capture!Piece)]]
      /\ v1'[t][s] = << >>
      /\ \A u \in Writers, r \in Capture!Streams : u # t \/ r # s => v1'[u][r] = v1[u][r]
  <2>1. << >> \in Seq(Capture!Piece)  OBVIOUS
  <2>2. v1 \in [Writers -> [Capture!Streams -> Seq(Capture!Piece)]]  BY <1>1 DEF CaptureType
  <2>. QED  BY <2>1, <2>2
<1>7. CaptureType'
  BY <1>1, <1>5, <1>6 DEF CaptureType, Capture!Streams
<1>8. /\ Left(t, s)' = Left(t, s) + Len(q)
      /\ \A u \in Writers, r \in Capture!Streams :
            u # t \/ r # s => Left(u, r)' = Left(u, r) /\ Left(u, r) \in Nat
  <2>1. v7'[t][s] - Len(v1'[t][s]) = Left(t, s) + Len(q)
    BY <1>2, <1>6
  <2>2. Left(t, s)' = Left(t, s) + Len(q)  BY <2>1 DEF Left
  <2>3. ASSUME NEW u \in Writers, NEW r \in Capture!Streams, u # t \/ r # s
        PROVE  Left(u, r)' = Left(u, r) /\ Left(u, r) \in Nat
    <3>1. v1'[u][r] = v1[u][r] /\ v7'[u][r] = v7[u][r]  BY <1>6, <2>3
    <3>2. Left(u, r) \in Nat  BY <1>1 DEF PendingRuns
    <3>. QED  BY <3>1, <3>2 DEF Left
  <2>. QED  BY <2>2, <2>3
<1>9. PendingRuns'
  <2>. SUFFICES ASSUME NEW u \in Writers, NEW r \in Capture!Streams
                PROVE  /\ Left(u, r)' \in Nat
                       /\ \A j \in 1 .. Len(v1'[u][r]) :
                             v1'[u][r][j] = [t |-> u, s |-> r, n |-> Left(u, r)' + j,
                                             ends |-> FALSE]
    BY DEF PendingRuns
  <2>1. CASE u = t /\ r = s  BY <1>2, <1>6, <1>8, <2>1
  <2>2. CASE u # t \/ r # s
    <3>1. v1'[u][r] = v1[u][r] /\ Left(u, r)' = Left(u, r)  BY <1>6, <1>8, <2>2
    <3>2. /\ Left(u, r) \in Nat
          /\ \A j \in 1 .. Len(v1[u][r]) :
                v1[u][r][j] = [t |-> u, s |-> r, n |-> Left(u, r) + j, ends |-> FALSE]
      BY <1>1 DEF PendingRuns
    <3>. QED  BY <3>1, <3>2
  <2>. QED  BY <2>1, <2>2
<1>10. Accounted'
  <2>1. \A n \in Nat : n + 1 .. n = {}  OBVIOUS
  <2>2. \A u \in Writers, r \in Capture!Streams :
          /\ Left(u, r) \in Nat /\ Left(u, r)' \in Nat /\ Left(u, r) <= Left(u, r)'
          /\ Numbers(e, u, r) = Left(u, r) + 1 .. Left(u, r)'
    <3>. TAKE u \in Writers, r \in Capture!Streams
    <3>1. CASE u = t /\ r = s  BY <1>2, <1>4, <1>8, <3>1
    <3>2. CASE u # t \/ r # s
      <4>1. Left(u, r)' = Left(u, r) /\ Left(u, r) \in Nat /\ Numbers(e, u, r) = {}
        BY <1>4, <1>8, <3>2
      <4>2. Left(u, r) + 1 .. Left(u, r) = {}  BY <2>1, <4>1
      <4>. QED  BY <4>1, <4>2
    <3>. QED  BY <3>1, <3>2
  <2>. QED  BY <1>1, <1>4, <1>5, <2>2, AccountsStay
<1>11. Capture!LinesAreWhole'  BY <1>1, <1>4, <1>5, WholeStays
<1>12. WarnedOnce'
  <2>1. \E f \in Entry : (Adds(f) \/ Loses(f)) /\ f.kind = "line"  BY <1>4, <1>5
  <2>. QED  BY <1>1, <2>1, WarnedOnceStays
<1>. QED  BY <1>5, <1>7, <1>9, <1>10, <1>11, <1>12 DEF CaptureInv

LEMMA CaptureWrites ==
    ASSUME CaptureInv, NEW t \in Writers, NEW s \in Capture!Streams, NEW ends \in BOOLEAN,
           Capture!Write(t, s, ends)
    PROVE  CaptureInv' /\ Capture!Grows
<1>1. CaptureType /\ PendingRuns /\ FlushedInTurn /\ WarnedOnce  BY DEF CaptureInv
<1>2. PICK piece : piece = [t |-> t, s |-> s, n |-> v7[t][s] + 1, ends |-> ends]
  OBVIOUS
<1>3. PICK text : text = Append(v1[t][s], piece)  OBVIOUS
<1>4. /\ v7[t][s] \in Nat /\ piece \in Capture!Piece /\ v1[t][s] \in Seq(Capture!Piece)
      /\ v8[t] = Capture!Idle
  <2>1. v7[t][s] \in Nat /\ v1[t][s] \in Seq(Capture!Piece)  BY <1>1 DEF CaptureType
  <2>2. v8[t] = Capture!Idle  BY DEF Capture!Write
  <2>. QED  BY <1>2, <2>1, <2>2 DEF Capture!Piece
<1>5. PICK k \in Nat : k = Len(v1[t][s])  BY <1>4
<1>6. /\ text \in Seq(Capture!Piece) /\ Len(text) = k + 1 /\ text # << >>
      /\ text[k + 1] = piece /\ \A j \in 1 .. k : text[j] = v1[t][s][j]
  BY <1>3, <1>4, <1>5
<1>7. /\ Left(t, s) \in Nat /\ v7[t][s] = Left(t, s) + k
      /\ \A j \in 1 .. k :
            v1[t][s][j] = [t |-> t, s |-> s, n |-> Left(t, s) + j, ends |-> FALSE]
  <2>1. Left(t, s) = v7[t][s] - k  BY <1>5 DEF Left
  <2>. QED  BY <1>1, <1>4, <1>5, <2>1 DEF PendingRuns
<1>8. /\ v7' = [v7 EXCEPT ![t][s] = @ + 1]
      /\ v1' = [v1 EXCEPT ![t][s] = IF ends THEN << >> ELSE text]
      /\ IF ends THEN Capture!Emit(Capture!LineOf(text)) ELSE UNCHANGED <<v4, v5, v6>>
      /\ v8' = [v8 EXCEPT ![t] = Capture!At("console", s)]
      /\ UNCHANGED <<v2, v3, v9>> /\ v9 # "clean" /\ (t = Main => v9 = "no")
  BY <1>2, <1>3 DEF Capture!Write, Capture!Holder, Capture!Alive
<1>9. /\ v7' \in [Writers -> [Capture!Streams -> Nat]] /\ v7'[t][s] = v7[t][s] + 1
      /\ \A u \in Writers, r \in Capture!Streams : u # t \/ r # s => v7'[u][r] = v7[u][r]
  BY <1>1, <1>8 DEF CaptureType
<1>10. v8' \in [Writers -> [at : {"idle", "console", "failed", "skipped", "tell", "note"},
                            s : Capture!Streams]]
  BY <1>1, <1>8 DEF CaptureType, Capture!At
<1>11. \A r \in Capture!Streams : SameTellers("tell", r) /\ SameTellers("note", r)
  <2>1. \A r \in Capture!Streams, place \in {"tell", "note"} :
            Capture!At("console", s) # Capture!At(place, r) /\ v8[t] # Capture!At(place, r)
    BY <1>4 DEF Capture!At, Capture!Idle
  <2>. QED  BY <1>1, <1>8, <2>1 DEF SameTellers, CaptureType
<1>12. \A u \in Writers, r \in Capture!Streams : u # t \/ r # s => v1'[u][r] = v1[u][r]
  BY <1>1, <1>8 DEF CaptureType
<1>13. FlushedInTurn'
  <2>1. CASE t = Main  BY <1>8, <2>1 DEF FlushedInTurn
  <2>2. CASE t # Main
    BY <1>1, <1>8, <1>12, <2>2, LogsAssumption DEF FlushedInTurn, Capture!Streams
  <2>. QED  BY <2>1, <2>2
<1>14. CASE ends
  <2>1. \A j \in 1 .. Len(text) :
          text[j] = [t |-> t, s |-> s, n |-> Left(t, s) + j, ends |-> text[j].ends]
    <3>. TAKE j \in 1 .. Len(text)
    <3>1. CASE j = k + 1
      <4>1. v7[t][s] + 1 = Left(t, s) + j  BY <1>7, <3>1
      <4>. QED  BY <1>2, <1>6, <3>1, <4>1
    <3>2. CASE j # k + 1
      <4>1. j \in 1 .. k  BY <1>6, <3>2
      <4>2. text[j] = [t |-> t, s |-> s, n |-> Left(t, s) + j, ends |-> FALSE]
        BY <1>6, <1>7, <4>1
      <4>. QED  BY <4>2
    <3>. QED  BY <3>1, <3>2
  <2>2. \A j \in 1 .. Len(text) - 1 : ~text[j].ends
    <3>. TAKE j \in 1 .. Len(text) - 1
    <3>1. j \in 1 .. k  BY <1>6
    <3>2. text[j] = [t |-> t, s |-> s, n |-> Left(t, s) + j, ends |-> FALSE]
      BY <1>6, <1>7, <3>1
    <3>. QED  BY <3>2
  <2>3. text[Len(text)].ends  BY <1>2, <1>6, <1>14
  <2>4. v7'[t][s] = Left(t, s) + Len(text)  BY <1>6, <1>7, <1>9
  <2>5. v1' = [v1 EXCEPT ![t][s] = << >>]  BY <1>8, <1>14
  <2>6. v9' \in {"no", "stderr", "stdout", "clean"}  BY <1>1, <1>8 DEF CaptureType
  <2>7. Capture!Emit(Capture!LineOf(text)) /\ UNCHANGED <<v2, v3>> /\ v9' = v9
    BY <1>8, <1>14
  <2>. QED  BY <1>6, <1>9, <1>10, <1>11, <1>13, <2>1, <2>2, <2>3, <2>4, <2>5, <2>6, <2>7,
               CaptureTakesALine
<1>15. CASE ~ends
  <2>1. v1' = [v1 EXCEPT ![t][s] = text] /\ UNCHANGED <<v4, v5, v6>>  BY <1>8, <1>15
  <2>2. /\ v1' \in [Writers -> [Capture!Streams -> Seq(Capture!Piece)]] /\ v1'[t][s] = text
    BY <1>1, <1>6, <2>1 DEF CaptureType
  <2>3. CaptureType'
    BY <1>1, <1>8, <1>9, <1>10, <2>1, <2>2 DEF CaptureType, Capture!Streams
  <2>4. /\ Left(t, s)' = Left(t, s)
        /\ \A u \in Writers, r \in Capture!Streams :
              u # t \/ r # s => Left(u, r)' = Left(u, r)
    <3>1. Left(t, s)' = v7'[t][s] - Len(v1'[t][s])  BY DEF Left
    <3>2. v7'[t][s] = Left(t, s) + k + 1 /\ Len(v1'[t][s]) = k + 1
      BY <1>6, <1>7, <1>9, <2>2
    <3>3. Left(t, s)' = Left(t, s)  BY <1>7, <3>1, <3>2
    <3>4. ASSUME NEW u \in Writers, NEW r \in Capture!Streams, u # t \/ r # s
          PROVE  Left(u, r)' = Left(u, r)
      BY <1>9, <1>12, <3>4 DEF Left
    <3>. QED  BY <3>3, <3>4
  <2>5. PendingRuns'
    <3>. SUFFICES ASSUME NEW u \in Writers, NEW r \in Capture!Streams
                  PROVE  /\ Left(u, r)' \in Nat
                         /\ \A j \in 1 .. Len(v1'[u][r]) :
                               v1'[u][r][j] = [t |-> u, s |-> r, n |-> Left(u, r)' + j,
                                               ends |-> FALSE]
      BY DEF PendingRuns
    <3>1. CASE u = t /\ r = s
      <4>. SUFFICES ASSUME NEW j \in 1 .. Len(text)
                    PROVE  text[j] = [t |-> t, s |-> s, n |-> Left(t, s) + j, ends |-> FALSE]
        BY <1>7, <2>2, <2>4, <3>1
      <4>1. CASE j = k + 1
        <5>1. v7[t][s] + 1 = Left(t, s) + j  BY <1>7, <4>1
        <5>. QED  BY <1>2, <1>6, <1>15, <4>1, <5>1
      <4>2. CASE j # k + 1
        <5>1. j \in 1 .. k  BY <1>6, <4>2
        <5>. QED  BY <1>6, <1>7, <5>1
      <4>. QED  BY <4>1, <4>2
    <3>2. CASE u # t \/ r # s
      <4>1. Left(u, r)' = Left(u, r) /\ v1'[u][r] = v1[u][r]  BY <1>12, <2>4, <3>2
      <4>. QED  BY <1>1, <4>1 DEF PendingRuns
    <3>. QED  BY <3>1, <3>2
  <2>6. Accounted'
    <3>1. \A u \in Writers, r \in Capture!Streams : Left(u, r)' = Left(u, r)
      BY <2>4
    <3>. QED  BY <2>1, <3>1, AccountsSame DEF CaptureInv
  <2>7. WarnedOnce'  BY <1>1, <1>8, <1>11, <2>1, WarnedOnceStays
  <2>8. Capture!LinesAreWhole'
    <3>1. /\ Capture!InFile' = Capture!InFile
          /\ \A a : Capture!EntryAt(a)' = Capture!EntryAt(a)
      BY <2>1 DEF Capture!InFile, Capture!EntryAt
    <3>2. \A a \in Capture!InFile : IsWhole(Capture!EntryAt(a), v9)
      BY DEF CaptureInv, Capture!LinesAreWhole, IsWhole
    <3>3. \A a \in Capture!InFile' : IsWhole(Capture!EntryAt(a)', v9')
      BY <1>8, <3>1, <3>2
    <3>. QED  BY <3>3 DEF Capture!LinesAreWhole, IsWhole
  <2>9. Capture!Grows
    <3>1. v4 \in Seq(Seq(Entry))  BY <1>1 DEF CaptureType
    <3>. QED  BY <2>1, <3>1 DEF Capture!Grows, Capture!IsPrefix
  <2>. QED  BY <1>13, <2>3, <2>5, <2>6, <2>7, <2>8, <2>9 DEF CaptureInv
<1>. QED  BY <1>14, <1>15

LEMMA CaptureFlushes ==
    ASSUME CaptureInv, Capture!FlushPending
    PROVE  CaptureInv' /\ Capture!Grows
<1>1. CaptureType /\ PendingRuns /\ FlushedInTurn /\ WarnedOnce  BY DEF CaptureInv
<1>2. PICK s \in Capture!Streams : s = v9
  BY DEF Capture!FlushPending, Capture!Streams
<1>3. PICK q \in Seq(Capture!Piece) : q = v1[Main][s]
  BY <1>1, LogsAssumption DEF CaptureType
<1>4. /\ v1' = [v1 EXCEPT ![Main][s] = << >>]
      /\ IF q # << >> THEN Capture!Emit(Capture!LineOf(q)) ELSE UNCHANGED <<v4, v5, v6>>
      /\ UNCHANGED <<v2, v3, v7, v8>>
      /\ v9' = IF s = "stderr" THEN "stdout" ELSE "clean"
  BY <1>2, <1>3 DEF Capture!FlushPending, Capture!Holder
<1>5. /\ Left(Main, s) \in Nat
      /\ \A j \in 1 .. Len(q) :
            q[j] = [t |-> Main, s |-> s, n |-> Left(Main, s) + j, ends |-> FALSE]
  BY <1>1, <1>3, LogsAssumption DEF PendingRuns
<1>6. /\ v9' \in {"stdout", "clean"} /\ v9' \in {"no", "stderr", "stdout", "clean"}
  BY <1>4
<1>7. FlushedInTurn'
  BY <1>1, <1>2, <1>4, LogsAssumption DEF FlushedInTurn, CaptureType, Capture!Streams
<1>8. CASE q # << >>
  <2>1. \A j \in 1 .. Len(q) :
          /\ q[j] = [t |-> Main, s |-> s, n |-> Left(Main, s) + j, ends |-> q[j].ends]
          /\ ~q[j].ends
    <3>. TAKE j \in 1 .. Len(q)
    <3>1. q[j] = [t |-> Main, s |-> s, n |-> Left(Main, s) + j, ends |-> FALSE]  BY <1>5
    <3>. QED  BY <3>1
  <2>2. \A j \in 1 .. Len(q) - 1 : ~q[j].ends
    <3>1. \A j \in 1 .. Len(q) - 1 : j \in 1 .. Len(q)  OBVIOUS
    <3>. QED  BY <2>1, <3>1
  <2>3. /\ v7' \in [Writers -> [Capture!Streams -> Nat]]
        /\ \A u \in Writers, r \in Capture!Streams :
              u # Main \/ r # s => v7'[u][r] = v7[u][r]
    BY <1>1, <1>4 DEF CaptureType
  <2>4. v7'[Main][s] = Left(Main, s) + Len(q)
    <3>1. v7[Main][s] \in Nat /\ Len(q) \in Nat
      BY <1>1, LogsAssumption DEF CaptureType
    <3>2. Left(Main, s) = v7[Main][s] - Len(q)  BY <1>3 DEF Left
    <3>. QED  BY <1>4, <3>1, <3>2
  <2>5. v8' \in [Writers -> [at : {"idle", "console", "failed", "skipped", "tell", "note"},
                             s : Capture!Streams]]
    BY <1>1, <1>4 DEF CaptureType
  <2>6. \A r \in Capture!Streams : SameTellers("tell", r) /\ SameTellers("note", r)
    BY <1>4 DEF SameTellers
  <2>7. /\ Capture!Emit(Capture!LineOf(q)) /\ v1' = [v1 EXCEPT ![Main][s] = << >>]
        /\ UNCHANGED <<v2, v3>>
    BY <1>4, <1>8
  <2>8. \A j \in 1 .. Len(q) :
          q[j] = [t |-> Main, s |-> s, n |-> Left(Main, s) + j, ends |-> q[j].ends]
    BY <2>1
  <2>9. Main \in Writers  BY LogsAssumption
  <2>. QED  BY <1>6, <1>7, <1>8, <2>2, <2>3, <2>4, <2>5, <2>6, <2>7, <2>8, <2>9,
               CaptureTakesALine
<1>9. CASE q = << >>
  <2>1. UNCHANGED <<v4, v5, v6>>  BY <1>4, <1>9
  <2>2. v1' = v1
    <3>1. v1 \in [Writers -> [Capture!Streams -> Seq(Capture!Piece)]]  BY <1>1 DEF CaptureType
    <3>. QED  BY <1>3, <1>4, <1>9, <3>1
  <2>3. CaptureType'
    BY <1>1, <1>4, <1>6, <2>1, <2>2 DEF CaptureType, Capture!Streams
  <2>4. PendingRuns'  BY <1>1, <1>4, <2>2 DEF PendingRuns, Left
  <2>5. Accounted'
    <3>1. \A t \in Writers, r \in Capture!Streams : Left(t, r)' = Left(t, r)
      BY <1>4, <2>2 DEF Left
    <3>. QED  BY <2>1, <3>1, AccountsSame DEF CaptureInv
  <2>6. WarnedOnce'
    <3>1. \A r \in Capture!Streams : SameTellers("tell", r) /\ SameTellers("note", r)
      BY <1>4 DEF SameTellers
    <3>. QED  BY <1>1, <1>4, <2>1, <3>1, WarnedOnceStays
  <2>7. Capture!LinesAreWhole'
    <3>1. /\ Capture!InFile' = Capture!InFile
          /\ \A a : Capture!EntryAt(a)' = Capture!EntryAt(a)
      BY <2>1 DEF Capture!InFile, Capture!EntryAt
    <3>2. \A a \in Capture!InFile : IsWhole(Capture!EntryAt(a), v9)
      BY DEF CaptureInv, Capture!LinesAreWhole, IsWhole
    <3>3. \A a \in Capture!InFile' : IsWhole(Capture!EntryAt(a)', v9')
      BY <1>6, <3>1, <3>2 DEF IsWhole
    <3>. QED  BY <3>3 DEF Capture!LinesAreWhole, IsWhole
  <2>8. Capture!Grows
    <3>1. v4 \in Seq(Seq(Entry))  BY <1>1 DEF CaptureType
    <3>. QED  BY <2>1, <3>1 DEF Capture!Grows, Capture!IsPrefix
  <2>. QED  BY <1>7, <2>3, <2>4, <2>5, <2>6, <2>7, <2>8 DEF CaptureInv
<1>. QED  BY <1>8, <1>9

LEMMA CaptureBegins == Capture!Init => CaptureInv
<1>. SUFFICES ASSUME Capture!Init  PROVE CaptureInv
  OBVIOUS
<1>1. /\ v4 \in Seq(Seq(Entry)) /\ v4 # << >> /\ DOMAIN v4 = {1} /\ v4[1] = << >>
      /\ v6 \in Seq(Entry) /\ v6 = << >>
  BY DEF Capture!Init
<1>2. CaptureType
  <2>1. << >> \in Seq(Capture!Piece)  OBVIOUS
  <2>2. \A i \in DOMAIN v4 : Len(v4[i]) <= PartMax  BY <1>1, LogsAssumption
  <2>3. v1 \in [Writers -> [Capture!Streams -> Seq(Capture!Piece)]]
    BY <2>1 DEF Capture!Init
  <2>4. /\ v7 \in [Writers -> [Capture!Streams -> Nat]]
        /\ v8 \in [Writers -> [at : {"idle", "console", "failed", "skipped", "tell", "note"},
                               s : Capture!Streams]]
    BY DEF Capture!Init, Capture!Idle, Capture!Streams
  <2>. QED  BY <1>1, <2>2, <2>3, <2>4 DEF CaptureType, Capture!Init
<1>3. Capture!InFile = {}  BY <1>1 DEF Capture!InFile
<1>4. \A t \in Writers, s \in Capture!Streams : Left(t, s) = 0 /\ v1[t][s] = << >>
  BY DEF Capture!Init, Left
<1>5. PendingRuns  BY <1>4 DEF PendingRuns
<1>6. Accounted
  <2>1. 1 .. 0 = {} /\ DOMAIN v6 = {}  BY <1>1
  <2>. QED  BY <1>3, <1>4, <2>1 DEF Accounted
<1>7. FlushedInTurn /\ Capture!LinesAreWhole
  BY <1>3 DEF FlushedInTurn, Capture!LinesAreWhole, Capture!Init
<1>8. WarnedOnce
  <2>1. \A t \in Writers, place \in {"tell", "note"}, s \in Capture!Streams :
          v8[t] # Capture!At(place, s)
    BY DEF Capture!Init, Capture!Idle, Capture!At
  <2>2. \A kind \in {"dead", "skip"}, place \in {"tell", "note"}, s \in Capture!Streams :
          Capture!Tellings(kind, place, s) = {}
    BY <1>1, <1>3, <2>1 DEF Capture!Tellings, Capture!At
  <2>. QED  BY <2>2 DEF WarnedOnce, OneTelling, Capture!Init
<1>. QED  BY <1>2, <1>5, <1>6, <1>7, <1>8 DEF CaptureInv

LEMMA CaptureStep ==
    ASSUME CaptureInv, Capture!Next
    PROVE  CaptureInv' /\ Capture!Grows
<1>1. ASSUME NEW t \in Writers, Capture!Console(t) \/ Capture!ConsoleFailed(t)
                                   \/ Capture!ConsoleSkipped(t)
      PROVE  CaptureInv' /\ Capture!Grows
  <2>1. v4' = v4 /\ v4 \in Seq(Seq(Entry))
    BY <1>1 DEF Capture!Console, Capture!ConsoleFailed, Capture!ConsoleSkipped, CaptureInv,
                CaptureType
  <2>2. Capture!Grows  BY <2>1 DEF Capture!Grows, Capture!IsPrefix
  <2>. QED  BY <1>1, <2>2, CaptureConsole
<1>2. CASE Capture!BeginExit
  <2>1. CaptureType'
    BY <1>2 DEF Capture!BeginExit, CaptureInv, CaptureType, Capture!Streams
  <2>2. \A r \in Capture!Streams : SameTellers("tell", r) /\ SameTellers("note", r)
    BY <1>2 DEF Capture!BeginExit, SameTellers
  <2>3. WarnedOnce'
    BY <1>2, <2>2, WarnedOnceStays DEF Capture!BeginExit, CaptureInv
  <2>4. CaptureInv'  BY <1>2, <2>1, <2>3, WrittenSame DEF Capture!BeginExit
  <2>5. v4' = v4 /\ v4 \in Seq(Seq(Entry))
    BY <1>2 DEF Capture!BeginExit, CaptureInv, CaptureType
  <2>. QED  BY <2>4, <2>5 DEF Capture!Grows, Capture!IsPrefix
<1>. QED
  BY <1>1, <1>2, CaptureWarns, CaptureWrites, CaptureFlushes
  DEF Capture!Next, Capture!Proceed

\* What the invariant says is what is asked of the capture.
LEMMA CaptureHolds ==
    ASSUME CaptureInv
    PROVE  /\ Capture!TypeOK /\ Capture!LinesAreWhole /\ Capture!NothingDropped
           /\ Capture!ToldOnce
<1>1. Capture!TypeOK
  <2>1. CaptureType  BY DEF CaptureInv
  <2>. QED  BY <2>1 DEF CaptureType, Capture!TypeOK, Capture!Streams
<1>2. Capture!NothingDropped
  <2>1. ASSUME NEW t \in Writers, NEW s \in Capture!Streams
        PROVE  1 .. v7[t][s] = UNION ({Capture!Numbers(Capture!EntryAt(a).pieces, t, s) :
                                            a \in Capture!InFile}
                                      \cup {Capture!Numbers(v6[i].pieces, t, s) :
                                            i \in DOMAIN v6}
                                      \cup {Capture!Numbers(v1[t][s], t, s)})
    <3>1. /\ v1[t][s] \in Seq(Capture!Piece) /\ v7[t][s] \in Nat /\ Left(t, s) \in Nat
          /\ \A j \in 1 .. Len(v1[t][s]) :
                v1[t][s][j] = [t |-> t, s |-> s, n |-> Left(t, s) + j, ends |-> FALSE]
      BY DEF CaptureInv, CaptureType, PendingRuns
    <3>2. PICK q \in Seq(Capture!Piece), k \in Nat, base \in Nat :
              q = v1[t][s] /\ k = Len(q) /\ base = Left(t, s)
      BY <3>1
    <3>3. v7[t][s] = base + k  BY <3>1, <3>2 DEF Left
    <3>4. \A j \in 1 .. k : q[j].t = t /\ q[j].s = s /\ q[j].n = base + j
      <4>. TAKE j \in 1 .. k
      <4>1. q[j] = [t |-> t, s |-> s, n |-> base + j, ends |-> FALSE]  BY <3>1, <3>2
      <4>. QED  BY <4>1
    <3>5. Capture!Numbers(q, t, s) = base + 1 .. base + k
      <4>1. DOMAIN q = 1 .. k  BY <3>1, <3>2
      <4>2. {i \in DOMAIN q : q[i].t = t /\ q[i].s = s} = 1 .. k  BY <3>4, <4>1
      <4>3. Capture!Numbers(q, t, s) = {q[j].n : j \in 1 .. k}
        BY <4>2 DEF Capture!Numbers
      <4>4. ASSUME NEW n \in base + 1 .. base + k  PROVE n \in {q[j].n : j \in 1 .. k}
        <5>1. n - base \in 1 .. k /\ q[n - base].n = n  BY <3>4
        <5>. QED  BY <5>1
      <4>5. ASSUME NEW j \in 1 .. k  PROVE q[j].n \in base + 1 .. base + k
        BY <3>4
      <4>. QED  BY <4>3, <4>4, <4>5
    <3>6. PICK before : /\ before = UNION ({Capture!Numbers(Capture!EntryAt(a).pieces, t, s) :
                                            a \in Capture!InFile}
                                     \cup {Capture!Numbers(v6[i].pieces, t, s) :
                                            i \in DOMAIN v6})
                     /\ before = 1 .. base
      BY <3>2 DEF CaptureInv, Accounted
    <3>7. 1 .. base + k = before \cup Capture!Numbers(q, t, s)
      <4>1. 1 .. base + k = (1 .. base) \cup (base + 1 .. base + k)  OBVIOUS
      <4>. QED  BY <3>5, <3>6, <4>1
    <3>. QED  BY <3>2, <3>3, <3>6, <3>7
  <2>2. ASSUME v9 = "clean", NEW s \in Capture!Streams  PROVE v1[Main][s] = << >>
    BY <2>2 DEF CaptureInv, FlushedInTurn, Capture!Streams
  <2>. QED  BY <2>1, <2>2 DEF Capture!NothingDropped, CaptureInv, Accounted
<1>3. Capture!ToldOnce
  <2>1. \A kind, place, s : InOnePlace(kind, place, s) =>
          Cardinality(Capture!Tellings(kind, place, s)) = 1
    BY FS_Singleton DEF InOnePlace
  <2>2. Cardinality({}) = 0  BY FS_EmptySet
  <2>3. ASSUME NEW s \in Capture!Streams
        PROVE  /\ Cardinality(Capture!Tellings("dead", "tell", s)) = IF v2[s] THEN 0 ELSE 1
               /\ Cardinality(Capture!Tellings("skip", "note", s)) = IF v3[s] THEN 1 ELSE 0
    <3>1. OneTelling("dead", "tell", s, ~v2[s]) /\ OneTelling("skip", "note", s, v3[s])
      BY DEF CaptureInv, WarnedOnce
    <3>2. Cardinality(Capture!Tellings("dead", "tell", s)) = IF v2[s] THEN 0 ELSE 1
      <4>1. CASE v2[s]  BY <2>2, <3>1, <4>1 DEF OneTelling
      <4>2. CASE ~v2[s]  BY <2>1, <3>1, <4>2 DEF OneTelling
      <4>. QED  BY <4>1, <4>2
    <3>3. Cardinality(Capture!Tellings("skip", "note", s)) = IF v3[s] THEN 1 ELSE 0
      <4>1. CASE v3[s]  BY <2>1, <3>1, <4>1 DEF OneTelling
      <4>2. CASE ~v3[s]  BY <2>2, <3>1, <4>2 DEF OneTelling
      <4>. QED  BY <4>1, <4>2
    <3>. QED  BY <3>2, <3>3
  <2>4. \A S : Capture!Cardinality(S) = Cardinality(S)
    BY DEF Cardinality, Capture!Cardinality
  <2>. QED  BY <2>3, <2>4 DEF Capture!ToldOnce
<1>. QED  BY <1>1, <1>2, <1>3 DEF CaptureInv

--------------------------------------------------------------------------------
(* Who is turned away (LogLimit). *)

\* What the map holds is how long ago the last line was; what it does not hold, it never
\* held, or lost when it was full.
MapTells ==
    \A s \in Callers :
        IF v1[s] # Nothing THEN v1[s] = v2[s]
                           ELSE v2[s] = Spare \/ Cardinality(v3[s]) >= PartMax

SparingInv ==
    Sparing!TypeOK /\ MapTells /\ Cardinality(Sparing!Keys) <= PartMax

LEMMA SparingBegins == Sparing!Init => SparingInv
<1>. SUFFICES ASSUME Sparing!Init  PROVE SparingInv
  OBVIOUS
<1>1. Sparing!Keys = {}  BY DEF Sparing!Init, Sparing!Keys
<1>2. Cardinality(Sparing!Keys) <= PartMax  BY <1>1, FS_EmptySet, LogsAssumption
<1>3. Sparing!TypeOK  BY LogsAssumption DEF Sparing!Init, Sparing!TypeOK
<1>. QED  BY <1>2, <1>3 DEF SparingInv, MapTells, Sparing!Init

LEMMA SparingStep ==
    ASSUME SparingInv, Sparing!Next
    PROVE  SparingInv'
<1>1. /\ v1 \in [Callers -> 0 .. Spare \cup {Nothing}] /\ v2 \in [Callers -> 0 .. Spare]
      /\ v3 \in [Callers -> SUBSET Callers] /\ MapTells
      /\ Cardinality(Sparing!Keys) <= PartMax
      /\ Spare \in Nat /\ PartMax \in Nat \ {0} /\ Nothing \notin 0 .. Spare
      /\ IsFiniteSet(Callers)
  BY LogsAssumption DEF SparingInv, Sparing!TypeOK
<1>2. \A S : Sparing!Cardinality(S) = Cardinality(S)
  BY DEF Cardinality, Sparing!Cardinality
<1>3. CASE Sparing!Elapse
  <2>1. \A a \in 0 .. Spare : Sparing!Older(a) \in 0 .. Spare /\ Sparing!Older(a) # Nothing
    BY <1>1 DEF Sparing!Older
  <2>2. Sparing!TypeOK'
    BY <1>1, <1>3, <2>1 DEF Sparing!Elapse, Sparing!TypeOK
  <2>3. Sparing!Keys' = Sparing!Keys
    BY <1>1, <1>3, <2>1 DEF Sparing!Elapse, Sparing!Keys
  <2>4. MapTells'
    <3>1. ASSUME NEW s \in Callers
          PROVE  IF v1'[s] # Nothing THEN v1'[s] = v2'[s]
                 ELSE v2'[s] = Spare \/ Cardinality(v3'[s]) >= PartMax
      <4>1. /\ v1'[s] = IF v1[s] = Nothing THEN Nothing ELSE Sparing!Older(v1[s])
            /\ v2'[s] = Sparing!Older(v2[s]) /\ v3' = v3
        BY <1>3 DEF Sparing!Elapse
      <4>2. CASE v1[s] = Nothing
        <5>1. v2[s] = Spare \/ Cardinality(v3[s]) >= PartMax
          BY <1>1, <4>2 DEF MapTells
        <5>2. Sparing!Older(Spare) = Spare  BY <1>1 DEF Sparing!Older
        <5>. QED  BY <4>1, <4>2, <5>1, <5>2
      <4>3. CASE v1[s] # Nothing  BY <1>1, <2>1, <4>1, <4>3 DEF MapTells
      <4>. QED  BY <4>2, <4>3
    <3>. QED  BY <3>1 DEF MapTells
  <2>. QED  BY <1>1, <2>2, <2>3, <2>4 DEF SparingInv
<1>4. ASSUME NEW s \in Callers, Sparing!TurnedAway(s)  PROVE SparingInv'
  BY <1>4 DEF Sparing!TurnedAway, Sparing!vars, SparingInv, Sparing!TypeOK, Sparing!Keys, MapTells
<1>5. ASSUME NEW s \in Callers, Sparing!Logs(s)  PROVE SparingInv'
  <2>1. PICK full \in BOOLEAN : full <=> Cardinality(Sparing!Keys) >= PartMax
    OBVIOUS
  <2>2. /\ v1' = [k \in Callers |-> IF k = s THEN 0 ELSE IF full THEN Nothing ELSE v1[k]]
        /\ v2' = [v2 EXCEPT ![s] = 0]
        /\ v3' = [k \in Callers |-> IF k = s THEN {}
                                    ELSE IF full /\ k \in Sparing!Keys THEN Sparing!Keys
                                    ELSE v3[k]]
    BY <1>2, <1>5, <2>1 DEF Sparing!Logs
  <2>3. Sparing!Keys \in SUBSET Callers /\ IsFiniteSet(Sparing!Keys)
    BY <1>1, FS_Subset DEF Sparing!Keys
  <2>4. Sparing!TypeOK'  BY <1>1, <2>2, <2>3 DEF Sparing!TypeOK
  <2>5. Cardinality(Sparing!Keys') <= PartMax
    <3>1. CASE full
      <4>1. Sparing!Keys' = {s}  BY <1>1, <2>2, <3>1 DEF Sparing!Keys
      <4>. QED  BY <1>1, <4>1, FS_Singleton
    <3>2. CASE ~full
      <4>1. Sparing!Keys' = Sparing!Keys \cup {s}  BY <1>1, <2>2, <3>2 DEF Sparing!Keys
      <4>2. Cardinality(Sparing!Keys) \in Nat  BY <2>3, FS_CardinalityType
      <4>3. Cardinality(Sparing!Keys \cup {s}) <= Cardinality(Sparing!Keys) + 1
        BY <2>3, <4>2, FS_AddElement
      <4>4. Cardinality(Sparing!Keys \cup {s}) \in Nat
        BY <2>3, FS_AddElement, FS_CardinalityType
      <4>5. Cardinality(Sparing!Keys) + 1 <= PartMax  BY <1>1, <2>1, <3>2, <4>2
      <4>. QED  BY <1>1, <4>1, <4>2, <4>3, <4>4, <4>5
    <3>. QED  BY <3>1, <3>2
  <2>6. MapTells'
    <3>1. ASSUME NEW k \in Callers
          PROVE  IF v1'[k] # Nothing THEN v1'[k] = v2'[k]
                 ELSE v2'[k] = Spare \/ Cardinality(v3'[k]) >= PartMax
      <4>1. CASE k = s  BY <1>1, <2>2, <4>1
      <4>2. CASE k # s /\ full /\ k \in Sparing!Keys
        BY <2>1, <2>2, <4>2
      <4>3. CASE k # s /\ ~(full /\ k \in Sparing!Keys)
        <5>1. v1'[k] = v1[k] /\ v2'[k] = v2[k] /\ v3'[k] = v3[k]
          BY <1>1, <2>2, <4>3 DEF Sparing!Keys
        <5>. QED  BY <1>1, <5>1 DEF MapTells
      <4>. QED  BY <4>1, <4>2, <4>3
    <3>. QED  BY <3>1 DEF MapTells
  <2>. QED  BY <2>4, <2>5, <2>6 DEF SparingInv
<1>. QED  BY <1>3, <1>4, <1>5 DEF Sparing!Next

LEMMA SparingHolds ==
    ASSUME SparingInv
    PROVE  Sparing!TypeOK /\ Sparing!SaidOnce /\ Sparing!MapIsBounded
<1>1. \A S : Sparing!Cardinality(S) = Cardinality(S)
  BY DEF Cardinality, Sparing!Cardinality
<1>2. Sparing!MapIsBounded  BY <1>1 DEF SparingInv, Sparing!MapIsBounded
<1>3. ASSUME NEW s \in Callers, v2[s] < Spare
      PROVE  Sparing!Limited(s) \/ Cardinality(v3[s]) >= PartMax
  <2>1. v2[s] # Spare  BY <1>3, LogsAssumption
  <2>. QED  BY <1>3, <2>1 DEF SparingInv, MapTells, Sparing!Limited
<1>. QED  BY <1>1, <1>2, <1>3 DEF SparingInv, Sparing!SaidOnce

--------------------------------------------------------------------------------
(* What is checked of the capture and of the map. *)

LogsInv ==
    /\ part = "capture" => CaptureInv
    /\ part = "limits" => SparingInv

LEMMA LogsStep ==
    ASSUME LogsInv, [FaultsNext]_<<logs, cameras, part>>
    PROVE  LogsInv' /\ (part = "capture" => v4' = v4 \/ Capture!Grows)
<1>1. CASE part = "capture" /\ Capture!Next /\ part' = part
  BY <1>1, CaptureStep DEF LogsInv
<1>2. CASE part = "limits" /\ Sparing!Next /\ part' = part
  BY <1>2, SparingStep DEF LogsInv
<1>3. CASE part \notin {"capture", "limits"} /\ part' = part
  BY <1>3 DEF LogsInv
<1>4. CASE UNCHANGED <<logs, part>>
  <2>1. UNCHANGED <<v1, v2, v3, v4, v5, v6, v7, v8, v9, part>>  BY <1>4 DEF logs
  <2>2. ASSUME CaptureInv  PROVE CaptureInv'
    <3>1. CaptureType'  BY <2>1, <2>2 DEF CaptureInv, CaptureType
    <3>2. \A r \in Capture!Streams : SameTellers("tell", r) /\ SameTellers("note", r)
      BY <2>1 DEF SameTellers
    <3>3. WarnedOnce'  BY <2>1, <2>2, <3>2, WarnedOnceStays DEF CaptureInv
    <3>. QED  BY <2>1, <2>2, <3>1, <3>3, WrittenSame
  <2>3. part = "limits" => SparingInv'
    BY <2>1 DEF LogsInv, SparingInv, Sparing!TypeOK, Sparing!Keys, MapTells
  <2>. QED  BY <2>1, <2>2, <2>3 DEF LogsInv
<1>. QED  BY <1>1, <1>2, <1>3, <1>4 DEF FaultsNext, cameras

LEMMA LogsInvariance == FaultsSpec => []LogsInv
<1>1. FaultsInit => LogsInv
  BY CaptureBegins, SparingBegins DEF FaultsInit, LogsInv
<1>. QED  BY <1>1, LogsStep, PTL DEF FaultsSpec

\* capture_log.py, auth_middleware.py: for any number of threads, writes and sources, the
\* file holds what was printed, whole, in order and once, but for what the file itself
\* failed on; a console's failure is told once; and who is turned away is logged once in a
\* while.
THEOREM LogsAreKept == FaultsSpec => []LogsHold
<1>1. LogsInv => LogsHold  BY CaptureHolds, SparingHolds DEF LogsInv, LogsHold
<1>. QED  BY <1>1, LogsInvariance, PTL

\* capture_log.py: nothing that was captured is renamed, overwritten or deleted.
THEOREM CaptureGrows == FaultsSpec => OnlyGrows
<1>1. LogsInv /\ [FaultsNext]_<<logs, cameras, part>>
        => [part = "capture" => Capture!Grows]_logs
  <2>. SUFFICES ASSUME LogsInv, [FaultsNext]_<<logs, cameras, part>>, part = "capture",
                       v4' = v4
                PROVE  Capture!Grows
    BY LogsStep
  <2>1. v4 \in Seq(Seq(Entry))  BY DEF LogsInv, CaptureInv, CaptureType
  <2>. QED  BY <2>1 DEF Capture!Grows, Capture!IsPrefix
<1>. QED  BY <1>1, LogsInvariance, PTL DEF FaultsSpec, OnlyGrows

--------------------------------------------------------------------------------
(* The capture listener. *)

ConnType == [at : Listener!Places, n : Nat, whole : BOOLEAN, seen : BOOLEAN, raises : BOOLEAN]

ListenerType ==
    /\ v1 \in Seq(Listener!Record) /\ v2 \in Seq(Listener!Record) /\ Len(v2) <= MaxLost
    /\ v3 \in Nat /\ v4 \in [Requests -> ConnType]
    /\ v5 \subseteq Requests /\ v6 \in {"up", "stopped", "gone"}

\* The records that a connection has left, by how far it is.
Told == {"opened", "request", "malformed", "unfinished"}
Due(kind, x) ==
    \/ kind = "opened" /\ x.at \notin {"none", "accepted"}
    \/ kind = "request" /\ x.n # 0 /\ x.at \notin {"body", "record"}
    \/ kind = "malformed" /\ x.n = 0 /\ x.seen
    \/ kind = "unfinished" /\ ~x.seen /\ x.at \in {"raised", "over"}

\* Each is in one place, and none is there that is not due.
TracedOnce(c, kind) == \E w : Listener!Traces(c, kind) = {w}
Traced ==
    \A c \in Requests, kind \in Told :
        IF Due(kind, v4[c]) THEN TracedOnce(c, kind) ELSE Listener!Traces(c, kind) = {}

\* A request has its number once it is read, and before it is answered.
InOrder ==
    \A c \in Requests :
        /\ v4[c].at \in {"none", "accepted", "waiting"} => ~v4[c].seen
        /\ v4[c].n # 0 => v4[c].seen
        /\ v4[c].at \in {"body", "record", "reply"} => v4[c].n # 0
        /\ c \in v5 => v4[c].n # 0 /\ v4[c].at \in {"ending", "raised", "over"}

\* The numbers are given once each.
Counted == {c \in Requests : v4[c].n # 0}
Numbered ==
    /\ v3 = Cardinality(Counted)
    /\ \A c, d \in Requests : c # d /\ v4[c].n # 0 => v4[c].n # v4[d].n
    /\ \A c \in Requests : v4[c].n <= v3
    /\ \A i \in DOMAIN v1 : v1[i].kind = "request" =>
          v1[i].c \in Requests /\ v1[i].n = v4[v1[i].c].n

ListenerInv == ListenerType /\ Traced /\ InOrder /\ Numbered

LEMMA ListenerBegins == Listener!Init => ListenerInv
<1>. SUFFICES ASSUME Listener!Init  PROVE ListenerInv
  OBVIOUS
<1>1. /\ v1 = << >> /\ v2 = << >> /\ v1 \in Seq(Listener!Record) /\ DOMAIN v1 = {}
      /\ Len(v2) = 0 /\ DOMAIN v2 = {}
      /\ \A c \in Requests : v4[c] = Listener!NoConn
  BY DEF Listener!Init
<1>2. Listener!NoConn \in ConnType
  BY DEF Listener!NoConn, ConnType, Listener!Places
<1>3. ListenerType
  BY <1>1, <1>2, LogsAssumption DEF ListenerType, Listener!Init
<1>4. Traced
  <2>1. \A c, kind : Listener!Traces(c, kind) = {}  BY <1>1 DEF Listener!Traces
  <2>2. \A kind \in Told : ~Due(kind, Listener!NoConn)
    BY DEF Due, Listener!NoConn
  <2>. QED  BY <1>1, <2>1, <2>2 DEF Traced
<1>5. InOrder  BY <1>1 DEF InOrder, Listener!NoConn, Listener!Init
<1>6. Counted = {}  BY <1>1 DEF Counted, Listener!NoConn
<1>7. Numbered
  BY <1>1, <1>6, FS_EmptySet DEF Numbered, Listener!NoConn, Listener!Init
<1>. QED  BY <1>3, <1>4, <1>5, <1>7 DEF ListenerInv

\* A record that is written is the only change to the traces.
LEMMA RecordWritten ==
    ASSUME ListenerType, NEW r \in Listener!Record, Listener!Write(r)
    PROVE  /\ v1' \in Seq(Listener!Record) /\ v2' \in Seq(Listener!Record) /\ Len(v2') <= MaxLost
           /\ \E w : Listener!Traces(r.c, r.kind)' = Listener!Traces(r.c, r.kind) \cup {w}
           /\ \A c, kind : c # r.c \/ kind # r.kind =>
                 Listener!Traces(c, kind)' = Listener!Traces(c, kind)
           /\ \/ v1' = v1
              \/ v1' = Append(v1, r)
<1>. DEFINE Of(q, c, kind) == {i \in DOMAIN q : q[i].c = c /\ q[i].kind = kind}
<1>1. \A q \in Seq(Listener!Record) :
        /\ Append(q, r) \in Seq(Listener!Record) /\ Len(Append(q, r)) = Len(q) + 1
        /\ Of(Append(q, r), r.c, r.kind) = Of(q, r.c, r.kind) \cup {Len(q) + 1}
        /\ \A c, kind : c # r.c \/ kind # r.kind =>
              Of(Append(q, r), c, kind) = Of(q, c, kind)
  <2>. TAKE q \in Seq(Listener!Record)
  <2>1. /\ Append(q, r) \in Seq(Listener!Record) /\ Len(Append(q, r)) = Len(q) + 1
        /\ DOMAIN Append(q, r) = DOMAIN q \cup {Len(q) + 1}
        /\ Append(q, r)[Len(q) + 1] = r
        /\ \A i \in DOMAIN q : Append(q, r)[i] = q[i]
    OBVIOUS
  <2>2. Of(Append(q, r), r.c, r.kind) = Of(q, r.c, r.kind) \cup {Len(q) + 1}
    BY <2>1
  <2>3. ASSUME NEW c, NEW kind, c # r.c \/ kind # r.kind
        PROVE  Of(Append(q, r), c, kind) = Of(q, c, kind)
    BY <2>1, <2>3
  <2>. QED  BY <2>1, <2>2, <2>3
<1>2. \A c, kind : /\ Listener!Traces(c, kind) =
                        ({"log"} \X Of(v1, c, kind)) \cup ({"lost"} \X Of(v2, c, kind))
                   /\ Listener!Traces(c, kind)' =
                        ({"log"} \X Of(v1', c, kind)) \cup ({"lost"} \X Of(v2', c, kind))
  BY DEF Listener!Traces
<1>3. v1 \in Seq(Listener!Record) /\ v2 \in Seq(Listener!Record) /\ MaxLost \in Nat
  BY LogsAssumption DEF ListenerType
<1>. HIDE DEF Of
<1>4. CASE v1' = Append(v1, r) /\ v2' = v2
  <2>1. Listener!Traces(r.c, r.kind)' =
           Listener!Traces(r.c, r.kind) \cup {<<"log", Len(v1) + 1>>}
    BY <1>1, <1>2, <1>3, <1>4
  <2>2. ASSUME NEW c, NEW kind, c # r.c \/ kind # r.kind
        PROVE  Listener!Traces(c, kind)' = Listener!Traces(c, kind)
    <3>1. /\ Of(v1', c, kind) = Of(v1, c, kind) /\ Of(v2', c, kind) = Of(v2, c, kind)
      BY <1>1, <1>3, <1>4, <2>2
    <3>. QED  BY <1>2, <3>1
  <2>. QED  BY <1>1, <1>3, <1>4, <2>1, <2>2 DEF ListenerType
<1>5. CASE v1' = v1 /\ v2' = Append(v2, r) /\ Len(v2) < MaxLost
  <2>1. Listener!Traces(r.c, r.kind)' =
           Listener!Traces(r.c, r.kind) \cup {<<"lost", Len(v2) + 1>>}
    BY <1>1, <1>2, <1>3, <1>5
  <2>2. ASSUME NEW c, NEW kind, c # r.c \/ kind # r.kind
        PROVE  Listener!Traces(c, kind)' = Listener!Traces(c, kind)
    <3>1. /\ Of(v1', c, kind) = Of(v1, c, kind) /\ Of(v2', c, kind) = Of(v2, c, kind)
      BY <1>1, <1>3, <1>5, <2>2
    <3>. QED  BY <1>2, <3>1
  <2>3. v2' \in Seq(Listener!Record) /\ Len(v2') <= MaxLost
    <3>1. Len(v2) \in Nat /\ Len(v2') = Len(v2) + 1  BY <1>1, <1>3, <1>5
    <3>. QED  BY <1>1, <1>3, <1>5, <3>1
  <2>. QED  BY <1>3, <1>5, <2>1, <2>2, <2>3 DEF ListenerType
<1>. QED  BY <1>4, <1>5 DEF Listener!Write

\* A connection goes on, and leaves the records that become due by it.
LEMMA TracedStays ==
    ASSUME ListenerInv, NEW c \in Requests, NEW x, v4' = [v4 EXCEPT ![c] = x],
           \/ UNCHANGED <<v1, v2>> /\ \A kind \in Told : Due(kind, x) <=> Due(kind, v4[c])
           \/ \E r \in Listener!Record :
                 /\ Listener!Write(r) /\ r.c = c
                 /\ r.kind \in Told => Due(r.kind, x) /\ ~Due(r.kind, v4[c])
                 /\ \A kind \in Told \ {r.kind} : Due(kind, x) <=> Due(kind, v4[c])
    PROVE  Traced'
<1>1. /\ ListenerType /\ Traced
      /\ v4'[c] = x /\ \A d \in Requests : d # c => v4'[d] = v4[d]
  BY DEF ListenerInv, ListenerType
<1>. SUFFICES ASSUME NEW d \in Requests, NEW kind \in Told
              PROVE  IF Due(kind, v4'[d]) THEN TracedOnce(d, kind)'
                                          ELSE Listener!Traces(d, kind)' = {}
  BY DEF Traced, Due
<1>2. IF Due(kind, v4[d]) THEN TracedOnce(d, kind) ELSE Listener!Traces(d, kind) = {}
  BY <1>1 DEF Traced
<1>3. ASSUME Listener!Traces(d, kind)' = Listener!Traces(d, kind),
             Due(kind, v4'[d]) <=> Due(kind, v4[d])
      PROVE  IF Due(kind, v4'[d]) THEN TracedOnce(d, kind)'
                                  ELSE Listener!Traces(d, kind)' = {}
  BY <1>2, <1>3 DEF TracedOnce
<1>4. CASE UNCHANGED <<v1, v2>> /\ \A k \in Told : Due(k, x) <=> Due(k, v4[c])
  <2>1. Listener!Traces(d, kind)' = Listener!Traces(d, kind)
    BY <1>4 DEF Listener!Traces
  <2>2. Due(kind, v4'[d]) <=> Due(kind, v4[d])
    <3>1. CASE d = c  BY <1>1, <1>4, <3>1
    <3>2. CASE d # c  BY <1>1, <3>2
    <3>. QED  BY <3>1, <3>2
  <2>. QED  BY <1>3, <2>1, <2>2
<1>5. ASSUME NEW r \in Listener!Record, Listener!Write(r), r.c = c,
             r.kind \in Told => Due(r.kind, x) /\ ~Due(r.kind, v4[c]),
             \A k \in Told \ {r.kind} : Due(k, x) <=> Due(k, v4[c])
      PROVE  IF Due(kind, v4'[d]) THEN TracedOnce(d, kind)'
                                  ELSE Listener!Traces(d, kind)' = {}
  <2>1. /\ \E w : Listener!Traces(c, r.kind)' = Listener!Traces(c, r.kind) \cup {w}
        /\ \A e, k : e # c \/ k # r.kind =>
              Listener!Traces(e, k)' = Listener!Traces(e, k)
    BY <1>1, <1>5, RecordWritten
  <2>2. CASE d = c /\ kind = r.kind
    <3>1. Due(kind, v4'[d]) /\ Listener!Traces(d, kind) = {}
      BY <1>1, <1>2, <1>5, <2>2
    <3>2. PICK w : Listener!Traces(d, kind)' = Listener!Traces(d, kind) \cup {w}
      BY <2>1, <2>2
    <3>. QED  BY <3>1, <3>2 DEF TracedOnce
  <2>3. CASE d # c \/ kind # r.kind
    <3>1. Listener!Traces(d, kind)' = Listener!Traces(d, kind)  BY <2>1, <2>3
    <3>2. Due(kind, v4'[d]) <=> Due(kind, v4[d])
      <4>1. CASE d = c  BY <1>1, <1>5, <2>3, <4>1
      <4>2. CASE d # c  BY <1>1, <4>2
      <4>. QED  BY <4>1, <4>2
    <3>. QED  BY <1>3, <3>1, <3>2
  <2>. QED  BY <2>2, <2>3
<1>. QED  BY <1>4, <1>5

\* A connection goes on, under the number it has or has not.
LEMMA ListenerGoes ==
    ASSUME ListenerInv, NEW c \in Requests, NEW x \in ConnType, v4' = [v4 EXCEPT ![c] = x],
           x.n = v4[c].n, v3' = v3, v6' \in {"up", "stopped", "gone"},
           v5' \in {v5, v5 \cup {c}},
           x.at \in {"none", "accepted", "waiting"} => ~x.seen,
           x.n # 0 => x.seen,
           x.at \in {"body", "record", "reply"} => x.n # 0,
           c \in v5' => x.n # 0 /\ x.at \in {"ending", "raised", "over"},
           \/ UNCHANGED <<v1, v2>> /\ \A kind \in Told : Due(kind, x) <=> Due(kind, v4[c])
           \/ \E r \in Listener!Record :
                 /\ Listener!Write(r) /\ r.c = c /\ (r.kind = "request" => r.n = x.n)
                 /\ r.kind \in Told => Due(r.kind, x) /\ ~Due(r.kind, v4[c])
                 /\ \A kind \in Told \ {r.kind} : Due(kind, x) <=> Due(kind, v4[c])
    PROVE  ListenerInv'
<1>1. ListenerType /\ InOrder /\ Numbered  BY DEF ListenerInv
<1>2. /\ v4' \in [Requests -> ConnType] /\ v4'[c] = x
      /\ \A d \in Requests : d # c => v4'[d] = v4[d]
      /\ \A d \in Requests : v4'[d].n = v4[d].n
  BY <1>1 DEF ListenerType
<1>3. Traced'  BY TracedStays
<1>4. /\ v1' \in Seq(Listener!Record) /\ v2' \in Seq(Listener!Record) /\ Len(v2') <= MaxLost
  <2>1. CASE UNCHANGED <<v1, v2>>  BY <1>1, <2>1 DEF ListenerType
  <2>2. ASSUME NEW r \in Listener!Record, Listener!Write(r)
        PROVE  /\ v1' \in Seq(Listener!Record) /\ v2' \in Seq(Listener!Record)
               /\ Len(v2') <= MaxLost
    BY <1>1, <2>2, RecordWritten
  <2>. QED  BY <2>1, <2>2
<1>5. ListenerType'  BY <1>1, <1>2, <1>4 DEF ListenerType
<1>6. InOrder'
  <2>. SUFFICES ASSUME NEW d \in Requests
                PROVE  /\ v4'[d].at \in {"none", "accepted", "waiting"} => ~v4'[d].seen
                       /\ v4'[d].n # 0 => v4'[d].seen
                       /\ v4'[d].at \in {"body", "record", "reply"} => v4'[d].n # 0
                       /\ d \in v5' => /\ v4'[d].n # 0
                                       /\ v4'[d].at \in {"ending", "raised", "over"}
    BY DEF InOrder
  <2>1. CASE d = c  BY <1>2, <2>1
  <2>2. CASE d # c  BY <1>1, <1>2, <2>2 DEF InOrder
  <2>. QED  BY <2>1, <2>2
<1>7. Numbered'
  <2>1. Counted' = Counted  BY <1>2 DEF Counted
  <2>2. ASSUME NEW i \in DOMAIN v1', v1'[i].kind = "request"
        PROVE  v1'[i].c \in Requests /\ v1'[i].n = v4'[v1'[i].c].n
    <3>1. CASE v1' = v1  BY <1>1, <1>2, <2>2, <3>1 DEF Numbered
    <3>2. ASSUME NEW r \in Listener!Record, Listener!Write(r), r.c = c,
                 r.kind = "request" => r.n = x.n
          PROVE  v1'[i].c \in Requests /\ v1'[i].n = v4'[v1'[i].c].n
      <4>1. v1' = v1 \/ v1' = Append(v1, r)  BY <1>1, <3>2, RecordWritten
      <4>2. CASE v1' = Append(v1, r)
        <5>1. v1 \in Seq(Listener!Record)  BY <1>1 DEF ListenerType
        <5>2. \/ i = Len(v1) + 1 /\ v1'[i] = r
              \/ i \in DOMAIN v1 /\ v1'[i] = v1[i]
          BY <4>2, <5>1
        <5>. QED  BY <1>1, <1>2, <2>2, <3>2, <5>2 DEF Numbered
      <4>. QED  BY <3>1, <4>1, <4>2
    <3>. QED  BY <3>1, <3>2
  <2>. QED  BY <1>1, <1>2, <2>1, <2>2 DEF Numbered
<1>. QED  BY <1>3, <1>5, <1>6, <1>7 DEF ListenerInv

\* A request is counted and numbered.
LEMMA ListenerNumbers ==
    ASSUME ListenerInv, NEW c \in Requests, Listener!Request(c)
    PROVE  ListenerInv'
<1>1. ListenerType /\ InOrder /\ Numbered /\ Traced  BY DEF ListenerInv
<1>2. PICK x : x = [v4[c] EXCEPT !.at = "body", !.n = v3 + 1, !.seen = TRUE]
  OBVIOUS
<1>3. /\ v4[c] \in ConnType /\ v4[c].at = "waiting" /\ v4[c].n = 0 /\ ~v4[c].seen
      /\ v3 \in Nat /\ c \notin v5
  BY <1>1 DEF ListenerType, InOrder, Listener!Request, Listener!At
<1>4. /\ x \in ConnType /\ x.n = v3 + 1 /\ x.at = "body" /\ x.seen
  <2>1. PICK y \in ConnType : y = v4[c]  BY <1>3
  <2>2. v3 + 1 \in Nat  BY <1>3
  <2>3. x = [y EXCEPT !.at = "body", !.n = v3 + 1, !.seen = TRUE]  BY <1>2, <2>1
  <2>. QED  BY <2>2, <2>3 DEF ConnType, Listener!Places
<1>5. /\ v3' = v3 + 1 /\ v4' = [v4 EXCEPT ![c] = x] /\ UNCHANGED <<v1, v2, v5, v6>>
  BY <1>2 DEF Listener!Request, Listener!Goes
<1>6. /\ v4' \in [Requests -> ConnType] /\ v4'[c] = x
      /\ \A d \in Requests : d # c => v4'[d] = v4[d]
  BY <1>1, <1>4, <1>5 DEF ListenerType
<1>7. ListenerType'  BY <1>1, <1>3, <1>5, <1>6 DEF ListenerType
<1>8. Traced'
  <2>1. \A kind \in Told : Due(kind, x) <=> Due(kind, v4[c])
    BY <1>3, <1>4 DEF Due
  <2>. QED  BY <1>5, <2>1, TracedStays
<1>9. InOrder'
  <2>. SUFFICES ASSUME NEW d \in Requests
                PROVE  /\ v4'[d].at \in {"none", "accepted", "waiting"} => ~v4'[d].seen
                       /\ v4'[d].n # 0 => v4'[d].seen
                       /\ v4'[d].at \in {"body", "record", "reply"} => v4'[d].n # 0
                       /\ d \in v5' => /\ v4'[d].n # 0
                                       /\ v4'[d].at \in {"ending", "raised", "over"}
    BY DEF InOrder
  <2>1. CASE d = c  BY <1>3, <1>4, <1>5, <1>6, <2>1
  <2>2. CASE d # c  BY <1>1, <1>5, <1>6, <2>2 DEF InOrder
  <2>. QED  BY <2>1, <2>2
<1>10. Numbered'
  <2>1. Counted' = Counted \cup {c} /\ c \notin Counted /\ Counted \in SUBSET Requests
    BY <1>3, <1>4, <1>6 DEF Counted
  <2>2. Cardinality(Counted') = Cardinality(Counted) + 1
    BY <2>1, FS_Subset, FS_AddElement, LogsAssumption
  <2>3. \A d \in Requests : v4[d].n \in Nat /\ v4[d].n <= v3
    BY <1>1 DEF Numbered, ListenerType, ConnType
  <2>4. \A d, e \in Requests : d # e /\ v4'[d].n # 0 => v4'[d].n # v4'[e].n
    <3>. TAKE d, e \in Requests
    <3>1. CASE d = c  BY <1>3, <1>4, <1>6, <2>3, <3>1
    <3>2. CASE e = c  BY <1>3, <1>4, <1>6, <2>3, <3>2
    <3>3. CASE d # c /\ e # c  BY <1>1, <1>6, <3>3 DEF Numbered
    <3>. QED  BY <3>1, <3>2, <3>3
  <2>5. \A d \in Requests : v4'[d].n <= v3'
    BY <1>3, <1>4, <1>5, <1>6, <2>3
  <2>6. ASSUME NEW i \in DOMAIN v1, v1[i].kind = "request"
        PROVE  v1[i].c \in Requests /\ v1[i].n = v4'[v1[i].c].n
    <3>1. v1[i].c \in Requests /\ v1[i].n = v4[v1[i].c].n
      BY <1>1, <2>6 DEF Numbered
    <3>2. v1[i].c # c
      <4>1. Listener!Traces(c, "request") = {}
        BY <1>1, <1>3 DEF Traced, Told, Due
      <4>2. v1[i].c = c => <<"log", i>> \in Listener!Traces(c, "request")
        BY <2>6 DEF Listener!Traces
      <4>. QED  BY <4>1, <4>2
    <3>. QED  BY <1>6, <3>1, <3>2
  <2>. QED  BY <1>1, <1>5, <2>2, <2>4, <2>5, <2>6 DEF Numbered
<1>. QED  BY <1>7, <1>8, <1>9, <1>10 DEF ListenerInv

LEMMA ListenerSteps ==
    ASSUME ListenerInv, NEW c \in Requests,
           \/ Listener!Accept(c) \/ Listener!Opened(c) \/ Listener!ReadBody(c)
           \/ Listener!RecordRequest(c) \/ Listener!Reply(c) \/ Listener!Malformed(c)
           \/ Listener!NoRequest(c) \/ Listener!End(c) \/ Listener!HandleError(c)
    PROVE  ListenerInv'
<1>1. /\ ListenerType /\ InOrder /\ v4[c] \in ConnType
      /\ v6 \in {"up", "stopped", "gone"}
  BY DEF ListenerInv, ListenerType
<1>2. PICK y \in ConnType : y = v4[c]  BY <1>1
<1>3. /\ y.at \in {"none", "accepted", "waiting"} => ~y.seen
      /\ y.n # 0 => y.seen
      /\ y.at \in {"body", "record", "reply"} => y.n # 0
      /\ c \in v5 => y.n # 0 /\ y.at \in {"ending", "raised", "over"}
  BY <1>1, <1>2 DEF InOrder
<1>4. ASSUME NEW x \in ConnType, v4' = [v4 EXCEPT ![c] = x], x.n = y.n, UNCHANGED <<v3, v6>>,
             v5' \in {v5, v5 \cup {c}},
             x.at \in {"none", "accepted", "waiting"} => ~x.seen,
             x.n # 0 => x.seen,
             x.at \in {"body", "record", "reply"} => x.n # 0,
             c \in v5' => x.n # 0 /\ x.at \in {"ending", "raised", "over"},
             \/ UNCHANGED <<v1, v2>> /\ \A kind \in Told : Due(kind, x) <=> Due(kind, y)
             \/ \E r \in Listener!Record :
                   /\ Listener!Write(r) /\ r.c = c /\ (r.kind = "request" => r.n = x.n)
                   /\ r.kind \in Told => Due(r.kind, x) /\ ~Due(r.kind, y)
                   /\ \A kind \in Told \ {r.kind} : Due(kind, x) <=> Due(kind, y)
      PROVE  ListenerInv'
  BY <1>1, <1>2, <1>4, ListenerGoes
<1>. USE DEF Told
<1>5. \A at \in Listener!Places : [y EXCEPT !.at = at] \in ConnType
  BY DEF ConnType
<1>6. \A kind \in Listener!Kinds : Listener!Rec(c, kind) \in Listener!Record
  BY DEF Listener!Rec, Listener!Record
<1>7. CASE Listener!Accept(c)
  <2>1. PICK x \in ConnType : x = [y EXCEPT !.at = "accepted"]
    BY <1>5 DEF Listener!Places
  <2>2. v4' = [v4 EXCEPT ![c] = x] /\ y.at = "none" /\ UNCHANGED <<v1, v2, v3, v5, v6>>
    BY <1>2, <1>7, <2>1 DEF Listener!Accept, Listener!To, Listener!Goes, Listener!At
  <2>3. x.at = "accepted" /\ x.n = y.n /\ x.seen = y.seen  BY <2>1 DEF ConnType
  <2>4. \A kind \in Told : Due(kind, x) <=> Due(kind, y)  BY <2>2, <2>3 DEF Due
  <2>. QED  BY <1>3, <1>4, <2>2, <2>3, <2>4
<1>8. CASE Listener!Opened(c)
  <2>1. PICK x \in ConnType : x = [y EXCEPT !.at = "waiting"]
    BY <1>5 DEF Listener!Places
  <2>2. v4' = [v4 EXCEPT ![c] = x] /\ y.at = "accepted" /\ UNCHANGED <<v3, v5, v6>>
    BY <1>2, <1>8, <2>1 DEF Listener!Opened, Listener!To, Listener!Goes, Listener!At
  <2>3. x.at = "waiting" /\ x.n = y.n /\ x.seen = y.seen  BY <2>1 DEF ConnType
  <2>4. PICK r \in Listener!Record : r = Listener!Rec(c, "opened")
    BY <1>6 DEF Listener!Kinds
  <2>5. Listener!Write(r) /\ r.c = c /\ r.kind = "opened"
    BY <1>8, <2>4 DEF Listener!Opened, Listener!Rec
  <2>6. /\ Due("opened", x) /\ ~Due("opened", y)
        /\ \A kind \in Told \ {"opened"} : Due(kind, x) <=> Due(kind, y)
    BY <1>3, <2>2, <2>3 DEF Due
  <2>. QED  BY <1>3, <1>4, <2>2, <2>3, <2>5, <2>6
<1>9. CASE Listener!ReadBody(c)
  <2>1. PICK whole \in BOOLEAN : v4' = [v4 EXCEPT ![c] = [y EXCEPT !.at = "record",
                                                                  !.whole = whole]]
    BY <1>2, <1>9 DEF Listener!ReadBody, Listener!Goes
  <2>2. PICK x \in ConnType : x = [y EXCEPT !.at = "record", !.whole = whole]
    BY DEF ConnType, Listener!Places
  <2>3. v4' = [v4 EXCEPT ![c] = x] /\ y.at = "body" /\ UNCHANGED <<v1, v2, v3, v5, v6>>
    BY <1>2, <1>9, <2>1, <2>2 DEF Listener!ReadBody, Listener!At
  <2>4. x.at = "record" /\ x.n = y.n /\ x.seen = y.seen  BY <2>2 DEF ConnType
  <2>5. \A kind \in Told : Due(kind, x) <=> Due(kind, y)  BY <2>3, <2>4 DEF Due
  <2>. QED  BY <1>3, <1>4, <2>3, <2>4, <2>5
<1>10. CASE Listener!RecordRequest(c)
  <2>1. PICK x \in ConnType : x = [y EXCEPT !.at = "reply"]
    BY <1>5 DEF Listener!Places
  <2>2. v4' = [v4 EXCEPT ![c] = x] /\ y.at = "record" /\ UNCHANGED <<v3, v5, v6>>
    BY <1>2, <1>10, <2>1 DEF Listener!RecordRequest, Listener!To, Listener!Goes, Listener!At
  <2>3. x.at = "reply" /\ x.n = y.n /\ x.seen = y.seen  BY <2>1 DEF ConnType
  <2>4. PICK r \in Listener!Record :
              r = [c |-> c, kind |-> "request", n |-> y.n, whole |-> y.whole]
    BY DEF Listener!Record, Listener!Kinds, ConnType
  <2>5. Listener!Write(r) /\ r.c = c /\ r.kind = "request" /\ r.n = x.n
    BY <1>2, <1>10, <2>3, <2>4 DEF Listener!RecordRequest
  <2>6. /\ Due("request", x) /\ ~Due("request", y)
        /\ \A kind \in Told \ {"request"} : Due(kind, x) <=> Due(kind, y)
    BY <1>3, <2>2, <2>3 DEF Due
  <2>. QED  BY <1>3, <1>4, <2>2, <2>3, <2>5, <2>6
<1>11. CASE Listener!Reply(c)
  <2>1. PICK x \in ConnType : x = [y EXCEPT !.at = "ending"]
    BY <1>5 DEF Listener!Places
  <2>2. /\ v4' = [v4 EXCEPT ![c] = x] /\ y.at = "reply" /\ UNCHANGED <<v1, v2, v3, v6>>
        /\ v5' \in {v5, v5 \cup {c}}
    BY <1>2, <1>11, <2>1 DEF Listener!Reply, Listener!To, Listener!Goes, Listener!At
  <2>3. x.at = "ending" /\ x.n = y.n /\ x.seen = y.seen  BY <2>1 DEF ConnType
  <2>4. \A kind \in Told : Due(kind, x) <=> Due(kind, y)  BY <1>3, <2>2, <2>3 DEF Due
  <2>. QED  BY <1>3, <1>4, <2>2, <2>3, <2>4
<1>12. CASE Listener!Malformed(c)
  <2>1. PICK x \in ConnType : x = [y EXCEPT !.at = "ending", !.seen = TRUE]
    BY DEF ConnType, Listener!Places
  <2>2. v4' = [v4 EXCEPT ![c] = x] /\ y.at = "waiting" /\ UNCHANGED <<v3, v5, v6>>
    BY <1>2, <1>12, <2>1 DEF Listener!Malformed, Listener!Goes, Listener!At
  <2>3. x.at = "ending" /\ x.n = y.n /\ x.seen  BY <2>1 DEF ConnType
  <2>4. PICK r \in Listener!Record : r = Listener!Rec(c, "malformed")
    BY <1>6 DEF Listener!Kinds
  <2>5. Listener!Write(r) /\ r.c = c /\ r.kind = "malformed"
    BY <1>12, <2>4 DEF Listener!Malformed, Listener!Rec
  <2>6. /\ Due("malformed", x) /\ ~Due("malformed", y)
        /\ \A kind \in Told \ {"malformed"} : Due(kind, x) <=> Due(kind, y)
    BY <1>3, <2>2, <2>3 DEF Due
  <2>. QED  BY <1>3, <1>4, <2>2, <2>3, <2>5, <2>6
<1>13. CASE Listener!NoRequest(c)
  <2>1. PICK raises \in BOOLEAN : v4' = [v4 EXCEPT ![c] = [y EXCEPT !.at = "ending",
                                                                   !.raises = raises]]
    BY <1>2, <1>13 DEF Listener!NoRequest, Listener!Goes
  <2>2. PICK x \in ConnType : x = [y EXCEPT !.at = "ending", !.raises = raises]
    BY DEF ConnType, Listener!Places
  <2>3. v4' = [v4 EXCEPT ![c] = x] /\ y.at = "waiting" /\ UNCHANGED <<v1, v2, v3, v5, v6>>
    BY <1>2, <1>13, <2>1, <2>2 DEF Listener!NoRequest, Listener!At
  <2>4. x.at = "ending" /\ x.n = y.n /\ x.seen = y.seen  BY <2>2 DEF ConnType
  <2>5. \A kind \in Told : Due(kind, x) <=> Due(kind, y)  BY <1>3, <2>3, <2>4 DEF Due
  <2>. QED  BY <1>3, <1>4, <2>3, <2>4, <2>5
<1>14. CASE Listener!End(c)
  <2>1. PICK at \in {"raised", "over"} : at = IF y.raises THEN "raised" ELSE "over"
    OBVIOUS
  <2>2. PICK x \in ConnType : x = [y EXCEPT !.at = at]
    BY <1>5 DEF Listener!Places
  <2>3. v4' = [v4 EXCEPT ![c] = x] /\ y.at = "ending" /\ UNCHANGED <<v3, v5, v6>>
    BY <1>2, <1>14, <2>1, <2>2 DEF Listener!End, Listener!To, Listener!Goes, Listener!At
  <2>4. x.at = at /\ x.n = y.n /\ x.seen = y.seen  BY <2>2 DEF ConnType
  <2>5. CASE y.seen
    <3>1. UNCHANGED <<v1, v2>>  BY <1>2, <1>14, <2>5 DEF Listener!End
    <3>2. \A kind \in Told : Due(kind, x) <=> Due(kind, y)  BY <2>3, <2>4, <2>5 DEF Due
    <3>. QED  BY <1>3, <1>4, <2>3, <2>4, <3>1, <3>2
  <2>6. CASE ~y.seen
    <3>1. PICK r \in Listener!Record : r = Listener!Rec(c, "unfinished")
      BY <1>6 DEF Listener!Kinds
    <3>2. Listener!Write(r) /\ r.c = c /\ r.kind = "unfinished"
      BY <1>2, <1>14, <2>6, <3>1 DEF Listener!End, Listener!Rec
    <3>3. /\ Due("unfinished", x) /\ ~Due("unfinished", y)
          /\ \A kind \in Told \ {"unfinished"} : Due(kind, x) <=> Due(kind, y)
      BY <1>3, <2>3, <2>4, <2>6 DEF Due
    <3>. QED  BY <1>3, <1>4, <2>3, <2>4, <3>2, <3>3
  <2>. QED  BY <2>5, <2>6
<1>15. CASE Listener!HandleError(c)
  <2>1. PICK x \in ConnType : x = [y EXCEPT !.at = "over"]
    BY <1>5 DEF Listener!Places
  <2>2. v4' = [v4 EXCEPT ![c] = x] /\ y.at = "raised" /\ UNCHANGED <<v3, v5, v6>>
    BY <1>2, <1>15, <2>1 DEF Listener!HandleError, Listener!To, Listener!Goes, Listener!At
  <2>3. x.at = "over" /\ x.n = y.n /\ x.seen = y.seen  BY <2>1 DEF ConnType
  <2>4. PICK r \in Listener!Record : r = Listener!Rec(c, "reset")
    BY <1>6 DEF Listener!Kinds
  <2>5. Listener!Write(r) /\ r.c = c /\ r.kind = "reset"
    BY <1>15, <2>4 DEF Listener!HandleError, Listener!Rec
  <2>6. \A kind \in Told : Due(kind, x) <=> Due(kind, y)  BY <2>2, <2>3 DEF Due
  <2>. QED  BY <1>3, <1>4, <2>2, <2>3, <2>5, <2>6
<1>. QED  BY <1>7, <1>8, <1>9, <1>10, <1>11, <1>12, <1>13, <1>14, <1>15

LEMMA ListenerSame ==
    ASSUME ListenerInv, UNCHANGED <<v1, v2, v3, v4, v5>>, v6' \in {"up", "stopped", "gone"}
    PROVE  ListenerInv'
<1>1. ListenerType' /\ InOrder'  BY DEF ListenerInv, ListenerType, InOrder
<1>2. Traced'
  <2>1. ASSUME NEW c \in Requests, NEW kind \in Told
        PROVE  IF Due(kind, v4[c]) THEN TracedOnce(c, kind)'
                                   ELSE Listener!Traces(c, kind)' = {}
    <3>1. Listener!Traces(c, kind)' = Listener!Traces(c, kind)  BY DEF Listener!Traces
    <3>. QED  BY <3>1 DEF ListenerInv, Traced, TracedOnce
  <2>. QED  BY <2>1 DEF Traced, Due
<1>3. Numbered'  BY DEF ListenerInv, Numbered, Counted
<1>. QED  BY <1>1, <1>2, <1>3 DEF ListenerInv

LEMMA ListenerStep ==
    ASSUME ListenerInv, Listener!Next
    PROVE  ListenerInv'
<1>1. CASE Listener!Stop
  <2>1. PICK r \in Listener!Record : r = Listener!Rec(Nothing, "stopped")
    BY DEF Listener!Rec, Listener!Record
  <2>2. /\ Listener!Write(r) /\ r.kind = "stopped" /\ UNCHANGED <<v3, v4, v5>>
        /\ v6' \in {"up", "stopped", "gone"}
    BY <1>1, <2>1 DEF Listener!Stop, Listener!Rec
  <2>3. /\ v1' \in Seq(Listener!Record) /\ v2' \in Seq(Listener!Record) /\ Len(v2') <= MaxLost
        /\ \A c, kind : c # r.c \/ kind # r.kind =>
              Listener!Traces(c, kind)' = Listener!Traces(c, kind)
        /\ v1' = v1 \/ v1' = Append(v1, r)
    BY <2>2, RecordWritten DEF ListenerInv
  <2>4. ListenerType' /\ InOrder'
    BY <2>2, <2>3 DEF ListenerInv, ListenerType, InOrder
  <2>5. Traced'
    <3>1. ASSUME NEW c \in Requests, NEW kind \in Told
          PROVE  IF Due(kind, v4[c]) THEN TracedOnce(c, kind)'
                                     ELSE Listener!Traces(c, kind)' = {}
      <4>1. Listener!Traces(c, kind)' = Listener!Traces(c, kind)
        BY <2>2, <2>3, <3>1 DEF Told
      <4>. QED  BY <4>1 DEF ListenerInv, Traced, TracedOnce
    <3>. QED  BY <2>2, <3>1 DEF Traced, Due
  <2>6. Numbered'
    <3>1. Counted' = Counted  BY <2>2 DEF Counted
    <3>2. ASSUME NEW i \in DOMAIN v1', v1'[i].kind = "request"
          PROVE  v1'[i].c \in Requests /\ v1'[i].n = v4[v1'[i].c].n
      <4>1. v1 \in Seq(Listener!Record)  BY DEF ListenerInv, ListenerType
      <4>2. i \in DOMAIN v1 /\ v1'[i] = v1[i]
        <5>1. CASE v1' = v1  BY <5>1
        <5>2. CASE v1' = Append(v1, r)  BY <2>2, <3>2, <4>1, <5>2
        <5>. QED  BY <2>3, <5>1, <5>2
      <4>. QED  BY <3>2, <4>2 DEF ListenerInv, Numbered
    <3>. QED  BY <2>2, <3>1, <3>2 DEF ListenerInv, Numbered
  <2>. QED  BY <2>4, <2>5, <2>6 DEF ListenerInv
<1>2. CASE Listener!Exit  BY <1>2, ListenerSame DEF Listener!Exit
<1>. QED  BY <1>1, <1>2, ListenerSteps, ListenerNumbers DEF Listener!Next

LEMMA ListenerHolds ==
    ASSUME ListenerInv
    PROVE  Listener!TypeOK /\ Listener!EveryConnectionIsTold /\ Listener!AnsweredIsRecorded
<1>1. \A S : Listener!Cardinality(S) = Cardinality(S)
  BY DEF Cardinality, Listener!Cardinality
<1>2. /\ ListenerType /\ InOrder /\ Numbered /\ Traced  BY DEF ListenerInv
<1>3. \A c, kind : TracedOnce(c, kind) => Cardinality(Listener!Traces(c, kind)) = 1
  BY FS_Singleton DEF TracedOnce
<1>4. Listener!TypeOK
  <2>1. Counted \in SUBSET Requests /\ v3 = Cardinality(Counted)  BY <1>2 DEF Counted, Numbered
  <2>2. v3 <= Cardinality(Requests) /\ Cardinality(Requests) \in Nat
    BY <2>1, FS_Subset, FS_CardinalityType, LogsAssumption
  <2>3. v3 \in 0 .. Cardinality(Requests)  BY <1>2, <2>2 DEF ListenerType
  <2>4. v4 \in [Requests -> [at : Listener!Places, n : 0 .. Cardinality(Requests),
                             whole : BOOLEAN, seen : BOOLEAN, raises : BOOLEAN]]
    <3>1. ASSUME NEW c \in Requests
          PROVE  v4[c] \in [at : Listener!Places, n : 0 .. Cardinality(Requests),
                            whole : BOOLEAN, seen : BOOLEAN, raises : BOOLEAN]
      <4>1. v4[c] \in ConnType /\ v4[c].n <= v3  BY <1>2 DEF ListenerType, Numbered
      <4>2. v4[c].n \in 0 .. Cardinality(Requests)  BY <2>2, <2>3, <4>1 DEF ConnType
      <4>. QED  BY <4>1, <4>2 DEF ConnType
    <3>. QED  BY <1>2, <3>1 DEF ListenerType
  <2>. QED  BY <1>1, <1>2, <2>3, <2>4 DEF Listener!TypeOK, ListenerType
<1>5. Listener!EveryConnectionIsTold
  <2>1. ASSUME NEW c \in Requests, v4[c].at = "over"
        PROVE  /\ Cardinality(Listener!Traces(c, "opened")) = 1
               /\ Cardinality(Listener!Traces(c, "request")
                                 \cup Listener!Traces(c, "malformed")
                                 \cup Listener!Traces(c, "unfinished")) = 1
    <3>1. \A kind \in Told :
            IF Due(kind, v4[c]) THEN TracedOnce(c, kind) ELSE Listener!Traces(c, kind) = {}
      BY <1>2 DEF Traced
    <3>2. Cardinality(Listener!Traces(c, "opened")) = 1
      BY <1>3, <2>1, <3>1 DEF Told, Due
    <3>3. v4[c].n # 0 => v4[c].seen  BY <1>2 DEF InOrder
    <3>4. CASE v4[c].n # 0
      <4>1. /\ TracedOnce(c, "request") /\ Listener!Traces(c, "malformed") = {}
            /\ Listener!Traces(c, "unfinished") = {}
        BY <2>1, <3>1, <3>3, <3>4 DEF Told, Due
      <4>. QED  BY <1>3, <3>2, <4>1
    <3>5. CASE v4[c].n = 0 /\ v4[c].seen
      <4>1. /\ TracedOnce(c, "malformed") /\ Listener!Traces(c, "request") = {}
            /\ Listener!Traces(c, "unfinished") = {}
        BY <2>1, <3>1, <3>5 DEF Told, Due
      <4>. QED  BY <1>3, <3>2, <4>1
    <3>6. CASE ~v4[c].seen
      <4>1. /\ TracedOnce(c, "unfinished") /\ Listener!Traces(c, "request") = {}
            /\ Listener!Traces(c, "malformed") = {}
        BY <2>1, <3>1, <3>3, <3>6 DEF Told, Due
      <4>. QED  BY <1>3, <3>2, <4>1
    <3>. QED  BY <3>4, <3>5, <3>6
  <2>. QED  BY <1>1, <2>1 DEF Listener!EveryConnectionIsTold, Listener!At
<1>6. Listener!AnsweredIsRecorded
  <2>1. ASSUME NEW c \in v5  PROVE Cardinality(Listener!Traces(c, "request")) = 1
    <3>1. c \in Requests /\ v4[c].n # 0 /\ v4[c].at \in {"ending", "raised", "over"}
      BY <1>2 DEF ListenerType, InOrder
    <3>2. TracedOnce(c, "request")  BY <1>2, <3>1 DEF Traced, Told, Due
    <3>. QED  BY <1>3, <3>2
  <2>2. ASSUME NEW i \in DOMAIN v1, NEW j \in DOMAIN v1, i # j,
               v1[i].kind = "request", v1[j].kind = "request"
        PROVE  v1[i].n # v1[j].n
    <3>1. /\ v1[i].c \in Requests /\ v1[i].n = v4[v1[i].c].n
          /\ v1[j].c \in Requests /\ v1[j].n = v4[v1[j].c].n
      BY <1>2, <2>2 DEF Numbered
    <3>2. /\ <<"log", i>> \in Listener!Traces(v1[i].c, "request")
          /\ <<"log", j>> \in Listener!Traces(v1[j].c, "request")
      BY <2>2 DEF Listener!Traces
    <3>3. v1[i].c # v1[j].c
      <4>1. v1[i].c = v1[j].c => ~TracedOnce(v1[i].c, "request")
        BY <2>2, <3>2 DEF TracedOnce
      <4>2. TracedOnce(v1[i].c, "request")
        BY <1>2, <3>1, <3>2 DEF Traced, Told
      <4>. QED  BY <4>1, <4>2
    <3>4. v4[v1[i].c].n # 0
      <4>1. Due("request", v4[v1[i].c])
        BY <1>2, <3>1, <3>2 DEF Traced, Told
      <4>. QED  BY <4>1 DEF Due
    <3>. QED  BY <1>2, <3>1, <3>3, <3>4 DEF Numbered
  <2>. QED  BY <1>1, <2>1, <2>2 DEF Listener!AnsweredIsRecorded
<1>. QED  BY <1>4, <1>5, <1>6

LEMMA ListenerInvariance == FaultsSpec => [](part = "listener" => ListenerInv)
<1>1. FaultsInit => (part = "listener" => ListenerInv)
  BY ListenerBegins DEF FaultsInit
<1>2. (part = "listener" => ListenerInv) /\ [FaultsNext]_<<logs, cameras, part>>
          => (part = "listener" => ListenerInv)'
  <2>. SUFFICES ASSUME part = "listener" => ListenerInv, [FaultsNext]_<<logs, cameras, part>>,
                       part' = "listener"
                PROVE  ListenerInv'
    OBVIOUS
  <2>1. part' = part  BY DEF FaultsNext, cameras
  <2>2. CASE Listener!Next  BY <2>1, <2>2, ListenerStep
  <2>3. CASE UNCHANGED logs
    <3>1. UNCHANGED <<v1, v2, v3, v4, v5, v6>>  BY <2>3 DEF logs
    <3>2. v6 \in {"up", "stopped", "gone"}  BY <2>1 DEF ListenerInv, ListenerType
    <3>. QED  BY <2>1, <3>1, <3>2, ListenerSame
  <2>. QED  BY <2>1, <2>2, <2>3 DEF FaultsNext
<1>. QED  BY <1>1, <1>2, PTL DEF FaultsSpec

\* listener.py: for any number of connections, each that is over has left its opening and one
\* record of how it went, and a request that was answered is recorded by then, under a number
\* of its own - but for what the file failed on.
THEOREM ConnectionsAreTold == FaultsSpec => []ListenerTells
<1>1. (part = "listener" => ListenerInv) => ListenerTells
  BY ListenerHolds DEF ListenerTells
<1>. QED  BY <1>1, ListenerInvariance, PTL
================================================================================
