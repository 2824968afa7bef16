----------------------------- MODULE CameraRegistry -----------------------------
(***************************************************************************)
(* The camera registry: create, update and delete of                       *)
(* services/cctv_service.py as request threads run them, the deletion of a *)
(* whole floor (services/floor_service.py), the cache of all cameras, and  *)
(* the alarm threads (services/vigi_service.py) that look a camera up in   *)
(* it and add events to services/camera_detection_buffer.py.               *)
(*                                                                         *)
(* An action is one call to the store, or what a thread does between two   *)
(* such calls.  A camera's document is its identity, (device_mac, channel);*)
(* its name, position, address, checkpoint and time zone are left out, so  *)
(* an update may change nothing that the model holds.                      *)
(***************************************************************************)
EXTENDS FiniteSets

CONSTANTS
    Cams,       \* camera ids
    Macs,       \* normalized MACs
    Channels,
    Watched,    \* the camera_keys whose events are followed
    Workers,    \* threads that serve the admin's requests
    Alarms,     \* threads that serve alarm pushes
    None        \* no MAC, no document, no cache, no thread

ASSUME NoneAssumption == None \notin Macs \cup Workers \cup Cams

Docs == [mac : Macs \cup {None}, channel : Channels]
ASSUME DocsAssumption == None \notin Docs
ASSUME WatchedAssumption == Watched \subseteq [mac : Macs, channel : Channels]

\* camera_key: a camera without a MAC has none and reports nothing.

VARIABLES
    docs,       \* the cctvs collection
    writer,     \* who holds _write_lock
    cached,     \* _cache is not None and not too old
    cache,      \* the keys that the cameras in _cache have
    pc,         \* where a request is
    op,         \* what it does
    cam,        \* its cctv_id
    old,        \* the document it read first, then the one it replaced
    new,        \* the document it wants
    todo,       \* the cameras a floor deletion has still to delete
    apc,        \* where an alarm is
    key,        \* the camera_key of its event
    snap,       \* what it read for the cache
    late,       \* the registry may have changed since, for good
    buffer,     \* keys that the detection buffer holds events of
    torn,       \* cameras whose identity two updates wrote between them
    unsure,     \* the cache may be old, for a cause
    stray       \* keys whose events nobody drops any more, for a cause

theCache == <<cached, cache>>
request == <<pc, op, cam, old, new, todo>>
alarm == <<apc, key, snap, late>>
vars == <<docs, writer, theCache, request, alarm, buffer, torn, unsure, stray>>

TypeOK ==
    /\ docs \in [Cams -> Docs \cup {None}]
    /\ writer \in Workers \cup {None}
    /\ cache \subseteq Watched /\ cached \in BOOLEAN
    /\ pc \in [Workers -> {"idle", "lock", "save", "erase", "floor", "inval",
                           "zone"}]
    /\ op \in [Workers -> {"none", "create", "update", "delete", "floor"}]
    /\ cam \in [Workers -> Cams \cup {None}]
    /\ old \in [Workers -> Docs \cup {None}] /\ new \in [Workers -> Docs \cup {None}]
    /\ todo \in [Workers -> SUBSET Cams]
    /\ apc \in [Alarms -> {"idle", "filling", "adding"}]
    /\ key \in [Alarms -> Watched \cup {None}]
    /\ snap \in [Alarms -> SUBSET Watched]
    /\ late \in [Alarms -> BOOLEAN]
    /\ buffer \subseteq Watched /\ stray \subseteq Watched
    /\ torn \subseteq Cams
    /\ unsure \in BOOLEAN

Init ==
    /\ docs = [c \in Cams |-> None] /\ writer = None /\ cached = FALSE /\ cache = {}
    /\ pc = [w \in Workers |-> "idle"] /\ op = [w \in Workers |-> "none"]
    /\ cam = [w \in Workers |-> None]
    /\ old = [w \in Workers |-> None] /\ new = [w \in Workers |-> None]
    /\ todo = [w \in Workers |-> {}]
    /\ apc = [a \in Alarms |-> "idle"] /\ key = [a \in Alarms |-> None]
    /\ snap = [a \in Alarms |-> {}] /\ late = [a \in Alarms |-> FALSE]
    /\ buffer = {} /\ torn = {} /\ unsure = FALSE /\ stray = {}

--------------------------------------------------------------------------------
(* Shared steps.                                                           *)

\* The cameras that carry identity d; a MAC-less one carries none.
Carriers(d) == {c \in Cams : docs[c] = d /\ d.mac # None}
Registered == {k \in Watched : Carriers(k) # {}}
KeyOf(d) == {k \in Watched : k = d}

Goto(w, l) == pc' = [pc EXCEPT ![w] = l]

\* The reply is sent and the thread is free again.
Return(w) ==
    /\ Goto(w, "idle")
    /\ op' = [op EXCEPT ![w] = "none"] /\ cam' = [cam EXCEPT ![w] = None]
    /\ old' = [old EXCEPT ![w] = None] /\ new' = [new EXCEPT ![w] = None]
    /\ todo' = [todo EXCEPT ![w] = {}]

\* From here on the request knows only the identity that was given up, if any.
Written(w, gone) ==
    /\ Goto(w, "inval")
    /\ old' = [old EXCEPT ![w] = gone] /\ new' = [new EXCEPT ![w] = None]
    /\ UNCHANGED <<op, todo>>

\* detection_buffer.drop.
Drop(d) ==
    /\ buffer' = buffer \ KeyOf(d)
    /\ stray' = stray \ KeyOf(d)

InvalidateCache ==
    /\ cached' = FALSE /\ cache' = {} /\ unsure' = FALSE
    /\ late' = [a \in Alarms |-> apc[a] = "filling"]

--------------------------------------------------------------------------------
(* The admin's requests.                                                   *)

Request(w, o, c, before, after, l) ==
    /\ Goto(w, l)
    /\ op' = [op EXCEPT ![w] = o] /\ cam' = [cam EXCEPT ![w] = c]
    /\ old' = [old EXCEPT ![w] = before] /\ new' = [new EXCEPT ![w] = after]
    /\ UNCHANGED <<docs, writer, theCache, alarm, buffer, torn, unsure, stray>>

\* A uuid is new: no document and no other request has it.
Create(w, c) ==
    /\ pc[w] = "idle"
    /\ docs[c] = None
    /\ \A v \in Workers : cam[v] # c /\ c \notin todo[v]
    /\ \E d \in Docs : Request(w, "create", c, None, d, "lock")
    /\ UNCHANGED todo

\* The old document is read before the lock is taken.
Update(w, c) ==
    /\ pc[w] = "idle"
    /\ docs[c] # None
    /\ \E d \in Docs : Request(w, "update", c, docs[c], d, "lock")
    /\ UNCHANGED todo

Delete(w, c) ==
    /\ pc[w] = "idle"
    /\ Request(w, "delete", c, docs[c], None, "erase") /\ UNCHANGED todo

DeleteFloor(w) ==
    LET there == {c \in Cams : docs[c] # None}
    IN /\ pc[w] = "idle" /\ there # {}
       /\ Request(w, "floor", None, None, None, "floor")
       /\ todo' = [todo EXCEPT ![w] = there]

NeedsCheck(w) == op[w] = "create" \/ new[w] # old[w]

CheckNothing(w) ==
    /\ pc[w] = "lock" /\ writer = None
    /\ writer' = w /\ Goto(w, "save")
    /\ UNCHANGED <<docs, theCache, op, cam, old, new, todo, alarm, buffer, torn,
                   unsure, stray>>

\* _check_unique under the lock, on a fresh read; 409 if another camera has
\* the identity.
CheckUnique(w) ==
    /\ pc[w] = "lock" /\ writer = None
    /\ IF NeedsCheck(w) /\ Carriers(new[w]) \ {cam[w]} # {}
       THEN Return(w) /\ UNCHANGED writer
       ELSE /\ writer' = w /\ Goto(w, "save")
            /\ UNCHANGED <<op, cam, old, new, todo>>
    /\ UNCHANGED <<docs, theCache, alarm, buffer, torn, unsure, stray>>

\* update_fields writes the fields that differ from the document read first.
Merged(d, before, after) ==
    [mac |-> IF after.mac # before.mac THEN after.mac ELSE d.mac,
     channel |-> IF after.channel # before.channel THEN after.channel ELSE d.channel]

SaveNewQuietly(w) ==
    /\ op[w] = "create"
    /\ docs' = [docs EXCEPT ![cam[w]] = new[w]]
    /\ torn' = torn \ {cam[w]}
    /\ Goto(w, "zone") /\ UNCHANGED <<op, cam, old, new, todo, stray>>

SaveNew(w) ==
    /\ op[w] = "create"
    /\ docs' = [docs EXCEPT ![cam[w]] = new[w]]
    /\ torn' = torn \ {cam[w]}
    /\ Written(w, None) /\ UNCHANGED <<cam, stray>>

\* The document is gone: update_fields raises (if there is something to write).
SaveFails(w) ==
    /\ op[w] = "update" /\ docs[cam[w]] = None
    /\ Return(w)
    /\ UNCHANGED <<docs, torn, stray>>

SaveDropsNew(w) ==
    LET c == cam[w]
        overlap == docs[c] # old[w]
    IN /\ op[w] = "update" /\ docs[c] # None
       /\ docs' = [docs EXCEPT ![c] = Merged(docs[c], old[w], new[w])]
       /\ torn' = IF overlap THEN torn \cup {c} ELSE torn \ {c}
       /\ stray' = IF overlap THEN stray \cup KeyOf(docs[c]) ELSE stray
       /\ Written(w, new[w]) /\ UNCHANGED cam

SaveChanges(w) ==
    LET c == cam[w]
        overlap == docs[c] # old[w]
    IN /\ op[w] = "update" /\ docs[c] # None
       /\ docs' = [docs EXCEPT ![c] = Merged(docs[c], old[w], new[w])]
       /\ torn' = IF new[w] = old[w] THEN torn
                  ELSE IF overlap THEN torn \cup {c} ELSE torn \ {c}
       /\ stray' = IF overlap THEN stray \cup KeyOf(docs[c]) ELSE stray
       /\ Written(w, IF new[w] # old[w] THEN old[w] ELSE None) /\ UNCHANGED cam

\* An update of the other fields alone of a document that is gone: an empty
\* difference writes nothing and raises nothing.
SaveNothing(w) ==
    /\ op[w] = "update" /\ docs[cam[w]] = None /\ new[w] = old[w]
    /\ Written(w, None)
    /\ UNCHANGED <<docs, torn, stray, cam>>

Save(w) ==
    /\ pc[w] = "save"
    /\ SaveNew(w) \/ SaveFails(w) \/ SaveChanges(w) \/ SaveNothing(w)
    /\ writer' = None
    /\ UNCHANGED <<theCache, alarm, buffer, unsure>>

Erase(w) ==
    /\ pc[w] = "erase"
    /\ docs' = [docs EXCEPT ![cam[w]] = None]
    /\ torn' = torn \ {cam[w]}
    /\ stray' = IF docs[cam[w]] \notin {old[w], None}
                THEN stray \cup KeyOf(docs[cam[w]]) ELSE stray
    /\ Written(w, old[w]) /\ cam' = [cam EXCEPT ![w] = None]
    /\ UNCHANGED <<writer, theCache, alarm, buffer, unsure>>

\* A floor's cameras go without the cleanup of cctv_service.delete.
EraseOfFloor(w, c) ==
    /\ pc[w] = "floor" /\ c \in todo[w]
    /\ docs' = [docs EXCEPT ![c] = None]
    /\ torn' = torn \ {c}
    /\ stray' = IF docs[c] # None THEN stray \cup KeyOf(docs[c]) ELSE stray
    /\ todo' = [todo EXCEPT ![w] = @ \ {c}]
    /\ IF todo[w] = {c} THEN Goto(w, "inval") ELSE UNCHANGED pc
    /\ UNCHANGED <<writer, theCache, op, cam, old, new, alarm, buffer, unsure>>

\* One of its calls raises, and nothing is invalidated.
FloorFails(w) ==
    /\ pc[w] = "floor" \/ (pc[w] = "inval" /\ op[w] = "floor")
    /\ Return(w)
    /\ unsure' = TRUE /\ late' = [a \in Alarms |-> apc[a] = "filling"]
    /\ UNCHANGED <<docs, writer, theCache, apc, key, snap, buffer, torn, stray>>

\* invalidate(), and the buffer of the key that was given up is dropped.  An
\* update of the address goes on to the time zone, as a creation does.
Invalidate(w) ==
    /\ pc[w] = "inval"
    /\ InvalidateCache
    /\ IF old[w] # None THEN Drop(old[w]) ELSE UNCHANGED <<buffer, stray>>
    /\ \/ op[w] # "create" /\ Return(w)
       \/ /\ op[w] \in {"create", "update"} /\ Goto(w, "zone")
          /\ old' = [old EXCEPT ![w] = None] /\ op' = [op EXCEPT ![w] = "none"]
          /\ UNCHANGED <<cam, new, todo>>
    /\ UNCHANGED <<docs, writer, apc, key, snap, torn>>

\* The time zone is written outside the lock, if it is a new one or the camera
\* is; update_fields raises when the document is gone.
ZoneSaved(w) ==
    /\ pc[w] = "zone"
    /\ IF docs[cam[w]] = None
       THEN UNCHANGED <<theCache, unsure, late>>
       ELSE InvalidateCache
    /\ Return(w)
    /\ UNCHANGED <<docs, writer, apc, key, snap, buffer, torn, stray>>

--------------------------------------------------------------------------------
(* Alarm pushes, and everyone else who reads the registry through its      *)
(* cache: the health loops and the discovery rounds fill it the same way.  *)

\* The event is kept if the cameras read have its key (and its address is the
\* camera's registered one); it is not recorded otherwise.
Decide(a, known, k) ==
    \/ /\ k \in known
       /\ apc' = [apc EXCEPT ![a] = "adding"] /\ key' = [key EXCEPT ![a] = k]
    \/ apc' = [apc EXCEPT ![a] = "idle"] /\ key' = [key EXCEPT ![a] = None]

AlarmHits(a, k) ==
    /\ apc[a] = "idle" /\ cached
    /\ Decide(a, cache, k)
    /\ UNCHANGED <<docs, writer, theCache, request, snap, late, buffer, torn, unsure, stray>>

AlarmMisses(a, k) ==
    /\ apc[a] = "idle" /\ ~cached
    /\ apc' = [apc EXCEPT ![a] = "filling"] /\ key' = [key EXCEPT ![a] = k]
    /\ snap' = [snap EXCEPT ![a] = Registered] /\ late' = [late EXCEPT ![a] = FALSE]
    /\ UNCHANGED <<docs, writer, theCache, request, buffer, torn, unsure, stray>>

\* The cache takes what was read, whatever happened since.
AlarmFills(a) ==
    /\ apc[a] = "filling"
    /\ cached' = TRUE /\ cache' = snap[a] /\ unsure' = late[a]
    /\ Decide(a, snap[a], key[a])
    /\ snap' = [snap EXCEPT ![a] = {}] /\ late' = [late EXCEPT ![a] = FALSE]
    /\ UNCHANGED <<docs, writer, request, buffer, torn, stray>>

\* A request that has still to drop the events of k.
WillDrop(w, k) == old[w] = k /\ pc[w] \in {"erase", "inval"}

AlarmAdds(a) ==
    LET k == key[a]
    IN /\ apc[a] = "adding"
       /\ buffer' = buffer \cup {k}
       /\ stray' = IF k \notin Registered /\ ~(\E w \in Workers : WillDrop(w, k))
                   THEN stray \cup {k} ELSE stray
       /\ apc' = [apc EXCEPT ![a] = "idle"] /\ key' = [key EXCEPT ![a] = None]
       /\ UNCHANGED <<docs, writer, theCache, request, snap, late, torn, unsure>>

\* _CACHE_TTL_S.
CacheExpires ==
    /\ cached
    /\ cached' = FALSE /\ cache' = {} /\ unsure' = FALSE
    /\ UNCHANGED <<docs, writer, request, alarm, buffer, torn, stray>>

\* The events of a camera are older than 15 minutes.
EventsAge(k) ==
    /\ k \in buffer
    /\ buffer' = buffer \ {k} /\ stray' = stray \ {k}
    /\ UNCHANGED <<docs, writer, theCache, request, alarm, torn, unsure>>

RequestStep(w) ==
    \/ \E c \in Cams : Create(w, c) \/ Update(w, c) \/ Delete(w, c) \/ EraseOfFloor(w, c)
    \/ DeleteFloor(w) \/ FloorFails(w)
    \/ CheckUnique(w) \/ Save(w) \/ Erase(w) \/ Invalidate(w)
    \/ ZoneSaved(w)

AlarmStep(a) ==
    \/ \E k \in Watched : AlarmHits(a, k) \/ AlarmMisses(a, k)
    \/ AlarmFills(a) \/ AlarmAdds(a)

Next ==
    \/ \E w \in Workers : RequestStep(w)
    \/ \E a \in Alarms : AlarmStep(a)
    \/ CacheExpires
    \/ \E k \in Watched : EventsAge(k)

Spec == Init /\ [][Next]_vars

--------------------------------------------------------------------------------
(* Safety.                                                                 *)

\* (device_mac, channel) is unique across all floors, as the module promises,
\* except for a camera that two updates changed at once: each checked its own
\* half of an identity that neither wrote whole.
UniqueIdentity ==
    \A c, d \in Cams :
        c # d /\ docs[c] # None /\ docs[c] = docs[d] /\ docs[c].mac # None
        => c \in torn \/ d \in torn

\* A request whose write is not followed by its invalidate() yet.
Pending(w) == pc[w] \in {"inval", "floor"}

\* The cache that alarms are judged by is the registry, unless a request is
\* about to invalidate it, a reader filled it with what it read before the
\* last invalidation, or a floor's deletion failed before it invalidated.
CacheIsRegistry ==
    cached /\ cache # Registered => unsure \/ \E w \in Workers : Pending(w)

\* Events are held of registered cameras only, or a request will drop them, or
\* their camera went in a way that drops nothing: with its floor, behind a
\* request that had read an older identity, or before a slow alarm was added.
EventsOfRegistered ==
    \A k \in buffer :
        k \in Registered \/ k \in stray \/ \E w \in Workers : WillDrop(w, k)
================================================================================
