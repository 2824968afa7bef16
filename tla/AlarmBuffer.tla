------------------------------ MODULE AlarmBuffer ------------------------------
(***************************************************************************)
(* The pushes of one camera's Alarm Server (routes/vigi_routes.py,         *)
(* services/vigi_service.py, services/vigi_alarm_parser.py) and the buffer *)
(* of its recent detections (services/camera_detection_buffer.py).         *)
(*                                                                         *)
(* A push is stamped when it arrives, read on the event loop and handled   *)
(* in a worker thread, so pushes may be handled in another order.  Time is *)
(* kept as ages.  The time a thread waits for a lock, and the log, are     *)
(* left out.                                                               *)
(***************************************************************************)
EXTENDS Naturals, Sequences, FiniteSets

CONSTANTS
    Slots,          \* pushes handled at the same time
    Bodies,         \* the bodies of pushes; see Part
    Window,         \* WINDOW_S
    MaxEntries,     \* MAX_ENTRIES_PER_CAMERA
    MaxDelay        \* bound: time from a push's arrival to its detections' storing

Old == Window + MaxDelay + 1
Ages == 0 .. Old
Detection == [age : Ages, human : BOOLEAN]

VARIABLES
    push,           \* what each slot handles
    buffer,         \* _by_camera[camera_key]: age of received_at, is_human
    started,        \* age of process_started_at
    added           \* history: the last MaxEntries detections stored, by any process

vars == <<push, buffer, started, added>>

\* A body is JSON, multipart or of another type, and has parts.  A part is an alarm with
\* its events ("people", "motion" or "malformed"), an alarm without a MAC, an image or
\* nothing readable.  JSON has one part.
Part == [is : {"alarm", "nameless", "image", "junk"},
         events : Seq({"people", "motion", "malformed"})]

NoPart == [is |-> "junk", events |-> << >>]
NoPush == [at |-> "idle", age |-> 0, says |-> NoPart]

\* _multipart_json(): the first part that is not an image and is a JSON object.
FirstObject(parts) ==
    LET objects == {i \in DOMAIN parts : parts[i].is \in {"alarm", "nameless"}}
    IN  IF objects = {} THEN NoPart
        ELSE parts[CHOOSE i \in objects : \A j \in objects : i <= j]

\* extract_json()
Extracted(body) == IF body.type = "other" THEN NoPart ELSE FirstObject(body.parts)

Says == {Extracted(b) : b \in Bodies} \cup {NoPart}

TypeOK ==
    /\ push \in [Slots -> [at : {"idle", "handle", "heartbeat"}, age : 0 .. MaxDelay, says : Says]]
    /\ buffer \in Seq(Detection) /\ Len(buffer) <= MaxEntries
    /\ started \in Ages
    /\ added \in Seq(Detection) /\ Len(added) <= MaxEntries

Init ==
    /\ push = [s \in Slots |-> NoPush]
    /\ buffer = << >> /\ started = 0 /\ added = << >>
------------------------------------------------------------------------------
(* The buffer. *)

\* Two faults: the entries up to the last one that is too old are dropped; only one is.
PrunedPast(entries) ==
    LET last == CHOOSE i \in 0 .. Len(entries) :
                    /\ i > 0 => entries[i].age > Window
                    /\ \A j \in i + 1 .. Len(entries) : entries[j].age <= Window
    IN  SubSeq(entries, last + 1, Len(entries))

\* _prune(): entries are dropped from the left while they are too old.
Pruned(entries) ==
    LET first == CHOOSE i \in 1 .. Len(entries) + 1 :
                     /\ \A j \in 1 .. i - 1 : entries[j].age > Window
                     /\ i <= Len(entries) => entries[i].age <= Window
    IN  SubSeq(entries, first, Len(entries))

\* The last n entries: what a deque of n keeps.
LastOf(entries, n) ==
    SubSeq(entries, IF Len(entries) > n THEN Len(entries) - n + 1 ELSE 1, Len(entries))

\* add_many(), under the lock: each is appended, which drops the leftmost of a full deque,
\* and the buffer is pruned each time; what that takes from the left, the limit and the last
\* pruning take in the end.  Without a detection nothing is pruned.
Stored(entries, new) ==
    IF new = << >> THEN entries ELSE Pruned(LastOf(entries \o new, MaxEntries))

\* parse_ipc_alarm(): a record for each event that is well formed; only PEOPLE is a human.
Detections(p) ==
    LET events == p.says.events
        fine == {i \in DOMAIN events : events[i] # "malformed"}
        Nth(n) == CHOOSE i \in fine : Cardinality({j \in fine : j <= i}) = n
    IN  [n \in 1 .. Cardinality(fine) |->
            [age |-> p.age, human |-> events[Nth(n)] = "people"]]
------------------------------------------------------------------------------
(* Pushes. *)

\* vigi_alarm(): the push is stamped before its body is read.
Arrive(s, body) ==
    /\ push[s] = NoPush
    /\ push' = [push EXCEPT ![s] = [at |-> "handle", age |-> 0, says |-> Extracted(body)]]
    /\ UNCHANGED <<buffer, started, added>>

Answered(s) ==
    /\ push[s].at = "handle"
    /\ push' = [push EXCEPT ![s] = NoPush]
    /\ UNCHANGED <<buffer, started, added>>

\* handle_alarm() ignores a body that it cannot read and one without a valid MAC ...
Unsupported(s) == push[s].says.is = "junk" /\ Answered(s)
NoMac(s) == push[s].says.is = "nameless" /\ Answered(s)

\* ... and, as the registry is by then, one of a camera that is not registered, which
\* it records (CameraPresence), or that is registered at another address.
NotOurs(s) == push[s].says.is = "alarm" /\ Answered(s)

\* Else its detections are stored ...
Accept(s) ==
    LET new == Detections(push[s]) IN
    /\ push[s].at = "handle" /\ push[s].says.is = "alarm"
    /\ buffer' = Stored(buffer, new)
    /\ added' = LastOf(added \o new, MaxEntries)
    /\ push' = [push EXCEPT ![s].at = "heartbeat"]
    /\ UNCHANGED started

\* ... and the heartbeat is written, which may fail; it is answered 200 in any case.
Heartbeat(s) ==
    /\ push[s].at = "heartbeat"
    /\ push' = [push EXCEPT ![s] = NoPush]
    /\ UNCHANGED <<buffer, started, added>>

\* A call before that fails, and the push is dropped.
Fails(s) == push[s].says.is # "junk" /\ Answered(s)
------------------------------------------------------------------------------
(* Readers, the registry, time and restarts. *)

\* recent(): the buffer is pruned and shown, with process_started_at.
Recent ==
    /\ buffer' = Pruned(buffer) /\ buffer' # buffer
    /\ UNCHANGED <<push, started, added>>

\* drop(): the camera is removed or changed.
Drop ==
    /\ buffer # << >> /\ buffer' = << >> /\ added' = << >>
    /\ UNCHANGED <<push, started>>

Older(age, bound) == IF age < bound THEN age + 1 ELSE bound
Aged(entries) == [i \in DOMAIN entries |-> [entries[i] EXCEPT !.age = Older(@, Old)]]

Tick ==
    /\ \A s \in Slots : push[s].at = "handle" => push[s].age < MaxDelay
    /\ push' = [s \in Slots |-> IF push[s].at = "handle" THEN [push[s] EXCEPT !.age = @ + 1]
                                ELSE push[s]]
    /\ buffer' = Aged(buffer) /\ added' = Aged(added)
    /\ started' = Older(started, Old)

\* mark_process_start()
MarkProcessStart == started' = 0

Restart ==
    /\ MarkProcessStart
    /\ push' = [s \in Slots |-> NoPush] /\ buffer' = << >>
    /\ UNCHANGED added

Next ==
    \/ \E s \in Slots, body \in Bodies : Arrive(s, body)
    \/ \E s \in Slots : \/ Unsupported(s) \/ NoMac(s) \/ NotOurs(s)
                       \/ Accept(s) \/ Heartbeat(s) \/ Fails(s)
    \/ Recent \/ Drop \/ Tick \/ Restart

Spec == Init /\ [][Next]_vars
------------------------------------------------------------------------------
\* How many of the last MaxEntries detections the buffer does not have (any more).
Missing == Len(added) - Len(buffer)

\* A window in which the buffer shows no human had none that was stored, unless as many as
\* the buffer holds were stored since, or the window begins before the process did: what is
\* missing from the last MaxEntries detections is too old or of an earlier process, in whatever
\* order the pushes were handled (module comment: "can't claim no human seen").
SilenceIsHonest ==
    /\ Missing \in Nat
    /\ \A i \in DOMAIN buffer : buffer[i] = added[Missing + i]
    /\ \A i \in 1 .. Missing : added[i].age > Window \/ added[i].age >= started

\* What is shown is no older than the window and a push's handling: a late entry may stand
\* behind younger ones, but not for longer than it was late (recent: "the last 15 minutes").
ShownIsRecent ==
    LET shown == Pruned(buffer)
    IN  \A i \in DOMAIN shown : shown[i].age <= Window + MaxDelay
===============================================================================
