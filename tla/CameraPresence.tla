----------------------------- MODULE CameraPresence -----------------------------
(***************************************************************************)
(* The node of one camera device in /cctv_heartbeats and everybody who     *)
(* writes it: the camera requests of services/cctv_service.py and          *)
(* services/floor_service.py, TCP liveness and the OpenAPI check of        *)
(* services/camera_health_service.py, the alarm pushes of                  *)
(* services/vigi_service.py, and the rounds of                             *)
(* services/camera_discovery_service.py, which record and prune.           *)
(*                                                                         *)
(* Several cameras (channels) may report through the device.  The registry *)
(* that most of them read comes from a cache (module CameraRegistry), so   *)
(* it may be an older one for a while.                                     *)
(***************************************************************************)
EXTENDS Naturals, FiniteSets

CONSTANTS
    Cams,       \* cameras that may be registered with the device
    Ips,        \* addresses
    Threads,    \* how many of them at a time (bound)
    None        \* no address

ASSUME NoneAssumption ==
    /\ None \notin Ips \cup Cams
    /\ Cams \cap {"clear", "drop", "last_seen", "probe"} = {}

Nodes == [via : BOOLEAN,                \* discovered_via is set
          mismatch : Ips \cup {None},   \* ip_mismatch
          recent : BOOLEAN]             \* last_seen, discovered_at: 10 minutes
NoNode == [via |-> FALSE, mismatch |-> None, recent |-> None]

VARIABLES
    reg,        \* the registered address of each camera with this device
    seen,       \* the registry as cctv_service.all_cameras() returns it
    where,      \* the address the device answers at
    node,       \* its node
    found,      \* _unregistered: found in the last 10 minutes
    todo,       \* the steps that threads still have to make, each at most once; a
                \* camera stands for the look at the others when it has left
    round,      \* where the discovery round is
    during,     \* the device was registered after prune read the registry
    orphan,     \* the node is nobody's, for a cause
    calm        \* nobody changes the registry or the device any more

vars == <<reg, seen, where, node, found, todo, round, during, orphan, calm>>

TypeOK ==
    /\ reg \in [Cams -> Ips \cup {None}] /\ seen \in [Cams -> Ips \cup {None}]
    /\ where \in Ips \cup {None}
    /\ node \in Nodes \cup {NoNode}
    /\ todo \subseteq {"clear", "drop", "last_seen", "probe"} \cup Cams
    /\ round \in {"idle", "recorded", "read", "delete"}
    /\ {found, during, orphan, calm} \subseteq BOOLEAN

Has(r) == \E c \in Cams : r[c] # None
Registered == Has(reg)

Init ==
    /\ reg = [c \in Cams |-> None] /\ seen = reg /\ where \in Ips \cup {None}
    /\ node = NoNode /\ found = FALSE
    /\ todo = {}
    /\ round = "idle" /\ during = FALSE
    /\ orphan = FALSE /\ calm = FALSE

--------------------------------------------------------------------------------
(* The node.                                                               *)

Base == IF node = NoNode THEN [via |-> FALSE, mismatch |-> None, recent |-> FALSE] ELSE node

\* update_heartbeat: the given fields of a node that is there or not.  A node
\* that nobody registered and nobody discovered is not cleared away by anybody.
Put(n) ==
    /\ node' = n
    /\ orphan' = (~n.via /\ (orphan \/ (node = NoNode /\ ~Registered)))

DeleteNode == node' = NoNode /\ orphan' = FALSE

--------------------------------------------------------------------------------
(* The admin's requests.  A write to the registry is invalidated in the     *)
(* cache, unless a reader fills it with what it read before.               *)

Writes(r) ==
    /\ ~calm
    /\ reg' = r /\ seen' \in {r, seen}
    /\ during' = (during \/ (round \in {"read", "delete"} /\ ~Registered /\ Has(r)))
    /\ UNCHANGED <<where, found, round, calm>>

Leads(l) == l \notin todo /\ Cardinality(todo) < Threads /\ todo' = todo \cup {l}
Ends(l) == l \in todo /\ todo' = todo \ {l}

\* A camera is created with the device, or gets its MAC.  The check that follows
\* is one of the writers'.
Register(c, a) ==
    /\ reg[c] = None
    /\ Writes([reg EXCEPT ![c] = a])
    /\ orphan' = FALSE
    /\ UNCHANGED <<node, todo>>

\* Its address is edited: ip_mismatch is cleared after the save.
Readdress(c, a) ==
    /\ reg[c] \notin {None, a}
    /\ Writes([reg EXCEPT ![c] = a])
    /\ Leads("clear")
    /\ UNCHANGED <<node, orphan>>

ClearMismatch ==
    /\ Ends("clear")
    /\ Put([Base EXCEPT !.mismatch = None])
    /\ UNCHANGED <<reg, seen, where, found, round, during, calm>>

LeaveForgets(c) ==
    /\ reg[c] # None
    /\ Writes([reg EXCEPT ![c] = None])
    /\ UNCHANGED <<todo, node, orphan>>

\* A camera is deleted, or gets another MAC: the node goes too, unless another
\* camera still has the device.
Leave(c) ==
    /\ reg[c] # None
    /\ Writes([reg EXCEPT ![c] = None])
    /\ Leads(c)
    /\ UNCHANGED <<node, orphan>>

\* The camera itself does not count, though it may have the device again.
LookForOthers(c) ==
    /\ c \in todo
    /\ \/ Has([reg EXCEPT ![c] = None]) /\ Ends(c)
       \/ /\ ~Has([reg EXCEPT ![c] = None])
          /\ "drop" \notin todo /\ todo' = (todo \ {c}) \cup {"drop"}
    /\ UNCHANGED <<reg, seen, where, node, found, round, during, orphan, calm>>

\* A floor's cameras go, and the node with each of them.
DeleteFloor(there) ==
    /\ \A c \in there : reg[c] # None
    /\ Writes([c \in Cams |-> IF c \in there THEN None ELSE reg[c]])
    /\ Leads("drop")
    /\ UNCHANGED <<node, orphan>>

Drop ==
    /\ Ends("drop")
    /\ DeleteNode
    /\ UNCHANGED <<reg, seen, where, found, round, during, calm>>

\* The store can't be reached: the camera is gone and its node is not.
DropFails ==
    /\ ~calm
    /\ \E step \in Cams \cup {"drop"} : Ends(step)
    /\ orphan' = (~Registered /\ node # NoNode /\ ~node.via)
    /\ UNCHANGED <<reg, seen, where, node, found, round, during, calm>>

--------------------------------------------------------------------------------
(* Liveness, OpenAPI checks, alarms.                                       *)

\* The targets of a sweep: registered devices at their address, and those
\* found without being registered in the last ten minutes.
Target(r) == (\E c \in Cams : r[c] # None /\ r[c] = where) \/ (~Has(r) /\ found)

\* Connects, and will write last_seen.
Sweep ==
    /\ where # None /\ Target(seen)
    /\ Leads("last_seen")
    /\ UNCHANGED <<reg, seen, where, node, found, round, during, orphan, calm>>

\* An OpenAPI check, of the loop or after a registration, or an accepted alarm of
\* a registered camera: other fields.
Checks ==
    /\ Has(seen)
    /\ Leads("probe")
    /\ UNCHANGED <<reg, seen, where, node, found, round, during, orphan, calm>>

WriteLastSeen ==
    /\ Ends("last_seen")
    /\ Put([Base EXCEPT !.recent = TRUE])
    /\ UNCHANGED <<reg, seen, where, found, round, during, calm>>

WriteProbe ==
    /\ Ends("probe")
    /\ Put(Base)
    /\ UNCHANGED <<reg, seen, where, found, round, during, calm>>

\* An alarm of a device that is not registered: listed as a discovered one.
AlarmOfStranger ==
    /\ where # None /\ ~Has(seen)
    /\ found' = TRUE
    /\ Put([Base EXCEPT !.via = TRUE, !.recent = TRUE])
    /\ UNCHANGED <<reg, seen, where, todo, round, during, calm>>

--------------------------------------------------------------------------------
(* Discovery: one round at a time.                                         *)

\* What the probes from this machine's addresses get of the device: nothing, as it is not
\* there or a datagram is lost, or an answer with its MAC or without.
Replies == {"nothing"} \cup IF where = None THEN {} ELSE {"with MAC", "without MAC"}

\* Whether a reply makes the device known: one without a MAC does if the ARP table has it.
Known(reply) ==
    CASE reply = "with MAC" -> {TRUE}
      [] reply = "without MAC" -> BOOLEAN
      [] OTHER -> {FALSE}

\* A fault: a camera found elsewhere is taken as one found where it is registered.
MismatchForgotten(c) == None

\* record(): the address of the first camera of the device is compared with the one the
\* device answers at.  A device that moves meanwhile is as one that moves after.
Mismatch(c) == IF seen[c] # where THEN where ELSE None

Record ==
    /\ round = "idle" /\ \E reply \in Replies : TRUE \in Known(reply)
    /\ round' = "recorded"
    /\ \/ /\ ~Has(seen)
          /\ found' = TRUE
          /\ Put([Base EXCEPT !.via = TRUE, !.recent = TRUE])
       \/ \E c \in Cams :
             /\ seen[c] # None
             /\ Put([Base EXCEPT !.via = TRUE, !.recent = TRUE, !.mismatch = Mismatch(c)])
             /\ UNCHANGED found
    /\ UNCHANGED <<reg, seen, where, todo, during, calm>>

RecordNothing ==
    /\ round = "idle" /\ \E reply \in Replies : FALSE \in Known(reply)
    /\ round' = "recorded"
    /\ UNCHANGED <<reg, seen, where, node, found, todo, during, orphan, calm>>

\* prune(): a fresh read of the registry, then of the nodes, then the deletions.
PruneReadsCache ==
    /\ round = "recorded"
    /\ round' = (IF Has(seen) THEN "idle" ELSE "read") /\ during' = FALSE
    /\ UNCHANGED <<reg, seen, where, node, found, todo, orphan, calm>>

PruneReads ==
    /\ round = "recorded"
    /\ round' = (IF Registered THEN "idle" ELSE "read") /\ during' = FALSE
    /\ UNCHANGED <<reg, seen, where, node, found, todo, orphan, calm>>

PruneLooks ==
    /\ round = "read"
    /\ LET goes == node # NoNode /\ node.via /\ ~node.recent
       IN round' = (IF goes THEN "delete" ELSE "idle") /\ during' = (goes /\ during)
    /\ UNCHANGED <<reg, seen, where, node, found, todo, orphan, calm>>

PruneDeletes ==
    /\ round = "delete"
    /\ DeleteNode
    /\ found' = FALSE /\ round' = "idle" /\ during' = FALSE
    /\ UNCHANGED <<reg, seen, where, todo, calm>>

--------------------------------------------------------------------------------
(* The device and the clock.                                               *)

Moves(a) ==
    /\ ~calm /\ a # where
    /\ where' = a
    /\ UNCHANGED <<reg, seen, node, found, todo, round, during, orphan, calm>>

\* Ten minutes pass in which nothing reached the device: sweeps come every 5 s.
NodeAges ==
    /\ where = None /\ node # NoNode /\ node.recent
    /\ "last_seen" \notin todo
    /\ node' = [node EXCEPT !.recent = FALSE]
    /\ UNCHANGED <<reg, seen, where, found, todo, round, during, orphan, calm>>

FoundAges ==
    /\ found /\ (where = None \/ Has(seen))
    /\ found' = FALSE
    /\ UNCHANGED <<reg, seen, where, node, todo, round, during, orphan, calm>>

\* The cache is 30 s old.
CacheRenews ==
    /\ seen # reg
    /\ seen' = reg
    /\ UNCHANGED <<reg, where, node, found, todo, round, during, orphan, calm>>

Calm ==
    /\ ~calm
    /\ calm' = TRUE
    /\ UNCHANGED <<reg, seen, where, node, found, todo, round, during, orphan>>

RoundStep == Record \/ RecordNothing \/ PruneReads \/ PruneLooks \/ PruneDeletes
Request ==
    \/ \E c \in Cams : \/ Leave(c)
                       \/ \E a \in Ips : Register(c, a) \/ Readdress(c, a)
    \/ \E there \in (SUBSET Cams) \ {{}} : DeleteFloor(there)
Ages == NodeAges \/ FoundAges

Next ==
    \/ Request \/ ClearMismatch \/ Drop \/ DropFails
    \/ \E c \in Cams : LookForOthers(c)
    \/ Sweep \/ Checks \/ WriteLastSeen \/ WriteProbe
    \/ AlarmOfStranger \/ RoundStep
    \/ \E a \in Ips \cup {None} : Moves(a)
    \/ Ages \/ CacheRenews \/ Calm

\* Requests and writes end, the loops of main.py's lifespan go on, time passes, and not
\* every reply of a device is lost.
Fairness ==
    /\ WF_vars(ClearMismatch) /\ WF_vars(Drop)
    /\ \A c \in Cams : WF_vars(LookForOthers(c))
    /\ WF_vars(Sweep) /\ WF_vars(WriteLastSeen) /\ WF_vars(WriteProbe)
    /\ WF_vars(RoundStep) /\ SF_vars(Record)
    /\ WF_vars(NodeAges) /\ WF_vars(FoundAges) /\ WF_vars(CacheRenews)

Spec == Init /\ [][Next]_vars /\ Fairness

--------------------------------------------------------------------------------
(* Properties.                                                             *)

\* A node is a registered device's, or one that prune will take, or a request
\* will drop it, or it is left for a cause: the drop failed, or somebody who had
\* read that the device is registered, or found, wrote after the drop.
NodeHasOwner ==
    node # NoNode /\ ~Registered /\ ~node.via
    => orphan \/ todo \cap (Cams \cup {"drop"}) # {}

\* Presence is kept for the devices that are, or lately were, somebody's.
NodesAreOwned == TypeOK /\ NodeHasOwner

\* "A registered camera's node is never removed here": prune removes none but of
\* a device that was registered while the round was deleting.
PruneSparesRegistered == [][PruneDeletes /\ Registered => during]_vars

\* Once nothing changes, a registered device that answers has a node, recent, and
\* it says where the device is if that is not where it is registered.
RegisteredIsShown ==
    <>[](calm /\ where # None /\ Registered =>
            /\ node # NoNode /\ node.recent
            /\ (\A c \in Cams : reg[c] \in {None, where}) => node.mismatch = None
            /\ (\A c \in Cams : reg[c] # where) => node.mismatch = where)

\* Once nothing changes, a device that is not registered and answers no more has
\* no node, unless it was left for a cause.
StrangerIsPruned ==
    <>[](calm /\ where = None /\ ~Registered => node = NoNode \/ orphan)

\* Once nothing changes, presence says of every device what is true of it.
PresenceSettles == RegisteredIsShown /\ StrangerIsPruned
================================================================================
