------------------------------- MODULE Heartbeats -------------------------------
(***************************************************************************)
(* /ap_heartbeats, when each access point was last heard.  Its writers are *)
(* the reports of real APs, known or not (omada_ingest_service.py), the    *)
(* tick of the simulator that runs, for the APs it walks between, and the  *)
(* simulated readings it posts (telemetry_routes.py); its eraser is the    *)
(* deletion of an AP or of its floor (floor_service.py), on a thread of    *)
(* its own.  The floor editor offers what is online and not placed.        *)
(* SimWalk shows what else an AP's deletion does to a simulator.           *)
(*                                                                         *)
(* Times are ages.  No unit of time passes while a tick, a post or a       *)
(* deletion is under way.                                                  *)
(***************************************************************************)
EXTENDS Integers, FiniteSets

CONSTANTS
    APs,        \* access points, by MAC
    Threshold,  \* ONLINE_THRESHOLD_MS, in time units
    None

VARIABLES
    placed,     \* the APs in Firestore
    node,       \* the age of a node's last_seen
    sim,        \* the simulator that runs, if any
    list,       \* the APs it read in its setup, and walks between
    beat,       \* the APs whose heartbeat the tick under way has yet to write
    post,       \* those of the readings posted and not worked off
    request,    \* the deletion under way
    heard,      \* history: how long ago a real AP reported
    erased,     \* history: how long ago it was deleted
    slipped     \* history: deleted APs that the simulator never learned of

writers == <<sim, list, beat, post>>
histories == <<heard, erased, slipped>>
vars == <<placed, node, writers, request, histories>>

Idle == [of |-> "none", do |-> "none", ap |-> None]
Walking == {"patrol", "shift", "events"}

TypeOK ==
    /\ placed \subseteq APs
    /\ node \in [APs -> 0..Threshold \cup {None}]
    /\ sim \in {"off", "setup"} \cup Walking
    /\ list \subseteq APs /\ beat \subseteq APs /\ post \subseteq APs
    /\ request = Idle \/ request \in [of : {"ap", "floor"}, do : {"node", "forget"}, ap : APs]
    /\ heard \in [APs -> 0..Threshold] /\ erased \in [APs -> 0..Threshold]
    /\ slipped \subseteq APs

\* useAPHeartbeats()
Online(a) == node[a] # None /\ node[a] < Threshold

Init ==
    /\ placed \in SUBSET APs
    /\ node = [a \in APs |-> None]
    /\ sim = "off" /\ list = {} /\ beat = {} /\ post = {}
    /\ request = Idle
    /\ heard = [a \in APs |-> Threshold] /\ erased = [a \in APs |-> Threshold]
    /\ slipped = {}

Older(age) == IF age < Threshold THEN age + 1 ELSE age

\* What slipped is over when the simulator walks without it and its node is old.
Elapse ==
    /\ beat = {} /\ post = {} /\ request = Idle
    /\ node' = [a \in APs |-> IF node[a] = None THEN None ELSE Older(node[a])]
    /\ heard' = [a \in APs |-> Older(heard[a])]
    /\ erased' = [a \in APs |-> Older(erased[a])]
    /\ slipped' = {a \in slipped : a \in list \/ node'[a] \in 0..(Threshold - 1)}
    /\ UNCHANGED <<placed, writers, request>>

--------------------------------------------------------------------------------
(* Who writes.                                                             *)

Heartbeat(a) == node' = [node EXCEPT ![a] = 0]

\* A report; a write that fails is logged and no more.
Reports(a) ==
    /\ Heartbeat(a)
    /\ heard' = [heard EXCEPT ![a] = 0]
    /\ UNCHANGED <<placed, writers, request, erased, slipped>>

\* The setup of a simulator reads the floor, and stores later what it walks between.
SetupReads(aps) ==
    /\ sim = "off" /\ aps # {} /\ aps \subseteq placed
    /\ sim' = "setup" /\ list' = aps
    /\ UNCHANGED <<placed, node, beat, post, request, histories>>

SetupStores(mode) ==
    /\ sim = "setup"
    /\ sim' = mode
    /\ UNCHANGED <<placed, node, list, beat, post, request, histories>>

\* The loop over _floor_aps goes through the list it began with.
BeatBegins ==
    /\ sim \in Walking /\ beat = {}
    /\ beat' = list
    /\ UNCHANGED <<placed, node, sim, list, post, request, histories>>

BeatWrites(a) ==
    /\ a \in beat
    /\ Heartbeat(a)
    /\ beat' = beat \ {a}
    /\ UNCHANGED <<placed, sim, list, post, request, histories>>

\* The readings of a guard: of the APs near enough.
Posts(near) ==
    /\ sim \in Walking /\ beat = {} /\ near \subseteq list
    /\ post' = post \cup near
    /\ UNCHANGED <<placed, node, sim, list, beat, request, histories>>

PostWrites(a) ==
    /\ a \in post
    /\ Heartbeat(a)
    /\ post' = post \ {a}
    /\ UNCHANGED <<placed, sim, list, beat, request, histories>>

\* A write raises, or safety checks do, or the post is turned away.
PostFails ==
    /\ post # {}
    /\ post' = {}
    /\ UNCHANGED <<placed, node, sim, list, beat, request, histories>>

\* Stopped between two ticks, or ended by a heartbeat that raised.
SimEnds ==
    /\ sim # "off"
    /\ sim' = "off" /\ list' = {} /\ beat' = {}
    /\ UNCHANGED <<placed, node, post, request, histories>>

Restart ==
    /\ sim' = "off" /\ list' = {} /\ beat' = {} /\ post' = {}
    /\ request' = Idle
    /\ UNCHANGED <<placed, node, histories>>

--------------------------------------------------------------------------------
(* Who deletes.                                                            *)

Place(a) ==
    /\ a \notin placed
    /\ placed' = placed \cup {a}
    /\ UNCHANGED <<node, writers, request, histories>>

\* delete_ap(), or delete() of the floor: the document first.
Delete(a, of) ==
    /\ request = Idle /\ a \in placed
    /\ placed' = placed \ {a}
    /\ erased' = [erased EXCEPT ![a] = 0]
    /\ request' = [of |-> of, do |-> "node", ap |-> a]
    /\ UNCHANGED <<node, writers, heard, slipped>>

\* The request ends, and the simulator goes on with the AP.
EndsUntold(a) ==
    /\ request' = Idle
    /\ slipped' = IF a \in list THEN slipped \cup {a} ELSE slipped

\* The node next; a floor's deletion tells no simulator.
DeleteNode ==
    /\ request.do = "node"
    /\ node' = [node EXCEPT ![request.ap] = None]
    /\ IF request.of = "ap"
       THEN request' = [request EXCEPT !.do = "forget"] /\ UNCHANGED slipped
       ELSE EndsUntold(request.ap)
    /\ UNCHANGED <<placed, writers, heard, erased>>

\* That call raises, and nothing after it is done.
DeleteNodeRaises ==
    /\ request.do = "node"
    /\ EndsUntold(request.ap)
    /\ UNCHANGED <<placed, node, writers, heard, erased>>

\* The simulators that have a remove_ap(), once they have stored their list.
Learns == {"patrol", "events"}

Forget ==
    /\ request.do = "forget"
    /\ IF sim \in Learns
       THEN /\ list' = list \ {request.ap}
            /\ request' = Idle /\ UNCHANGED slipped
       ELSE EndsUntold(request.ap) /\ UNCHANGED list
    /\ UNCHANGED <<placed, node, sim, beat, post, heard, erased>>

Next ==
    \/ Elapse \/ Restart
    \/ \E a \in APs : \/ Reports(a) \/ BeatWrites(a) \/ PostWrites(a) \/ Place(a)
                      \/ \E of \in {"ap", "floor"} : Delete(a, of)
    \/ \E aps \in SUBSET APs : SetupReads(aps) \/ Posts(aps)
    \/ \E mode \in Walking : SetupStores(mode)
    \/ BeatBegins \/ PostFails \/ SimEnds
    \/ DeleteNode \/ DeleteNodeRaises \/ Forget

Spec == Init /\ [][Next]_vars

--------------------------------------------------------------------------------
\* Who is offered as a new AP is one: an AP that is online and not placed reported
\* itself lately, or was deleted lately (a tick or a post that had begun writes its
\* node again), or was deleted without the simulator learning of it (a change of
\* shift, a setup that had read it, its floor's deletion, a call that raised).
GhostsFade ==
    \A a \in APs \ placed : Online(a) =>
        heard[a] < Threshold \/ erased[a] < Threshold \/ a \in slipped
================================================================================
