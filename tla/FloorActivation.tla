---------------------------- MODULE FloorActivation ----------------------------
(***************************************************************************)
(* The active floor of a building, which is where the map opens and what   *)
(* the simulators and the solver fall back on, and the deletion of the     *)
(* building (repositories/floor_repository.py, services/floor_service.py,  *)
(* services/building_service.py).                                          *)
(*                                                                         *)
(* A floor's id is used once, and so is the building's: deletion is final. *)
(* A call may fail, and has then written nothing.                          *)
(***************************************************************************)
EXTENDS FiniteSets

CONSTANTS Floors, Threads, None

VARIABLES
    building,       \* whether the building's document is there
    floor,          \* each floor's document: "new" (not yet created), "idle", "active", "gone"
    call,           \* what each thread does
    late,           \* history: floors created while an activation was between list and commit
    stray           \* history: floors created after a deletion had listed the building's floors

vars == <<building, floor, call, late, stray>>

NoCall == [at |-> "idle", floor |-> None, listed |-> {}]

TypeOK ==
    /\ building \in BOOLEAN
    /\ floor \in [Floors -> {"new", "idle", "active", "gone"}]
    /\ call \in [Threads -> [at : {"idle", "commit", "delete"}, floor : Floors \cup {None},
                             listed : SUBSET Floors]]
    /\ late \subseteq Floors /\ stray \subseteq Floors

Init ==
    /\ building = TRUE
    /\ floor = [f \in Floors |-> "new"]
    /\ call = [t \in Threads |-> NoCall]
    /\ late = {} /\ stray = {}

Existing == {f \in Floors : floor[f] \in {"idle", "active"}}
Active == {f \in Floors : floor[f] = "active"}
Returns(t) == call' = [call EXCEPT ![t] = NoCall]

\* create(): a floor is not active at first; that its building is there is not looked at.
Create(f) ==
    /\ floor[f] = "new" /\ floor' = [floor EXCEPT ![f] = "idle"]
    /\ late' = IF \E t \in Threads : call[t].at = "commit" THEN late \cup {f} ELSE late
    /\ stray' = IF ~building \/ \E t \in Threads : call[t].at = "delete"
                THEN stray \cup {f} ELSE stray
    /\ UNCHANGED <<building, call>>

\* A fault: only the floors that are active are listed.
ListedActive == Active
\* set_active(): the building's floors are listed ...
Listed == Existing

BeginActivate(t, f) ==
    /\ call[t] = NoCall
    /\ call' = [call EXCEPT ![t] = [at |-> "commit", floor |-> f, listed |-> Listed]]
    /\ UNCHANGED <<building, floor, late, stray>>

\* ... and in one batch all of them are made inactive and this one active.  The batch fails
\* as a whole if one of the documents is gone.
Commit(t) ==
    LET set == call[t].listed \cup {call[t].floor} IN
    /\ call[t].at = "commit"
    /\ \/ /\ set \subseteq Existing
          /\ floor' = [f \in Floors |-> IF f = call[t].floor THEN "active"
                                        ELSE IF f \in set THEN "idle" ELSE floor[f]]
       \/ UNCHANGED floor
    /\ Returns(t)
    /\ UNCHANGED <<building, late, stray>>

\* deactivate()
Deactivate(f) ==
    /\ f \in Existing /\ floor' = [floor EXCEPT ![f] = "idle"]
    /\ UNCHANGED <<building, call, late, stray>>

\* floor_service.delete() of one floor; its document goes last.
DeleteFloor(f) ==
    /\ f \in Existing /\ floor' = [floor EXCEPT ![f] = "gone"]
    /\ UNCHANGED <<building, call, late, stray>>

\* building_service.delete(): the floors are listed ...
BeginDelete(t) ==
    /\ call[t] = NoCall /\ building
    /\ call' = [call EXCEPT ![t] = [at |-> "delete", floor |-> None, listed |-> Existing]]
    /\ UNCHANGED <<building, floor, late, stray>>

\* A call that fails ends the deletion.
BrokenOff(t, f) == Returns(t)

\* ... deleted one after the other ...
DeleteNext(t, f) ==
    /\ call[t].at = "delete" /\ f \in call[t].listed
    /\ \/ /\ floor' = [floor EXCEPT ![f] = "gone"]
          /\ call' = [call EXCEPT ![t].listed = @ \ {f}]
       \/ UNCHANGED floor /\ BrokenOff(t, f)
    /\ UNCHANGED <<building, late, stray>>

\* ... and the building last.
DeleteBuilding(t) ==
    /\ call[t].at = "delete" /\ call[t].listed = {}
    /\ building' \in {building, FALSE} /\ Returns(t)
    /\ UNCHANGED <<floor, late, stray>>

Next ==
    \/ \E f \in Floors : Create(f) \/ Deactivate(f) \/ DeleteFloor(f)
    \/ \E t \in Threads :
          \/ \E f \in Floors : BeginActivate(t, f) \/ DeleteNext(t, f)
          \/ Commit(t) \/ BeginDelete(t) \/ DeleteBuilding(t)

Spec == Init /\ [][Next]_vars
------------------------------------------------------------------------------
\* Two floors of a building are active only if one was created while another's activation
\* was between its list and its commit, whatever activations overlap (set_active).
OneActive ==
    \A f, g \in Active : f # g => {f, g} \cap late # {}

\* No active floor outlives its building - get_any_active() looks through the floors of all
\* buildings, deleted ones too - unless it was created after the deletion had listed them.
NoActiveOrphan ==
    ~building => Active \subseteq stray
===============================================================================
