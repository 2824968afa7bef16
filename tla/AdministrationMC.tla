--------------------------- MODULE AdministrationMC ---------------------------
(***************************************************************************)
(* What the dashboard's users edit, beside the registry: the geometry of a *)
(* floor (FloorScale), the accounts (Accounts), which floor is the active  *)
(* one (FloorActivation), alerts, feedback and reports (Incidents), and    *)
(* the distance of the collision check (CollisionAlerts).  They share no   *)
(* state; one run explores each from its own initial state while the       *)
(* others stand still.                                                     *)
(***************************************************************************)
EXTENDS FloorScale, TLC

CONSTANTS Users, Alerts, Guards, Shifts, CacheMax, MaxFeedback, None
CONSTANTS Workers, Forklifts, Points, Limits, Default, Admins, TTL, Suppress, MaxCheck

VARIABLES part, v1, v2, v3, v4, v5, v6, v7, v8, v9

\* The parts beside the floor's geometry never run together: they share their variables.
shared == <<v1, v2, v3, v4, v5, v6, v7, v8, v9>>

A == INSTANCE Accounts WITH
        auth <- v1, left <- v2, docs <- v3, signing <- v4, request <- v5
F == INSTANCE FloorActivation WITH
        Floors <- Users, building <- v1, floor <- v2, call <- v3, late <- v4, stray <- v5
I == INSTANCE Incidents WITH
        node <- v1, feedback <- v2, logs <- v3, listed <- v4, cache <- v5, request <- v6,
        crossed <- v7, halved <- v8
C == INSTANCE CollisionAlerts WITH
        Spots <- Points, place <- v1, doc <- v2, gone <- v3, saved <- v4, cache <- v5,
        cacheAge <- v6, last <- v7, told <- v8, check <- v9

\* What stands for nothing is told from what there can be; the bounds are numbers.
ASSUME NobodyAssumption == None \notin A!Doc /\ Idle \notin A!Step \cup A!Signing
ASSUME BoundsAssumption ==
    CacheMax \in Nat \ {0} /\ MaxFeedback \in Nat /\ IsFiniteSet(Threads)
ASSUME CollisionAssumption ==
    /\ Default \in Limits /\ TTL \in Nat /\ Suppress \in Nat \ {0} /\ MaxCheck \in Nat
    /\ None \notin C!Pairs /\ None \notin C!Got

AdminInit ==
    /\ Init
    /\ \/ /\ part = "scale"
          /\ v1 = 0 /\ v2 = 0 /\ v3 = 0 /\ v4 = 0 /\ v5 = 0 /\ v6 = 0 /\ v7 = 0 /\ v8 = 0
          /\ v9 = 0
       \/ part = "accounts" /\ A!Init /\ v6 = 0 /\ v7 = 0 /\ v8 = 0 /\ v9 = 0
       \/ part = "activation" /\ F!Init /\ v6 = 0 /\ v7 = 0 /\ v8 = 0 /\ v9 = 0
       \/ part = "incidents" /\ I!Init /\ v9 = 0
       \/ part = "collision" /\ C!Init

AdminNext ==
    \/ part = "scale" /\ Next /\ UNCHANGED <<shared, part>>
    \/ part = "accounts" /\ A!Next /\ UNCHANGED <<vars, v6, v7, v8, v9, part>>
    \/ part = "activation" /\ F!Next /\ UNCHANGED <<vars, v6, v7, v8, v9, part>>
    \/ part = "incidents" /\ I!Next /\ UNCHANGED <<vars, v9, part>>
    \/ part = "collision" /\ C!Next /\ UNCHANGED <<vars, part>>

AdminSpec == AdminInit /\ [][AdminNext]_<<vars, shared, part>>

\* The values of Scales are the users, the floors of FloorActivation and the forklifts as
\* well, so that one permutation serves these parts.
Symmetry == Permutations(Threads) \cup Permutations(Scales) \cup Permutations(Spots)
                \cup Permutations(Layouts)

\* There is one owner at most, whatever logins, approvals and deletions meet (Accounts:
\* user_repository.create, user_service.delete).
AccountsHold == part = "accounts" => A!TypeOK /\ A!AtMostOneOwner

\* No step takes the role from an owner who has an account, and none deletes the document
\* of a person who has one (Accounts: update_role, delete_user, clean-up of the users page).
StandingIsKept ==
    [][part = "accounts" => A!RoleIsKept /\ A!OrphanIsDeleted]_shared

\* Two floors of the building are not active at a time, and none is left active by the
\* deletion of the building (FloorActivation).
FloorsHold ==
    part = "activation" => F!TypeOK /\ F!OneActive /\ F!NoActiveOrphan

\* An alert is marked when it has feedback, and only then; one that is deleted does not
\* come back; and what reports read of them stays within its bounds (Incidents).
IncidentsHold ==
    part = "incidents" =>
        /\ I!TypeOK
        /\ I!FlagAndFeedbackAgree
        /\ I!DeletedStaysDeleted
        /\ I!CacheIsBounded
        /\ I!ListedHasLogs

\* A worker and a forklift that come too near are alerted about again and again, and what
\* counts as too near is what an admin lately saved (CollisionAlerts).
CollisionsAreTold ==
    part = "collision" =>
        /\ C!TypeOK
        /\ C!LimitIsRecent
        /\ C!CacheFollowsDoc
        /\ C!NearIsAlerted
=============================================================================
