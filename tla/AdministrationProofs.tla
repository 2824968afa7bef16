-------------------------- MODULE AdministrationProofs --------------------------
(***************************************************************************)
(* Proofs about what the dashboard's users edit, for every set of users,   *)
(* floors, access points, alerts and threads: the activation of floors     *)
(* (FloorActivation), the accounts (Accounts), alerts, feedback and        *)
(* reports (Incidents), the geometry of a floor (FloorScale), and the      *)
(* collision check and its distance (CollisionAlerts).  All but the floor  *)
(* share the variables v1, v2 and so on, which each section names; A, F, I *)
(* and C are their instances in AdministrationMC.                          *)
(***************************************************************************)
EXTENDS AdministrationMC, FiniteSetTheorems, SequenceTheorems, TLAPS

--------------------------------------------------------------------------------
(* Floor activation.  v1: building, v2: floor, v3: call, v4: late, v5: stray. *)

\* A floor that an activation did not list was created while one was under way.
ActivationsKnow ==
    \A t \in Threads : v3[t].at = "commit" =>
        v3[t].floor \in Users /\ F!Existing \subseteq v3[t].listed \cup v4

\* A floor that a deletion did not list, or that is there after it, was created too late.
DeletionsKnow ==
    /\ \A t \in Threads : v3[t].at = "delete" => F!Existing \subseteq v3[t].listed \cup v5
    /\ ~v1 => F!Existing \subseteq v5

FloorsInv == F!TypeOK /\ F!OneActive /\ ActivationsKnow /\ DeletionsKnow

LEMMA FloorsInit == F!Init => FloorsInv
BY DEF F!Init, FloorsInv, F!TypeOK, F!OneActive, F!Active, ActivationsKnow, DeletionsKnow,
       F!NoCall, F!Existing

LEMMA FloorsStep == FloorsInv /\ [F!Next]_(F!vars) => FloorsInv'
<1>. SUFFICES ASSUME FloorsInv, [F!Next]_(F!vars) PROVE FloorsInv'  OBVIOUS
<1>. USE DEF FloorsInv, F!TypeOK
<1>1. ASSUME NEW f \in Users, F!Create(f) PROVE FloorsInv'
  <2>1. F!TypeOK'  BY <1>1 DEF F!Create
  <2>2. F!Existing' = F!Existing \cup {f} /\ F!Active' = F!Active
    BY <1>1 DEF F!Create, F!Existing, F!Active
  <2>3. v4 \subseteq v4' /\ v5 \subseteq v5' /\ UNCHANGED <<v1, v3>>  BY <1>1 DEF F!Create
  <2>4. /\ (\E t \in Threads : v3[t].at = "commit") => f \in v4'
        /\ (~v1 \/ \E t \in Threads : v3[t].at = "delete") => f \in v5'
    BY <1>1 DEF F!Create
  <2>5. F!OneActive'  BY <2>2, <2>3 DEF F!OneActive
  <2>6. ActivationsKnow'  BY <2>2, <2>3, <2>4 DEF ActivationsKnow
  <2>7. DeletionsKnow'  BY <2>2, <2>3, <2>4 DEF DeletionsKnow
  <2>. QED  BY <2>1, <2>5, <2>6, <2>7
<1>2. ASSUME NEW f \in Users, F!Deactivate(f) PROVE FloorsInv'
  <2>1. F!TypeOK'  BY <1>2 DEF F!Deactivate
  <2>2. F!Existing' = F!Existing /\ F!Active' = F!Active \ {f}
    BY <1>2 DEF F!Deactivate, F!Existing, F!Active
  <2>3. UNCHANGED <<v1, v3, v4, v5>>  BY <1>2 DEF F!Deactivate
  <2>. QED  BY <2>1, <2>2, <2>3 DEF F!OneActive, ActivationsKnow, DeletionsKnow
<1>3. ASSUME NEW f \in Users, F!DeleteFloor(f) PROVE FloorsInv'
  <2>1. F!TypeOK'  BY <1>3 DEF F!DeleteFloor
  <2>2. F!Existing' = F!Existing \ {f} /\ F!Active' = F!Active \ {f}
    BY <1>3 DEF F!DeleteFloor, F!Existing, F!Active
  <2>3. UNCHANGED <<v1, v3, v4, v5>>  BY <1>3 DEF F!DeleteFloor
  <2>. QED  BY <2>1, <2>2, <2>3 DEF F!OneActive, ActivationsKnow, DeletionsKnow
<1>4. ASSUME NEW t \in Threads, NEW f \in Users, F!BeginActivate(t, f) PROVE FloorsInv'
  <2>1. /\ v3' = [v3 EXCEPT ![t] = [at |-> "commit", floor |-> f, listed |-> F!Existing]]
        /\ UNCHANGED <<v1, v2, v4, v5>>
    BY <1>4 DEF F!BeginActivate, F!Listed
  <2>2. F!Existing \subseteq Users /\ F!Existing' = F!Existing /\ F!Active' = F!Active
    BY <2>1 DEF F!Existing, F!Active
  <2>3. F!TypeOK'  BY <2>1, <2>2
  <2>. QED  BY <2>1, <2>2, <2>3 DEF F!OneActive, ActivationsKnow, DeletionsKnow
<1>5. ASSUME NEW t \in Threads, F!Commit(t) PROVE FloorsInv'
  <2>. DEFINE set == v3[t].listed \cup {v3[t].floor}
  <2>1. /\ v3' = [v3 EXCEPT ![t] = F!NoCall] /\ UNCHANGED <<v1, v4, v5>>
        /\ v3[t].floor \in Users /\ F!Existing \subseteq v3[t].listed \cup v4
    BY <1>5 DEF F!Commit, F!Returns, ActivationsKnow
  <2>2. F!TypeOK'
    <3>1. v2' \in [Users -> {"new", "idle", "active", "gone"}]  BY <1>5 DEF F!Commit
    <3>. QED  BY <2>1, <3>1 DEF F!NoCall
  <2>3. F!Existing' = F!Existing
    BY <1>5 DEF F!Commit, F!Existing
  <2>4. F!Active' \subseteq F!Active \/ F!Active' \subseteq {v3[t].floor} \cup v4
    <3>1. CASE UNCHANGED v2  BY <3>1 DEF F!Active
    <3>2. CASE /\ set \subseteq F!Existing
               /\ v2' = [f \in Users |-> IF f = v3[t].floor THEN "active"
                                         ELSE IF f \in set THEN "idle" ELSE v2[f]]
      BY <2>1, <3>2 DEF F!Active, F!Existing
    <3>. QED  BY <1>5, <3>1, <3>2 DEF F!Commit
  <2>5. F!OneActive'  BY <2>1, <2>4 DEF F!OneActive
  <2>. QED  BY <2>1, <2>2, <2>3, <2>5 DEF ActivationsKnow, DeletionsKnow, F!NoCall
<1>6. ASSUME NEW t \in Threads, F!BeginDelete(t) PROVE FloorsInv'
  <2>1. /\ v3' = [v3 EXCEPT ![t] = [at |-> "delete", floor |-> None, listed |-> F!Existing]]
        /\ UNCHANGED <<v1, v2, v4, v5>>
    BY <1>6 DEF F!BeginDelete
  <2>2. F!Existing \subseteq Users /\ F!Existing' = F!Existing /\ F!Active' = F!Active
    BY <2>1 DEF F!Existing, F!Active
  <2>3. F!TypeOK'  BY <2>1, <2>2
  <2>. QED  BY <2>1, <2>2, <2>3 DEF F!OneActive, ActivationsKnow, DeletionsKnow
<1>7. ASSUME NEW t \in Threads, NEW f \in Users, F!DeleteNext(t, f) PROVE FloorsInv'
  <2>1. v3[t].at = "delete" /\ UNCHANGED <<v1, v4, v5>>  BY <1>7 DEF F!DeleteNext
  <2>2. CASE /\ v2' = [v2 EXCEPT ![f] = "gone"]
             /\ v3' = [v3 EXCEPT ![t].listed = @ \ {f}]
    <3>1. F!TypeOK'  BY <2>1, <2>2
    <3>2. F!Existing' = F!Existing \ {f} /\ F!Active' = F!Active \ {f}
      BY <2>2 DEF F!Existing, F!Active
    <3>3. \A u \in Threads : /\ v3'[u].at = v3[u].at /\ v3'[u].floor = v3[u].floor
                             /\ v3[u].listed \subseteq v3'[u].listed \cup {f}
      BY <2>2
    <3>. QED  BY <2>1, <3>1, <3>2, <3>3 DEF F!OneActive, ActivationsKnow, DeletionsKnow
  <2>3. CASE UNCHANGED v2 /\ F!BrokenOff(t, f)
    <3>1. v3' = [v3 EXCEPT ![t] = F!NoCall]  BY <2>3 DEF F!BrokenOff, F!Returns
    <3>2. F!TypeOK'  BY <2>1, <2>3, <3>1 DEF F!NoCall
    <3>3. F!Existing' = F!Existing /\ F!Active' = F!Active
      BY <2>3 DEF F!Existing, F!Active
    <3>. QED  BY <2>1, <3>1, <3>2, <3>3 DEF F!OneActive, ActivationsKnow, DeletionsKnow, F!NoCall
  <2>. QED  BY <1>7, <2>2, <2>3 DEF F!DeleteNext
<1>8. ASSUME NEW t \in Threads, F!DeleteBuilding(t) PROVE FloorsInv'
  <2>1. /\ v3[t].at = "delete" /\ v3[t].listed = {} /\ v1' \in {v1, FALSE}
        /\ v3' = [v3 EXCEPT ![t] = F!NoCall] /\ UNCHANGED <<v2, v4, v5>>
    BY <1>8 DEF F!DeleteBuilding, F!Returns
  <2>2. F!TypeOK'  BY <2>1 DEF F!NoCall
  <2>3. F!Existing' = F!Existing /\ F!Active' = F!Active  BY <2>1 DEF F!Existing, F!Active
  <2>4. F!Existing \subseteq v5  BY <2>1 DEF DeletionsKnow
  <2>. QED  BY <2>1, <2>2, <2>3, <2>4 DEF F!OneActive, ActivationsKnow, DeletionsKnow, F!NoCall
<1>9. CASE UNCHANGED F!vars
  BY <1>9 DEF F!vars, F!OneActive, F!Active, ActivationsKnow, DeletionsKnow, F!Existing
<1>. QED  BY <1>1, <1>2, <1>3, <1>4, <1>5, <1>6, <1>7, <1>8, <1>9 DEF F!Next

\* What is asked of the activation of floors follows.
LEMMA FloorsSafe == FloorsInv => F!TypeOK /\ F!OneActive /\ F!NoActiveOrphan
BY DEF FloorsInv, DeletionsKnow, F!NoActiveOrphan, F!Active, F!Existing

--------------------------------------------------------------------------------
(* Accounts.  v1: auth, v2: left, v3: docs, v4: signing, v5: request. *)

AccountsShape ==
    /\ v1 \subseteq Users /\ v2 \subseteq Users \ v1
    /\ v3 \in [Users -> A!Doc \cup {None}]
    /\ v4 \in A!Signing \cup {Idle}
    /\ v5 \in [Threads -> A!Step \cup {Idle}]

\* Who has a document has, or had, an account.
DocsHaveAccounts == A!Registered \subseteq v1 \cup v2

\* Only a registration adds a document, and one runs at a time: while it does, the person
\* has none, and if the collection was empty it is.
SigningIsAlone ==
    v4 # Idle =>
        /\ v4.uid \in (v1 \cup v2) \ A!Registered
        /\ v4.do = "save" /\ v4.owner => A!Registered = {}

\* What a request has found out stays true: who is deleted or cleaned up has left, who was
\* listed had an account, and who is given a role was not the owner or has left since.
Knows(r) ==
    /\ r.op = "delete" /\ r.do = "doc" => r.uid \in v2
    /\ r.op = "list" /\ r.do = "auth" => r.uids \subseteq v1 \cup v2
    /\ r.op = "list" /\ r.do = "clean" => r.uids \subseteq v2
    /\ r.op = "role" /\ r.do = "write" =>
          r.uid \in v2 \/ (r.uid \in A!Registered /\ v3[r.uid].role # "owner")
RequestsKnow == \A t \in Threads : \A r \in A!Step : v5[t] = r => Knows(r)

AccountsInv ==
    AccountsShape /\ A!AtMostOneOwner /\ DocsHaveAccounts /\ SigningIsAlone /\ RequestsKnow

\* What every step is to keep.
AccountsKept == AccountsInv' /\ A!RoleIsKept /\ A!OrphanIsDeleted

\* The fields of a request, by its operation.
LEMMA AccountRequests ==
    ASSUME NEW r \in A!Step
    PROVE  /\ r # Idle
           /\ r.op \in {"delete", "role", "status", "list"}
           /\ r.op = "delete" => r \in [op : {"delete"}, do : {"auth", "doc"}, uid : Users]
           /\ r.op = "role" => r \in [op : {"role"}, do : {"assert", "read", "write"}, by : Users,
                                      uid : Users, role : {"admin", "user"}]
           /\ r.op = "status" => r \in [op : {"status"}, do : {"assert", "write"}, by : Users,
                                        uid : Users, approved : BOOLEAN]
           /\ r.op = "list" => /\ r \in [op : {"list"}, do : {"auth", "clean"},
                                         uids : SUBSET Users]
                               /\ r.do = "clean" => r.uids # {}
BY NobodyAssumption DEF A!Step

LEMMA AccountsInit == A!Init => AccountsInv
BY NobodyAssumption
DEF A!Init, AccountsInv, AccountsShape, A!AtMostOneOwner, A!Owners, A!Role, DocsHaveAccounts,
    A!Registered, SigningIsAlone, RequestsKnow

LEMMA AccountsTyped == AccountsInv => A!TypeOK
BY DEF AccountsInv, AccountsShape, A!TypeOK

\* A step that registers nobody, deletes only documents of people who have left and makes
\* nobody the owner keeps what is to be kept.
LEMMA AccountsEffect ==
    ASSUME AccountsInv, AccountsShape', v1 \cup v2 \subseteq v1' \cup v2', v2 \subseteq v2',
           \A u \in Users : v3[u] = None => v3'[u] = None,
           \A u \in Users : v3[u] # None /\ v3'[u] = None => u \in v2,
           \A u \in Users : v3[u] # None /\ v3'[u] # None =>
               /\ v3'[u].role = "owner" => v3[u].role = "owner"
               /\ v3[u].role = "owner" /\ u \notin v2 => v3'[u].role = "owner",
           v4' = v4,
           \A t \in Threads : \/ v5'[t] \in {v5[t], Idle}
                              \/ \E r \in A!Step : v5'[t] = r /\ Knows(r)'
    PROVE  AccountsKept
<1>. USE DEF AccountsInv, AccountsShape
<1>1. A!Registered' \subseteq A!Registered  BY DEF A!Registered
<1>2. A!Owners' \subseteq A!Owners  BY NobodyAssumption DEF A!Owners, A!Role
<1>3. A!AtMostOneOwner'  BY <1>2 DEF A!AtMostOneOwner
<1>4. DocsHaveAccounts'  BY <1>1 DEF DocsHaveAccounts
<1>5. SigningIsAlone'  BY <1>1 DEF SigningIsAlone
<1>6. RequestsKnow'
  <2>. SUFFICES ASSUME NEW t \in Threads, NEW r \in A!Step, v5'[t] = r PROVE Knows(r)'
    BY DEF RequestsKnow
  <2>1. CASE v5[t] = r
    <3>1. Knows(r)  BY <2>1 DEF RequestsKnow
    <3>2. ASSUME r.op = "role", r.do = "write", r.uid \notin v2' PROVE
             r.uid \in A!Registered' /\ v3'[r.uid].role # "owner"
      BY <3>1, <3>2, AccountRequests DEF Knows, A!Registered
    <3>. QED  BY <3>1, <3>2 DEF Knows
  <2>2. CASE v5[t] # r
    <3>1. r # Idle  BY AccountRequests
    <3>. QED  BY <2>2, <3>1
  <2>. QED  BY <2>1, <2>2
<1>7. A!RoleIsKept  BY DEF A!RoleIsKept, A!Owners, A!Role
<1>8. A!OrphanIsDeleted  BY DEF A!OrphanIsDeleted, A!Registered
<1>. QED  BY <1>3, <1>4, <1>5, <1>6, <1>7, <1>8 DEF AccountsKept

\* A step of a thread that leaves the accounts and the documents alone.
LEMMA AccountsLook ==
    ASSUME AccountsInv, UNCHANGED <<v1, v2, v3, v4>>, NEW t \in Threads,
           NEW r \in A!Step \cup {Idle}, v5' = [v5 EXCEPT ![t] = r], r # Idle => Knows(r)
    PROVE  AccountsKept
<1>1. AccountsShape'  BY DEF AccountsInv, AccountsShape
<1>2. r # Idle => Knows(r)'  BY DEF Knows, A!Registered
<1>3. \A u \in Threads : v5'[u] \in {v5[u], Idle} \/ \E q \in A!Step : v5'[u] = q /\ Knows(q)'
  <2>. SUFFICES ASSUME NEW u \in Threads, v5'[u] # v5[u], v5'[u] # Idle
                PROVE  \E q \in A!Step : v5'[u] = q /\ Knows(q)'
    OBVIOUS
  <2>1. v5'[u] = r  BY DEF AccountsInv, AccountsShape
  <2>. QED  BY <1>2, <2>1
<1>. QED  BY <1>1, <1>3, AccountsEffect

\* A step of a thread that changes one document, or deletes it, and then is done or goes on.
LEMMA AccountsWrite ==
    ASSUME AccountsInv, UNCHANGED <<v1, v2, v4>>, NEW t \in Threads, NEW u \in Users,
           NEW d \in A!Doc \cup {None}, v3' = [v3 EXCEPT ![u] = d],
           d = None => u \in v2,
           d # None => /\ v3[u] # None
                       /\ d.role = "owner" => v3[u].role = "owner"
                       /\ v3[u].role = "owner" => d.role = "owner" \/ u \in v2,
           NEW r \in A!Step \cup {Idle}, v5' = [v5 EXCEPT ![t] = r],
           r # Idle => r.op = "list" /\ r.do = "clean" /\ r.uids \subseteq v2
    PROVE  AccountsKept
<1>. USE DEF AccountsInv, AccountsShape
<1>1. AccountsShape'  OBVIOUS
<1>2. r # Idle => Knows(r)'  BY DEF Knows
<1>3. \A w \in Threads : v5'[w] \in {v5[w], Idle} \/ \E q \in A!Step : v5'[w] = q /\ Knows(q)'
  <2>. SUFFICES ASSUME NEW w \in Threads, v5'[w] # v5[w], v5'[w] # Idle
                PROVE  \E q \in A!Step : v5'[w] = q /\ Knows(q)'
    OBVIOUS
  <2>1. v5'[w] = r  OBVIOUS
  <2>. QED  BY <1>2, <2>1
<1>4. \A w \in Users : w # u => v3'[w] = v3[w]  OBVIOUS
<1>5. v3'[u] = d  OBVIOUS
<1>6. \A w \in Users : v3[w] = None => v3'[w] = None  BY <1>4, <1>5
<1>7. \A w \in Users : v3[w] # None /\ v3'[w] = None => w \in v2  BY <1>4, <1>5
<1>8. \A w \in Users : v3[w] # None /\ v3'[w] # None =>
          /\ v3'[w].role = "owner" => v3[w].role = "owner"
          /\ v3[w].role = "owner" /\ w \notin v2 => v3'[w].role = "owner"
  BY <1>4, <1>5
<1>. QED  BY <1>1, <1>3, <1>6, <1>7, <1>8, AccountsEffect

\* The steps of an admin's request.
LEMMA AccountRequestStep ==
    ASSUME AccountsInv, NEW t \in Threads, A!RequestStep(t)
    PROVE  AccountsKept
<1>. USE DEF A!Goes
<1>1. ASSUME NEW by \in Users, NEW u \in Users, A!BeginDelete(t, by, u) PROVE AccountsKept
  <2>. DEFINE r == [op |-> "delete", do |-> "auth", uid |-> u]
  <2>1. r \in A!Step /\ Knows(r)  BY DEF A!Step, Knows
  <2>. QED  BY <1>1, <2>1, AccountsLook DEF A!BeginDelete
<1>2. CASE A!DeleteAuth(t)
  <2>. DEFINE u == v5[t].uid
  <2>1. v5[t] \in A!Step /\ v5[t].op = "delete"
    BY <1>2 DEF A!DeleteAuth, A!At, AccountsInv, AccountsShape
  <2>2. PICK r : r = [v5[t] EXCEPT !.do = "doc"]  OBVIOUS
  <2>3. u \in Users /\ r \in A!Step /\ r.op = "delete" /\ r.uid = u
    BY <2>1, <2>2, AccountRequests DEF A!Step
  <2>4. /\ u \in v1 /\ v1' = v1 \ {u} /\ v2' = v2 \cup {u} /\ UNCHANGED <<v3, v4>>
        /\ v5' = [v5 EXCEPT ![t] = r]
    BY <1>2, <2>2 DEF A!DeleteAuth
  <2>5. AccountsShape'  BY <2>3, <2>4 DEF AccountsInv, AccountsShape
  <2>6. Knows(r)'  BY <2>3, <2>4 DEF Knows
  <2>7. \A w \in Threads : v5'[w] \in {v5[w], Idle} \/ \E q \in A!Step : v5'[w] = q /\ Knows(q)'
    <3>. SUFFICES ASSUME NEW w \in Threads, v5'[w] # v5[w]
                  PROVE  \E q \in A!Step : v5'[w] = q /\ Knows(q)'
      OBVIOUS
    <3>1. v5'[w] = r  BY <2>4 DEF AccountsInv, AccountsShape
    <3>. QED  BY <2>3, <2>6, <3>1
  <2>8. v1 \cup v2 \subseteq v1' \cup v2' /\ v2 \subseteq v2' /\ v3' = v3 /\ v4' = v4
    BY <2>4
  <2>. QED  BY <2>5, <2>7, <2>8, AccountsEffect
<1>3. CASE A!DeleteDoc(t)
  <2>1. /\ v5[t] \in A!Step /\ v5[t].op = "delete" /\ v5[t].do = "doc"
        /\ v3' = [v3 EXCEPT ![v5[t].uid] = None] /\ v5' = [v5 EXCEPT ![t] = Idle]
        /\ UNCHANGED <<v1, v2, v4>>
    BY <1>3 DEF A!DeleteDoc, A!At, AccountsInv, AccountsShape
  <2>2. v5[t].uid \in Users  BY <2>1, AccountRequests
  <2>3. v5[t].uid \in v2  BY <2>1 DEF AccountsInv, RequestsKnow, Knows
  <2>. QED  BY <2>1, <2>2, <2>3, AccountsWrite
<1>4. ASSUME NEW by \in Users, NEW u \in Users, NEW role \in {"admin", "user"},
             A!BeginRole(t, by, u, role)
      PROVE  AccountsKept
  <2>. DEFINE r == [op |-> "role", do |-> "assert", by |-> by, uid |-> u, role |-> role]
  <2>1. r \in A!Step /\ Knows(r)  BY DEF A!Step, Knows
  <2>. QED  BY <1>4, <2>1, AccountsLook DEF A!BeginRole
<1>5. CASE A!AssertOwner(t)
  <2>. DEFINE r == [v5[t] EXCEPT !.do = "read"]
  <2>1. v5[t] \in A!Step /\ v5[t].op = "role"
    BY <1>5 DEF A!AssertOwner, A!At, AccountsInv, AccountsShape
  <2>2. r \in A!Step /\ r.op = "role" /\ r.do = "read"
    BY <2>1, AccountRequests DEF A!Step
  <2>3. Knows(r)  BY <2>2 DEF Knows
  <2>. QED  BY <1>5, <2>2, <2>3, AccountsLook DEF A!AssertOwner
<1>6. CASE A!ReadTarget(t)
  <2>. DEFINE r == [v5[t] EXCEPT !.do = "write"]
  <2>1. v5[t] \in A!Step /\ v5[t].op = "role"
    BY <1>6 DEF A!ReadTarget, A!At, AccountsInv, AccountsShape
  <2>2. r \in A!Step /\ r.op = "role" /\ r.uid = v5[t].uid /\ r.uid \in Users
    BY <2>1, AccountRequests DEF A!Step
  <2>3. Knows(r)
    BY <1>6, <2>2 DEF A!ReadTarget, A!Switchable, A!Role, A!Registered, Knows
  <2>. QED  BY <1>6, <2>2, <2>3, AccountsLook DEF A!ReadTarget
<1>7. CASE A!WriteRole(t)
  <2>. DEFINE u == v5[t].uid
              d == [v3[u] EXCEPT !.role = v5[t].role]
  <2>1. /\ v5[t] \in A!Step /\ v5[t].op = "role" /\ v5[t].do = "write"
        /\ v3[u] # None /\ UNCHANGED <<v1, v2, v4>> /\ v5' = [v5 EXCEPT ![t] = Idle]
        /\ v3' = [v3 EXCEPT ![u].role = v5[t].role]
    BY <1>7 DEF A!WriteRole, A!At, AccountsInv, AccountsShape
  <2>2. u \in Users /\ v5[t].role \in {"admin", "user"}  BY <2>1, AccountRequests
  <2>3. v3[u] \in A!Doc  BY <2>1, <2>2 DEF AccountsInv, AccountsShape
  <2>4. d \in A!Doc /\ d.role # "owner"  BY <2>2, <2>3 DEF A!Doc
  <2>5. v3[u].role = "owner" => u \in v2
    BY <2>1 DEF AccountsInv, RequestsKnow, Knows
  <2>6. v3' = [v3 EXCEPT ![u] = d] /\ d # None
    BY <2>1, <2>2, <2>4, NobodyAssumption DEF AccountsInv, AccountsShape
  <2>. QED  BY <2>1, <2>2, <2>3, <2>4, <2>5, <2>6, AccountsWrite
<1>8. ASSUME NEW by \in Users, NEW u \in Users, NEW approved \in BOOLEAN,
             A!BeginStatus(t, by, u, approved)
      PROVE  AccountsKept
  <2>. DEFINE r == [op |-> "status", do |-> "assert", by |-> by, uid |-> u,
                    approved |-> approved]
  <2>1. r \in A!Step /\ Knows(r)  BY DEF A!Step, Knows
  <2>. QED  BY <1>8, <2>1, AccountsLook DEF A!BeginStatus
<1>9. CASE A!AssertAdmin(t)
  <2>. DEFINE r == [v5[t] EXCEPT !.do = "write"]
  <2>1. v5[t] \in A!Step /\ v5[t].op = "status"
    BY <1>9 DEF A!AssertAdmin, A!At, AccountsInv, AccountsShape
  <2>2. r \in A!Step /\ r.op = "status"  BY <2>1, AccountRequests DEF A!Step
  <2>3. Knows(r)  BY <2>2 DEF Knows
  <2>. QED  BY <1>9, <2>2, <2>3, AccountsLook DEF A!AssertAdmin
<1>10. CASE A!WriteStatus(t)
  <2>. DEFINE u == v5[t].uid
              d == [v3[u] EXCEPT !.approved = v5[t].approved]
  <2>1. /\ v5[t] \in A!Step /\ v5[t].op = "status"
        /\ v3[u] # None /\ UNCHANGED <<v1, v2, v4>> /\ v5' = [v5 EXCEPT ![t] = Idle]
        /\ v3' = [v3 EXCEPT ![u].approved = v5[t].approved]
    BY <1>10 DEF A!WriteStatus, A!At, AccountsInv, AccountsShape
  <2>2. u \in Users /\ v5[t].approved \in BOOLEAN  BY <2>1, AccountRequests
  <2>3. v3[u] \in A!Doc  BY <2>1, <2>2 DEF AccountsInv, AccountsShape
  <2>4. d \in A!Doc /\ d.role = v3[u].role  BY <2>2, <2>3 DEF A!Doc
  <2>5. v3' = [v3 EXCEPT ![u] = d] /\ d # None
    BY <2>1, <2>2, <2>4, NobodyAssumption DEF AccountsInv, AccountsShape
  <2>. QED  BY <2>1, <2>2, <2>3, <2>4, <2>5, AccountsWrite
<1>11. ASSUME NEW by \in Users, A!ListDocs(t, by) PROVE AccountsKept
  <2>1. PICK listed \in {A!Registered, {u \in A!Registered : ~ v3[u].approved}} :
            v5' = [v5 EXCEPT ![t] = [op |-> "list", do |-> "auth", uids |-> listed]]
    BY <1>11 DEF A!ListDocs
  <2>. DEFINE r == [op |-> "list", do |-> "auth", uids |-> listed]
  <2>2. listed \subseteq A!Registered  OBVIOUS
  <2>3. r \in A!Step  BY <2>2 DEF A!Step, A!Registered
  <2>4. Knows(r)  BY <2>2 DEF Knows, AccountsInv, DocsHaveAccounts
  <2>. QED  BY <1>11, <2>1, <2>3, <2>4, AccountsLook DEF A!ListDocs
<1>12. CASE A!ListAuth(t)
  <2>. DEFINE orphans == v5[t].uids \ v1
              r == [op |-> "list", do |-> "clean", uids |-> orphans]
  <2>1. v5[t] \in A!Step /\ v5[t].op = "list" /\ v5[t].do = "auth"
    BY <1>12 DEF A!ListAuth, A!At, AccountsInv, AccountsShape
  <2>2. v5[t].uids \in SUBSET Users  BY <2>1, AccountRequests
  <2>3. v5[t].uids \subseteq v1 \cup v2  BY <2>1 DEF AccountsInv, RequestsKnow, Knows
  <2>4. CASE orphans = {}
    <3>1. v5' = [v5 EXCEPT ![t] = Idle]  BY <1>12, <2>4 DEF A!ListAuth
    <3>. QED  BY <1>12, <3>1, AccountsLook DEF A!ListAuth
  <2>5. CASE orphans # {}
    <3>1. v5' = [v5 EXCEPT ![t] = r]  BY <1>12, <2>5 DEF A!ListAuth
    <3>2. r \in A!Step  BY <2>2, <2>5 DEF A!Step
    <3>3. Knows(r)  BY <2>3 DEF Knows
    <3>. QED  BY <1>12, <3>1, <3>2, <3>3, AccountsLook DEF A!ListAuth
  <2>. QED  BY <2>4, <2>5
<1>13. ASSUME NEW u \in Users, A!Clean(t, u) PROVE AccountsKept
  <2>1. /\ v5[t] \in A!Step /\ v5[t].op = "list" /\ v5[t].do = "clean" /\ u \in v5[t].uids
        /\ v3' = [v3 EXCEPT ![u] = None] /\ UNCHANGED <<v1, v2, v4>>
    BY <1>13 DEF A!Clean, A!At, AccountsInv, AccountsShape
  <2>2. v5[t].uids \subseteq v2  BY <2>1 DEF AccountsInv, RequestsKnow, Knows
  <2>3. v5[t] \in [op : {"list"}, do : {"auth", "clean"}, uids : SUBSET Users]
    BY <2>1, AccountRequests
  <2>4. CASE v5[t].uids = {u}
    <3>1. v5' = [v5 EXCEPT ![t] = Idle]  BY <1>13, <2>4 DEF A!Clean
    <3>. QED  BY <2>1, <2>2, <3>1, AccountsWrite
  <2>5. CASE v5[t].uids # {u}
    <3>. DEFINE r == [v5[t] EXCEPT !.uids = @ \ {u}]
    <3>1. v5' = [v5 EXCEPT ![t] = r]  BY <1>13, <2>5 DEF A!Clean
    <3>2. /\ r.op = "list" /\ r.do = "clean" /\ r.uids = v5[t].uids \ {u}
          /\ r \in [op : {"list"}, do : {"auth", "clean"}, uids : SUBSET Users]
      BY <2>1, <2>3
    <3>3. r \in A!Step  BY <2>1, <2>5, <3>2 DEF A!Step
    <3>. QED  BY <2>1, <2>2, <3>1, <3>2, <3>3, AccountsWrite
  <2>. QED  BY <2>4, <2>5
<1>14. CASE A!Ends(t)
  BY <1>14, AccountsLook DEF A!Ends
<1>. QED
  BY <1>1, <1>2, <1>3, <1>4, <1>5, <1>6, <1>7, <1>8, <1>9, <1>10, <1>11, <1>12, <1>13, <1>14
  DEF A!RequestStep

\* A step of a registration that leaves the accounts, the documents and the requests alone.
LEMMA AccountsRegister ==
    ASSUME AccountsInv, UNCHANGED <<v1, v2, v3, v5>>, v4' \in A!Signing \cup {Idle},
           SigningIsAlone'
    PROVE  AccountsKept
<1>1. AccountsShape'  BY DEF AccountsInv, AccountsShape
<1>2. A!AtMostOneOwner' /\ DocsHaveAccounts' /\ A!RoleIsKept /\ A!OrphanIsDeleted
  BY DEF AccountsInv, A!AtMostOneOwner, A!Owners, A!Role, DocsHaveAccounts, A!Registered,
         A!RoleIsKept, A!OrphanIsDeleted
<1>3. RequestsKnow'  BY DEF AccountsInv, RequestsKnow, Knows, A!Registered
<1>. QED  BY <1>1, <1>2, <1>3 DEF AccountsKept, AccountsInv

\* The document of a person who has none is saved, with the owner's role only if there is
\* no other.
LEMMA AccountsSave ==
    ASSUME AccountsInv, A!SaveUser
    PROVE  AccountsKept
<1>. DEFINE n == v4.uid
            d == [role |-> IF v4.owner THEN "owner" ELSE "user", approved |-> v4.owner]
<1>1. /\ v4 # Idle /\ v4.do = "save" /\ v3' = [v3 EXCEPT ![n] = d] /\ v4' = Idle
      /\ UNCHANGED <<v1, v2, v5>>
  BY DEF A!SaveUser
<1>2. v4 \in [do : {"save"}, uid : Users, owner : BOOLEAN]
  BY <1>1 DEF AccountsInv, AccountsShape, A!Signing
<1>3. n \in Users /\ n \in v1 \cup v2 /\ v3[n] = None /\ (v4.owner => A!Registered = {})
  BY <1>1, <1>2 DEF AccountsInv, SigningIsAlone, A!Registered
<1>4. d \in A!Doc /\ d # None  BY <1>2, NobodyAssumption DEF A!Doc
<1>5. AccountsShape'  BY <1>1, <1>3, <1>4 DEF AccountsInv, AccountsShape
<1>6. \A u \in Users : v3'[u] = IF u = n THEN d ELSE v3[u]
  BY <1>1, <1>3 DEF AccountsInv, AccountsShape
<1>7. A!Registered' = A!Registered \cup {n}  BY <1>3, <1>4, <1>6 DEF A!Registered
<1>8. A!Owners' = IF v4.owner THEN {n} ELSE A!Owners
  BY <1>2, <1>3, <1>4, <1>6 DEF A!Owners, A!Role, A!Registered
<1>9. A!AtMostOneOwner'  BY <1>8 DEF AccountsInv, A!AtMostOneOwner
<1>10. DocsHaveAccounts'  BY <1>1, <1>3, <1>7 DEF AccountsInv, DocsHaveAccounts
<1>11. SigningIsAlone'  BY <1>1 DEF SigningIsAlone
<1>12. RequestsKnow'
  <2>. SUFFICES ASSUME NEW t \in Threads, NEW r \in A!Step, v5[t] = r PROVE Knows(r)'
    BY <1>1 DEF RequestsKnow
  <2>1. Knows(r)  BY DEF AccountsInv, RequestsKnow
  <2>2. ASSUME r.uid \in A!Registered, v3[r.uid].role # "owner"
        PROVE  r.uid \in A!Registered' /\ v3'[r.uid].role # "owner"
    BY <1>3, <1>6, <1>7, <2>2 DEF A!Registered
  <2>. QED  BY <1>1, <2>1, <2>2 DEF Knows
<1>13. A!RoleIsKept
  <2>. SUFFICES ASSUME NEW u \in A!Owners \ v2, v3'[u] # None PROVE v3'[u].role = "owner"
    BY DEF A!RoleIsKept
  <2>1. u \in Users /\ u # n /\ v3[u].role = "owner"  BY <1>3 DEF A!Owners, A!Role
  <2>. QED  BY <1>6, <2>1
<1>14. A!OrphanIsDeleted  BY <1>4, <1>6 DEF A!OrphanIsDeleted, A!Registered
<1>. QED  BY <1>5, <1>9, <1>10, <1>11, <1>12, <1>13, <1>14 DEF AccountsKept, AccountsInv

\* At the start an admin becomes the owner only when there is none.
LEMMA AccountsRestart ==
    ASSUME AccountsInv, A!Restart
    PROVE  AccountsKept
<1>1. /\ v3' \in A!Promoted /\ v4' = Idle /\ v5' = [t \in Threads |-> Idle]
      /\ UNCHANGED <<v1, v2>>
  BY DEF A!Restart
<1>2. SigningIsAlone' /\ RequestsKnow'
  BY <1>1, AccountRequests DEF SigningIsAlone, RequestsKnow
<1>3. CASE v3' = v3
  <2>1. AccountsShape'  BY <1>1, <1>3 DEF AccountsInv, AccountsShape
  <2>2. A!AtMostOneOwner' /\ DocsHaveAccounts' /\ A!RoleIsKept /\ A!OrphanIsDeleted
    BY <1>1, <1>3 DEF AccountsInv, A!AtMostOneOwner, A!Owners, A!Role, DocsHaveAccounts,
       A!Registered, A!RoleIsKept, A!OrphanIsDeleted
  <2>. QED  BY <1>2, <2>1, <2>2 DEF AccountsKept, AccountsInv
<1>4. ASSUME NEW n \in Users, A!Owners = {}, A!Role(n) = "admin",
             v3' = [v3 EXCEPT ![n].role = "owner"]
      PROVE  AccountsKept
  <2>1. v3[n] \in A!Doc  BY <1>4 DEF A!Role, AccountsInv, AccountsShape
  <2>2. PICK d : d = [v3[n] EXCEPT !.role = "owner"]  OBVIOUS
  <2>3. d \in A!Doc /\ d # None /\ d.role = "owner"
    BY <2>1, <2>2, NobodyAssumption DEF A!Doc
  <2>4. AccountsShape'  BY <1>1, <1>4, <2>2, <2>3 DEF AccountsInv, AccountsShape
  <2>5. \A u \in Users : v3'[u] = IF u = n THEN d ELSE v3[u]
    BY <1>4, <2>2 DEF AccountsInv, AccountsShape
  <2>6. A!Registered' = A!Registered
    BY <2>1, <2>3, <2>5, NobodyAssumption DEF A!Registered
  <2>7. A!Owners' = {n}  BY <1>4, <2>3, <2>5 DEF A!Owners, A!Role
  <2>8. A!AtMostOneOwner'  BY <2>7 DEF A!AtMostOneOwner
  <2>9. DocsHaveAccounts'  BY <1>1, <2>6 DEF AccountsInv, DocsHaveAccounts
  <2>10. A!RoleIsKept  BY <1>4 DEF A!RoleIsKept
  <2>11. A!OrphanIsDeleted  BY <2>3, <2>5 DEF A!OrphanIsDeleted, A!Registered
  <2>. QED  BY <1>2, <2>4, <2>8, <2>9, <2>10, <2>11 DEF AccountsKept, AccountsInv
<1>. QED  BY <1>1, <1>3, <1>4 DEF A!Promoted

LEMMA AccountsStep == AccountsInv /\ [A!Next]_(A!vars) => AccountsKept
<1>. SUFFICES ASSUME AccountsInv, [A!Next]_(A!vars) PROVE AccountsKept  OBVIOUS
<1>. USE DEF AccountsInv, AccountsShape
<1>1. ASSUME NEW u \in Users, A!SignUp(u) PROVE AccountsKept
  <2>1. /\ u \notin v1 \cup v2 /\ v1' = v1 \cup {u} /\ UNCHANGED <<v2, v3, v4, v5>>
    BY <1>1 DEF A!SignUp
  <2>2. AccountsShape'  BY <2>1
  <2>3. v1 \cup v2 \subseteq v1' \cup v2' /\ v2 \subseteq v2'  BY <2>1
  <2>. QED  BY <2>1, <2>2, <2>3, AccountsEffect
<1>2. ASSUME NEW u \in Users, A!Register(u) PROVE AccountsKept
  <2>1. /\ u \in v1 \cup v2 /\ v3[u] = None /\ v4' = [do |-> "first", uid |-> u]
        /\ UNCHANGED <<v1, v2, v3, v5>>
    BY <1>2 DEF A!Register
  <2>2. v4' \in A!Signing  BY <2>1 DEF A!Signing
  <2>3. SigningIsAlone'  BY <2>1 DEF SigningIsAlone, A!Registered
  <2>. QED  BY <2>1, <2>2, <2>3, AccountsRegister
<1>3. CASE A!CheckFirst
  <2>1. /\ v4 # Idle /\ v4.do = "first"
        /\ v4' = [do |-> "save", uid |-> v4.uid, owner |-> A!Registered = {}]
        /\ UNCHANGED <<v1, v2, v3, v5>>
    BY <1>3 DEF A!CheckFirst, A!First
  <2>2. v4 \in [do : {"first"}, uid : Users]  BY <2>1 DEF A!Signing
  <2>3. v4'.uid = v4.uid /\ (v4'.owner <=> A!Registered = {}) /\ v4'.owner \in BOOLEAN
    BY <2>1
  <2>4. v4' \in A!Signing  BY <2>1, <2>2, <2>3 DEF A!Signing
  <2>5. SigningIsAlone'  BY <2>1, <2>3 DEF SigningIsAlone, A!Registered
  <2>. QED  BY <2>1, <2>4, <2>5, AccountsRegister
<1>4. CASE A!SaveUser
  BY <1>4, AccountsSave
<1>5. CASE A!RegisterRaises
  BY <1>5, AccountsRegister DEF A!RegisterRaises, SigningIsAlone
<1>6. ASSUME NEW t \in Threads, A!RequestStep(t) PROVE AccountsKept
  BY <1>6, AccountRequestStep
<1>7. CASE A!Restart
  BY <1>7, AccountsRestart
<1>8. CASE UNCHANGED A!vars
  <2>1. UNCHANGED <<v1, v2, v3, v4, v5>>  BY <1>8 DEF A!vars
  <2>2. SigningIsAlone'  BY <2>1 DEF SigningIsAlone, A!Registered
  <2>. QED  BY <2>1, <2>2, AccountsRegister
<1>. QED  BY <1>1, <1>2, <1>3, <1>4, <1>5, <1>6, <1>7, <1>8 DEF A!Next

--------------------------------------------------------------------------------
(* Incidents.  v1: node, v2: feedback, v3: logs, v4: listed, v5: cache, v6: request,        *)
(* v7: crossed, v8: halved.                                                                 *)

Documents == 1 .. MaxFeedback
IncidentRequest ==
    [at : {"idle", "mark", "file", "alerts", "corpus", "query", "items", "embed", "full",
           "evict", "put", "generate"},
     alert : Alerts \cup {None}, todo : SUBSET Documents,
     doc : 0 .. MaxFeedback, victim : 0 .. MaxFeedback]

\* What a request with feedback knows of its alert.
FeedbackInOrder ==
    \A t \in Threads :
        /\ v6[t].at \in {"mark", "file"} =>
              v6[t].alert \in Alerts /\ v1[v6[t].alert] # "new"
        /\ v6[t].at = "mark" => I!There(v6[t].alert) \/ v6[t].alert \in v7
        /\ v6[t].at = "file" => v1[v6[t].alert] # "open"

\* Only an alert that was raised, and marked since, has feedback; only a raised one is deleted.
AnsweredWasRaised ==
    /\ \A a \in Alerts : I!Contains(v2, a) => v1[a] \notin {"new", "open"}
    /\ \A a \in v7 : v1[a] # "new"

\* The document whose vector a request has asked for.
ReportsInOrder ==
    \A t \in Threads : v6[t].at \in {"embed", "full", "evict", "put"} => v6[t].doc \in Documents

\* Every thread that has made room, or found some, may add one entry.
Putting == {t \in Threads : v6[t].at = "put"}
PutsAreCounted == Len(v5) + Cardinality(Putting) < CacheMax + Cardinality(Threads)

IncidentsInv ==
    /\ I!TypeOK /\ FeedbackInOrder /\ AnsweredWasRaised /\ I!FlagAndFeedbackAgree
    /\ I!DeletedStaysDeleted /\ ReportsInOrder /\ PutsAreCounted /\ I!ListedHasLogs

LEMMA PuttingIsFinite ==
    /\ IsFiniteSet(Putting) /\ Cardinality(Putting) \in Nat
    /\ Cardinality(Threads) \in Nat /\ Cardinality(Putting) <= Cardinality(Threads)
<1>1. IsFiniteSet(Threads) /\ Putting \subseteq Threads  BY BoundsAssumption DEF Putting
<1>. QED  BY <1>1, FS_Subset, FS_CardinalityType

\* What is asked of alerts, feedback and reports follows.
LEMMA IncidentsSafe ==
    IncidentsInv => /\ I!TypeOK /\ I!FlagAndFeedbackAgree /\ I!DeletedStaysDeleted
                    /\ I!CacheIsBounded /\ I!ListedHasLogs
<1>. SUFFICES ASSUME IncidentsInv PROVE I!CacheIsBounded
  BY DEF IncidentsInv
<1>1. Len(v5) \in Nat  BY DEF IncidentsInv, I!TypeOK
<1>2. CacheMax \in Nat  BY BoundsAssumption
<1>3. Len(v5) + Cardinality(Putting) < CacheMax + Cardinality(Threads)
  BY DEF IncidentsInv, PutsAreCounted
<1>4. Cardinality(Putting) \in Nat /\ Cardinality(Threads) \in Nat  BY PuttingIsFinite
<1>5. I!Cardinality(Threads) = Cardinality(Threads)  BY DEF I!Cardinality, Cardinality
<1>. QED  BY <1>1, <1>2, <1>3, <1>4, <1>5 DEF I!CacheIsBounded

LEMMA IncidentsInit == I!Init => IncidentsInv
<1>. SUFFICES ASSUME I!Init PROVE IncidentsInv  OBVIOUS
<1>. USE DEF I!Init, I!Nothing
<1>1. I!TypeOK  BY BoundsAssumption DEF I!TypeOK
<1>2. FeedbackInOrder /\ ReportsInOrder  BY DEF FeedbackInOrder, ReportsInOrder
<1>3. \A a \in Alerts : ~ I!Contains(v2, a)  BY DEF I!Contains
<1>4. AnsweredWasRaised /\ I!FlagAndFeedbackAgree
  BY <1>3 DEF AnsweredWasRaised, I!FlagAndFeedbackAgree
<1>5. I!DeletedStaysDeleted /\ I!ListedHasLogs
  BY DEF I!DeletedStaysDeleted, I!ListedHasLogs
<1>6. PutsAreCounted
  <2>1. Putting = {}  BY DEF Putting
  <2>2. Cardinality(Putting) = 0 /\ Len(v5) = 0  BY <2>1, FS_EmptySet
  <2>. QED  BY <2>2, PuttingIsFinite, BoundsAssumption DEF PutsAreCounted
<1>. QED  BY <1>1, <1>2, <1>4, <1>5, <1>6 DEF IncidentsInv

\* The cache does not outgrow its bound when a thread that goes on to store a vector has
\* found the cache below its size or has just deleted an entry, and one that has stored a
\* vector is done with it.
LEMMA PutsStayCounted ==
    ASSUME IncidentsInv, I!TypeOK', NEW t \in Threads, NEW new, v6' = [v6 EXCEPT ![t] = new],
           \/ v5' = v5 /\ (new.at = "put" => Len(v5) < CacheMax)
           \/ Len(v5') = Len(v5) - 1
           \/ v6[t].at = "put" /\ new.at # "put" /\ Len(v5') <= Len(v5) + 1
    PROVE  PutsAreCounted'
<1>1. /\ IsFiniteSet(Putting) /\ Cardinality(Putting) \in Nat
      /\ Cardinality(Threads) \in Nat
      /\ Cardinality(Putting') \in Nat /\ Cardinality(Putting') <= Cardinality(Threads)
      /\ Len(v5) \in Nat /\ Len(v5') \in Nat /\ CacheMax \in Nat
  <2>1. IsFiniteSet(Threads) /\ Putting' \subseteq Threads
    BY BoundsAssumption DEF Putting
  <2>2. Cardinality(Putting') \in Nat /\ Cardinality(Putting') <= Cardinality(Threads)
    BY <2>1, FS_Subset, FS_CardinalityType
  <2>. QED  BY <2>2, PuttingIsFinite, BoundsAssumption DEF IncidentsInv, I!TypeOK
<1>2. Putting' = IF new.at = "put" THEN Putting \cup {t} ELSE Putting \ {t}
  BY DEF Putting, IncidentsInv, I!TypeOK
<1>3. /\ Cardinality(Putting \cup {t}) = IF t \in Putting THEN Cardinality(Putting)
                                         ELSE Cardinality(Putting) + 1
      /\ Cardinality(Putting \ {t}) = IF t \in Putting THEN Cardinality(Putting) - 1
                                      ELSE Cardinality(Putting)
  BY <1>1, FS_AddElement, FS_RemoveElement
<1>4. Len(v5) + Cardinality(Putting) < CacheMax + Cardinality(Threads)
  BY DEF IncidentsInv, PutsAreCounted
<1>5. t \in Putting <=> v6[t].at = "put"  BY DEF Putting
<1>. QED  BY <1>1, <1>2, <1>3, <1>4, <1>5 DEF PutsAreCounted

\* A step of a thread that has, and takes on, nothing to do with feedback.
LEMMA IncidentsLook ==
    ASSUME IncidentsInv, UNCHANGED <<v1, v2, v3, v7, v8>>, v4' \subseteq v3,
           NEW t \in Threads, v6[t].at # "file",
           NEW new \in IncidentRequest, v6' = [v6 EXCEPT ![t] = new],
           new.at \notin {"mark", "file"},
           new.at \in {"embed", "full", "evict", "put"} => new.doc \in Documents,
           v5' \in Seq(Documents),
           \/ v5' = v5 /\ (new.at = "put" => Len(v5) < CacheMax)
           \/ Len(v5') = Len(v5) - 1
           \/ v6[t].at = "put" /\ new.at # "put" /\ Len(v5') <= Len(v5) + 1
    PROVE  IncidentsInv'
<1>1. I!TypeOK'  BY DEF IncidentsInv, I!TypeOK, IncidentRequest, Documents, I!ListedHasLogs
<1>2. /\ v6'[t] = new
      /\ \A u \in Threads : u # t => v6'[u] = v6[u]
  BY DEF IncidentsInv, I!TypeOK
<1>3. FeedbackInOrder'  BY <1>2 DEF IncidentsInv, FeedbackInOrder, I!There
<1>4. AnsweredWasRaised'  BY DEF IncidentsInv, AnsweredWasRaised
<1>5. I!FlagAndFeedbackAgree'
  <2>. SUFFICES ASSUME NEW a \in Alerts, v1[a] = "resolved"
                PROVE  \/ I!Contains(v2, a) \/ a \in v8
                       \/ \E u \in Threads : v6'[u].at = "file" /\ v6'[u].alert = a
    BY DEF IncidentsInv, I!FlagAndFeedbackAgree, I!At
  <2>1. ASSUME NEW u \in Threads, v6[u].at = "file", v6[u].alert = a
        PROVE  v6'[u].at = "file" /\ v6'[u].alert = a
    BY <1>2, <2>1
  <2>. QED  BY <2>1 DEF IncidentsInv, I!FlagAndFeedbackAgree, I!At
<1>6. I!DeletedStaysDeleted' /\ I!ListedHasLogs'
  BY DEF IncidentsInv, I!DeletedStaysDeleted, I!ListedHasLogs
<1>7. ReportsInOrder'  BY <1>2 DEF IncidentsInv, ReportsInOrder
<1>8. PutsAreCounted'  BY <1>1, PutsStayCounted
<1>. QED  BY <1>1, <1>3, <1>4, <1>5, <1>6, <1>7, <1>8 DEF IncidentsInv

\* The reports.
LEMMA IncidentsReport ==
    ASSUME IncidentsInv, NEW t \in Threads,
           \/ \E p \in I!Pairs : I!BeginReport(t, p)
           \/ \E own \in SUBSET Alerts : I!BeginSafetyReport(t, own)
           \/ I!ListShifts(t) \/ I!ReadAlerts(t) \/ I!ReadCorpus(t) \/ I!EmbedQuery(t)
           \/ \E n \in Documents : I!Item(t, n)
           \/ I!Embed(t) \/ I!Oldest(t) \/ I!Evict(t) \/ I!Put(t) \/ I!Ranked(t)
           \/ I!Generate(t)
    PROVE  IncidentsInv'
<1>. USE DEF I!Goes, I!To, I!Ends, I!At, I!Unused, I!Caught
<1>a. /\ v6[t] \in IncidentRequest /\ v5 \in Seq(Documents) /\ v4 \subseteq v3
      /\ v6[t].at \in {"embed", "full", "evict", "put"} => v6[t].doc \in Documents
      /\ DOMAIN v2 \subseteq Documents
  <2>1. v6[t] \in IncidentRequest /\ v5 \in Seq(Documents) /\ v4 \subseteq v3
    BY DEF IncidentsInv, I!TypeOK, IncidentRequest, Documents, I!ListedHasLogs
  <2>2. v6[t].at \in {"embed", "full", "evict", "put"} => v6[t].doc \in Documents
    BY DEF IncidentsInv, ReportsInOrder
  <2>3. v2 \in Seq(Alerts) /\ Len(v2) <= MaxFeedback /\ MaxFeedback \in Nat
    BY BoundsAssumption DEF IncidentsInv, I!TypeOK
  <2>. QED  BY <2>1, <2>2, <2>3 DEF Documents
<1>b. I!Nothing \in IncidentRequest /\ I!Nothing.at = "idle"
  BY BoundsAssumption DEF I!Nothing, IncidentRequest
<1>c. \A at \in {"alerts", "corpus", "query", "items", "full", "put", "generate"} :
         LET new == [v6[t] EXCEPT !.at = at] IN
         /\ new \in IncidentRequest /\ new.at = at /\ new.doc = v6[t].doc
  BY <1>a DEF IncidentRequest
<1>d. 0 \in 0 .. MaxFeedback /\ \A n \in Documents : n \in 0 .. MaxFeedback
  BY BoundsAssumption DEF Documents
<1>1. ASSUME NEW p \in I!Pairs, I!BeginReport(t, p) PROVE IncidentsInv'
  <2>. DEFINE new == IF p \in v3 THEN [I!Nothing EXCEPT !.at = "alerts"] ELSE I!Nothing
  <2>1. new \in IncidentRequest /\ new.at \in {"alerts", "idle"}
    BY <1>b DEF IncidentRequest
  <2>2. v6' = [v6 EXCEPT ![t] = new]  BY <1>1 DEF I!BeginReport
  <2>. QED  BY <1>1, <1>a, <2>1, <2>2, IncidentsLook DEF I!BeginReport
<1>2. ASSUME NEW own \in SUBSET Alerts, I!BeginSafetyReport(t, own) PROVE IncidentsInv'
  <2>1. [I!Nothing EXCEPT !.at = "generate"] \in IncidentRequest
    BY <1>b DEF IncidentRequest
  <2>2. PICK new \in IncidentRequest : /\ new.at \in {"generate", "idle"}
                                       /\ v6' = [v6 EXCEPT ![t] = new]
    <3>1. [I!Nothing EXCEPT !.at = "generate"].at = "generate"  BY DEF I!Nothing
    <3>. QED  BY <1>2, <1>b, <2>1, <3>1 DEF I!BeginSafetyReport
  <2>. QED  BY <1>2, <1>a, <2>2, IncidentsLook DEF I!BeginSafetyReport
<1>3. CASE I!ListShifts(t)
  <2>1. v4' \subseteq v3  BY <1>3, <1>a DEF I!ListShifts
  <2>. QED  BY <1>3, <1>a, <1>b, <2>1, IncidentsLook DEF I!ListShifts
<1>4. CASE I!ReadAlerts(t)
  BY <1>4, <1>a, <1>c, IncidentsLook DEF I!ReadAlerts
<1>5. CASE I!ReadCorpus(t)
  <2>1. CASE v6' = [v6 EXCEPT ![t] = [v6[t] EXCEPT !.at = "query", !.todo = DOMAIN v2]]
    <3>1. PICK new : new = [v6[t] EXCEPT !.at = "query", !.todo = DOMAIN v2]  OBVIOUS
    <3>2. new \in IncidentRequest /\ new.at = "query"  BY <1>a, <3>1 DEF IncidentRequest
    <3>. QED  BY <1>5, <1>a, <2>1, <3>1, <3>2, IncidentsLook DEF I!ReadCorpus
  <2>2. CASE v6' = [v6 EXCEPT ![t] = [v6[t] EXCEPT !.at = "generate"]]
    BY <1>5, <1>a, <1>c, <2>2, IncidentsLook DEF I!ReadCorpus
  <2>. QED  BY <1>5, <2>1, <2>2 DEF I!ReadCorpus
<1>6. CASE I!EmbedQuery(t)
  BY <1>6, <1>a, <1>c, IncidentsLook DEF I!EmbedQuery
<1>7. ASSUME NEW n \in Documents, I!Item(t, n) PROVE IncidentsInv'
  <2>1. PICK new : new = [v6[t] EXCEPT !.todo = @ \ {n}, !.doc = n,
                              !.at = IF I!Contains(v5, n) THEN "items" ELSE "embed"]
    OBVIOUS
  <2>2. new \in IncidentRequest /\ new.at \in {"items", "embed"} /\ new.doc = n
    BY <1>a, <1>d, <2>1 DEF IncidentRequest
  <2>. QED  BY <1>7, <1>a, <2>1, <2>2, IncidentsLook DEF I!Item
<1>8. CASE I!Embed(t)
  <2>1. CASE v6' = [v6 EXCEPT ![t] = [v6[t] EXCEPT !.at = "items"]]
    BY <1>8, <1>a, <1>c, <2>1, IncidentsLook DEF I!Embed
  <2>2. CASE I!Full /\ v6' = [v6 EXCEPT ![t] = [v6[t] EXCEPT !.at = "full"]]
    BY <1>8, <1>a, <1>c, <2>2, IncidentsLook DEF I!Embed
  <2>3. CASE ~I!Full /\ v6' = [v6 EXCEPT ![t] = [v6[t] EXCEPT !.at = "put"]]
    <3>1. Len(v5) < CacheMax  BY <1>a, <2>3, BoundsAssumption DEF I!Full
    <3>. QED  BY <1>8, <1>a, <1>c, <2>3, <3>1, IncidentsLook DEF I!Embed
  <2>. QED  BY <1>8, <2>1, <2>2, <2>3 DEF I!Embed
<1>9. CASE I!Oldest(t)
  <2>1. CASE v5 = << >>
    BY <1>9, <1>a, <1>c, <2>1, IncidentsLook DEF I!Oldest
  <2>2. CASE v5 # << >>
    <3>1. PICK new : new = [v6[t] EXCEPT !.at = "evict", !.victim = Head(v5)]  OBVIOUS
    <3>2. Head(v5) \in Documents  BY <1>a, <2>2
    <3>3. new \in IncidentRequest /\ new.at = "evict" /\ new.doc = v6[t].doc
      BY <1>a, <1>d, <3>1, <3>2 DEF IncidentRequest
    <3>. QED  BY <1>9, <1>a, <2>2, <3>1, <3>3, IncidentsLook DEF I!Oldest
  <2>. QED  BY <2>1, <2>2
<1>10. CASE I!Evict(t)
  <2>1. ASSUME NEW i \in DOMAIN v5, v5' = I!RemoveAt(v5, i),
               v6' = [v6 EXCEPT ![t] = [v6[t] EXCEPT !.at = "put", !.victim = 0]]
        PROVE  IncidentsInv'
    <3>1. PICK new : new = [v6[t] EXCEPT !.at = "put", !.victim = 0]  OBVIOUS
    <3>2. new \in IncidentRequest /\ new.at = "put" /\ new.doc = v6[t].doc
      BY <1>a, <1>d, <3>1 DEF IncidentRequest
    <3>3. v5' \in Seq(Documents) /\ Len(v5') = Len(v5) - 1
      <4>1. PICK p, q : p = SubSeq(v5, 1, i - 1) /\ q = SubSeq(v5, i + 1, Len(v5))  OBVIOUS
      <4>2. i \in Nat /\ Len(v5) \in Nat  BY <1>a
      <4>3. p \in Seq(Documents) /\ Len(p) = i - 1  BY <1>a, <4>1
      <4>4. q \in Seq(Documents) /\ Len(q) = Len(v5) - i  BY <1>a, <4>1
      <4>5. v5' = p \o q  BY <2>1, <4>1 DEF I!RemoveAt
      <4>6. p \o q \in Seq(Documents) /\ Len(p \o q) = Len(p) + Len(q)
        BY <4>3, <4>4, ConcatProperties
      <4>. QED  BY <4>2, <4>3, <4>4, <4>5, <4>6
    <3>. QED  BY <1>10, <1>a, <2>1, <3>1, <3>2, <3>3, IncidentsLook DEF I!Evict
  <2>2. CASE v5' = v5 /\ v6' = [v6 EXCEPT ![t] = [v6[t] EXCEPT !.at = "generate"]]
    BY <1>10, <1>a, <1>c, <2>2, IncidentsLook DEF I!Evict
  <2>. QED  BY <1>10, <2>1, <2>2 DEF I!Evict
<1>11. CASE I!Put(t)
  <2>1. v6[t].at = "put" /\ v6[t].doc \in Documents  BY <1>11, <1>a DEF I!Put
  <2>2. v5' \in Seq(Documents) /\ Len(v5') <= Len(v5) + 1
    <3>1. v5' = v5 \/ v5' = Append(v5, v6[t].doc)  BY <1>11 DEF I!Put
    <3>. QED  BY <1>a, <2>1, <3>1
  <2>. QED  BY <1>11, <1>a, <1>c, <2>1, <2>2, IncidentsLook DEF I!Put
<1>12. CASE I!Ranked(t)
  BY <1>12, <1>a, <1>c, IncidentsLook DEF I!Ranked
<1>13. CASE I!Generate(t)
  BY <1>13, <1>a, <1>b, IncidentsLook DEF I!Generate
<1>. QED  BY <1>1, <1>2, <1>3, <1>4, <1>5, <1>6, <1>7, <1>8, <1>9, <1>10, <1>11, <1>12, <1>13

LEMMA ContainsAppended ==
    ASSUME NEW S, NEW s \in Seq(S), NEW e \in S, NEW x
    PROVE  I!Contains(Append(s, e), x) <=> I!Contains(s, x) \/ x = e
<1>1. /\ Len(Append(s, e)) = Len(s) + 1 /\ Len(s) \in Nat
      /\ \A i \in 1 .. Len(s) : Append(s, e)[i] = s[i]
      /\ Append(s, e)[Len(s) + 1] = e
  OBVIOUS
<1>. QED  BY <1>1 DEF I!Contains

\* An alert is raised.
LEMMA IncidentsRaised ==
    ASSUME IncidentsInv, NEW a \in Alerts, I!Raised(a)
    PROVE  IncidentsInv'
<1>1. /\ v1[a] = "new" /\ v1' = [v1 EXCEPT ![a] = "open"]
      /\ UNCHANGED <<v2, v3, v4, v5, v6, v7, v8>>
  BY DEF I!Raised
<1>2. I!TypeOK'  BY <1>1 DEF IncidentsInv, I!TypeOK
<1>3. v1'[a] = "open" /\ \A b \in Alerts : b # a => v1'[b] = v1[b]
  BY <1>1 DEF IncidentsInv, I!TypeOK
<1>4. \A t \in Threads : v6[t].at \in {"mark", "file"} => v6[t].alert # a
  BY <1>1 DEF IncidentsInv, FeedbackInOrder
<1>5. FeedbackInOrder'
  BY <1>1, <1>3, <1>4 DEF IncidentsInv, FeedbackInOrder, I!There
<1>6. AnsweredWasRaised'
  <2>1. v7 \subseteq Alerts  BY DEF IncidentsInv, I!TypeOK
  <2>. QED  BY <1>1, <1>3, <2>1 DEF IncidentsInv, AnsweredWasRaised
<1>7. I!FlagAndFeedbackAgree'
  BY <1>1, <1>3 DEF IncidentsInv, AnsweredWasRaised, I!FlagAndFeedbackAgree, I!At
<1>8. I!DeletedStaysDeleted'
  BY <1>1, <1>3 DEF IncidentsInv, I!DeletedStaysDeleted
<1>9. ReportsInOrder' /\ PutsAreCounted' /\ I!ListedHasLogs'
  BY <1>1 DEF IncidentsInv, ReportsInOrder, PutsAreCounted, Putting, I!ListedHasLogs
<1>. QED  BY <1>2, <1>5, <1>6, <1>7, <1>8, <1>9 DEF IncidentsInv

\* A request goes on to mark an alert that it has found.
LEMMA IncidentsBeginFeedback ==
    ASSUME IncidentsInv, NEW t \in Threads, NEW a \in Alerts, I!BeginFeedback(t, a)
    PROVE  IncidentsInv'
<1>1. v6[t].at = "idle" /\ UNCHANGED <<v1, v2, v3, v4, v5, v7, v8>>
  BY DEF I!BeginFeedback, I!Unused
<1>2. CASE I!Found(a)
  <2>1. PICK new : new = [I!Nothing EXCEPT !.at = "mark", !.alert = a]  OBVIOUS
  <2>2. v6' = [v6 EXCEPT ![t] = new]  BY <1>2, <2>1 DEF I!BeginFeedback, I!Goes
  <2>3. new \in IncidentRequest /\ new.at = "mark" /\ new.alert = a
    <3>1. I!Nothing \in IncidentRequest  BY BoundsAssumption DEF I!Nothing, IncidentRequest
    <3>. QED  BY <2>1, <3>1 DEF IncidentRequest
  <2>4. I!TypeOK'
    BY <1>1, <2>2, <2>3 DEF IncidentsInv, I!TypeOK, IncidentRequest, Documents
  <2>5. v6'[t] = new /\ \A u \in Threads : u # t => v6'[u] = v6[u]
    BY <2>2 DEF IncidentsInv, I!TypeOK
  <2>6. FeedbackInOrder'
    <3>1. I!There(a) /\ v1[a] # "new"  BY <1>2 DEF I!Found, I!There
    <3>. QED  BY <1>1, <2>3, <2>5, <3>1 DEF IncidentsInv, FeedbackInOrder, I!There
  <2>7. AnsweredWasRaised'  BY <1>1 DEF IncidentsInv, AnsweredWasRaised
  <2>8. I!FlagAndFeedbackAgree'
    <3>1. \A u \in Threads : v6[u].at = "file" => v6'[u] = v6[u]  BY <1>1, <2>5
    <3>. QED  BY <1>1, <3>1 DEF IncidentsInv, I!FlagAndFeedbackAgree, I!At
  <2>9. I!DeletedStaysDeleted' /\ I!ListedHasLogs'
    BY <1>1 DEF IncidentsInv, I!DeletedStaysDeleted, I!ListedHasLogs
  <2>10. ReportsInOrder'  BY <2>3, <2>5 DEF IncidentsInv, ReportsInOrder
  <2>11. PutsAreCounted'  BY <1>1, <2>2, <2>3, <2>4, PutsStayCounted
  <2>. QED  BY <2>4, <2>6, <2>7, <2>8, <2>9, <2>10, <2>11 DEF IncidentsInv
<1>3. CASE ~I!Found(a)
  <2>1. v6' = [v6 EXCEPT ![t] = I!Nothing]
    BY <1>3 DEF I!BeginFeedback, I!Ends, I!Goes
  <2>2. I!Nothing \in IncidentRequest /\ I!Nothing.at = "idle"
    BY BoundsAssumption DEF I!Nothing, IncidentRequest
  <2>3. v4 \subseteq v3 /\ v5 \in Seq(Documents)
    BY DEF IncidentsInv, I!TypeOK, I!ListedHasLogs, Documents
  <2>. QED  BY <1>1, <2>1, <2>2, <2>3, IncidentsLook
<1>. QED  BY <1>2, <1>3

\* The alert is marked: it was found, or has been deleted since.
LEMMA IncidentsMark ==
    ASSUME IncidentsInv, NEW t \in Threads, I!Mark(t)
    PROVE  IncidentsInv'
<1>1. PICK a : a = v6[t].alert  OBVIOUS
<1>2. PICK new : new = [v6[t] EXCEPT !.at = "file"]  OBVIOUS
<1>3. PICK n : n = IF I!There(a) /\ v1[a] # "residue" THEN "resolved" ELSE "residue"  OBVIOUS
<1>4. /\ v6[t].at = "mark" /\ v6' = [v6 EXCEPT ![t] = new]
      /\ UNCHANGED <<v2, v3, v4, v5, v7, v8>>
  BY <1>2 DEF I!Mark, I!At, I!To, I!Goes
<1>5. v1' = [v1 EXCEPT ![a] = n]  BY <1>1, <1>3 DEF I!Mark
<1>6. a \in Alerts /\ v1[a] # "new" /\ (I!There(a) \/ a \in v7)
  BY <1>1, <1>4 DEF IncidentsInv, FeedbackInOrder
<1>7. new \in IncidentRequest /\ new.at = "file" /\ new.alert = a
  BY <1>1, <1>2 DEF IncidentsInv, I!TypeOK, IncidentRequest, Documents
<1>8. I!TypeOK'
  BY <1>3, <1>4, <1>5, <1>7 DEF IncidentsInv, I!TypeOK, IncidentRequest, Documents
<1>9. /\ v6'[t] = new /\ \A u \in Threads : u # t => v6'[u] = v6[u]
      /\ v1'[a] = n /\ \A b \in Alerts : b # a => v1'[b] = v1[b]
      /\ n \in {"resolved", "residue"}
  BY <1>3, <1>4, <1>5, <1>6 DEF IncidentsInv, I!TypeOK
<1>10. FeedbackInOrder'
  BY <1>4, <1>6, <1>7, <1>9 DEF IncidentsInv, FeedbackInOrder, I!There
<1>11. AnsweredWasRaised'
  <2>1. v7 \subseteq Alerts  BY DEF IncidentsInv, I!TypeOK
  <2>. QED  BY <1>4, <1>9, <2>1 DEF IncidentsInv, AnsweredWasRaised
<1>12. I!FlagAndFeedbackAgree'
  <2>1. \A u \in Threads : v6[u].at = "file" => v6'[u] = v6[u]  BY <1>4, <1>9
  <2>2. \A b \in Alerts : I!Contains(v2, b) => v1'[b] # "open"
    BY <1>9 DEF IncidentsInv, I!FlagAndFeedbackAgree
  <2>3. ASSUME NEW b \in Alerts, v1'[b] = "resolved"
        PROVE  \/ I!Contains(v2, b) \/ b \in v8
               \/ \E u \in Threads : v6'[u].at = "file" /\ v6'[u].alert = b
    <3>1. CASE b = a  BY <1>7, <1>9, <3>1
    <3>2. CASE b # a
      BY <1>9, <2>1, <2>3, <3>2 DEF IncidentsInv, I!FlagAndFeedbackAgree, I!At
    <3>. QED  BY <3>1, <3>2
  <2>. QED  BY <1>4, <2>2, <2>3 DEF I!FlagAndFeedbackAgree, I!At
<1>13. I!DeletedStaysDeleted'
  BY <1>3, <1>4, <1>6, <1>9 DEF IncidentsInv, I!DeletedStaysDeleted, I!There
<1>14. ReportsInOrder' /\ I!ListedHasLogs'
  BY <1>4, <1>7, <1>9 DEF IncidentsInv, ReportsInOrder, I!ListedHasLogs
<1>15. PutsAreCounted'  BY <1>4, <1>7, <1>8, PutsStayCounted
<1>. QED  BY <1>8, <1>10, <1>11, <1>12, <1>13, <1>14, <1>15 DEF IncidentsInv

\* A request with feedback ends: it is saved, or its alert is noted.
LEMMA IncidentsAnswered ==
    ASSUME IncidentsInv, NEW t \in Threads, I!FileFeedback(t) \/ I!Fail(t)
    PROVE  IncidentsInv'
<1>1. PICK a : a = v6[t].alert  OBVIOUS
<1>2. /\ v6' = [v6 EXCEPT ![t] = I!Nothing] /\ UNCHANGED <<v1, v3, v4, v5, v7>>
      /\ v6[t].at = "file" => v1[a] # "open" /\ a \in Alerts /\ v1[a] # "new"
  BY <1>1 DEF I!FileFeedback, I!Fail, I!Ends, I!Goes, IncidentsInv, FeedbackInOrder
<1>3. /\ \/ v2' = v2
         \/ v6[t].at = "file" /\ Len(v2) < MaxFeedback /\ v2' = Append(v2, a)
      /\ \/ v8' = v8
         \/ v6[t].at = "file" /\ v8' = v8 \cup {a}
      /\ v6[t].at = "file" => v2' = Append(v2, a) \/ a \in v8'
  BY <1>1 DEF I!FileFeedback, I!Fail, I!At
<1>4. I!Nothing \in IncidentRequest /\ I!Nothing.at = "idle"
  BY BoundsAssumption DEF I!Nothing, IncidentRequest
<1>5. v2 \in Seq(Alerts)  BY DEF IncidentsInv, I!TypeOK
<1>6. I!TypeOK'
  <2>1. v2' \in Seq(Alerts) /\ Len(v2') <= MaxFeedback
    <3>1. Len(v2) \in Nat /\ Len(v2) <= MaxFeedback /\ MaxFeedback \in Nat
      BY <1>5, BoundsAssumption DEF IncidentsInv, I!TypeOK
    <3>2. CASE v2' = v2  BY <1>5, <3>1, <3>2
    <3>3. CASE a \in Alerts /\ Len(v2) < MaxFeedback /\ v2' = Append(v2, a)
      BY <1>5, <3>1, <3>3
    <3>. QED  BY <1>2, <1>3, <3>2, <3>3
  <2>2. v8' \subseteq Alerts  BY <1>2, <1>3 DEF IncidentsInv, I!TypeOK
  <2>. QED
    BY <1>2, <1>4, <2>1, <2>2 DEF IncidentsInv, I!TypeOK, IncidentRequest, Documents
<1>7. v6'[t] = I!Nothing /\ \A u \in Threads : u # t => v6'[u] = v6[u]
  BY <1>2 DEF IncidentsInv, I!TypeOK
<1>8. FeedbackInOrder'
  BY <1>2, <1>4, <1>7 DEF IncidentsInv, FeedbackInOrder, I!There
<1>9. \A b \in Alerts :
         /\ I!Contains(v2, b) => I!Contains(v2', b)
         /\ I!Contains(v2', b) => I!Contains(v2, b) \/ (b = a /\ v6[t].at = "file")
         /\ b = a /\ v6[t].at = "file" => I!Contains(v2', b) \/ b \in v8'
  <2>1. CASE v2' = v2  BY <1>3, <1>5, <2>1
  <2>2. CASE v6[t].at = "file" /\ v2' = Append(v2, a)
    <3>1. \A b \in Alerts : I!Contains(v2', b) <=> I!Contains(v2, b) \/ b = a
      BY <1>2, <1>5, <2>2, ContainsAppended
    <3>. QED  BY <2>2, <3>1
  <2>. QED  BY <1>3, <2>1, <2>2
<1>10. AnsweredWasRaised'  BY <1>2, <1>9 DEF IncidentsInv, AnsweredWasRaised
<1>11. I!FlagAndFeedbackAgree'
  <2>1. \A b \in Alerts : I!Contains(v2', b) => v1[b] # "open"
    BY <1>2, <1>9 DEF IncidentsInv, I!FlagAndFeedbackAgree
  <2>2. ASSUME NEW b \in Alerts, v1[b] = "resolved"
        PROVE  \/ I!Contains(v2', b) \/ b \in v8'
               \/ \E u \in Threads : v6'[u].at = "file" /\ v6'[u].alert = b
    <3>1. CASE I!Contains(v2, b) \/ b \in v8  BY <1>3, <1>9, <3>1
    <3>2. ASSUME NEW u \in Threads, v6[u].at = "file", v6[u].alert = b
          PROVE  \/ I!Contains(v2', b) \/ b \in v8'
                 \/ \E w \in Threads : v6'[w].at = "file" /\ v6'[w].alert = b
      BY <1>1, <1>7, <1>9, <3>2
    <3>. QED  BY <2>2, <3>1, <3>2 DEF IncidentsInv, I!FlagAndFeedbackAgree, I!At
  <2>. QED  BY <1>2, <2>1, <2>2 DEF I!FlagAndFeedbackAgree, I!At
<1>12. I!DeletedStaysDeleted' /\ I!ListedHasLogs'
  BY <1>2 DEF IncidentsInv, I!DeletedStaysDeleted, I!ListedHasLogs
<1>13. ReportsInOrder'  BY <1>4, <1>7 DEF IncidentsInv, ReportsInOrder
<1>14. PutsAreCounted'  BY <1>2, <1>4, <1>6, PutsStayCounted
<1>. QED  BY <1>6, <1>8, <1>10, <1>11, <1>12, <1>13, <1>14 DEF IncidentsInv

\* An alert is deleted: requests that have found it and not yet marked it are noted.
LEMMA IncidentsDelete ==
    ASSUME IncidentsInv, NEW t \in Threads, NEW a \in Alerts, I!Delete(t, a)
    PROVE  IncidentsInv'
<1>1. /\ v6[t].at = "idle" /\ I!There(a) /\ v1' = [v1 EXCEPT ![a] = "gone"]
      /\ v6' = [v6 EXCEPT ![t] = I!Nothing] /\ UNCHANGED <<v2, v3, v4, v5, v8>>
      /\ v7 \subseteq v7' /\ v7' \subseteq v7 \cup {a}
      /\ \A u \in Threads : v6[u].at = "mark" /\ v6[u].alert = a => a \in v7'
  BY DEF I!Delete, I!Unused, I!Ends, I!Goes, I!At
<1>2. I!Nothing \in IncidentRequest /\ I!Nothing.at = "idle"
  BY BoundsAssumption DEF I!Nothing, IncidentRequest
<1>3. I!TypeOK'  BY <1>1, <1>2 DEF IncidentsInv, I!TypeOK, IncidentRequest, Documents
<1>4. /\ v6'[t] = I!Nothing /\ \A u \in Threads : u # t => v6'[u] = v6[u]
      /\ v1'[a] = "gone" /\ \A b \in Alerts : b # a => v1'[b] = v1[b]
  BY <1>1 DEF IncidentsInv, I!TypeOK
<1>5. FeedbackInOrder'
  <2>. SUFFICES ASSUME NEW u \in Threads, v6'[u].at \in {"mark", "file"},
                       NEW b, v6'[u].alert = b
                PROVE  /\ b \in Alerts /\ v1'[b] # "new"
                       /\ v6'[u].at = "mark" => I!There(b)' \/ b \in v7'
                       /\ v6'[u].at = "file" => v1'[b] # "open"
    BY DEF FeedbackInOrder, I!There
  <2>1. v6'[u] = v6[u]  BY <1>2, <1>4
  <2>2. CASE b = a
    BY <1>1, <1>4, <2>1, <2>2
  <2>3. CASE b # a
    BY <1>1, <1>4, <2>1, <2>3 DEF IncidentsInv, FeedbackInOrder, I!There
  <2>. QED  BY <2>2, <2>3
<1>6. AnsweredWasRaised'
  <2>1. v7 \subseteq Alerts  BY DEF IncidentsInv, I!TypeOK
  <2>. QED  BY <1>1, <1>4, <2>1 DEF IncidentsInv, AnsweredWasRaised
<1>7. I!FlagAndFeedbackAgree'
  <2>1. \A u \in Threads : v6[u].at = "file" => v6'[u] = v6[u]  BY <1>1, <1>4
  <2>. QED  BY <1>1, <1>4, <2>1 DEF IncidentsInv, I!FlagAndFeedbackAgree, I!At
<1>8. I!DeletedStaysDeleted' /\ I!ListedHasLogs'
  BY <1>1, <1>4 DEF IncidentsInv, I!DeletedStaysDeleted, I!ListedHasLogs
<1>9. ReportsInOrder'  BY <1>2, <1>4 DEF IncidentsInv, ReportsInOrder
<1>10. PutsAreCounted'  BY <1>1, <1>2, <1>3, PutsStayCounted
<1>. QED  BY <1>3, <1>5, <1>6, <1>7, <1>8, <1>9, <1>10 DEF IncidentsInv

\* A restart breaks every request off.
LEMMA IncidentsRestart ==
    ASSUME IncidentsInv, I!Restart
    PROVE  IncidentsInv'
<1>1. /\ v5' = << >> /\ v6' = [t \in Threads |-> I!Nothing]
      /\ v8' = v8 \cup {v6[t].alert : t \in {u \in Threads : v6[u].at = "file"}}
      /\ UNCHANGED <<v1, v2, v3, v4, v7>>
  BY DEF I!Restart, I!At
<1>2. I!Nothing \in IncidentRequest /\ I!Nothing.at = "idle"
  BY BoundsAssumption DEF I!Nothing, IncidentRequest
<1>3. I!TypeOK'
  <2>1. v8' \subseteq Alerts  BY <1>1 DEF IncidentsInv, I!TypeOK, FeedbackInOrder
  <2>. QED  BY <1>1, <1>2, <2>1 DEF IncidentsInv, I!TypeOK, IncidentRequest, Documents
<1>4. FeedbackInOrder' /\ ReportsInOrder'
  BY <1>1, <1>2 DEF FeedbackInOrder, ReportsInOrder
<1>5. AnsweredWasRaised' /\ I!DeletedStaysDeleted' /\ I!ListedHasLogs'
  BY <1>1 DEF IncidentsInv, AnsweredWasRaised, I!DeletedStaysDeleted, I!ListedHasLogs
<1>6. I!FlagAndFeedbackAgree'
  BY <1>1 DEF IncidentsInv, I!FlagAndFeedbackAgree, I!At
<1>7. PutsAreCounted'
  <2>1. Putting' = {}  BY <1>1, <1>2 DEF Putting
  <2>2. Cardinality(Putting') = 0 /\ Len(v5') = 0  BY <1>1, <2>1, FS_EmptySet
  <2>3. Cardinality(Threads) \in Nat  BY PuttingIsFinite
  <2>. QED  BY <2>2, <2>3, BoundsAssumption DEF PutsAreCounted
<1>. QED  BY <1>3, <1>4, <1>5, <1>6, <1>7 DEF IncidentsInv

LEMMA IncidentsStep == IncidentsInv /\ [I!Next]_(I!vars) => IncidentsInv'
<1>. SUFFICES ASSUME IncidentsInv, [I!Next]_(I!vars) PROVE IncidentsInv'  OBVIOUS
<1>1. ASSUME NEW a \in Alerts, I!Raised(a) PROVE IncidentsInv'
  BY <1>1, IncidentsRaised
<1>2. ASSUME UNCHANGED <<v1, v2, v4, v5, v6, v7, v8>>, v3 \subseteq v3',
             v3' \subseteq Shifts \X Guards
      PROVE  IncidentsInv'
  <2>1. I!TypeOK'  BY <1>2 DEF IncidentsInv, I!TypeOK, I!Pairs
  <2>2. FeedbackInOrder' /\ AnsweredWasRaised' /\ ReportsInOrder'
    BY <1>2 DEF IncidentsInv, FeedbackInOrder, AnsweredWasRaised, ReportsInOrder, I!There
  <2>3. I!FlagAndFeedbackAgree' /\ I!DeletedStaysDeleted' /\ I!ListedHasLogs'
    BY <1>2 DEF IncidentsInv, I!FlagAndFeedbackAgree, I!DeletedStaysDeleted,
       I!ListedHasLogs, I!At
  <2>4. PutsAreCounted'  BY <1>2 DEF IncidentsInv, PutsAreCounted, Putting
  <2>. QED  BY <2>1, <2>2, <2>3, <2>4 DEF IncidentsInv
<1>3. ASSUME NEW p \in I!Pairs, I!Logged(p) PROVE IncidentsInv'
  BY <1>2, <1>3 DEF I!Logged, I!Pairs, IncidentsInv, I!TypeOK
<1>4. ASSUME NEW t \in Threads, I!Begin(t) PROVE IncidentsInv'
  BY <1>4, IncidentsBeginFeedback, IncidentsDelete, IncidentsReport DEF I!Begin
<1>5. ASSUME NEW t \in Threads, I!Proceed(t) PROVE IncidentsInv'
  BY <1>5, IncidentsMark, IncidentsAnswered, IncidentsReport DEF I!Proceed, Documents
<1>6. CASE I!Restart
  BY <1>6, IncidentsRestart
<1>7. CASE UNCHANGED I!vars
  BY <1>2, <1>7 DEF I!vars, IncidentsInv, I!TypeOK, I!Pairs
<1>. QED  BY <1>1, <1>3, <1>4, <1>5, <1>6, <1>7 DEF I!Next

--------------------------------------------------------------------------------
(* The geometry of a floor. *)

ScaleShape ==
    /\ scale \in Scales \cup {NoScale} /\ zones \in Layouts
    /\ aps \in [APs -> AP \cup {Unplaced, Removed}]
    /\ request \in [Threads -> Step \cup {Idle}]
    /\ context \in Context \cup {NoContext}
    /\ DOMAIN coords \subseteq APs /\ \A a \in DOMAIN coords : coords[a] \in Metres
    /\ coordsAge \in 0 .. CoordTTL
    /\ buffer \in [APs -> Reading \cup {NoReading}]
    /\ solve \in Report \cup {Idle}
    /\ blurred \subseteq APs /\ unsure \in BOOLEAN /\ rezoned \in BOOLEAN
    /\ quiet \in 0 .. (Settling + 1)

\* Before the floor has a scale no AP is placed and none is heard.
Calibrated ==
    scale = NoScale =>
        /\ Placed = {} /\ Heard = {} /\ DOMAIN coords = {}
        /\ \A t \in Threads : ~Placing(t)

Matches(a) == aps[a].metres = [spot |-> aps[a].spot, scale |-> scale]

\* A rescale that is alone meets no writer, and what it has yet to derive anew it has listed
\* as it is.
LoneRescales ==
    \A t \in Threads : Rescaling(t) /\ request[t].lone =>
        /\ request[t].scale = scale
        /\ \A u \in Threads \ {t} : ~Rescaling(u) /\ ~Placing(u)
        /\ request[t].do = "update" => \A a \in Placed :
              IF a \in DOMAIN request[t].spots THEN request[t].spots[a] = aps[a].spot
                                               ELSE Matches(a)

\* A placement that has met no rescale has the floor's scale.
LonePlacements ==
    \A t \in Threads : Placing(t) /\ request[t].lone =>
        request[t].scale = scale /\ \A u \in Threads : ~Rescaling(u)

\* While no rescale is under way, the metres are right but where one has spoilt them.
MetresInOrder ==
    (\A t \in Threads : ~Rescaling(t)) => \A a \in Placed \ blurred : Matches(a)

WritersInOrder == LoneRescales /\ LonePlacements /\ MetresInOrder

\* What has been read of the floor for a report is the floor as it is, unless an
\* invalidation is to come or came in between, or none followed a change of the zones.
\* The zones that somebody is editing leave the scale as it is.
ScaleUntold == \E t \in Threads : Doing(t) = "invalidate" /\ Rescaling(t)

ReadsAreCurrent ==
    /\ ~ScaleUntold /\ ~unsure =>
          /\ context # NoContext => context.scale = scale
          /\ Solving \in {"zones", "store"} => solve.scale = scale
          /\ Solving = "save" /\ quiet > 0 => solve.scale = scale
    /\ ~Invalidating /\ ~unsure /\ ~rezoned =>
          /\ context # NoContext => context.zones = zones
          /\ Solving = "store" => solve.zones = zones

\* Metres that were read since the last change are the APs'.
MetresAreRecent ==
    /\ coordsAge < quiet =>
          \A a \in DOMAIN coords : a \in Placed /\ coords[a] = aps[a].metres
    /\ \A a \in Heard : buffer[a].age + CoordTTL < quiet =>
          a \in Placed /\ buffer[a].metres = aps[a].metres

ScaleInv == ScaleShape /\ Calibrated /\ WritersInOrder /\ ReadsAreCurrent /\ MetresAreRecent

\* The fields of a request, by its operation.
LEMMA ScaleRequests ==
    ASSUME NEW r \in Step
    PROVE  /\ r # Idle /\ r.op \in {"rescale", "zones", "place", "delete"} /\ r.lone \in BOOLEAN
           /\ r.do \in {"invalidate", "list", "update", "readback", "save", "move", "unzone",
                        "remove"}
           /\ r.op = "rescale" => r.do \in {"invalidate", "list", "update"} /\ r.scale \in Scales
           /\ r.op = "rescale" /\ r.do # "update" =>
                 r \in [op : {"rescale"}, do : {"invalidate", "list"}, scale : Scales,
                        lone : BOOLEAN]
           /\ r.do = "update" =>
                 /\ r.op = "rescale" /\ DOMAIN r.spots \subseteq APs
                 /\ DOMAIN r.spots # {} /\ r.spots \in [DOMAIN r.spots -> Spots]
                 /\ r = [op |-> "rescale", do |-> "update", scale |-> r.scale,
                         lone |-> r.lone, spots |-> r.spots]
           /\ r.op = "zones" =>
                 r \in [op : {"zones"}, do : {"invalidate", "readback"}, lone : BOOLEAN]
           /\ r.op = "place" =>
                 r \in [op : {"place"}, do : {"save", "move"}, ap : APs, spot : Spots,
                        scale : Scales, lone : BOOLEAN]
           /\ r.op = "delete" =>
                 r \in [op : {"delete"}, do : {"unzone"}, lone : BOOLEAN]
                           \cup [op : {"delete"}, do : {"remove"}, rest : SUBSET APs,
                                 lone : BOOLEAN]
           /\ r.do \in {"unzone", "remove"} => r.op = "delete"
BY NothingAssumption DEF Step

\* Whether it has met another writer is noted of a request.
LEMMA LoneSet ==
    ASSUME NEW r \in Step, NEW l \in BOOLEAN
    PROVE  LET s == [r EXCEPT !.lone = l] IN
           /\ s \in Step /\ s.op = r.op /\ s.do = r.do /\ s.lone = l
           /\ r.op \in {"rescale", "place"} => s.scale = r.scale
           /\ r.op = "place" => s.ap = r.ap /\ s.spot = r.spot
<1>. DEFINE s == [r EXCEPT !.lone = l]
<1>1. CASE r.op = "rescale" /\ r.do # "update"
  BY <1>1, ScaleRequests DEF Step
<1>2. CASE r.op = "rescale" /\ r.do = "update"
  <2>1. r = [op |-> "rescale", do |-> "update", scale |-> r.scale, lone |-> r.lone,
             spots |-> r.spots]
    BY <1>2, ScaleRequests
  <2>2. s = [op |-> "rescale", do |-> "update", scale |-> r.scale, lone |-> l,
             spots |-> r.spots]
    BY <2>1
  <2>3. /\ DOMAIN r.spots \in SUBSET APs /\ DOMAIN r.spots # {} /\ r.scale \in Scales
        /\ r.spots \in [DOMAIN r.spots -> Spots]
    BY <1>2, ScaleRequests
  <2>4. r.spots \in UNION {[S -> Spots] : S \in SUBSET APs}  BY <2>3
  <2>5. s \in Step  BY <2>2, <2>3, <2>4 DEF Step
  <2>. QED  BY <1>2, <2>2, <2>5
<1>3. CASE r.op = "zones"
  BY <1>3, ScaleRequests DEF Step
<1>4. CASE r.op = "place"
  BY <1>4, ScaleRequests DEF Step
<1>5. CASE r.op = "delete" /\ r.do = "unzone"
  BY <1>5, ScaleRequests DEF Step
<1>6. CASE r.op = "delete" /\ r.do = "remove"
  BY <1>6, ScaleRequests DEF Step
<1>. QED  BY <1>1, <1>2, <1>3, <1>4, <1>5, <1>6, ScaleRequests

\* A request begins: it, and those it clashes with, are not alone.
LEMMA BeginEffect ==
    ASSUME ScaleShape, NEW t \in Threads, NEW r \in Step, Begin(t, r)
    PROVE  /\ request' \in [Threads -> Step \cup {Idle}]
           /\ request'[t] \in Step /\ request'[t].op = r.op /\ request'[t].do = r.do
           /\ r.op \in {"rescale", "place"} => request'[t].scale = r.scale
           /\ r.op = "place" => request'[t].ap = r.ap /\ request'[t].spot = r.spot
           /\ request'[t].lone => \A u \in Threads \ {t} : ~Clash(r.op, u)
           /\ \A u \in Threads \ {t} :
                 /\ (request'[u] = Idle) <=> (request[u] = Idle)
                 /\ request[u] # Idle =>
                       /\ request'[u].op = request[u].op /\ request'[u].do = request[u].do
                       /\ request'[u].lone => ~Clash(r.op, u) /\ request'[u] = request[u]
<1>. DEFINE alone == \A v \in Threads \ {t} : ~Clash(r.op, v)
<1>1. \A u \in Threads : request'[u] = IF u = t THEN [r EXCEPT !.lone = alone]
                                       ELSE IF Clash(r.op, u)
                                            THEN [request[u] EXCEPT !.lone = FALSE]
                                       ELSE request[u]
  BY DEF Begin
<1>2. alone \in BOOLEAN  OBVIOUS
<1>3. LET s == [r EXCEPT !.lone = alone] IN
      /\ s \in Step /\ s.op = r.op /\ s.do = r.do /\ s.lone = alone
      /\ r.op \in {"rescale", "place"} => s.scale = r.scale
      /\ r.op = "place" => s.ap = r.ap /\ s.spot = r.spot
  BY <1>2, LoneSet
<1>4. ASSUME NEW u \in Threads \ {t}
      PROVE  /\ request'[u] \in Step \cup {Idle}
             /\ (request'[u] = Idle) <=> (request[u] = Idle)
             /\ request[u] # Idle =>
                   /\ request'[u].op = request[u].op /\ request'[u].do = request[u].do
                   /\ request'[u].lone => ~Clash(r.op, u) /\ request'[u] = request[u]
  <2>1. CASE Clash(r.op, u)
    <3>1. request[u] \in Step
      BY <2>1 DEF Clash, Rescaling, Placing, ScaleShape
    <3>2. request'[u] = [request[u] EXCEPT !.lone = FALSE]  BY <1>1, <2>1
    <3>3. LET s == [request[u] EXCEPT !.lone = FALSE] IN
          /\ s \in Step /\ s.op = request[u].op /\ s.do = request[u].do /\ s.lone = FALSE
      BY <3>1, LoneSet
    <3>4. request[u] # Idle /\ request'[u] # Idle  BY <3>1, <3>2, <3>3, ScaleRequests
    <3>. QED  BY <3>2, <3>3, <3>4
  <2>2. CASE ~Clash(r.op, u)
    BY <1>1, <2>2 DEF ScaleShape
  <2>. QED  BY <2>1, <2>2
<1>5. request' = [u \in Threads |-> request'[u]]  BY DEF Begin
<1>6. /\ request'[t] \in Step /\ request'[t].op = r.op /\ request'[t].do = r.do
      /\ request'[t].lone = alone
      /\ r.op \in {"rescale", "place"} => request'[t].scale = r.scale
      /\ r.op = "place" => request'[t].ap = r.ap /\ request'[t].spot = r.spot
  BY <1>1, <1>3
<1>7. \A u \in Threads : request'[u] \in Step \cup {Idle}  BY <1>4, <1>6
<1>8. request' \in [Threads -> Step \cup {Idle}]  BY <1>5, <1>7
<1>. QED  BY <1>4, <1>6, <1>8

LEMMA ScaleInit == Init => ScaleInv
<1>. SUFFICES ASSUME Init PROVE ScaleInv  OBVIOUS
<1>1. ScaleShape
  <2>1. 0 \in 0 .. CoordTTL /\ 0 \in 0 .. (Settling + 1)
    BY TimesAssumption DEF Settling
  <2>2. DOMAIN coords = {}  BY DEF Init
  <2>. QED  BY <2>1, <2>2 DEF Init, ScaleShape
<1>2. \A t \in Threads : ~Rescaling(t) /\ ~Placing(t) /\ Doing(t) = "nothing"
  BY DEF Init, Rescaling, Placing, Doing
<1>3. Placed = {} /\ Heard = {} /\ Solving = "nothing"
  BY DEF Init, Placed, Heard, Solving
<1>4. Calibrated  BY <1>2, <1>3 DEF Init, Calibrated
<1>5. WritersInOrder
  BY <1>2, <1>3 DEF WritersInOrder, LoneRescales, LonePlacements, MetresInOrder
<1>6. ReadsAreCurrent  BY <1>3 DEF Init, ReadsAreCurrent
<1>7. MetresAreRecent  BY <1>3 DEF Init, MetresAreRecent
<1>. QED  BY <1>1, <1>4, <1>5, <1>6, <1>7 DEF ScaleInv

\* What is asked of positions follows.
LEMMA ScaleSafe == ScaleInv => ScaleHolds
<1>. SUFFICES ASSUME ScaleInv PROVE ScaleHolds  OBVIOUS
<1>1. TypeOK
  BY DEF ScaleInv, ScaleShape, TypeOK
<1>2. MetresMatchScale
  BY DEF ScaleInv, WritersInOrder, MetresInOrder, MetresMatchScale, Writing, Matches
<1>3. ContextIsCurrent
  BY DEF ScaleInv, ReadsAreCurrent, ContextIsCurrent, Invalidating, ScaleUntold
<1>4. SolvedInOneScale
  <2>. SUFFICES ASSUME Solving = "save", quiet > Settling, ~Writing, ~Invalidating, ~unsure,
                       blurred = {}, NEW a \in Heard
                PROVE  /\ a \in Placed
                       /\ buffer[a].metres = [spot |-> aps[a].spot, scale |-> solve.scale]
    BY DEF SolvedInOneScale
  <2>1. a \in APs /\ buffer[a] \in Reading  BY DEF Heard, ScaleInv, ScaleShape
  <2>2. buffer[a].age \in 0 .. BufferWindow  BY <2>1 DEF Reading
  <2>3. quiet \in Nat /\ quiet > 0 /\ buffer[a].age + CoordTTL < quiet
    <3>1. quiet \in 0 .. (CoordTTL + BufferWindow + 1) /\ quiet > CoordTTL + BufferWindow
      BY DEF ScaleInv, ScaleShape, Settling
    <3>. QED  BY <2>2, <3>1, TimesAssumption
  <2>4. a \in Placed /\ buffer[a].metres = aps[a].metres
    BY <2>3 DEF ScaleInv, MetresAreRecent
  <2>5. Matches(a)
    BY <2>4 DEF ScaleInv, WritersInOrder, MetresInOrder, Writing
  <2>6. solve.scale = scale
    BY <2>3 DEF ScaleInv, ReadsAreCurrent, Invalidating, ScaleUntold
  <2>. QED  BY <2>4, <2>5, <2>6 DEF Matches
<1>. QED  BY <1>1, <1>2, <1>3, <1>4 DEF ScaleHolds

\* Nothing that the writers know of has changed.
LEMMA WritersSame ==
    ASSUME WritersInOrder, UNCHANGED <<scale, aps, request, blurred>>
    PROVE  WritersInOrder'
BY DEF WritersInOrder, LoneRescales, LonePlacements, MetresInOrder, Rescaling, Placing, Placed,
       Matches

\* A rescale goes on, before it lists the APs, or a request that is not one ends.
LEMMA WritersGoOn ==
    ASSUME ScaleShape, WritersInOrder, UNCHANGED <<scale, aps, blurred>>, NEW t \in Threads,
           NEW r \in Step \cup {Idle}, request' = [request EXCEPT ![t] = r],
           Rescaling(t) <=> r # Idle /\ r.op = "rescale",
           Rescaling(t) => /\ r.lone = request[t].lone /\ r.scale = request[t].scale
                           /\ r.do # "update",
           r # Idle => r.op # "place"
    PROVE  WritersInOrder'
<1>1. request'[t] = r /\ \A u \in Threads : u # t => request'[u] = request[u]
  BY DEF ScaleShape
<1>2. \A u \in Threads : /\ Rescaling(u)' <=> Rescaling(u)
                         /\ Placing(u)' => Placing(u) /\ u # t
  BY <1>1 DEF Rescaling, Placing
<1>3. LoneRescales'
  <2>. SUFFICES ASSUME NEW u \in Threads, Rescaling(u), request'[u].lone
                PROVE  /\ request'[u].scale = scale
                       /\ \A v \in Threads \ {u} : ~Rescaling(v) /\ ~Placing(v)
                       /\ request'[u].do = "update" => \A a \in Placed :
                             IF a \in DOMAIN request'[u].spots
                             THEN request'[u].spots[a] = aps[a].spot ELSE Matches(a)
    BY <1>2 DEF LoneRescales, Placed, Matches
  <2>1. CASE u = t  BY <1>1, <2>1 DEF WritersInOrder, LoneRescales
  <2>2. CASE u # t  BY <1>1, <2>2 DEF WritersInOrder, LoneRescales
  <2>. QED  BY <2>1, <2>2
<1>4. LonePlacements'
  BY <1>1, <1>2 DEF WritersInOrder, LonePlacements
<1>5. MetresInOrder'
  BY <1>2 DEF WritersInOrder, MetresInOrder, Placed, Matches
<1>. QED  BY <1>3, <1>4, <1>5 DEF WritersInOrder

\* After a change nothing that was read is recent.
LEMMA NothingIsRecent ==
    ASSUME ScaleShape', quiet' = 0
    PROVE  MetresAreRecent'
<1>1. coordsAge' \in Nat /\ CoordTTL \in Nat  BY TimesAssumption DEF ScaleShape
<1>2. \A a \in Heard' : buffer'[a].age \in Nat
  BY TimesAssumption DEF ScaleShape, Heard, Reading
<1>. QED  BY <1>1, <1>2 DEF MetresAreRecent

LEMMA RecentSame ==
    ASSUME MetresAreRecent, UNCHANGED <<aps, coords, coordsAge, buffer, quiet>>
    PROVE  MetresAreRecent'
BY DEF MetresAreRecent, Placed, Heard

LEMMA CalibratedSame ==
    ASSUME Calibrated, UNCHANGED <<scale, aps, coords, buffer>>,
           scale = NoScale => \A t \in Threads : Placing(t)' => Placing(t)
    PROVE  Calibrated'
BY DEF Calibrated, Placed, Heard

\* What reports have read stands, as long as no invalidation ends.
LEMMA ReadsSame ==
    ASSUME ReadsAreCurrent, UNCHANGED <<scale, zones, context, solve, unsure, rezoned>>,
           quiet' = quiet \/ quiet' = 0, Invalidating => Invalidating', ScaleUntold => ScaleUntold'
    PROVE  ReadsAreCurrent'
BY DEF ReadsAreCurrent, Solving

\* An idle thread begins a request: what the others do is the same.
LEMMA BeginKeeps ==
    ASSUME ScaleShape, NEW t \in Threads, request[t] = Idle, NEW r \in Step, Begin(t, r)
    PROVE  /\ request' \in [Threads -> Step \cup {Idle}]
           /\ Doing(t)' = r.do
           /\ Rescaling(t)' <=> r.op = "rescale"
           /\ Placing(t)' <=> r.op = "place"
           /\ ~Rescaling(t) /\ ~Placing(t) /\ Doing(t) = "nothing"
           /\ \A u \in Threads \ {t} :
                 /\ Doing(u)' = Doing(u)
                 /\ Rescaling(u)' <=> Rescaling(u)
                 /\ Placing(u)' <=> Placing(u)
           /\ Invalidating => Invalidating'
           /\ ScaleUntold => ScaleUntold'
<1>1. /\ request' \in [Threads -> Step \cup {Idle}] /\ request'[t] \in Step
      /\ request'[t].op = r.op /\ request'[t].do = r.do
      /\ \A u \in Threads \ {t} :
            /\ (request'[u] = Idle) <=> (request[u] = Idle)
            /\ request[u] # Idle =>
                  request'[u].op = request[u].op /\ request'[u].do = request[u].do
  BY BeginEffect
<1>2. request'[t] # Idle  BY <1>1, ScaleRequests
<1>3. /\ Doing(t)' = r.do
      /\ Rescaling(t)' <=> r.op = "rescale"
      /\ Placing(t)' <=> r.op = "place"
      /\ ~Rescaling(t) /\ ~Placing(t) /\ Doing(t) = "nothing"
  BY <1>1, <1>2 DEF Doing, Rescaling, Placing
<1>4. ASSUME NEW u \in Threads \ {t}
      PROVE  /\ Doing(u)' = Doing(u)
             /\ Rescaling(u)' <=> Rescaling(u)
             /\ Placing(u)' <=> Placing(u)
  BY <1>1 DEF Doing, Rescaling, Placing
<1>5. Invalidating => Invalidating'
  BY <1>3, <1>4 DEF Invalidating
<1>6. ScaleUntold => ScaleUntold'
  BY <1>3, <1>4 DEF ScaleUntold
<1>. QED  BY <1>1, <1>3, <1>4, <1>5, <1>6

LEMMA ScaleRescale ==
    ASSUME ScaleInv, NEW t \in Threads, NEW s \in Scales, Rescale(t, s)
    PROVE  ScaleInv'
<1>. DEFINE r == [op |-> "rescale", do |-> "invalidate", scale |-> s, lone |-> TRUE]
<1>1. /\ request[t] = Idle /\ scale' = s /\ Begin(t, r) /\ quiet' = 0
      /\ UNCHANGED <<zones, aps, context, coords, coordsAge, buffer, solve, blurred, unsure,
                     rezoned>>
  BY DEF Rescale, ingestVars, doubt
<1>2. r \in Step  BY DEF Step
<1>3. /\ request' \in [Threads -> Step \cup {Idle}] /\ Doing(t)' = "invalidate"
      /\ Rescaling(t)' /\ ~Placing(t)'
      /\ \A u \in Threads \ {t} : /\ Rescaling(u)' <=> Rescaling(u)
                                  /\ Placing(u)' <=> Placing(u)
  BY <1>1, <1>2, BeginKeeps DEF ScaleInv
<1>4. ScaleShape'
  <2>1. 0 \in 0 .. (Settling + 1)  BY TimesAssumption DEF Settling
  <2>. QED  BY <1>1, <1>3, <2>1 DEF ScaleInv, ScaleShape
<1>5. Calibrated'  BY <1>1, NothingAssumption DEF Calibrated
<1>6. /\ request'[t].scale = s /\ request'[t].do = "invalidate"
      /\ request'[t].lone => \A u \in Threads \ {t} : ~Rescaling(u) /\ ~Placing(u)
      /\ \A u \in Threads \ {t} : request[u] # Idle /\ request'[u].lone =>
            ~Rescaling(u) /\ ~Placing(u)
  BY <1>1, <1>2, BeginEffect DEF ScaleInv, Clash
<1>7. WritersInOrder'
  <2>1. LoneRescales'  BY <1>1, <1>3, <1>6 DEF LoneRescales, Rescaling
  <2>2. LonePlacements'  BY <1>3, <1>6 DEF LonePlacements, Placing
  <2>3. MetresInOrder'  BY <1>3 DEF MetresInOrder
  <2>. QED  BY <2>1, <2>2, <2>3 DEF WritersInOrder
<1>8. ReadsAreCurrent'  BY <1>3 DEF ReadsAreCurrent, Invalidating, ScaleUntold
<1>9. MetresAreRecent'  BY <1>1, <1>4, NothingIsRecent
<1>. QED  BY <1>4, <1>5, <1>7, <1>8, <1>9 DEF ScaleInv

\* Zones are edited, or a deletion begins: no metres are written.
LEMMA ScaleEditZones ==
    ASSUME ScaleInv, NEW t \in Threads,
           \/ \E z \in Layouts, do \in {"invalidate", "readback"} : EditZones(t, z, do)
           \/ BeginDeletion(t)
    PROVE  ScaleInv'
<1>1. PICK r \in Step :
         /\ r.op \in {"zones", "delete"} /\ request[t] = Idle /\ Begin(t, r)
         /\ zones' \in Layouts /\ (zones' = zones \/ r.do \in {"invalidate", "readback"})
         /\ UNCHANGED <<scale, aps, context, coords, coordsAge, buffer, solve, blurred, unsure,
                        rezoned, quiet>>
  <2>1. CASE \E z \in Layouts, do \in {"invalidate", "readback"} : EditZones(t, z, do)
    <3>1. PICK z \in Layouts, do \in {"invalidate", "readback"} : EditZones(t, z, do)
      BY <2>1
    <3>2. [op |-> "zones", do |-> do, lone |-> TRUE] \in Step  BY DEF Step
    <3>. QED  BY <3>1, <3>2 DEF EditZones, ingestVars, doubt
  <2>2. CASE BeginDeletion(t)
    <3>1. [op |-> "delete", do |-> "unzone", lone |-> TRUE] \in Step  BY DEF Step
    <3>2. zones \in Layouts  BY DEF ScaleInv, ScaleShape
    <3>. QED  BY <2>2, <3>1, <3>2 DEF BeginDeletion, floorVars, ingestVars, doubt
  <2>. QED  BY <2>1, <2>2
<1>3. /\ request' \in [Threads -> Step \cup {Idle}] /\ Doing(t)' = r.do
      /\ ~Rescaling(t)' /\ ~Placing(t)' /\ ~Rescaling(t) /\ ~Placing(t)
      /\ (Invalidating => Invalidating') /\ (ScaleUntold => ScaleUntold')
      /\ \A u \in Threads \ {t} : /\ Rescaling(u)' <=> Rescaling(u)
                                  /\ Placing(u)' <=> Placing(u)
                                  /\ Doing(u)' = Doing(u)
  BY <1>1, BeginKeeps DEF ScaleInv
<1>4. ScaleShape'  BY <1>1, <1>3 DEF ScaleInv, ScaleShape
<1>5. Calibrated'  BY <1>1, <1>3, CalibratedSame DEF ScaleInv
<1>6. \A u \in Threads \ {t} : request[u] # Idle /\ request'[u].lone => request'[u] = request[u]
  BY <1>1, BeginEffect DEF ScaleInv
<1>7. WritersInOrder'
  <2>1. LoneRescales'
    <3>. SUFFICES ASSUME NEW u \in Threads, Rescaling(u)', request'[u].lone
                  PROVE  /\ request'[u].scale = scale
                         /\ \A v \in Threads \ {u} : ~Rescaling(v)' /\ ~Placing(v)'
                         /\ request'[u].do = "update" => \A a \in Placed :
                               IF a \in DOMAIN request'[u].spots
                               THEN request'[u].spots[a] = aps[a].spot ELSE Matches(a)
      BY <1>1 DEF LoneRescales, Placed, Matches
    <3>1. u # t /\ Rescaling(u)  BY <1>3
    <3>2. request'[u] = request[u]  BY <1>6, <3>1 DEF Rescaling
    <3>. QED  BY <1>3, <3>1, <3>2 DEF ScaleInv, WritersInOrder, LoneRescales
  <2>2. LonePlacements'
    <3>. SUFFICES ASSUME NEW u \in Threads, Placing(u)', request'[u].lone
                  PROVE  request'[u].scale = scale /\ \A v \in Threads : ~Rescaling(v)'
      BY <1>1 DEF LonePlacements
    <3>1. u # t /\ Placing(u)  BY <1>3
    <3>2. request'[u] = request[u]  BY <1>6, <3>1 DEF Placing
    <3>. QED  BY <1>3, <3>1, <3>2 DEF ScaleInv, WritersInOrder, LonePlacements
  <2>3. MetresInOrder'
    BY <1>1, <1>3 DEF ScaleInv, WritersInOrder, MetresInOrder, Placed, Matches
  <2>. QED  BY <2>1, <2>2, <2>3 DEF WritersInOrder
<1>8. ReadsAreCurrent'
  <2>1. CASE zones' = zones  BY <1>1, <1>3, <2>1, ReadsSame DEF ScaleInv
  <2>2. CASE r.do \in {"invalidate", "readback"}
    <3>1. Invalidating'  BY <1>3, <2>2 DEF Invalidating
    <3>2. Solving' = Solving  BY <1>1 DEF Solving
    <3>. QED  BY <1>1, <1>3, <3>1, <3>2 DEF ScaleInv, ReadsAreCurrent
  <2>. QED  BY <1>1, <2>1, <2>2
<1>9. MetresAreRecent'  BY <1>1, RecentSame DEF ScaleInv
<1>. QED  BY <1>4, <1>5, <1>7, <1>8, <1>9 DEF ScaleInv

LEMMA ScalePlace ==
    ASSUME ScaleInv, NEW t \in Threads, NEW a \in APs, NEW p \in Spots,
           Place(t, a, p) \/ Reposition(t, a, p)
    PROVE  ScaleInv'
<1>1. PICK r \in Step :
         /\ r.op = "place" /\ r.scale = scale /\ r.do \in {"save", "move"}
         /\ request[t] = Idle /\ scale # NoScale /\ Begin(t, r)
         /\ UNCHANGED <<scale, zones, aps, context, coords, coordsAge, buffer, solve, blurred,
                        unsure, rezoned, quiet>>
  <2>. DEFINE q(do) == [op |-> "place", do |-> do, ap |-> a, spot |-> p, scale |-> scale,
                        lone |-> TRUE]
  <2>1. scale # NoScale  BY DEF Place, Reposition
  <2>2. q("save") \in Step /\ q("move") \in Step
    BY <2>1 DEF Step, ScaleInv, ScaleShape
  <2>. QED  BY <2>1, <2>2 DEF Place, Reposition, floorVars, ingestVars, doubt
<1>2. /\ request' \in [Threads -> Step \cup {Idle}]
      /\ ~Rescaling(t)' /\ ~Rescaling(t) /\ ~Placing(t)
      /\ (Invalidating => Invalidating') /\ (ScaleUntold => ScaleUntold')
      /\ \A u \in Threads \ {t} : /\ Rescaling(u)' <=> Rescaling(u)
                                  /\ Placing(u)' <=> Placing(u)
  BY <1>1, BeginKeeps DEF ScaleInv
<1>3. ScaleShape'  BY <1>1, <1>2 DEF ScaleInv, ScaleShape
<1>4. Calibrated'  BY <1>1, CalibratedSame DEF ScaleInv
<1>5. /\ request'[t].scale = scale
      /\ request'[t].lone => \A u \in Threads \ {t} : ~Rescaling(u)
      /\ \A u \in Threads \ {t} : request[u] # Idle /\ request'[u].lone =>
            ~Rescaling(u) /\ request'[u] = request[u]
  BY <1>1, BeginEffect DEF ScaleInv, Clash
<1>6. WritersInOrder'
  <2>1. LoneRescales'  BY <1>2, <1>5 DEF LoneRescales, Rescaling
  <2>2. LonePlacements'
    <3>. SUFFICES ASSUME NEW u \in Threads, Placing(u)', request'[u].lone
                  PROVE  request'[u].scale = scale /\ \A v \in Threads : ~Rescaling(v)'
      BY <1>1 DEF LonePlacements
    <3>1. CASE u = t  BY <1>2, <1>5, <3>1
    <3>2. CASE u # t
      <4>1. Placing(u) /\ request'[u] = request[u]  BY <1>2, <1>5, <3>2 DEF Placing
      <4>. QED  BY <1>2, <4>1 DEF ScaleInv, WritersInOrder, LonePlacements
    <3>. QED  BY <3>1, <3>2
  <2>3. MetresInOrder'
    BY <1>1, <1>2 DEF ScaleInv, WritersInOrder, MetresInOrder, Placed, Matches
  <2>. QED  BY <2>1, <2>2, <2>3 DEF WritersInOrder
<1>7. ReadsAreCurrent'  BY <1>1, <1>2, ReadsSame DEF ScaleInv
<1>8. MetresAreRecent'  BY <1>1, RecentSame DEF ScaleInv
<1>. QED  BY <1>3, <1>4, <1>6, <1>7, <1>8 DEF ScaleInv

\* A request that edits zones reads one back, a deletion lists the APs, or a request ends
\* that has no metres to write, or has written none.
LEMMA ScaleEnds ==
    ASSUME ScaleInv, NEW t \in Threads,
           \/ ReadBack(t) \/ ReadBackRaises(t) \/ SaveRaises(t)
           \/ ListToDelete(t) \/ DeletionRaises(t)
    PROVE  ScaleInv'
<1>1. PICK r \in Step \cup {Idle} :
         /\ request' = [request EXCEPT ![t] = r]
         /\ r # Idle => r.op \in {"zones", "delete"}
         /\ ~Rescaling(t)
         /\ Doing(t) \in {"readback", "invalidate"} =>
               (r # Idle /\ r.do = "invalidate") \/ ReadBackRaises(t)
  <2>1. CASE ReadBack(t)
    <3>1. Doing(t) = "readback"  BY <2>1 DEF ReadBack
    <3>2. request[t] \in Step /\ request[t].do = "readback"
      BY <3>1 DEF Doing, ScaleInv, ScaleShape
    <3>3. PICK r : r = [request[t] EXCEPT !.do = "invalidate"]  OBVIOUS
    <3>4. request[t] \in [op : {"zones"}, do : {"invalidate", "readback"}, lone : BOOLEAN]
      BY <3>2, ScaleRequests
    <3>5. r \in Step /\ r # Idle /\ r.op = "zones" /\ r.do = "invalidate"
      BY <3>3, <3>4, ScaleRequests DEF Step
    <3>. QED  BY <2>1, <3>3, <3>4, <3>5 DEF ReadBack, Goes, Rescaling
  <2>2. CASE ReadBackRaises(t)
    <3>1. Doing(t) = "readback"  BY <2>2 DEF ReadBackRaises
    <3>2. ~Rescaling(t)
      BY <3>1, ScaleRequests DEF Doing, Rescaling, ScaleInv, ScaleShape
    <3>. QED  BY <2>2, <3>2 DEF ReadBackRaises, Goes
  <2>3. CASE SaveRaises(t)
    <3>1. Placing(t)  BY <2>3 DEF SaveRaises
    <3>2. ~Rescaling(t) /\ Doing(t) \notin {"readback", "invalidate"}
      BY <3>1, ScaleRequests DEF Placing, Rescaling, Doing, ScaleInv, ScaleShape
    <3>. QED  BY <2>3, <3>2 DEF SaveRaises, Goes
  <2>4. CASE ListToDelete(t) \/ DeletionRaises(t)
    <3>1. Doing(t) \in {"unzone", "remove"}  BY <2>4 DEF ListToDelete, DeletionRaises
    <3>2. request[t] \in Step /\ request[t].op = "delete" /\ request[t].lone \in BOOLEAN
      BY <3>1, ScaleRequests DEF Doing, ScaleInv, ScaleShape
    <3>3. PICK r : r = [op |-> "delete", do |-> "remove", rest |-> Placed,
                        lone |-> request[t].lone]
      OBVIOUS
    <3>4. r \in Step /\ r.op = "delete"  BY <3>2, <3>3 DEF Step, Placed
    <3>5. ~Rescaling(t)  BY <3>2 DEF Rescaling
    <3>6. request' \in {[request EXCEPT ![t] = r], [request EXCEPT ![t] = Idle]}
      BY <2>4, <3>3 DEF ListToDelete, DeletionRaises, Goes
    <3>. QED  BY <3>1, <3>4, <3>5, <3>6
  <2>. QED  BY <2>1, <2>2, <2>3, <2>4
<1>2. /\ UNCHANGED <<scale, zones, aps, context, coords, coordsAge, buffer, solve, blurred,
                     unsure, quiet>>
      /\ (rezoned' = rezoned) \/ ReadBackRaises(t)
      /\ ReadBackRaises(t) => rezoned' = (rezoned \/ ZonesAreRead)
  BY DEF ReadBack, ReadBackRaises, SaveRaises, ListToDelete, DeletionRaises, floorVars,
         ingestVars, doubt
<1>3. request'[t] = r /\ \A u \in Threads : u # t => request'[u] = request[u]
  BY <1>1 DEF ScaleInv, ScaleShape
<1>4. ScaleShape'
  <2>1. rezoned' \in BOOLEAN
    BY <1>2 DEF ScaleInv, ScaleShape
  <2>. QED  BY <1>1, <1>2, <2>1 DEF ScaleInv, ScaleShape
<1>5. Calibrated'
  BY <1>1, <1>2, <1>3, CalibratedSame DEF ScaleInv, Placing
<1>6. WritersInOrder'
  <2>1. r # Idle => r.op # "rescale" /\ r.op # "place"  BY <1>1
  <2>. QED  BY <1>1, <1>2, <2>1, WritersGoOn DEF ScaleInv
<1>7. ReadsAreCurrent'
  <2>1. \A u \in Threads : u # t => Doing(u)' = Doing(u) /\ (Rescaling(u)' <=> Rescaling(u))
    BY <1>3 DEF Doing, Rescaling
  <2>2. ScaleUntold => ScaleUntold'  BY <1>1, <2>1 DEF ScaleUntold
  <2>3. CASE ReadBackRaises(t)
    <3>1. Solving' = Solving  BY <1>2 DEF Solving
    <3>2. ~rezoned' => context = NoContext /\ Solving # "store"
      BY <1>2, <2>3 DEF ZonesAreRead
    <3>. QED  BY <1>2, <2>2, <3>1, <3>2 DEF ScaleInv, ReadsAreCurrent
  <2>4. CASE ~ReadBackRaises(t)
    <3>1. Doing(t) \in {"readback", "invalidate"} => Doing(t)' = "invalidate"
      BY <1>1, <1>3, <2>4 DEF Doing
    <3>2. Invalidating => Invalidating'  BY <2>1, <3>1 DEF Invalidating
    <3>. QED  BY <1>2, <2>2, <2>4, <3>2, ReadsSame DEF ScaleInv
  <2>. QED  BY <2>3, <2>4
<1>8. MetresAreRecent'  BY <1>2, RecentSame DEF ScaleInv
<1>. QED  BY <1>4, <1>5, <1>6, <1>7, <1>8 DEF ScaleInv

\* A deletion takes a zone: what has been read of the zones is noted to be old.
LEMMA ScaleDeleteZone ==
    ASSUME ScaleInv, NEW t \in Threads, NEW z \in Layouts, DeleteZone(t, z)
    PROVE  ScaleInv'
<1>1. /\ zones' = z /\ rezoned' = (rezoned \/ ZonesAreRead)
      /\ UNCHANGED <<scale, aps, request, context, coords, coordsAge, buffer, solve, blurred,
                     unsure, quiet>>
  BY DEF DeleteZone, ingestVars
<1>2. ScaleShape'
  <2>1. rezoned' \in BOOLEAN  BY <1>1 DEF ScaleInv, ScaleShape
  <2>. QED  BY <1>1, <2>1 DEF ScaleInv, ScaleShape
<1>3. Calibrated'  BY <1>1, CalibratedSame DEF ScaleInv, Placing
<1>4. WritersInOrder'  BY <1>1, WritersSame DEF ScaleInv
<1>5. ReadsAreCurrent'
  <2>1. Solving' = Solving /\ (ScaleUntold' <=> ScaleUntold)
    BY <1>1 DEF Solving, ScaleUntold, Doing, Rescaling
  <2>2. ~rezoned' => context = NoContext /\ Solving # "store"
    BY <1>1 DEF ZonesAreRead
  <2>. QED  BY <1>1, <2>1, <2>2 DEF ScaleInv, ReadsAreCurrent
<1>6. MetresAreRecent'  BY <1>1, RecentSame DEF ScaleInv
<1>. QED  BY <1>2, <1>3, <1>4, <1>5, <1>6 DEF ScaleInv

LEMMA ScaleInvalidate ==
    ASSUME ScaleInv, NEW t \in Threads, Invalidate(t)
    PROVE  ScaleInv'
<1>1. /\ context' = NoContext /\ quiet' = 0
      /\ unsure' = (Solving \in {"zones", "store"}) /\ rezoned' = FALSE
      /\ UNCHANGED <<scale, zones, aps, coords, coordsAge, buffer, solve, blurred>>
  BY DEF Invalidate, floorVars, ingestVars, doubt
<1>2. request[t] \in Step /\ request[t].do = "invalidate" /\ request[t] # Idle
  BY DEF Invalidate, Doing, ScaleInv, ScaleShape
<1>3. PICK r \in Step \cup {Idle} :
         /\ request' = [request EXCEPT ![t] = r]
         /\ Rescaling(t) <=> r # Idle /\ r.op = "rescale"
         /\ Rescaling(t) => /\ r.lone = request[t].lone /\ r.scale = request[t].scale
                            /\ r.do # "update"
         /\ r # Idle => r.op # "place"
  <2>1. CASE Rescaling(t)
    <3>1. PICK r : r = [request[t] EXCEPT !.do = "list"]  OBVIOUS
    <3>2. request[t] \in [op : {"rescale"}, do : {"invalidate", "list"}, scale : Scales,
                          lone : BOOLEAN]
      BY <1>2, <2>1, ScaleRequests DEF Rescaling
    <3>3. /\ r \in Step /\ r # Idle /\ r.op = "rescale" /\ r.do = "list"
          /\ r.lone = request[t].lone /\ r.scale = request[t].scale
      BY <3>1, <3>2, ScaleRequests DEF Step
    <3>. QED  BY <2>1, <3>1, <3>3 DEF Invalidate, Goes
  <2>2. CASE ~Rescaling(t)
    BY <2>2 DEF Invalidate, Goes
  <2>. QED  BY <2>1, <2>2
<1>4. request'[t] = r /\ \A u \in Threads : u # t => request'[u] = request[u]
  BY <1>3 DEF ScaleInv, ScaleShape
<1>5. ScaleShape'
  <2>1. 0 \in 0 .. (Settling + 1)  BY TimesAssumption DEF Settling
  <2>2. (Solving \in {"zones", "store"}) \in BOOLEAN  OBVIOUS
  <2>3. unsure' = (Solving \in {"zones", "store"}) /\ rezoned' = FALSE  BY <1>1
  <2>4. unsure' \in BOOLEAN  BY <2>2, <2>3, Zenon
  <2>. QED  BY <1>1, <1>3, <2>1, <2>3, <2>4 DEF ScaleInv, ScaleShape
<1>6. Calibrated'  BY <1>1, <1>3, <1>4, CalibratedSame DEF ScaleInv, Placing
<1>7. WritersInOrder'  BY <1>1, <1>3, WritersGoOn DEF ScaleInv
<1>8. ReadsAreCurrent'
  <2>1. Solving' = Solving  BY <1>1 DEF Solving
  <2>2. ~unsure' => Solving \notin {"zones", "store"}  BY <1>1
  <2>. QED  BY <1>1, <2>1, <2>2 DEF ReadsAreCurrent
<1>9. MetresAreRecent'  BY <1>1, <1>5, NothingIsRecent
<1>. QED  BY <1>5, <1>6, <1>7, <1>8, <1>9 DEF ScaleInv

\* When a rescale ends that was alone, all metres are right; another one may have spoilt all.
LEMMA RescaleEndsWell ==
    ASSUME ScaleShape, WritersInOrder, NEW t \in Threads, Rescaling(t), scale' = scale,
           request' = [request EXCEPT ![t] = Idle],
           \/ blurred' = APs
           \/ request[t].lone /\ \A a \in Placed' : Matches(a)'
    PROVE  WritersInOrder'
<1>1. request'[t] = Idle /\ \A u \in Threads : u # t => request'[u] = request[u]
  BY DEF ScaleShape
<1>2. \A u \in Threads : /\ Rescaling(u)' <=> u # t /\ Rescaling(u)
                         /\ Placing(u)' => u # t /\ Placing(u)
  BY <1>1 DEF Rescaling, Placing
<1>3. LonePlacements'
  BY <1>1, <1>2 DEF WritersInOrder, LonePlacements
<1>4. LoneRescales'
  BY <1>1, <1>2 DEF WritersInOrder, LoneRescales
<1>5. MetresInOrder'
  BY DEF MetresInOrder, Placed
<1>. QED  BY <1>3, <1>4, <1>5 DEF WritersInOrder

LEMMA ScaleListAPs ==
    ASSUME ScaleInv, NEW t \in Threads, ListAPs(t)
    PROVE  ScaleInv'
<1>1. UNCHANGED <<scale, zones, aps, context, coords, coordsAge, buffer, solve, unsure, rezoned,
                  quiet>>
  BY DEF ListAPs, floorVars, ingestVars, doubt
<1>2. request[t] \in Step /\ request[t].do = "list" /\ request[t] # Idle
  BY DEF ListAPs, Doing, ScaleInv, ScaleShape
<1>3. Rescaling(t) /\ request[t].op = "rescale" /\ request[t].scale \in Scales
  BY <1>2, ScaleRequests DEF Rescaling
<1>4. PICK r \in Step \cup {Idle} :
         /\ request' = [request EXCEPT ![t] = r]
         /\ IF Placed = {} THEN r = Idle /\ RescaleEnds(t)
            ELSE /\ r = [op |-> "rescale", do |-> "update", scale |-> request[t].scale,
                         lone |-> request[t].lone, spots |-> [a \in Placed |-> aps[a].spot]]
                 /\ r \in Step /\ blurred' = blurred
  <2>1. CASE Placed = {}  BY <2>1 DEF ListAPs, Goes
  <2>2. CASE Placed # {}
    <3>1. PICK sp : sp = [a \in Placed |-> aps[a].spot]  OBVIOUS
    <3>2. \A a \in Placed : a \in APs /\ aps[a].spot \in Spots
      BY DEF Placed, ScaleInv, ScaleShape, AP
    <3>3. sp \in UNION {[S -> Spots] : S \in SUBSET APs} /\ DOMAIN sp # {}
      BY <2>2, <3>1, <3>2
    <3>4. request[t].lone \in BOOLEAN  BY <1>2, ScaleRequests
    <3>5. PICK r : r = [op |-> "rescale", do |-> "update", scale |-> request[t].scale,
                        lone |-> request[t].lone, spots |-> sp]
      OBVIOUS
    <3>6. r \in Step  BY <1>3, <3>3, <3>4, <3>5 DEF Step
    <3>. QED  BY <2>2, <3>1, <3>5, <3>6 DEF ListAPs, Goes
  <2>. QED  BY <2>1, <2>2
<1>5. request'[t] = r /\ \A u \in Threads : u # t => request'[u] = request[u]
  BY <1>4 DEF ScaleInv, ScaleShape
<1>6. ScaleShape'
  BY <1>1, <1>4 DEF ScaleInv, ScaleShape, RescaleEnds
<1>7. Calibrated'
  BY <1>1, <1>4, <1>5, CalibratedSame DEF ScaleInv, Placing
<1>8. WritersInOrder'
  <2>1. CASE Placed = {}
    BY <1>1, <1>3, <1>4, <2>1, RescaleEndsWell DEF ScaleInv, RescaleEnds, Placed
  <2>2. CASE Placed # {}
    <3>1. /\ r # Idle /\ r.op = "rescale" /\ r.scale = request[t].scale
          /\ r.lone = request[t].lone /\ r.spots = [a \in Placed |-> aps[a].spot]
          /\ blurred' = blurred
      BY <1>4, <2>2, ScaleRequests
    <3>2. \A u \in Threads : /\ Rescaling(u)' <=> Rescaling(u)
                             /\ Placing(u)' <=> Placing(u)
      BY <1>3, <1>5, <3>1, ScaleRequests DEF Rescaling, Placing
    <3>3. LoneRescales'
      <4>. SUFFICES ASSUME NEW u \in Threads, Rescaling(u), request'[u].lone
                    PROVE  /\ request'[u].scale = scale
                           /\ \A v \in Threads \ {u} : ~Rescaling(v) /\ ~Placing(v)
                           /\ request'[u].do = "update" => \A a \in Placed :
                                 IF a \in DOMAIN request'[u].spots
                                 THEN request'[u].spots[a] = aps[a].spot ELSE Matches(a)
        BY <1>1, <3>2 DEF LoneRescales, Placed, Matches
      <4>1. CASE u = t
        BY <1>3, <1>5, <3>1, <4>1 DEF ScaleInv, WritersInOrder, LoneRescales
      <4>2. CASE u # t
        BY <1>5, <4>2 DEF ScaleInv, WritersInOrder, LoneRescales
      <4>. QED  BY <4>1, <4>2
    <3>4. LonePlacements'
      BY <1>1, <1>5, <3>1, <3>2, <1>3 DEF ScaleInv, WritersInOrder, LonePlacements
    <3>5. MetresInOrder'  BY <1>3, <3>2 DEF MetresInOrder
    <3>. QED  BY <3>3, <3>4, <3>5 DEF WritersInOrder
  <2>. QED  BY <2>1, <2>2
<1>9. ReadsAreCurrent'
  <2>1. Doing(t) = "list"
        /\ \A u \in Threads : u # t => Doing(u)' = Doing(u) /\ (Rescaling(u)' <=> Rescaling(u))
    BY <1>5 DEF ListAPs, Doing, Rescaling
  <2>. QED  BY <1>1, <2>1, ReadsSame DEF ScaleInv, Invalidating, ScaleUntold
<1>10. MetresAreRecent'  BY <1>1, RecentSame DEF ScaleInv
<1>. QED  BY <1>6, <1>7, <1>8, <1>9, <1>10 DEF ScaleInv

LEMMA ScaleRescaleRaises ==
    ASSUME ScaleInv, NEW t \in Threads, RescaleRaises(t)
    PROVE  ScaleInv'
<1>1. /\ request' = [request EXCEPT ![t] = Idle] /\ blurred' = APs
      /\ UNCHANGED <<scale, zones, aps, context, coords, coordsAge, buffer, solve, unsure,
                     rezoned, quiet>>
  BY DEF RescaleRaises, Goes, floorVars, ingestVars, doubt
<1>2. Doing(t) \in {"list", "update"}  BY DEF RescaleRaises
<1>3. Rescaling(t)
  <2>1. request[t] \in Step /\ request[t].do \in {"list", "update"}
    BY <1>2 DEF Doing, ScaleInv, ScaleShape
  <2>. QED  BY <2>1, ScaleRequests DEF Rescaling
<1>4. request'[t] = Idle /\ \A u \in Threads : u # t => request'[u] = request[u]
  BY <1>1 DEF ScaleInv, ScaleShape
<1>5. ScaleShape'  BY <1>1 DEF ScaleInv, ScaleShape
<1>6. Calibrated'  BY <1>1, <1>4, CalibratedSame DEF ScaleInv, Placing
<1>7. WritersInOrder'  BY <1>1, <1>3, RescaleEndsWell DEF ScaleInv
<1>8. ReadsAreCurrent'
  <2>1. \A u \in Threads : u # t => Doing(u)' = Doing(u) /\ (Rescaling(u)' <=> Rescaling(u))
    BY <1>4 DEF Doing, Rescaling
  <2>. QED  BY <1>1, <1>2, <2>1, ReadsSame DEF ScaleInv, Invalidating, ScaleUntold
<1>9. MetresAreRecent'  BY <1>1, RecentSame DEF ScaleInv
<1>. QED  BY <1>5, <1>6, <1>7, <1>8, <1>9 DEF ScaleInv

\* The metres of an AP are derived anew.  A rescale that is alone derives them from the spot
\* that the AP has.
LEMMA ScaleUpdateAP ==
    ASSUME ScaleInv, NEW t \in Threads, NEW a \in APs, UpdateAP(t, a)
    PROVE  ScaleInv'
<1>1. /\ Doing(t) = "update" /\ a \in DOMAIN request[t].spots /\ a \in Placed
      /\ aps' = [aps EXCEPT ![a].metres = Rederived(t, a)] /\ quiet' = 0
      /\ UNCHANGED <<scale, zones, context, coords, coordsAge, buffer, solve, unsure, rezoned>>
  BY DEF UpdateAP, ingestVars, doubt
<1>2. request[t] \in Step /\ request[t].do = "update" /\ request[t] # Idle
  BY <1>1 DEF Doing, ScaleInv, ScaleShape
<1>3. /\ Rescaling(t) /\ request[t].scale \in Scales /\ request[t].lone \in BOOLEAN
      /\ request[t].op = "rescale" /\ DOMAIN request[t].spots \subseteq APs
      /\ request[t].spots \in [DOMAIN request[t].spots -> Spots]
      /\ request[t] = [op |-> "rescale", do |-> "update", scale |-> request[t].scale,
                       lone |-> request[t].lone, spots |-> request[t].spots]
  BY <1>2, ScaleRequests DEF Rescaling
<1>4. PICK m : m = Rederived(t, a)  OBVIOUS
<1>5. m \in Metres /\ m = [spot |-> request[t].spots[a], scale |-> request[t].scale]
  BY <1>1, <1>3, <1>4 DEF Rederived, Metres
<1>6. aps[a] \in AP  BY <1>1 DEF Placed, ScaleInv, ScaleShape
<1>7. /\ aps' \in [APs -> AP \cup {Unplaced, Removed}]
      /\ aps'[a] \in AP /\ aps'[a].spot = aps[a].spot /\ aps'[a].metres = m
      /\ \A b \in APs : b # a => aps'[b] = aps[b]
  <2>1. [aps[a] EXCEPT !.metres = m] \in AP  BY <1>5, <1>6 DEF AP
  <2>2. aps' = [aps EXCEPT ![a] = [aps[a] EXCEPT !.metres = m]]
    BY <1>1, <1>4 DEF ScaleInv, ScaleShape
  <2>3. aps'[a] = [aps[a] EXCEPT !.metres = m]  BY <2>2 DEF ScaleInv, ScaleShape
  <2>4. aps'[a].spot = aps[a].spot /\ aps'[a].metres = m  BY <1>6, <2>3 DEF AP
  <2>. QED  BY <2>1, <2>2, <2>3, <2>4 DEF ScaleInv, ScaleShape
<1>8. Placed' = Placed  BY <1>1, <1>7, NothingAssumption DEF Placed
<1>9. request[t].lone =>
         /\ request[t].scale = scale /\ Matches(a)'
         /\ \A b \in Placed : b # a =>
               IF b \in DOMAIN request[t].spots THEN request[t].spots[b] = aps'[b].spot
                                                ELSE Matches(b)'
  <2>. SUFFICES ASSUME request[t].lone
                PROVE  /\ request[t].scale = scale /\ Matches(a)'
                       /\ \A b \in Placed : b # a =>
                             IF b \in DOMAIN request[t].spots
                             THEN request[t].spots[b] = aps'[b].spot ELSE Matches(b)'
    OBVIOUS
  <2>1. /\ request[t].scale = scale
        /\ \A b \in Placed : IF b \in DOMAIN request[t].spots
                             THEN request[t].spots[b] = aps[b].spot ELSE Matches(b)
    BY <1>2, <1>3 DEF ScaleInv, WritersInOrder, LoneRescales
  <2>2. Matches(a)'  BY <1>1, <1>5, <1>7, <2>1 DEF Matches
  <2>3. \A b \in Placed : b \in APs  BY DEF Placed
  <2>. QED  BY <1>1, <1>7, <2>1, <2>2, <2>3 DEF Matches
<1>10. \A u \in Threads : u # t /\ Rescaling(u) => ~request[u].lone
  BY <1>3 DEF ScaleInv, WritersInOrder, LoneRescales
<1>11. \A u \in Threads : Placing(u) => ~request[u].lone
  BY <1>3 DEF ScaleInv, WritersInOrder, LonePlacements
<1>12. Calibrated'
  BY <1>1 DEF ScaleInv, Calibrated
<1>13. \A u \in Threads : u # t => /\ request'[u] = request[u] /\ Doing(u)' = Doing(u)
                                   /\ Rescaling(u)' <=> Rescaling(u)
  BY DEF UpdateAP, Goes, Doing, Rescaling, ScaleInv, ScaleShape
<1>14. ReadsAreCurrent'  BY <1>1, <1>13, ReadsSame DEF ScaleInv, Invalidating, ScaleUntold
<1>15. 0 \in 0 .. (Settling + 1)  BY TimesAssumption DEF Settling
<1>16. CASE DOMAIN request[t].spots = {a}
  <2>1. request' = [request EXCEPT ![t] = Idle] /\ RescaleEnds(t)
    BY <1>16 DEF UpdateAP, Goes
  <2>2. ScaleShape'
    BY <1>1, <1>7, <1>15, <2>1 DEF ScaleInv, ScaleShape, RescaleEnds
  <2>3. request[t].lone => \A b \in Placed' : Matches(b)'  BY <1>8, <1>9, <1>16
  <2>4. WritersInOrder'
    BY <1>1, <1>3, <2>1, <2>3, RescaleEndsWell DEF ScaleInv, RescaleEnds
  <2>5. MetresAreRecent'  BY <1>1, <2>2, NothingIsRecent
  <2>. QED  BY <1>12, <1>14, <2>2, <2>4, <2>5 DEF ScaleInv
<1>17. CASE DOMAIN request[t].spots # {a}
  <2>1. PICK sp : sp = [b \in DOMAIN request[t].spots \ {a} |-> request[t].spots[b]]  OBVIOUS
  <2>2. PICK r : r = [request[t] EXCEPT !.spots = sp]  OBVIOUS
  <2>3. request' = [request EXCEPT ![t] = r] /\ blurred' = blurred
    BY <1>1, <1>17, <2>1, <2>2 DEF UpdateAP, Goes
  <2>4. r = [op |-> "rescale", do |-> "update", scale |-> request[t].scale,
             lone |-> request[t].lone, spots |-> sp]
    BY <1>3, <2>2
  <2>5. r \in Step
    <3>1. sp \in UNION {[S -> Spots] : S \in SUBSET APs} /\ DOMAIN sp # {}
      BY <1>1, <1>3, <1>17, <2>1
    <3>. QED  BY <1>3, <2>4, <3>1 DEF Step
  <2>6. r # Idle /\ r.op = "rescale"  BY <2>4, <2>5, ScaleRequests
  <2>7. request'[t] = r  BY <2>3 DEF ScaleInv, ScaleShape
  <2>8. ScaleShape'
    BY <1>1, <1>7, <1>15, <2>3, <2>5 DEF ScaleInv, ScaleShape
  <2>9. \A u \in Threads : /\ Rescaling(u)' <=> Rescaling(u)
                           /\ Placing(u)' <=> Placing(u)
    BY <1>3, <1>13, <2>6, <2>7 DEF Rescaling, Placing
  <2>10. LoneRescales'
    <3>. SUFFICES ASSUME NEW u \in Threads, Rescaling(u), request'[u].lone
                  PROVE  /\ request'[u].scale = scale
                         /\ \A v \in Threads \ {u} : ~Rescaling(v) /\ ~Placing(v)
                         /\ request'[u].do = "update" => \A b \in Placed :
                               IF b \in DOMAIN request'[u].spots
                               THEN request'[u].spots[b] = aps'[b].spot ELSE Matches(b)'
      BY <1>1, <1>8, <2>9 DEF LoneRescales
    <3>1. u = t  BY <1>10, <1>13
    <3>2. request[t].lone /\ request'[u].scale = request[t].scale
      BY <2>4, <2>7, <3>1
    <3>3. \A v \in Threads \ {u} : ~Rescaling(v) /\ ~Placing(v)
      BY <1>3, <3>1, <3>2 DEF ScaleInv, WritersInOrder, LoneRescales
    <3>4. \A b \in Placed : IF b \in DOMAIN sp THEN sp[b] = aps'[b].spot ELSE Matches(b)'
      BY <1>9, <2>1, <3>2
    <3>5. request'[u].spots = sp  BY <2>4, <2>7, <3>1
    <3>. QED  BY <1>9, <3>2, <3>3, <3>4, <3>5
  <2>11. LonePlacements'
    <3>. SUFFICES ASSUME NEW u \in Threads, Placing(u), request'[u].lone PROVE FALSE
      BY <2>9 DEF LonePlacements
    <3>1. u # t  BY <1>2, <1>3 DEF Placing
    <3>. QED  BY <1>11, <1>13, <3>1
  <2>12. MetresInOrder'  BY <1>3, <2>9 DEF MetresInOrder
  <2>13. WritersInOrder'  BY <2>10, <2>11, <2>12 DEF WritersInOrder
  <2>14. MetresAreRecent'  BY <1>1, <2>8, NothingIsRecent
  <2>. QED  BY <1>12, <1>14, <2>8, <2>13, <2>14 DEF ScaleInv
<1>. QED  BY <1>16, <1>17

\* A placement is saved: with the floor's scale when it has met no rescale.
LEMMA ScaleSaveAP ==
    ASSUME ScaleInv, NEW t \in Threads, SaveAP(t)
    PROVE  ScaleInv'
<1>1. PICK a : a = request[t].ap  OBVIOUS
<1>2. PICK d : d = Derived(t)  OBVIOUS
<1>3. /\ Doing(t) \in {"save", "move"} /\ aps' = [aps EXCEPT ![a] = d]
      /\ request' = [request EXCEPT ![t] = Idle] /\ PlacingEnds(t) /\ quiet' = 0
      /\ UNCHANGED <<scale, zones, context, coords, coordsAge, buffer, solve, unsure, rezoned>>
  BY <1>1, <1>2 DEF SaveAP, Goes, ingestVars, doubt
<1>4. request[t] \in Step /\ request[t].do \in {"save", "move"} /\ request[t] # Idle
  BY <1>3 DEF Doing, ScaleInv, ScaleShape
<1>5. request[t] \in [op : {"place"}, do : {"save", "move"}, ap : APs, spot : Spots,
                      scale : Scales, lone : BOOLEAN]
  BY <1>4, ScaleRequests
<1>6. Placing(t) /\ a \in APs /\ request[t].scale \in Scales
  BY <1>1, <1>4, <1>5 DEF Placing
<1>7. d \in AP /\ d.metres = [spot |-> d.spot, scale |-> request[t].scale]
  BY <1>2, <1>5 DEF Derived, AP, Metres
<1>8. /\ aps' \in [APs -> AP \cup {Unplaced, Removed}] /\ aps'[a] = d
      /\ \A b \in APs : b # a => aps'[b] = aps[b]
  BY <1>3, <1>6, <1>7 DEF ScaleInv, ScaleShape
<1>9. request'[t] = Idle /\ \A u \in Threads : u # t => request'[u] = request[u]
  BY <1>3 DEF ScaleInv, ScaleShape
<1>10. ScaleShape'
  <2>1. 0 \in 0 .. (Settling + 1)  BY TimesAssumption DEF Settling
  <2>2. blurred' \subseteq APs
    BY <1>1, <1>3, <1>6 DEF PlacingEnds, ScaleInv, ScaleShape
  <2>. QED  BY <1>3, <1>8, <2>1, <2>2 DEF ScaleInv, ScaleShape
<1>11. Calibrated'  BY <1>3, <1>6 DEF ScaleInv, Calibrated
<1>12. \A u \in Threads : /\ Rescaling(u)' <=> u # t /\ Rescaling(u)
                          /\ Placing(u)' <=> u # t /\ Placing(u)
  BY <1>9 DEF Rescaling, Placing
<1>13. ~Rescaling(t)  BY <1>5 DEF Rescaling
<1>14. LoneRescales'
  <2>1. \A u \in Threads : Rescaling(u) => ~request[u].lone
    BY <1>6, <1>13 DEF ScaleInv, WritersInOrder, LoneRescales
  <2>. QED  BY <1>9, <1>12, <2>1 DEF LoneRescales
<1>15. LonePlacements'
  BY <1>3, <1>9, <1>12 DEF ScaleInv, WritersInOrder, LonePlacements
<1>16. MetresInOrder'
  <2>. SUFFICES ASSUME \A u \in Threads : ~Rescaling(u)', NEW b \in Placed' \ blurred'
                PROVE  Matches(b)'
    BY DEF MetresInOrder
  <2>1. \A u \in Threads : ~Rescaling(u)  BY <1>12, <1>13
  <2>2. CASE b = a
    <3>1. request[t].lone  BY <1>1, <1>3, <2>2 DEF PlacingEnds
    <3>2. request[t].scale = scale
      BY <1>6, <3>1 DEF ScaleInv, WritersInOrder, LonePlacements
    <3>. QED  BY <1>3, <1>7, <1>8, <2>2, <3>2 DEF Matches
  <2>3. CASE b # a
    <3>1. b \in APs /\ aps'[b] = aps[b] /\ b \in Placed  BY <1>8, <2>3 DEF Placed
    <3>2. b \notin blurred  BY <1>1, <1>3, <2>3 DEF PlacingEnds
    <3>3. Matches(b)  BY <2>1, <3>1, <3>2 DEF ScaleInv, WritersInOrder, MetresInOrder
    <3>. QED  BY <1>3, <3>1, <3>3 DEF Matches
  <2>. QED  BY <2>2, <2>3
<1>17. WritersInOrder'  BY <1>14, <1>15, <1>16 DEF WritersInOrder
<1>18. ReadsAreCurrent'
  <2>1. \A u \in Threads : u # t => Doing(u)' = Doing(u) /\ (Rescaling(u)' <=> Rescaling(u))
    BY <1>9 DEF Doing, Rescaling
  <2>. QED  BY <1>3, <2>1, ReadsSame DEF ScaleInv, Invalidating, ScaleUntold
<1>19. MetresAreRecent'  BY <1>3, <1>10, NothingIsRecent
<1>. QED  BY <1>10, <1>11, <1>17, <1>18, <1>19 DEF ScaleInv

\* An AP goes: by itself, or with the floor that is being deleted.
LEMMA ScaleRemoveAP ==
    ASSUME ScaleInv, NEW a \in APs, RemoveAP(a) \/ \E t \in Threads : DeleteListed(t, a)
    PROVE  ScaleInv'
<1>1. /\ aps' = [aps EXCEPT ![a] = Removed] /\ quiet' = 0
      /\ request' \in [Threads -> Step \cup {Idle}]
      /\ \A u \in Threads : /\ Rescaling(u)' <=> Rescaling(u)
                            /\ Placing(u)' <=> Placing(u)
                            /\ Doing(u)' = Doing(u)
                            /\ Rescaling(u) \/ Placing(u) => request'[u] = request[u]
      /\ UNCHANGED <<scale, zones, context, coords, coordsAge, buffer, solve, blurred,
                     unsure, rezoned>>
  <2>1. CASE RemoveAP(a)
    BY <2>1 DEF RemoveAP, ingestVars, doubt, Rescaling, Placing, Doing, ScaleInv, ScaleShape
  <2>2. ASSUME NEW t \in Threads, DeleteListed(t, a)
        PROVE  /\ request' \in [Threads -> Step \cup {Idle}]
               /\ \A u \in Threads : /\ Rescaling(u)' <=> Rescaling(u)
                                     /\ Placing(u)' <=> Placing(u)
                                     /\ Doing(u)' = Doing(u)
                                     /\ Rescaling(u) \/ Placing(u) => request'[u] = request[u]
    <3>1. request[t] \in Step /\ request[t].do = "remove" /\ request[t] # Idle
      BY <2>2 DEF DeleteListed, Doing, ScaleInv, ScaleShape
    <3>2. request[t] \in [op : {"delete"}, do : {"remove"}, rest : SUBSET APs, lone : BOOLEAN]
      BY <3>1, ScaleRequests
    <3>3. PICK r : r = [request[t] EXCEPT !.rest = @ \ {a}]  OBVIOUS
    <3>4. r \in [op : {"delete"}, do : {"remove"}, rest : SUBSET APs, lone : BOOLEAN]
      BY <3>2, <3>3
    <3>5. r \in Step /\ r # Idle /\ r.op = "delete" /\ r.do = "remove"
      BY <3>4, ScaleRequests DEF Step
    <3>6. request' = [request EXCEPT ![t] = r]  BY <2>2, <3>3 DEF DeleteListed, Goes
    <3>7. request'[t] = r /\ \A u \in Threads : u # t => request'[u] = request[u]
      BY <3>6 DEF ScaleInv, ScaleShape
    <3>8. ~Rescaling(t) /\ ~Placing(t) /\ Doing(t) = "remove"
      BY <3>1, <3>2 DEF Rescaling, Placing, Doing
    <3>9. ~Rescaling(t)' /\ ~Placing(t)' /\ Doing(t)' = "remove"
      BY <3>5, <3>7 DEF Rescaling, Placing, Doing
    <3>10. request' \in [Threads -> Step \cup {Idle}]
      BY <3>5, <3>6 DEF ScaleInv, ScaleShape
    <3>11. ASSUME NEW u \in Threads
           PROVE  /\ Rescaling(u)' <=> Rescaling(u)
                  /\ Placing(u)' <=> Placing(u)
                  /\ Doing(u)' = Doing(u)
                  /\ Rescaling(u) \/ Placing(u) => request'[u] = request[u]
      <4>1. CASE u = t  BY <3>8, <3>9, <4>1
      <4>2. CASE u # t  BY <3>7, <4>2 DEF Rescaling, Placing, Doing
      <4>. QED  BY <4>1, <4>2
    <3>. QED  BY <3>10, <3>11
  <2>3. CASE \E t \in Threads : DeleteListed(t, a)
    <3>1. /\ aps' = [aps EXCEPT ![a] = Removed] /\ quiet' = 0
          /\ UNCHANGED <<scale, zones, context, coords, coordsAge, buffer, solve, blurred,
                         unsure, rezoned>>
      BY <2>3 DEF DeleteListed, ingestVars, doubt
    <3>. QED  BY <2>2, <2>3, <3>1
  <2>. QED  BY <2>1, <2>3
<1>2. ScaleShape'
  <2>1. 0 \in 0 .. (Settling + 1)  BY TimesAssumption DEF Settling
  <2>. QED  BY <1>1, <2>1 DEF ScaleInv, ScaleShape
<1>3. /\ Placed' = Placed \ {a}
      /\ \A b \in Placed' : aps'[b] = aps[b]
  BY <1>1 DEF Placed, ScaleInv, ScaleShape
<1>4. Calibrated'
  BY <1>1, <1>3 DEF ScaleInv, Calibrated, Heard
<1>5. WritersInOrder'
  <2>2. \A b \in Placed' : Matches(b) => Matches(b)'  BY <1>1, <1>3 DEF Matches
  <2>3. LoneRescales'
    BY <1>1, <1>3, <2>2 DEF ScaleInv, WritersInOrder, LoneRescales
  <2>4. LonePlacements'
    BY <1>1 DEF ScaleInv, WritersInOrder, LonePlacements
  <2>5. MetresInOrder'
    BY <1>1, <1>3, <2>2 DEF ScaleInv, WritersInOrder, MetresInOrder
  <2>. QED  BY <2>3, <2>4, <2>5 DEF WritersInOrder
<1>6. ReadsAreCurrent'
  <2>1. (Invalidating => Invalidating') /\ (ScaleUntold => ScaleUntold')
    BY <1>1 DEF Invalidating, ScaleUntold
  <2>. QED  BY <1>1, <2>1, ReadsSame DEF ScaleInv
<1>7. MetresAreRecent'  BY <1>1, <1>2, NothingIsRecent
<1>. QED  BY <1>2, <1>4, <1>5, <1>6, <1>7 DEF ScaleInv

\* A reading is buffered: its metres are recent if what is cached is.
LEMMA ScaleHear ==
    ASSUME ScaleInv, NEW a \in APs, HearCached(a) \/ HearLoading(a)
    PROVE  ScaleInv'
<1>1. UNCHANGED <<scale, zones, aps, request, context, solve, blurred, unsure, rezoned, quiet>>
  BY DEF HearCached, HearLoading, floorVars, doubt
<1>2. PICK m :
         /\ buffer' = [buffer EXCEPT ![a] = [metres |-> m, age |-> 0]]
         /\ \/ a \in DOMAIN coords /\ m = coords[a] /\ UNCHANGED <<coords, coordsAge>>
            \/ a \in Placed /\ m = aps[a].metres /\ coords' = Loaded /\ coordsAge' = 0
  BY DEF HearCached, HearLoading, Buffered
<1>3. \A b \in Placed : b \in APs /\ aps[b] \in AP /\ aps[b].metres \in Metres
  BY DEF Placed, ScaleInv, ScaleShape, AP
<1>4. m \in Metres  BY <1>2, <1>3 DEF ScaleInv, ScaleShape
<1>5. [metres |-> m, age |-> 0] \in Reading
  BY <1>4, TimesAssumption DEF Reading
<1>6. /\ DOMAIN coords' \subseteq APs /\ \A b \in DOMAIN coords' : coords'[b] \in Metres
      /\ coordsAge' \in 0 .. CoordTTL
  BY <1>2, <1>3, TimesAssumption DEF ScaleInv, ScaleShape, Loaded
<1>7. ScaleShape'  BY <1>1, <1>2, <1>5, <1>6 DEF ScaleInv, ScaleShape
<1>8. scale # NoScale  BY <1>2 DEF ScaleInv, Calibrated
<1>9. Calibrated'  BY <1>1, <1>8 DEF Calibrated
<1>10. WritersInOrder'  BY <1>1, WritersSame DEF ScaleInv
<1>11. ReadsAreCurrent'
  BY <1>1, ReadsSame DEF ScaleInv, Invalidating, ScaleUntold, Doing,
         Rescaling
<1>12. MetresAreRecent'
  <2>1. coordsAge' < quiet =>
            \A b \in DOMAIN coords' : b \in Placed /\ coords'[b] = aps[b].metres
    BY <1>2 DEF ScaleInv, MetresAreRecent, Loaded
  <2>2. ASSUME NEW b \in Heard', buffer'[b].age + CoordTTL < quiet
        PROVE  b \in Placed /\ buffer'[b].metres = aps[b].metres
    <3>1. CASE b = a
      <4>1. buffer'[a].age = 0 /\ buffer'[a].metres = m
        BY <1>2 DEF ScaleInv, ScaleShape
      <4>2. coordsAge < quiet
        <5>1. coordsAge \in 0 .. CoordTTL /\ quiet \in Nat
          BY TimesAssumption DEF ScaleInv, ScaleShape, Settling
        <5>2. 0 + CoordTTL < quiet  BY <2>2, <3>1, <4>1
        <5>. QED  BY <5>1, <5>2, TimesAssumption
      <4>. QED  BY <1>2, <3>1, <4>1, <4>2 DEF ScaleInv, MetresAreRecent
    <3>2. CASE b # a
      <4>1. b \in Heard /\ buffer'[b] = buffer[b]
        BY <1>2, <3>2 DEF Heard, ScaleInv, ScaleShape
      <4>. QED  BY <2>2, <4>1 DEF ScaleInv, MetresAreRecent
    <3>. QED  BY <3>1, <3>2
  <2>3. Placed' = Placed  BY <1>1 DEF Placed
  <2>. QED  BY <1>1, <2>1, <2>2, <2>3 DEF MetresAreRecent
<1>. QED  BY <1>7, <1>9, <1>10, <1>11, <1>12 DEF ScaleInv

\* A report is solved: what it has read stands until the floor changes.
LEMMA ScaleSolve ==
    ASSUME ScaleInv,
           SolveInContext \/ ReadFloor \/ ReadZones \/ StoreContext \/ SavePosition \/ ReadRaises
    PROVE  ScaleInv'
<1>1. UNCHANGED <<scale, zones, aps, request, coords, coordsAge, buffer, blurred, quiet>>
  BY DEF SolveInContext, ReadFloor, ReadZones, StoreContext, SavePosition, ReadRaises,
         floorVars, ingestVars, doubt
<1>2. /\ solve' \in Report \cup {Idle} /\ context' \in Context \cup {NoContext}
      /\ unsure' \in BOOLEAN /\ rezoned' \in BOOLEAN
      /\ ~ScaleUntold /\ ~unsure' =>
            /\ context' # NoContext => context'.scale = scale
            /\ Solving' \in {"zones", "store"} => solve'.scale = scale
            /\ Solving' = "save" /\ quiet > 0 => solve'.scale = scale
      /\ ~Invalidating /\ ~unsure' /\ ~rezoned' =>
            /\ context' # NoContext => context'.zones = zones
            /\ Solving' = "store" => solve'.zones = zones
  <2>1. CASE SolveInContext
    <3>1. /\ solve' = [at |-> "save", scale |-> context.scale, zones |-> context.zones]
          /\ UNCHANGED <<context, unsure, rezoned>> /\ context # NoContext
      BY <2>1 DEF SolveInContext, doubt
    <3>2. context \in Context  BY <3>1 DEF ScaleInv, ScaleShape
    <3>3. solve' \in Report  BY <3>1, <3>2 DEF Context, Report
    <3>4. Solving' = "save"  BY <3>1, <3>3, NothingAssumption DEF Solving
    <3>. QED  BY <3>1, <3>3, <3>4 DEF ScaleInv, ScaleShape, ReadsAreCurrent
  <2>2. CASE ReadFloor
    <3>1. /\ solve' = [at |-> "zones", scale |-> scale] /\ unsure' = FALSE /\ rezoned' = FALSE
          /\ context' = context /\ context = NoContext /\ Heard # {}
      BY <2>2 DEF ReadFloor
    <3>2. scale \in Scales  BY <3>1 DEF ScaleInv, ScaleShape, Calibrated
    <3>3. solve' \in Report  BY <3>1, <3>2 DEF Report
    <3>4. Solving' = "zones"  BY <3>1, <3>3, NothingAssumption DEF Solving
    <3>. QED  BY <3>1, <3>3, <3>4
  <2>3. CASE ReadZones
    <3>1. /\ solve # Idle /\ solve.at = "zones" /\ UNCHANGED <<context, unsure, rezoned>>
          /\ solve' = [at |-> "store", scale |-> solve.scale, zones |-> zones]
      BY <2>3 DEF ReadZones, Solving, doubt
    <3>2. solve.scale \in Scales  BY <3>1 DEF ScaleInv, ScaleShape, Report
    <3>3. solve' \in Report  BY <3>1, <3>2 DEF Report, ScaleInv, ScaleShape
    <3>4. Solving' = "store" /\ Solving = "zones"
      BY <3>1, <3>3, NothingAssumption DEF Solving
    <3>. QED  BY <3>1, <3>3, <3>4 DEF ScaleInv, ScaleShape, ReadsAreCurrent
  <2>4. CASE StoreContext
    <3>1. /\ solve # Idle /\ solve.at = "store" /\ UNCHANGED <<unsure, rezoned>>
          /\ solve' = [solve EXCEPT !.at = "save"]
          /\ context' = [scale |-> solve.scale, zones |-> solve.zones]
      BY <2>4 DEF StoreContext, Solving, doubt
    <3>2. solve \in [at : {"store", "save"}, scale : Scales, zones : Layouts]
      BY <3>1 DEF ScaleInv, ScaleShape, Report
    <3>3. /\ solve' \in Report /\ context' \in Context
          /\ solve'.at = "save" /\ solve'.scale = solve.scale
          /\ context'.scale = solve.scale /\ context'.zones = solve.zones
      BY <3>1, <3>2 DEF Report, Context
    <3>4. Solving' = "save" /\ Solving = "store"
      BY <3>1, <3>3, NothingAssumption DEF Solving
    <3>. QED  BY <3>1, <3>3, <3>4 DEF ScaleInv, ScaleShape, ReadsAreCurrent
  <2>5. CASE SavePosition \/ ReadRaises
    <3>1. solve' = Idle /\ UNCHANGED <<context, unsure, rezoned>>
      BY <2>5 DEF SavePosition, ReadRaises, doubt
    <3>2. Solving' = "nothing"  BY <3>1 DEF Solving
    <3>. QED  BY <3>1, <3>2 DEF ScaleInv, ScaleShape, ReadsAreCurrent
  <2>. QED  BY <2>1, <2>2, <2>3, <2>4, <2>5
<1>3. ScaleShape'  BY <1>1, <1>2 DEF ScaleInv, ScaleShape
<1>4. Calibrated'  BY <1>1, CalibratedSame DEF ScaleInv, Placing
<1>5. WritersInOrder'  BY <1>1, WritersSame DEF ScaleInv
<1>6. (Invalidating' <=> Invalidating) /\ (ScaleUntold' <=> ScaleUntold)
  BY <1>1 DEF Invalidating, ScaleUntold, Doing, Rescaling
<1>7. ReadsAreCurrent'  BY <1>1, <1>2, <1>6 DEF ReadsAreCurrent
<1>8. MetresAreRecent'  BY <1>1, RecentSame DEF ScaleInv
<1>. QED  BY <1>3, <1>4, <1>5, <1>7, <1>8 DEF ScaleInv

\* Time passes: what is cached and buffered ages no slower than the last change.
LEMMA ScaleElapse ==
    ASSUME ScaleInv, Elapse
    PROVE  ScaleInv'
<1>1. /\ UNCHANGED <<scale, zones, aps, request, context, solve, blurred, unsure, rezoned>>
      /\ solve = Idle /\ quiet' = IF quiet > Settling THEN quiet ELSE quiet + 1
  BY DEF Elapse, floorVars, doubt
<1>2. \/ coords' = <<>> /\ coordsAge' = 0
      \/ coords' = coords /\ coordsAge # CoordTTL /\ coordsAge' = coordsAge + 1
  BY DEF Elapse
<1>3. buffer' = [b \in APs |->
          IF buffer[b] = NoReading \/ buffer[b].age = BufferWindow THEN NoReading
          ELSE [buffer[b] EXCEPT !.age = @ + 1]]
  BY DEF Elapse
<1>4. ASSUME NEW b \in APs, buffer'[b] # NoReading
      PROVE  /\ b \in Heard /\ buffer'[b] \in Reading /\ buffer[b].age \in Nat
             /\ buffer'[b].metres = buffer[b].metres
             /\ buffer'[b].age = buffer[b].age + 1
  <2>1. /\ buffer[b] # NoReading /\ buffer[b].age # BufferWindow
        /\ buffer'[b] = [buffer[b] EXCEPT !.age = @ + 1]
    BY <1>3, <1>4
  <2>2. buffer[b] \in [metres : Metres, age : 0 .. BufferWindow]
    BY <2>1 DEF ScaleInv, ScaleShape, Reading
  <2>3. buffer[b].age \in Nat /\ buffer[b].age + 1 \in 0 .. BufferWindow
    BY <2>1, <2>2, TimesAssumption
  <2>. QED  BY <2>1, <2>2, <2>3 DEF Heard, Reading
<1>5. quiet \in Nat /\ quiet' \in 0 .. (Settling + 1) /\ coordsAge \in Nat
  BY <1>1, TimesAssumption DEF ScaleInv, ScaleShape, Settling
<1>6. ScaleShape'
  <2>1. DOMAIN coords' \subseteq APs /\ \A b \in DOMAIN coords' : coords'[b] \in Metres
    <3>1. DOMAIN <<>> = {}  OBVIOUS
    <3>. QED  BY <1>2, <3>1 DEF ScaleInv, ScaleShape
  <2>2. coordsAge' \in 0 .. CoordTTL
    BY <1>2, <1>5, TimesAssumption DEF ScaleInv, ScaleShape
  <2>3. buffer' \in [APs -> Reading \cup {NoReading}]
    BY <1>3, <1>4
  <2>. QED  BY <1>1, <1>5, <2>1, <2>2, <2>3 DEF ScaleInv, ScaleShape
<1>7. Calibrated'
  <2>1. Heard = {} => Heard' = {}  BY <1>4 DEF Heard
  <2>2. DOMAIN coords = {} => DOMAIN coords' = {}  BY <1>2
  <2>. QED  BY <1>1, <2>1, <2>2 DEF ScaleInv, Calibrated, Placed, Placing
<1>8. WritersInOrder'  BY <1>1, WritersSame DEF ScaleInv
<1>9. ReadsAreCurrent'
  <2>1. Solving' = "nothing"  BY <1>1 DEF Solving
  <2>2. (Invalidating' <=> Invalidating) /\ (ScaleUntold' <=> ScaleUntold)
    BY <1>1 DEF Invalidating, ScaleUntold, Doing, Rescaling
  <2>. QED  BY <1>1, <2>1, <2>2 DEF ScaleInv, ReadsAreCurrent
<1>10. MetresAreRecent'
  <2>1. Placed' = Placed  BY <1>1 DEF Placed
  <2>2. coordsAge' < quiet' =>
            \A b \in DOMAIN coords' : b \in Placed /\ coords'[b] = aps[b].metres
    <3>1. CASE coords' = <<>>
      BY <3>1
    <3>2. CASE coords' = coords /\ coordsAge' = coordsAge + 1
      <4>1. coordsAge' < quiet' => coordsAge < quiet  BY <1>1, <1>5, <3>2
      <4>. QED  BY <3>2, <4>1 DEF ScaleInv, MetresAreRecent
    <3>. QED  BY <1>2, <3>1, <3>2
  <2>3. ASSUME NEW b \in Heard', buffer'[b].age + CoordTTL < quiet'
        PROVE  b \in Placed /\ buffer'[b].metres = aps[b].metres
    <3>1. /\ b \in Heard /\ buffer[b].age \in Nat
          /\ buffer'[b].metres = buffer[b].metres /\ buffer'[b].age = buffer[b].age + 1
      BY <1>4, <2>3 DEF Heard
    <3>2. buffer[b].age + CoordTTL < quiet
      BY <1>1, <1>5, <2>3, <3>1, TimesAssumption
    <3>. QED  BY <3>1, <3>2 DEF ScaleInv, MetresAreRecent
  <2>. QED  BY <1>1, <2>1, <2>2, <2>3 DEF MetresAreRecent
<1>. QED  BY <1>6, <1>7, <1>8, <1>9, <1>10 DEF ScaleInv

\* A restart forgets what was read, and leaves a rescale where it was.
LEMMA ScaleRestart ==
    ASSUME ScaleInv, Restart
    PROVE  ScaleInv'
<1>1. /\ UNCHANGED <<scale, zones, aps, quiet>>
      /\ request' = [t \in Threads |-> Idle] /\ context' = NoContext
      /\ coords' = <<>> /\ coordsAge' = 0 /\ buffer' = [a \in APs |-> NoReading]
      /\ solve' = Idle /\ unsure' = FALSE /\ rezoned' = FALSE /\ blurred' \in {blurred, APs}
      /\ blurred' = APs \/ \A t \in Threads : ~Rescaling(t)
  <2>. DEFINE lost == \E t \in Threads : Rescaling(t)
  <2>1. blurred' = IF lost THEN APs ELSE blurred  BY DEF Restart
  <2>2. lost \/ \A t \in Threads : ~Rescaling(t)  OBVIOUS
  <2>. HIDE DEF lost
  <2>. QED  BY <2>1, <2>2 DEF Restart, floorVars
<1>2. DOMAIN coords' = {} /\ Heard' = {} /\ Solving' = "nothing" /\ Placed' = Placed
  BY <1>1 DEF Heard, Solving, Placed
<1>3. \A t \in Threads : ~Rescaling(t)' /\ ~Placing(t)'
  BY <1>1 DEF Rescaling, Placing
<1>4. ScaleShape'
  <2>1. 0 \in 0 .. CoordTTL  BY TimesAssumption
  <2>2. blurred' \subseteq APs  BY <1>1 DEF ScaleInv, ScaleShape
  <2>3. buffer' \in [APs -> Reading \cup {NoReading}]  BY <1>1
  <2>. QED  BY <1>1, <1>2, <2>1, <2>2, <2>3 DEF ScaleInv, ScaleShape
<1>5. Calibrated'  BY <1>1, <1>2, <1>3 DEF ScaleInv, Calibrated
<1>6. WritersInOrder'
  <2>1. MetresInOrder'
    <3>1. CASE blurred' = APs
      <4>1. Placed' \subseteq APs  BY DEF Placed
      <4>. QED  BY <3>1, <4>1 DEF MetresInOrder
    <3>2. CASE blurred' = blurred /\ \A t \in Threads : ~Rescaling(t)
      <4>1. \A a \in Placed \ blurred : Matches(a)
        BY <3>2 DEF ScaleInv, WritersInOrder, MetresInOrder
      <4>. QED  BY <1>1, <1>2, <3>2, <4>1 DEF MetresInOrder, Matches
    <3>. QED  BY <1>1, <3>1, <3>2
  <2>. QED  BY <1>3, <2>1 DEF WritersInOrder, LoneRescales, LonePlacements
<1>7. ReadsAreCurrent'  BY <1>1, <1>2 DEF ReadsAreCurrent
<1>8. MetresAreRecent'  BY <1>2 DEF MetresAreRecent
<1>. QED  BY <1>4, <1>5, <1>6, <1>7, <1>8 DEF ScaleInv

LEMMA ScaleStep == ScaleInv /\ [Next]_vars => ScaleInv'
<1>. SUFFICES ASSUME ScaleInv, [Next]_vars PROVE ScaleInv'  OBVIOUS
<1>1. ASSUME NEW t \in Threads, RequestStep(t) PROVE ScaleInv'
  <2>1. CASE \E s \in Scales : Rescale(t, s)  BY <2>1, ScaleRescale
  <2>2. CASE \/ \E z \in Layouts, do \in {"invalidate", "readback"} : EditZones(t, z, do)
             \/ BeginDeletion(t)
    BY <2>2, ScaleEditZones
  <2>3. CASE \/ ReadBack(t) \/ ReadBackRaises(t) \/ SaveRaises(t)
             \/ ListToDelete(t) \/ DeletionRaises(t)
    BY <2>3, ScaleEnds
  <2>4. CASE Invalidate(t)  BY <2>4, ScaleInvalidate
  <2>5. CASE ListAPs(t)  BY <2>5, ScaleListAPs
  <2>6. CASE \E a \in APs : UpdateAP(t, a)  BY <2>6, ScaleUpdateAP
  <2>7. CASE RescaleRaises(t)  BY <2>7, ScaleRescaleRaises
  <2>8. CASE \E a \in APs, p \in Spots : Place(t, a, p) \/ Reposition(t, a, p)
    BY <2>8, ScalePlace
  <2>9. CASE SaveAP(t)  BY <2>9, ScaleSaveAP
  <2>10. CASE \E z \in Layouts : DeleteZone(t, z)  BY <2>10, ScaleDeleteZone
  <2>11. CASE \E a \in APs : DeleteListed(t, a)  BY <2>11, ScaleRemoveAP
  <2>. QED
    BY <1>1, <2>1, <2>2, <2>3, <2>4, <2>5, <2>6, <2>7, <2>8, <2>9, <2>10, <2>11
    DEF RequestStep
<1>2. CASE \E a \in APs : RemoveAP(a)  BY <1>2, ScaleRemoveAP
<1>3. CASE ReportStep  BY <1>3, ScaleHear, ScaleSolve DEF ReportStep
<1>4. CASE Elapse  BY <1>4, ScaleElapse
<1>5. CASE Restart  BY <1>5, ScaleRestart
<1>6. CASE UNCHANGED vars
  <2>1. UNCHANGED <<scale, zones, aps, request, context, coords, coordsAge, buffer, solve,
                    blurred, unsure, rezoned, quiet>>
    BY <1>6 DEF vars
  <2>2. ScaleShape'  BY <2>1 DEF ScaleInv, ScaleShape
  <2>3. Calibrated'  BY <2>1, CalibratedSame DEF ScaleInv, Placing
  <2>4. WritersInOrder'  BY <2>1, WritersSame DEF ScaleInv
  <2>5. ReadsAreCurrent'  BY <2>1, ReadsSame DEF ScaleInv, Invalidating, ScaleUntold, Doing,
         Rescaling
  <2>6. MetresAreRecent'  BY <2>1, RecentSame DEF ScaleInv
  <2>. QED  BY <2>2, <2>3, <2>4, <2>5, <2>6 DEF ScaleInv
<1>. QED  BY <1>1, <1>2, <1>3, <1>4, <1>5, <1>6 DEF Next

--------------------------------------------------------------------------------
(* The collision check (CollisionAlerts, the part "collision"). *)
(* v1 is place, v2 doc, v3 gone, v4 saved, v5 cache, v6 cacheAge, v7 last,  *)
(* v8 told and v9 check.                                                    *)

\* The ages of a check are no older than the check.
CheckAges == v9.stamp <= v9.age /\ v9.pairAge <= v9.age

\* What was read and is about to be stored is the document's, or was when the time was
\* taken; and the document holds its distance now.
ReadIsRecent ==
    /\ v3[v2] = 0
    /\ C!Busy("store") =>
          /\ v9.got # None
          /\ ~v9.got.failed => v3[v9.got.limit] <= v9.stamp
          /\ v9.got.limit = v2 \/ v9.got.failed \/ v9.got.crossed

\* A pair is held back because of an alert, which was saved that long ago.
HeldForAnAlert == \A pr \in C!Pairs : v7[pr] < Suppress => v8[pr] = v7[pr]

\* A pair that is near has its turn to come, or has it now, or has had its alert.
PairsInTurn ==
    C!Busy("pairs") =>
        /\ v9.got # None
        /\ \A pr \in C!Near(v9.got.limit) :
              pr \in v9.todo \/ pr = v9.pair \/ v8[pr] - v9.age < Suppress

CollisionInv ==
    /\ C!TypeOK /\ C!LimitIsRecent /\ C!CacheFollowsDoc
    /\ CheckAges /\ ReadIsRecent /\ HeldForAnAlert /\ PairsInTurn

LEMMA CollisionInit ==
    ASSUME C!Init
    PROVE  CollisionInv
<1>. USE CollisionAssumption DEF C!Init, C!NoCheck, C!Long
<1>1. C!TypeOK  BY DEF C!TypeOK
<1>2. C!LimitIsRecent /\ C!CacheFollowsDoc
  BY DEF C!LimitIsRecent, C!CacheFollowsDoc
<1>3. CheckAges /\ ReadIsRecent /\ PairsInTurn
  BY DEF CheckAges, ReadIsRecent, PairsInTurn, C!Busy
<1>4. HeldForAnAlert  BY DEF HeldForAnAlert
<1>. QED  BY <1>1, <1>2, <1>3, <1>4 DEF CollisionInv

LEMMA NearArePairs == \A l : C!Near(l) \subseteq C!Pairs
  BY DEF C!Near

\* A step of the check that stores nothing and alerts about nothing.
LEMMA CheckMoves ==
    ASSUME CollisionInv, C!TypeOK', CheckAges',
           UNCHANGED <<v2, v3, v4, v5, v6, v7, v8>>,
           ~C!Busy("store")', PairsInTurn'
    PROVE  CollisionInv'
<1>1. C!LimitIsRecent' /\ C!CacheFollowsDoc' /\ HeldForAnAlert'
  BY DEF CollisionInv, C!LimitIsRecent, C!CacheFollowsDoc, HeldForAnAlert
<1>2. ReadIsRecent'  BY DEF CollisionInv, ReadIsRecent
<1>. QED  BY <1>1, <1>2 DEF CollisionInv

\* The settings are there: all pairs that are near have their turn to come.
LEMMA WithSettings ==
    ASSUME C!TypeOK, CheckAges, NEW got \in C!Got,
           v9' = C!With(got), UNCHANGED v1
    PROVE  /\ CheckAges' /\ PairsInTurn' /\ ~C!Busy("store")'
           /\ v9' \in [at : {"idle", "settings", "cached", "read", "store", "between", "pairs"},
                       for : {"man_down", "collision"},
                       got : C!Got \cup {None}, stamp : 0 .. MaxCheck,
                       todo : SUBSET C!Pairs, pair : C!Pairs \cup {None},
                       pairAge : 0 .. MaxCheck, age : 0 .. MaxCheck]
<1>. USE DEF C!With, C!TypeOK
<1>1. C!Near(got.limit) \subseteq C!Pairs  BY NearArePairs
<1>2. CASE v9.for = "man_down"
  BY <1>2 DEF CheckAges, PairsInTurn, C!Busy
<1>3. CASE v9.for # "man_down"
  <2>1. v9' = [v9 EXCEPT !.at = "pairs", !.got = got, !.todo = C!Near(got.limit)]
    BY <1>3
  <2>2. v9'.at = "pairs" /\ v9'.got = got /\ v9'.todo = C!Near(got.limit)
    BY <2>1
  <2>3. PairsInTurn'
    <3>1. \A pr \in C!Near(v9.got.limit)' : pr \in v9'.todo
      BY <2>2 DEF C!Near, C!Distance
    <3>2. got # None  BY CollisionAssumption
    <3>. QED  BY <2>2, <3>1, <3>2 DEF PairsInTurn
  <2>4. CheckAges'  BY <2>1 DEF CheckAges
  <2>. QED  BY <1>1, <2>1, <2>3, <2>4 DEF C!Busy
<1>. QED  BY <1>2, <1>3

\* Steps of the check that are in no pair yet, and those that end it.
LEMMA CheckGoes ==
    ASSUME CollisionInv,
           \/ \E p \in C!People, s \in Points \cup {None} : C!Update(p, s)
           \/ C!Between \/ C!Look \/ C!Return
           \/ C!Raise \/ C!Finish
    PROVE  CollisionInv'
<1>. USE DEF CollisionInv, C!TypeOK, C!Proceed, C!NoCheck
<1>0. 0 \in 0 .. MaxCheck  BY CollisionAssumption
<1>1. ASSUME NEW p \in C!People, NEW s \in Points \cup {None},
             C!Update(p, s)
      PROVE  CollisionInv'
  <2>1. C!TypeOK'  BY <1>0, <1>1 DEF C!Update
  <2>2. CheckAges' /\ ~C!Busy("store")' /\ ~C!Busy("pairs")'
    BY <1>0, <1>1 DEF C!Update, CheckAges, C!Busy
  <2>. QED  BY <1>1, <2>1, <2>2, CheckMoves DEF C!Update, PairsInTurn
<1>2. CASE C!Between \/ C!Look
  <2>1. C!TypeOK'  BY <1>0, <1>2 DEF C!Between, C!Look
  <2>2. CheckAges' /\ ~C!Busy("store")' /\ ~C!Busy("pairs")'
    <3>1. CASE C!Between
      BY <3>1 DEF C!Between, CheckAges, C!Busy
    <3>2. CASE C!Look
      <4>1. v9'.at \in {"cached", "read"} /\ v9'.stamp = 0 /\ v9'.age = v9.age
            /\ v9'.pairAge = v9.pairAge
        BY <3>2 DEF C!Look
      <4>. QED  BY <1>0, <4>1 DEF CheckAges, C!Busy
    <3>. QED  BY <1>2, <3>1, <3>2
  <2>. QED
    BY <1>2, <2>1, <2>2, CheckMoves DEF C!Between, C!Look, PairsInTurn
<1>3. CASE C!Raise \/ C!Finish
  <2>1. C!TypeOK'  BY <1>0, <1>3 DEF C!Raise, C!Finish
  <2>2. CheckAges' /\ ~C!Busy("store")' /\ ~C!Busy("pairs")'
    BY <1>0, <1>3 DEF C!Raise, C!Finish, CheckAges, C!Busy
  <2>. QED
    BY <1>3, <2>1, <2>2, CheckMoves DEF C!Raise, C!Finish, PairsInTurn
<1>4. CASE C!Return
  <2>1. CASE v5 # None /\ v9' = C!With(v5)
    <3>1. v5 \in C!Got /\ UNCHANGED <<v1, v2, v3, v4, v5, v6, v7, v8>>
      BY <1>4, <2>1 DEF C!Return
    <3>2. /\ CheckAges' /\ PairsInTurn' /\ ~C!Busy("store")'
          /\ C!TypeOK'
      BY <2>1, <3>1, WithSettings
    <3>. QED  BY <3>1, <3>2, CheckMoves
  <2>2. CASE v9' = [v9 EXCEPT !.at = "between"] \/ v9' = C!NoCheck
    <3>1. C!TypeOK'  BY <1>0, <1>4, <2>2 DEF C!Return
    <3>2. CheckAges' /\ ~C!Busy("store")' /\ ~C!Busy("pairs")'
      BY <1>0, <2>2 DEF CheckAges, C!Busy
    <3>. QED  BY <1>4, <3>1, <3>2, CheckMoves DEF C!Return, PairsInTurn
  <2>. QED  BY <1>4, <2>1, <2>2 DEF C!Return
<1>. QED  BY <1>1, <1>2, <1>3, <1>4

LEMMA CheckReads ==
    ASSUME CollisionInv, NEW failed \in BOOLEAN, C!Read(failed)
    PROVE  CollisionInv'
<1>. DEFINE got == [limit |-> IF failed THEN Default ELSE v2, failed |-> failed,
                    crossed |-> FALSE]
<1>. USE DEF CollisionInv, C!TypeOK
<1>1. /\ v9' = [v9 EXCEPT !.at = "store", !.got = got]
      /\ UNCHANGED <<v1, v2, v3, v4, v5, v6, v7, v8>>
  BY DEF C!Read, C!Proceed
<1>2. got \in C!Got  BY CollisionAssumption DEF C!Got
<1>3. got # None  BY <1>2, CollisionAssumption
<1>4. got.failed = failed /\ (~failed => got.limit = v2)  OBVIOUS
<1>5. v3[v2] = 0 /\ v3[v2] <= v9.stamp  BY DEF ReadIsRecent, CheckAges
<1>. HIDE DEF got
<1>6. C!TypeOK'  BY <1>1, <1>2
<1>7. v9'.at = "store" /\ v9'.got = got /\ v9'.stamp = v9.stamp  BY <1>1
<1>8. CheckAges' /\ PairsInTurn'  BY <1>1 DEF CheckAges, PairsInTurn, C!Busy
<1>9. ReadIsRecent'
  BY <1>1, <1>3, <1>4, <1>5, <1>7 DEF ReadIsRecent, C!Busy
<1>10. C!LimitIsRecent' /\ C!CacheFollowsDoc' /\ HeldForAnAlert'
  BY <1>1 DEF C!LimitIsRecent, C!CacheFollowsDoc, HeldForAnAlert
<1>. QED  BY <1>6, <1>8, <1>9, <1>10

LEMMA CheckStores ==
    ASSUME CollisionInv, C!Store
    PROVE  CollisionInv'
<1>. USE DEF CollisionInv, C!TypeOK
<1>1. /\ v5' = v9.got /\ v6' = C!Stored(v9.stamp)
      /\ v9' = C!With(v9.got) /\ C!Busy("store")
      /\ UNCHANGED <<v1, v2, v3, v4, v7, v8>>
  BY DEF C!Store, C!Proceed
<1>2. v9.got \in C!Got /\ v9.got # None  BY <1>1 DEF ReadIsRecent
<1>3. v6' \in 0 .. TTL /\ (v6' = v9.stamp \/ v6' = TTL)
  BY <1>1, CollisionAssumption DEF C!Stored
<1>4. CheckAges' /\ PairsInTurn' /\ ~C!Busy("store")' /\ C!TypeOK'
  BY <1>1, <1>2, <1>3, WithSettings
<1>5. C!LimitIsRecent'
  <2>1. v9.got.limit \in Limits  BY <1>2 DEF C!Got
  <2>2. v3[v9.got.limit] \in 0 .. TTL  BY <2>1
  <2>. QED  BY <1>1, <1>3, <2>2 DEF C!LimitIsRecent, ReadIsRecent
<1>6. C!CacheFollowsDoc'  BY <1>1 DEF C!CacheFollowsDoc, ReadIsRecent
<1>7. HeldForAnAlert' /\ ReadIsRecent'  BY <1>1, <1>4 DEF HeldForAnAlert, ReadIsRecent
<1>. QED  BY <1>4, <1>5, <1>6, <1>7

LEMMA CheckPairs ==
    ASSUME CollisionInv, NEW pr \in C!Pairs, C!Pair(pr)
    PROVE  CollisionInv'
<1>. USE DEF CollisionInv, C!TypeOK, C!Proceed, C!Pair
<1>0. 0 \in 0 .. MaxCheck  BY CollisionAssumption
<1>1. C!TypeOK' /\ CheckAges' /\ ~C!Busy("store")'
  <2>1. CASE v9' = [v9 EXCEPT !.todo = @ \ {pr}]
    BY <2>1 DEF CheckAges, C!Busy
  <2>2. CASE v9' = [v9 EXCEPT !.todo = @ \ {pr}, !.pair = pr, !.pairAge = 0]
    <3>1. C!TypeOK'  BY <1>0, <2>2
    <3>2. v9'.stamp = v9.stamp /\ v9'.age = v9.age /\ v9'.pairAge = 0 /\ v9'.at = v9.at
      BY <2>2
    <3>3. v9.at = "pairs" /\ v9.age \in Nat  BY DEF C!Busy
    <3>. QED  BY <3>1, <3>2, <3>3 DEF CheckAges, C!Busy
  <2>. QED  BY <2>1, <2>2
<1>2. PairsInTurn'
  <2>1. v9'.got = v9.got /\ v9'.age = v9.age /\ v9'.at = "pairs" /\ UNCHANGED <<v1, v8>>
        /\ v9'.todo = v9.todo \ {pr} /\ v9.pair = None
    BY DEF C!Busy
  <2>2. C!Near(v9.got.limit)' = C!Near(v9.got.limit)
    BY <2>1 DEF C!Near, C!Distance
  <2>3. CASE C!HeldBack(pr)
    <3>1. v8[pr] - v9.age < Suppress
      <4>1. v7[pr] < Suppress /\ v8[pr] = v7[pr]
        BY <2>3 DEF C!HeldBack, HeldForAnAlert
      <4>2. v7[pr] \in Nat /\ v9.age \in Nat  OBVIOUS
      <4>. QED  BY <4>1, <4>2, CollisionAssumption
    <3>2. v9'.pair = None  BY <2>3
    <3>. QED  BY <2>1, <2>2, <3>1, <3>2 DEF PairsInTurn, C!Busy
  <2>4. CASE ~C!HeldBack(pr)
    <3>1. v9'.pair = pr  BY <2>4
    <3>2. \A q \in C!Near(v9.got.limit) :
             q \in v9.todo \/ q = None \/ v8[q] - v9.age < Suppress
      BY <2>1 DEF PairsInTurn
    <3>3. \A q \in C!Near(v9.got.limit) : q # None
      BY NearArePairs, CollisionAssumption
    <3>. QED  BY <2>1, <2>2, <3>1, <3>2, <3>3 DEF PairsInTurn, C!Busy
  <2>. QED  BY <2>3, <2>4
<1>. QED  BY <1>1, <1>2, CheckMoves

LEMMA CheckAlerts ==
    ASSUME CollisionInv, C!Alert
    PROVE  CollisionInv'
<1>. USE DEF CollisionInv, C!TypeOK
<1>1. /\ v9' = [v9 EXCEPT !.pair = None]
      /\ v8' = [v8 EXCEPT ![v9.pair] = v9.pairAge]
      /\ v7' = [v7 EXCEPT ![v9.pair] = IF v9.pairAge < Suppress THEN v9.pairAge
                                       ELSE Suppress]
      /\ UNCHANGED <<v1, v2, v3, v4, v5, v6>> /\ v9.at = "pairs" /\ v9.pair # None
  BY DEF C!Alert, C!Proceed, C!Busy
<1>2. v9.pair \in C!Pairs /\ v9.pairAge \in Nat /\ v9.age \in Nat  BY <1>1
<1>3. v8' \in [C!Pairs -> 0 .. C!Long]
  BY <1>1, <1>2, CollisionAssumption DEF C!Long
<1>4. v7' \in [C!Pairs -> 0 .. Suppress]  BY <1>1, <1>2, CollisionAssumption
<1>5. C!TypeOK'  BY <1>1, <1>3, <1>4
<1>6. CheckAges'  BY <1>1 DEF CheckAges
<1>7. ReadIsRecent'  BY <1>1 DEF ReadIsRecent, C!Busy
<1>8. C!LimitIsRecent' /\ C!CacheFollowsDoc'
  BY <1>1 DEF C!LimitIsRecent, C!CacheFollowsDoc
<1>9. HeldForAnAlert'  BY <1>1, <1>2, CollisionAssumption DEF HeldForAnAlert
<1>10. PairsInTurn'
  <2>1. C!Near(v9.got.limit)' = C!Near(v9.got.limit)
    BY <1>1 DEF C!Near, C!Distance
  <2>2. v8'[v9.pair] - v9.age < Suppress
    BY <1>1, <1>2, CollisionAssumption DEF CheckAges
  <2>3. v9'.got = v9.got /\ v9'.age = v9.age /\ v9'.todo = v9.todo  BY <1>1
  <2>4. \A q \in C!Pairs \ {v9.pair} : v8'[q] = v8[q]  BY <1>1
  <2>. QED
    BY <1>1, <2>1, <2>2, <2>3, <2>4, NearArePairs DEF PairsInTurn, C!Busy
<1>. QED  BY <1>5, <1>6, <1>7, <1>8, <1>9, <1>10

\* The settings change, or their cache is dropped, or the worker restarts.
LEMMA SettingsStep ==
    ASSUME CollisionInv,
           \/ \E a \in Admins, limit \in Limits : C!SaveSettings(a, limit)
           \/ \E a \in Admins : C!Invalidate(a)
           \/ C!Restart
    PROVE  CollisionInv'
<1>. USE DEF CollisionInv, C!TypeOK
<1>1. ASSUME NEW a \in Admins, NEW limit \in Limits, C!SaveSettings(a, limit)
      PROVE  CollisionInv'
  <2>. USE <1>1 DEF C!SaveSettings, C!Reading
  <2>1. v3' \in [Limits -> 0 .. TTL] /\ v3'[limit] = 0
        /\ \A l \in Limits : v3'[l] <= v3[l]
    BY CollisionAssumption
  <2>2. CASE C!Busy("store")
    <3>1. /\ v9.got \in C!Got /\ v9.got.limit \in Limits /\ v9.got.failed \in BOOLEAN
          /\ v9.got.crossed \in BOOLEAN
      BY <2>2 DEF ReadIsRecent, C!Got
    <3>. DEFINE new == [v9.got EXCEPT !.crossed = TRUE]
    <3>2. new \in C!Got /\ new.crossed = TRUE /\ new.limit = v9.got.limit
          /\ new.failed = v9.got.failed
      BY <3>1 DEF C!Got
    <3>3. v9' = [v9 EXCEPT !.got = new]  BY <2>2
    <3>. HIDE DEF new
    <3>4. /\ v9' \in [at : {"idle", "settings", "cached", "read", "store", "between", "pairs"},
                      for : {"man_down", "collision"},
                      got : C!Got \cup {None}, stamp : 0 .. MaxCheck,
                      todo : SUBSET C!Pairs, pair : C!Pairs \cup {None},
                      pairAge : 0 .. MaxCheck, age : 0 .. MaxCheck]
          /\ v9'.got = new /\ v9'.at = "store" /\ v9'.stamp = v9.stamp /\ v9'.age = v9.age
          /\ v9'.pairAge = v9.pairAge
      BY <2>2, <3>2, <3>3 DEF C!Busy
    <3>5. C!TypeOK' /\ CheckAges' /\ PairsInTurn'
      BY <2>1, <3>4 DEF CheckAges, PairsInTurn, C!Busy
    <3>6. new # None  BY <3>2, CollisionAssumption
    <3>7. v3[v9.got.limit] \in Nat /\ v3'[v9.got.limit] \in Nat /\ v9.stamp \in Nat
          /\ v3'[v9.got.limit] <= v3[v9.got.limit]
      BY <2>1, <3>1
    <3>8. ReadIsRecent'
      <4>1. v3'[v2'] = 0  BY <2>1
      <4>2. ~new.failed => v3'[new.limit] <= v9.stamp
        <5>1. ~new.failed => v3[v9.got.limit] <= v9.stamp
          BY <2>2, <3>2 DEF ReadIsRecent
        <5>. QED  BY <3>2, <3>7, <5>1
      <4>. QED  BY <3>2, <3>4, <3>6, <4>1, <4>2 DEF ReadIsRecent, C!Busy
    <3>9. v5 # None /\ ~v5.failed => v3'[v5.limit] <= v6
      <4>. SUFFICES ASSUME v5 # None, ~v5.failed  PROVE v3'[v5.limit] <= v6  OBVIOUS
      <4>1. v5.limit \in Limits /\ v3[v5.limit] <= v6
        BY DEF C!LimitIsRecent, C!Got
      <4>2. v3[v5.limit] \in Nat /\ v3'[v5.limit] \in Nat /\ v6 \in Nat  BY <2>1, <4>1
      <4>. QED  BY <2>1, <4>1, <4>2
    <3>. QED
      BY <3>5, <3>8, <3>9
      DEF C!LimitIsRecent, C!CacheFollowsDoc, HeldForAnAlert
  <2>3. CASE ~C!Busy("store")
    <3>1. C!TypeOK' /\ CheckAges' /\ ReadIsRecent'
      BY <2>1, <2>3 DEF CheckAges, ReadIsRecent, C!Busy
    <3>2. PairsInTurn'
      BY <2>3 DEF PairsInTurn, C!Busy, C!Near, C!Distance
    <3>3. v5 # None /\ ~v5.failed => v3'[v5.limit] <= v6
      <4>. SUFFICES ASSUME v5 # None, ~v5.failed  PROVE v3'[v5.limit] <= v6  OBVIOUS
      <4>1. v5.limit \in Limits /\ v3[v5.limit] <= v6
        BY DEF C!LimitIsRecent, C!Got
      <4>2. v3[v5.limit] \in Nat /\ v3'[v5.limit] \in Nat /\ v6 \in Nat  BY <2>1, <4>1
      <4>. QED  BY <2>1, <4>1, <4>2
    <3>. QED
      BY <3>1, <3>2, <3>3
      DEF C!LimitIsRecent, C!CacheFollowsDoc, HeldForAnAlert
  <2>. QED  BY <2>2, <2>3
<1>2. ASSUME NEW a \in Admins, C!Invalidate(a)  PROVE CollisionInv'
  <2>1. /\ v5' = None /\ v6' = 0 /\ v4' = v4 \ {a}
        /\ UNCHANGED <<v1, v2, v3, v7, v8, v9>>
    BY <1>2 DEF C!Invalidate, C!DropCache
  <2>2. C!TypeOK'  BY <2>1, CollisionAssumption
  <2>3. PairsInTurn'
    BY <2>1 DEF PairsInTurn, C!Busy, C!Near, C!Distance
  <2>. QED
    BY <2>1, <2>2, <2>3 DEF C!LimitIsRecent, C!CacheFollowsDoc,
       CheckAges, ReadIsRecent, HeldForAnAlert, C!Busy
<1>3. CASE C!Restart
  <2>. USE <1>3, CollisionAssumption DEF C!Restart, C!NoCheck
  <2>1. C!TypeOK'  BY DEF C!Long
  <2>2. v8' = [pr \in C!Pairs |-> C!Long]
        /\ \A pr \in C!Pairs : v7'[pr] = Suppress
    OBVIOUS
  <2>. QED
    BY <2>1, <2>2 DEF C!LimitIsRecent, C!CacheFollowsDoc, CheckAges,
       ReadIsRecent, HeldForAnAlert, PairsInTurn, C!Busy
<1>. QED  BY <1>1, <1>2, <1>3

LEMMA OlderAges ==
    ASSUME NEW bound \in Nat, NEW age \in 0 .. bound
    PROVE  /\ C!Older(age, bound) \in 0 .. bound
           /\ C!Older(age, bound) \in {age + 1, bound}
           /\ age < bound => C!Older(age, bound) = age + 1
  BY DEF C!Older

LEMMA CollisionTimes ==
    ASSUME CollisionInv, C!Tick
    PROVE  CollisionInv'
<1>. USE DEF CollisionInv, C!TypeOK
<1>0. TTL \in Nat /\ Suppress \in Nat /\ C!Long \in Nat /\ MaxCheck \in Nat
      /\ Suppress <= C!Long
  BY CollisionAssumption DEF C!Long
<1>1. UNCHANGED <<v1, v2, v4, v5>>  BY DEF C!Tick
<1>2. v3' = [l \in Limits |-> IF v2 = l THEN 0 ELSE C!Older(v3[l], TTL)]
  BY DEF C!Tick
<1>3. v3' \in [Limits -> 0 .. TTL] /\ v3'[v2] = 0
  BY <1>0, <1>2, OlderAges
<1>4. v6' \in 0 .. TTL /\ (v5 # None => v6' = C!Older(v6, TTL))
  <2>1. v6' = IF v5 = None THEN 0 ELSE C!Older(v6, TTL)  BY DEF C!Tick
  <2>. QED  BY <1>0, <2>1, OlderAges
<1>5. v7' = [pr \in C!Pairs |-> C!Older(v7[pr], Suppress)]
      /\ v8' = [pr \in C!Pairs |-> C!Older(v8[pr], C!Long)]
  BY DEF C!Tick
<1>6. v7' \in [C!Pairs -> 0 .. Suppress]
      /\ v8' \in [C!Pairs -> 0 .. C!Long]
  BY <1>0, <1>5, OlderAges
<1>7. C!LimitIsRecent'
  <2>. SUFFICES ASSUME v5 # None, ~v5.failed  PROVE v3'[v5.limit] <= v6'
    BY <1>1 DEF C!LimitIsRecent
  <2>1. v5.limit \in Limits /\ v3[v5.limit] <= v6
    BY DEF C!LimitIsRecent, C!Got
  <2>2. v3[v5.limit] \in 0 .. TTL /\ v6 \in 0 .. TTL  BY <2>1
  <2>3. v3'[v5.limit] = 0 \/ v3'[v5.limit] = C!Older(v3[v5.limit], TTL)
    BY <1>2, <2>1
  <2>. QED  BY <1>0, <1>4, <2>1, <2>2, <2>3 DEF C!Older
<1>8. C!CacheFollowsDoc'  BY <1>1 DEF C!CacheFollowsDoc
<1>9. HeldForAnAlert'
  <2>. SUFFICES ASSUME NEW pr \in C!Pairs, v7'[pr] < Suppress
                PROVE  v8'[pr] = v7'[pr]
    BY DEF HeldForAnAlert
  <2>1. v7[pr] \in 0 .. Suppress /\ v8[pr] \in 0 .. C!Long  OBVIOUS
  <2>2. v7[pr] < Suppress /\ v7'[pr] = v7[pr] + 1
    <3>1. v7'[pr] = C!Older(v7[pr], Suppress)  BY <1>5
    <3>. QED  BY <1>0, <2>1, <3>1 DEF C!Older
  <2>3. v8[pr] = v7[pr]  BY <2>2 DEF HeldForAnAlert
  <2>4. v8'[pr] = v8[pr] + 1  BY <1>0, <1>5, <2>1, <2>2, <2>3, OlderAges
  <2>. QED  BY <2>2, <2>3, <2>4
<1>10. CASE C!Busy("idle")
  <2>1. v9' = v9  BY <1>10 DEF C!Tick
  <2>2. C!TypeOK' /\ CheckAges' /\ PairsInTurn' /\ ReadIsRecent'
    BY <1>1, <1>3, <1>4, <1>6, <1>10, <2>1
    DEF CheckAges, PairsInTurn, ReadIsRecent, C!Busy
  <2>. QED  BY <1>7, <1>8, <1>9, <2>2
<1>11. CASE ~C!Busy("idle")
  <2>1. /\ v9.age < MaxCheck
        /\ v9' = [v9 EXCEPT !.age = @ + 1,
                    !.stamp = IF v9.at \in {"read", "store"} THEN @ + 1 ELSE @,
                    !.pairAge = IF v9.pair # None THEN @ + 1 ELSE 0]
    BY <1>11 DEF C!Tick
  <2>2. v9.age \in Nat /\ v9.stamp \in Nat /\ v9.pairAge \in Nat
        /\ v9.stamp <= v9.age /\ v9.pairAge <= v9.age
    BY DEF CheckAges
  <2>3. /\ v9'.age = v9.age + 1 /\ v9'.at = v9.at /\ v9'.got = v9.got
        /\ v9'.todo = v9.todo /\ v9'.pair = v9.pair
        /\ v9'.stamp \in {v9.stamp, v9.stamp + 1}
        /\ v9'.pairAge \in {0, v9.pairAge + 1}
        /\ v9.at = "store" => v9'.stamp = v9.stamp + 1
    BY <2>1
  <2>4. v9'.age \in 0 .. MaxCheck /\ v9'.stamp \in 0 .. MaxCheck /\ v9'.pairAge \in 0 .. MaxCheck
    BY <1>0, <2>1, <2>2, <2>3
  <2>5. C!TypeOK'  BY <1>1, <1>3, <1>4, <1>6, <2>1, <2>3, <2>4
  <2>6. CheckAges'  BY <2>2, <2>3 DEF CheckAges
  <2>7. ReadIsRecent'
    <3>. SUFFICES ASSUME v9.at = "store"
                  PROVE  /\ v9.got # None
                         /\ ~v9.got.failed => v3'[v9.got.limit] <= v9.stamp + 1
                         /\ v9.got.limit = v2 \/ v9.got.failed \/ v9.got.crossed
      BY <1>1, <1>3, <2>3 DEF ReadIsRecent, C!Busy
    <3>1. v9.got # None /\ (~v9.got.failed => v3[v9.got.limit] <= v9.stamp)
          /\ (v9.got.limit = v2 \/ v9.got.failed \/ v9.got.crossed)
      BY DEF ReadIsRecent, C!Busy
    <3>2. v9.got.limit \in Limits  BY <3>1 DEF C!Got
    <3>3. v3[v9.got.limit] \in 0 .. TTL
          /\ v3'[v9.got.limit] \in {0, C!Older(v3[v9.got.limit], TTL)}
      BY <1>2, <3>2
    <3>4. v3'[v9.got.limit] <= v3[v9.got.limit] + 1
      BY <1>0, <3>3 DEF C!Older
    <3>5. v3'[v9.got.limit] \in Nat  BY <1>3, <3>2
    <3>. QED  BY <2>2, <3>1, <3>3, <3>4, <3>5
  <2>8. PairsInTurn'
    <3>. SUFFICES ASSUME v9.at = "pairs"
                  PROVE  /\ v9.got # None
                         /\ \A pr \in C!Near(v9.got.limit) :
                               \/ pr \in v9.todo \/ pr = v9.pair
                               \/ v8'[pr] - (v9.age + 1) < Suppress
      BY <1>1, <2>3 DEF PairsInTurn, C!Busy, C!Near, C!Distance
    <3>1. v9.got # None  BY DEF PairsInTurn, C!Busy
    <3>2. ASSUME NEW pr \in C!Near(v9.got.limit), v8[pr] - v9.age < Suppress
          PROVE  v8'[pr] - (v9.age + 1) < Suppress
      <4>1. pr \in C!Pairs  BY NearArePairs
      <4>2. v8[pr] \in 0 .. C!Long  BY <4>1
      <4>3. v8'[pr] = C!Older(v8[pr], C!Long)  BY <1>5, <4>1
      <4>4. v8'[pr] \in Nat /\ v8'[pr] <= v8[pr] + 1
        BY <1>0, <4>2, <4>3 DEF C!Older
      <4>. QED  BY <1>0, <2>2, <3>2, <4>2, <4>4
    <3>. QED  BY <3>1, <3>2 DEF PairsInTurn, C!Busy
  <2>. QED  BY <1>7, <1>8, <1>9, <2>5, <2>6, <2>7, <2>8
<1>. QED  BY <1>10, <1>11

LEMMA CollisionStep == CollisionInv /\ [C!Next]_(C!vars) => CollisionInv'
<1>. SUFFICES ASSUME CollisionInv, [C!Next]_(C!vars)  PROVE CollisionInv'  OBVIOUS
<1>1. CASE C!Next
  BY <1>1, CheckGoes, CheckReads, CheckStores, CheckPairs, CheckAlerts, SettingsStep,
     CollisionTimes DEF C!Next, C!Check
<1>2. CASE UNCHANGED C!vars
  BY <1>2 DEF C!vars, CollisionInv, C!TypeOK, C!LimitIsRecent, C!CacheFollowsDoc, CheckAges,
     ReadIsRecent, HeldForAnAlert, PairsInTurn, C!Busy, C!Near, C!Distance
<1>. QED  BY <1>1, <1>2

LEMMA CollisionSafe == CollisionInv => C!NearIsAlerted
<1>. SUFFICES ASSUME CollisionInv, C!Done, NEW pr \in C!Near(v9.got.limit)
              PROVE  v8[pr] - v9.age < Suppress
  BY DEF C!NearIsAlerted
<1>1. pr \in C!Pairs  BY NearArePairs
<1>2. pr # None  BY <1>1, CollisionAssumption
<1>. QED  BY <1>2 DEF CollisionInv, PairsInTurn, C!Done

--------------------------------------------------------------------------------
(* The parts together: each keeps its invariant while the others stand still. *)

AdminInv ==
    /\ ScaleInv
    /\ part = "accounts" => AccountsInv
    /\ part = "activation" => FloorsInv
    /\ part = "incidents" => IncidentsInv
    /\ part = "collision" => CollisionInv

LEMMA AdminStarts == AdminInit => AdminInv
BY ScaleInit, AccountsInit, FloorsInit, IncidentsInit, CollisionInit DEF AdminInit, AdminInv

\* A step is one of the part that is explored, or changes nothing of it.
LEMMA AdminSteps ==
    ASSUME [AdminNext]_<<vars, shared, part>>
    PROVE  /\ part' = part
           /\ [Next]_vars
           /\ part = "accounts" => [A!Next]_(A!vars)
           /\ part = "activation" => [F!Next]_(F!vars)
           /\ part = "incidents" => [I!Next]_(I!vars)
           /\ part = "collision" => [C!Next]_(C!vars)
<1>1. UNCHANGED shared => /\ UNCHANGED A!vars /\ UNCHANGED F!vars
                          /\ UNCHANGED I!vars /\ UNCHANGED C!vars
  BY DEF shared, A!vars, F!vars, I!vars, C!vars
<1>2. UNCHANGED <<vars, v6, v7, v8, v9, part>> => UNCHANGED vars /\ part' = part  OBVIOUS
<1>6. UNCHANGED <<vars, v9, part>> => UNCHANGED vars /\ part' = part  OBVIOUS
<1>3. UNCHANGED <<shared, part>> => UNCHANGED shared /\ part' = part  OBVIOUS
<1>4. UNCHANGED <<vars, shared, part>> => UNCHANGED vars /\ UNCHANGED shared /\ part' = part
  OBVIOUS
<1>5. UNCHANGED <<vars, part>> => UNCHANGED vars /\ part' = part  OBVIOUS
<1>. QED  BY <1>1, <1>2, <1>3, <1>4, <1>5, <1>6 DEF AdminNext

LEMMA AdminKept ==
    ASSUME AdminInv, [AdminNext]_<<vars, shared, part>>
    PROVE  AdminInv' /\ (part = "accounts" => A!RoleIsKept /\ A!OrphanIsDeleted)
<1>1. ScaleInv'  BY AdminSteps, ScaleStep DEF AdminInv
<1>2. part = "accounts" => AccountsKept  BY AdminSteps, AccountsStep DEF AdminInv
<1>3. part = "activation" => FloorsInv'  BY AdminSteps, FloorsStep DEF AdminInv
<1>4. part = "incidents" => IncidentsInv'  BY AdminSteps, IncidentsStep DEF AdminInv
<1>5. part = "collision" => CollisionInv'  BY AdminSteps, CollisionStep DEF AdminInv
<1>6. part' = part  BY AdminSteps
<1>. QED  BY <1>1, <1>2, <1>3, <1>4, <1>5, <1>6 DEF AdminInv, AccountsKept

LEMMA AdminInvariance == AdminSpec => []AdminInv
<1>1. AdminInit => AdminInv  BY AdminStarts
<1>2. AdminInv /\ [AdminNext]_<<vars, shared, part>> => AdminInv'  BY AdminKept
<1>. QED  BY <1>1, <1>2, PTL DEF AdminSpec

\* floor_service.update_scale, positioning_service, omada_ingest_service: for any number of
\* access points, requests and scales, whatever fails and whatever the times of the caches,
\* metres match the scale, a cached context is the floor, and a position is solved in one
\* scale, but for the causes that the parts of ScaleHolds name.
THEOREM PositionsShareAScale == AdminSpec => []ScaleHolds
<1>1. AdminInv => ScaleHolds  BY ScaleSafe DEF AdminInv
<1>. QED  BY <1>1, AdminInvariance, PTL

\* user_repository.create, user_service: for any number of people and requests there is one
\* owner at most.
THEOREM OneOwner == AdminSpec => []AccountsHold
<1>1. AdminInv => AccountsHold  BY AccountsTyped DEF AdminInv, AccountsHold, AccountsInv
<1>. QED  BY <1>1, AdminInvariance, PTL

\* user_service.update_role and delete, and the clean-up of user_routes.list_users: no step
\* takes the role of an owner who has an account, nor the document of a person who has one.
THEOREM StandingStays == AdminSpec => StandingIsKept
<1>1. AdminInv /\ [AdminNext]_<<vars, shared, part>>
          => [part = "accounts" => A!RoleIsKept /\ A!OrphanIsDeleted]_shared
  BY AdminKept
<1>. QED  BY <1>1, AdminInvariance, PTL DEF AdminSpec, StandingIsKept

\* floor_service.activate and building_service.delete: for any number of floors and requests
\* two floors are active only if one was created within the activation of another, and a
\* floor of a deleted building only if it was created within the deletion.
THEOREM OneFloorIsActive == AdminSpec => []FloorsHold
<1>1. AdminInv => FloorsHold  BY FloorsSafe DEF AdminInv, FloorsHold
<1>. QED  BY <1>1, AdminInvariance, PTL

\* alert_service, feedback_service and report_service: for any number of alerts, guards,
\* shifts and requests an alert's mark and its feedback agree, one that is deleted stays so
\* and what is listed for a report has logs, but for the causes that the parts name; and the
\* cache of embeddings never outgrows its size by as many as the requests.
THEOREM AlertsAndFeedbackAgree == AdminSpec => []IncidentsHold
<1>1. AdminInv => IncidentsHold  BY IncidentsSafe DEF AdminInv, IncidentsHold
<1>. QED  BY <1>1, AdminInvariance, PTL

\* safety_service.py, safety_settings_service.py: for any number of people, distances and
\* admins, a collision check uses a distance that was lately the document's, and leaves no
\* pair that is near without an alert, but for the causes that the properties tell.
THEOREM CollisionsTold == AdminSpec => []CollisionsAreTold
<1>1. AdminInv => CollisionsAreTold
  BY CollisionSafe DEF AdminInv, CollisionInv, CollisionsAreTold
<1>. QED  BY <1>1, AdminInvariance, PTL
================================================================================
