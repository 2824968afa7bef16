------------------------------- MODULE Accounts -------------------------------
(***************************************************************************)
(* The user accounts (user_service.py, user_repository.py): a Firebase     *)
(* Auth account and a document of users/ for each person, the document     *)
(* with a role and a status.  A person signs up with Firebase from the     *)
(* browser; /auth/register and /auth/google then make the document, one at *)
(* a time on the event loop.  What admins do (user_routes.py) runs on      *)
(* threads, with a remote call at every step that may raise.  When the     *)
(* backend starts and finds no owner it promotes an admin.                 *)
(*                                                                         *)
(* Names, e-mail addresses and their verification are left out; suspended  *)
(* and pending differ in no step, so a status is approved or not.          *)
(***************************************************************************)
CONSTANTS
    Users,      \* Firebase uids, each used once
    Threads,    \* requests of admins under way at a time
    None, Idle

VARIABLES
    auth,       \* uids that have a Firebase account
    left,       \* uids whose Firebase account was deleted
    docs,       \* the documents of users/
    signing,    \* the registration on the event loop
    request     \* what each thread is to do next

vars == <<auth, left, docs, signing, request>>

Doc == [role : {"owner", "admin", "user"}, approved : BOOLEAN]
Registered == {u \in Users : docs[u] # None}
Role(u) == IF docs[u] = None THEN "none" ELSE docs[u].role
Owners == {u \in Users : Role(u) = "owner"}

Init ==
    /\ auth = {} /\ left = {}
    /\ docs = [u \in Users |-> None]
    /\ signing = Idle
    /\ request = [t \in Threads |-> Idle]

Goes(t, r) == request' = [request EXCEPT ![t] = r]
At(t, op, do) == request[t] # Idle /\ request[t].op = op /\ request[t].do = do

-----------------------------------------------------------------------------
(* Registration. *)

\* In the browser, with Firebase; a uid is used once.
SignUp(u) ==
    /\ u \notin auth \cup left
    /\ auth' = auth \cup {u}
    /\ UNCHANGED <<left, docs, signing, request>>

\* create_user_doc() and register_google() return the document if there is one.  The ID
\* token that lets a person in outlives the Firebase account by up to an hour.
Register(u) ==
    /\ signing = Idle
    /\ u \in auth \cup left /\ docs[u] = None
    /\ signing' = [do |-> "first", uid |-> u]
    /\ UNCHANGED <<auth, left, docs, request>>

\* A variant of First that looks for an approved user, not for any.
FirstApproved == \A u \in Registered : ~ docs[u].approved

\* The first user ever becomes the owner.
First == Registered = {}

CheckFirst ==
    /\ signing # Idle /\ signing.do = "first"
    /\ signing' = [do |-> "save", uid |-> signing.uid, owner |-> First]
    /\ UNCHANGED <<auth, left, docs, request>>

SaveUser ==
    /\ signing # Idle /\ signing.do = "save"
    /\ docs' = [docs EXCEPT ![signing.uid] =
                    [role |-> IF signing.owner THEN "owner" ELSE "user",
                     approved |-> signing.owner]]
    /\ signing' = Idle
    /\ UNCHANGED <<auth, left, request>>

RegisterRaises ==
    /\ signing # Idle
    /\ signing' = Idle
    /\ UNCHANGED <<auth, left, docs, request>>

-----------------------------------------------------------------------------
(* Requests of admins and the owner: require_admin(), require_owner(). *)

IsAdmin(u) == Role(u) \in {"admin", "owner"}
Signed(u) == docs[u] # None /\ docs[u].approved
Admitted(u) == Signed(u) /\ IsAdmin(u)

\* delete_user(): nobody deletes himself.
BeginDelete(t, by, u) ==
    /\ request[t] = Idle
    /\ Admitted(by) /\ u # by
    /\ Goes(t, [op |-> "delete", do |-> "auth", uid |-> u])
    /\ UNCHANGED <<auth, left, docs, signing>>

\* The Firebase account first; there is an error when it is gone already.
DeleteAuth(t) ==
    /\ At(t, "delete", "auth")
    /\ LET u == request[t].uid IN
       /\ u \in auth
       /\ auth' = auth \ {u} /\ left' = left \cup {u}
    /\ Goes(t, [request[t] EXCEPT !.do = "doc"])
    /\ UNCHANGED <<docs, signing>>

DeleteDoc(t) ==
    /\ At(t, "delete", "doc")
    /\ docs' = [docs EXCEPT ![request[t].uid] = None]
    /\ Goes(t, Idle)
    /\ UNCHANGED <<auth, left, signing>>

\* update_role(): the caller is asserted to be the owner once more, then the target is
\* read, then its role is written.
BeginRole(t, by, u, role) ==
    /\ request[t] = Idle
    /\ Signed(by) /\ Role(by) = "owner"
    /\ Goes(t, [op |-> "role", do |-> "assert", by |-> by, uid |-> u, role |-> role])
    /\ UNCHANGED <<auth, left, docs, signing>>

AssertOwner(t) ==
    /\ At(t, "role", "assert")
    /\ Role(request[t].by) = "owner"
    /\ Goes(t, [request[t] EXCEPT !.do = "read"])
    /\ UNCHANGED <<auth, left, docs, signing>>

Switchable(u) == docs[u] # None /\ Role(u) # "owner"

ReadTarget(t) ==
    /\ At(t, "role", "read")
    /\ Switchable(request[t].uid)
    /\ Goes(t, [request[t] EXCEPT !.do = "write"])
    /\ UNCHANGED <<auth, left, docs, signing>>

WriteRole(t) ==
    /\ At(t, "role", "write")
    /\ docs[request[t].uid] # None
    /\ docs' = [docs EXCEPT ![request[t].uid].role = request[t].role]
    /\ Goes(t, Idle)
    /\ UNCHANGED <<auth, left, signing>>

\* update_status()
BeginStatus(t, by, u, approved) ==
    /\ request[t] = Idle
    /\ Admitted(by)
    /\ Goes(t, [op |-> "status", do |-> "assert", by |-> by, uid |-> u,
                approved |-> approved])
    /\ UNCHANGED <<auth, left, docs, signing>>

AssertAdmin(t) ==
    /\ At(t, "status", "assert")
    /\ IsAdmin(request[t].by)
    /\ Goes(t, [request[t] EXCEPT !.do = "write"])
    /\ UNCHANGED <<auth, left, docs, signing>>

WriteStatus(t) ==
    /\ At(t, "status", "write")
    /\ docs[request[t].uid] # None
    /\ docs' = [docs EXCEPT ![request[t].uid].approved = request[t].approved]
    /\ Goes(t, Idle)
    /\ UNCHANGED <<auth, left, signing>>

\* get_all() and get_pending() list the documents, then the Firebase accounts, and
\* delete the documents listed that have none.
ListDocs(t, by) ==
    /\ request[t] = Idle
    /\ Admitted(by)
    /\ \E listed \in {Registered, {u \in Registered : ~ docs[u].approved}} :
           Goes(t, [op |-> "list", do |-> "auth", uids |-> listed])
    /\ UNCHANGED <<auth, left, docs, signing>>

\* A variant of ListAuth that reads one page of the Firebase accounts.
ListAuthPage(t) ==
    /\ At(t, "list", "auth")
    /\ \E page \in SUBSET auth :
           LET orphans == request[t].uids \ page IN
           Goes(t, IF orphans = {} THEN Idle
                   ELSE [op |-> "list", do |-> "clean", uids |-> orphans])
    /\ UNCHANGED <<auth, left, docs, signing>>

ListAuth(t) ==
    /\ At(t, "list", "auth")
    /\ LET orphans == request[t].uids \ auth IN
       Goes(t, IF orphans = {} THEN Idle
               ELSE [op |-> "list", do |-> "clean", uids |-> orphans])
    /\ UNCHANGED <<auth, left, docs, signing>>

Clean(t, u) ==
    /\ At(t, "list", "clean") /\ u \in request[t].uids
    /\ docs' = [docs EXCEPT ![u] = None]
    /\ Goes(t, IF request[t].uids = {u} THEN Idle
               ELSE [request[t] EXCEPT !.uids = @ \ {u}])
    /\ UNCHANGED <<auth, left, signing>>

\* A check fails or a call raises.
Ends(t) ==
    /\ request[t] # Idle
    /\ Goes(t, Idle)
    /\ UNCHANGED <<auth, left, docs, signing>>

-----------------------------------------------------------------------------
\* ensure_owner_exists(): of the admins, the code takes the one who registered first.
Promoted ==
    LET admins == {u \in Users : Role(u) = "admin"} IN
    IF Owners # {} \/ admins = {} THEN {docs}
    ELSE {[docs EXCEPT ![u].role = "owner"] : u \in admins}

Restart ==
    /\ docs' \in Promoted
    /\ signing' = Idle
    /\ request' = [t \in Threads |-> Idle]
    /\ UNCHANGED <<auth, left>>

RequestStep(t) ==
    \/ \E by, u \in Users : BeginDelete(t, by, u)
    \/ DeleteAuth(t) \/ DeleteDoc(t)
    \/ \E by, u \in Users, role \in {"admin", "user"} : BeginRole(t, by, u, role)
    \/ AssertOwner(t) \/ ReadTarget(t) \/ WriteRole(t)
    \/ \E by, u \in Users, approved \in BOOLEAN : BeginStatus(t, by, u, approved)
    \/ AssertAdmin(t) \/ WriteStatus(t)
    \/ \E by \in Users : ListDocs(t, by)
    \/ ListAuth(t)
    \/ \E u \in Users : Clean(t, u)
    \/ Ends(t)

Next ==
    \/ \E u \in Users : SignUp(u) \/ Register(u)
    \/ CheckFirst \/ SaveUser \/ RegisterRaises
    \/ \E t \in Threads : RequestStep(t)
    \/ Restart

Spec == Init /\ [][Next]_vars

-----------------------------------------------------------------------------
(* Properties. *)

Step ==
    [op : {"delete"}, do : {"auth", "doc"}, uid : Users]
    \cup [op : {"role"}, do : {"assert", "read", "write"}, by : Users, uid : Users,
          role : {"admin", "user"}]
    \cup [op : {"status"}, do : {"assert", "write"}, by : Users, uid : Users,
          approved : BOOLEAN]
    \cup {r \in [op : {"list"}, do : {"auth", "clean"}, uids : SUBSET Users] :
            r.do = "clean" => r.uids # {}}

Signing == [do : {"first"}, uid : Users] \cup [do : {"save"}, uid : Users, owner : BOOLEAN]

\* The state keeps its type, and who has an account has not left.
TypeOK ==
    /\ auth \subseteq Users /\ left \subseteq Users \ auth
    /\ \A u \in Users : docs[u] = None \/ docs[u] \in Doc
    /\ signing = Idle \/ signing \in Signing
    /\ \A t \in Threads : request[t] = Idle \/ request[t] \in Step

\* There is one owner at most: a person who registers is made the owner only when the
\* collection is empty, and admins may delete documents between that look and the write
\* but nobody else can add one.
AtMostOneOwner == \A u, v \in Owners : u = v

\* "owner is the single bootstrap account, never reassignable" (models/user.py:9): no
\* step takes the role from an owner who has a Firebase account, although update_role()
\* reads the target's role in one call and writes it in a later one.  (Deleted in
\* between, registered anew with the old token and the first again, he would lose it.)
RoleIsKept == \A u \in Owners \ left : docs'[u] # None => docs'[u].role = "owner"
OwnerStaysOwner == [][RoleIsKept]_vars

\* No document is deleted while its person still has a Firebase account, however the
\* users page's clean-up meets people who are just registering.
OrphanIsDeleted == \A u \in Registered : docs'[u] = None => u \in left
OnlyOrphansAreDeleted == [][OrphanIsDeleted]_vars
=============================================================================
