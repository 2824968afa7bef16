------------------------------- MODULE VigiLogin -------------------------------
(***************************************************************************)
(* Logging in to one VIGI camera (services/vigi_openapi_client.py), which  *)
(* locks its account after repeated failed logins.  A marker file is to    *)
(* ration them: it is written before the password is sent and removed once *)
(* the login is confirmed, and while it matches the modification time of   *)
(* .env nobody logs in.                                                    *)
(*                                                                         *)
(* The callers are threads: the health loop, the check after an edit, and  *)
(* requests that read a camera's time zone.  Each takes the camera's       *)
(* client from the registry and calls it, once or several times; a client  *)
(* serves one call at a time.  Dropping or moving a camera takes its       *)
(* client out of the registry, not out of the hands of those who use it.   *)
(*                                                                         *)
(* A modification time is the number of times .env was saved.  A password  *)
(* is set throughout.                                                      *)
(***************************************************************************)
EXTENDS Integers

CONSTANTS
    Callers,
    Clients,                \* enough for one per caller and one in the registry
    Passwords, CameraPw,    \* what .env may hold; what the camera accepts
    MaxEdits,               \* how often .env may be saved
    NoClient, NoCaller, NoMarker

Versions == 0..MaxEdits
Marker == [env : Versions, torn : BOOLEAN]

ASSUME EditsAssumption == MaxEdits \in Nat
ASSUME PasswordsAssumption == CameraPw \in Passwords
ASSUME NamesAssumption ==
    NoClient \notin Clients /\ NoCaller \notin Callers /\ NoMarker \notin Marker

VARIABLES
    env, envPw,     \* .env: its modification time and the password in it
    marker,         \* the marker file; torn if it holds no readable time, and
                    \* then env is .env's time when the file was made
    pw,             \* the password in settings, read when the process started
    current,        \* the camera's client in the registry
    stok,           \* the clients that hold a token
    lock,           \* who holds each client's lock
    call,           \* what each caller is doing, with which client; the time
                    \* it recorded in the marker; whether it has logged in
    bad,            \* history: logins rejected or unconfirmed, by the time
                    \* recorded for them
    cut,            \* history: times in markers that a dying process left
    tried,          \* history: passwords sent since .env was last saved
    replaced        \* history: a client was replaced while it was in use

env_vars == <<env, envPw>>
history == <<bad, cut, tried, replaced>>
vars == <<env_vars, marker, pw, current, stok, lock, call, history>>

Idle == [pc |-> "idle", client |-> NoClient, recorded |-> 0, again |-> FALSE]

\* In _login(), and there from the marker's first byte to its removal.
Arming == {"arm", "truncate", "write", "send", "reply", "clear"}
LoggingIn == {"check", "challenge"} \cup Arming
Armed == {"write", "send", "reply", "clear"}

TypeOK ==
    /\ env \in Versions /\ envPw \in Passwords /\ pw \in Passwords
    /\ marker \in Marker \cup {NoMarker}
    /\ current \in Clients \cup {NoClient}
    /\ stok \subseteq Clients
    /\ lock \in [Clients -> Callers \cup {NoCaller}]
    /\ call \in [Callers -> {Idle} \cup
                   [pc : {"want", "post"} \cup LoggingIn, client : Clients,
                    recorded : Versions, again : BOOLEAN]]
    /\ bad \in [Versions -> 0..2]
    /\ cut \subseteq Versions /\ tried \subseteq Passwords
    /\ replaced \in BOOLEAN

Init ==
    /\ env = 0 /\ envPw \in Passwords /\ pw = envPw
    /\ marker = NoMarker
    /\ current = NoClient /\ stok = {}
    /\ lock = [c \in Clients |-> NoCaller]
    /\ call = [t \in Callers |-> Idle]
    /\ bad = [v \in Versions |-> 0] /\ cut = {} /\ tried = {} /\ replaced = FALSE
-----------------------------------------------------------------------------
(* The environment.                                                         *)

\* Somebody saves .env, with the password it had or with another.
Edit(p) ==
    /\ env < MaxEdits /\ env' = env + 1 /\ envPw' = p
    /\ tried' = {}
    /\ UNCHANGED <<marker, pw, current, stok, lock, call, bad, cut, replaced>>

More(n) == IF n < 2 THEN n + 1 ELSE n

\* The process dies, at any point of a login, and starts again: the marker stays.
Restart ==
    /\ pw' = envPw
    /\ current' = NoClient /\ stok' = {}
    /\ lock' = [c \in Clients |-> NoCaller]
    /\ call' = [t \in Callers |-> Idle]
    /\ bad' = [v \in Versions |->
                IF \E t \in Callers : call[t].pc = "reply" /\ call[t].recorded = v
                THEN More(bad[v]) ELSE bad[v]]
    /\ cut' = IF marker # NoMarker /\ \E t \in Callers : call[t].pc \in Armed
              THEN cut \cup {marker.env} ELSE cut
    /\ UNCHANGED <<env_vars, marker, tried, replaced>>
-----------------------------------------------------------------------------
(* The registry of clients.                                                 *)

Users(c) == {t \in Callers : call[t].client = c}
Replace(c) ==
    /\ current' = c
    /\ replaced' = (replaced \/ (current # NoClient /\ Users(current) # {}))

Holds(t, c) == call' = [call EXCEPT ![t] = [Idle EXCEPT !.pc = "want", !.client = c]]

\* get(): there is no client, or the camera's address has changed.
GetNew(t, c) ==
    /\ call[t] = Idle /\ Users(c) = {} /\ c # current
    /\ Replace(c)
    /\ stok' = stok \ {c}
    /\ Holds(t, c)
    /\ UNCHANGED <<env_vars, marker, pw, lock, bad, cut, tried>>

GetShared(t) ==
    /\ call[t] = Idle /\ current # NoClient
    /\ Holds(t, current)
    /\ UNCHANGED <<env_vars, marker, pw, current, stok, lock, history>>

\* drop(): the camera was deleted, or its MAC, channel or address edited.
Drop ==
    /\ current # NoClient /\ Replace(NoClient)
    /\ UNCHANGED <<env_vars, marker, pw, stok, lock, call, bad, cut, tried>>
-----------------------------------------------------------------------------
(* A call.                                                                  *)

At(t, pc) == call[t].pc = pc
GoesTo(t, pc) == call' = [call EXCEPT ![t].pc = pc]

\* The call raises or returns; after an answer its caller may make another one.
Ends(t, next) ==
    /\ lock' = [lock EXCEPT ![call[t].client] = NoCaller]
    /\ call' = [call EXCEPT ![t] = next]

\* The call begins; the client has no token, or one that is too old, or may
\* use the one it has.
Begins(t) ==
    /\ At(t, "want") /\ lock[call[t].client] = NoCaller
    /\ lock' = [lock EXCEPT ![call[t].client] = t]
    /\ \/ /\ stok' = stok \ {call[t].client}
          /\ call' = [call EXCEPT ![t].pc = "check", ![t].again = TRUE]
       \/ /\ call[t].client \in stok
          /\ GoesTo(t, "post") /\ UNCHANGED stok
    /\ UNCHANGED <<env_vars, marker, pw, current, history>>

\* The method itself: an answer, or none.
Answered(t) ==
    /\ At(t, "post")
    /\ \/ Ends(t, Idle)
       \/ Ends(t, [call[t] EXCEPT !.pc = "want", !.again = FALSE])
    /\ UNCHANGED <<env_vars, marker, pw, current, stok, history>>

\* The camera no longer knows the token: log in, unless this call has.
Unauthorized(t) ==
    /\ At(t, "post") /\ ~call[t].again
    /\ stok' = stok \ {call[t].client}
    /\ call' = [call EXCEPT ![t].pc = "check", ![t].again = TRUE]
    /\ UNCHANGED <<env_vars, marker, pw, current, lock, history>>
-----------------------------------------------------------------------------
(* _login().                                                                *)

Blocked == marker # NoMarker /\ marker.env = env

IsBlocked(t) ==
    /\ At(t, "check") /\ Blocked
    /\ Ends(t, Idle)
    /\ UNCHANGED <<env_vars, marker, pw, current, stok, history>>

MayLogIn(t) ==
    /\ At(t, "check") /\ ~Blocked
    /\ GoesTo(t, "challenge")
    /\ UNCHANGED <<env_vars, marker, pw, current, stok, lock, history>>

\* Mutant: the marker is written before the challenge is asked for.
FailsAfterArming(t) ==
    /\ At(t, "challenge") \/ At(t, "send")
    /\ Ends(t, Idle)
    /\ UNCHANGED <<env_vars, marker, pw, current, stok, history>>

ChallengeFails(t) ==
    /\ At(t, "challenge")
    /\ Ends(t, Idle)
    /\ UNCHANGED <<env_vars, marker, pw, current, stok, history>>

Challenged(t) ==
    /\ At(t, "challenge")
    /\ GoesTo(t, "arm")
    /\ UNCHANGED <<env_vars, marker, pw, current, stok, lock, history>>

\* arm(): the time of .env is read, then the file emptied, then written.
ReadsTime(t) ==
    /\ At(t, "arm")
    /\ call' = [call EXCEPT ![t].pc = "truncate", ![t].recorded = env]
    /\ UNCHANGED <<env_vars, marker, pw, current, stok, lock, history>>

Truncates(t) ==
    /\ At(t, "truncate")
    /\ marker' = [env |-> env, torn |-> TRUE]
    /\ GoesTo(t, "write")
    /\ UNCHANGED <<env_vars, pw, current, stok, lock, history>>

Writes(t) ==
    /\ At(t, "write")
    /\ marker' = [env |-> call[t].recorded, torn |-> FALSE]
    /\ GoesTo(t, "send")
    /\ UNCHANGED <<env_vars, pw, current, stok, lock, history>>

Sends(t) ==
    /\ At(t, "send")
    /\ GoesTo(t, "reply")
    /\ tried' = tried \cup {pw}
    /\ UNCHANGED <<env_vars, marker, pw, current, stok, lock, bad, cut, replaced>>

Accepted(t) ==
    /\ At(t, "reply") /\ pw = CameraPw
    /\ stok' = stok \cup {call[t].client}
    /\ GoesTo(t, "clear")
    /\ UNCHANGED <<env_vars, marker, pw, current, lock, history>>

\* Mutant: a login that was not confirmed removes the marker too.
RejectedClears(t) ==
    /\ At(t, "reply")
    /\ bad' = [bad EXCEPT ![call[t].recorded] = More(@)]
    /\ marker' = NoMarker
    /\ Ends(t, Idle)
    /\ UNCHANGED <<env_vars, pw, current, stok, cut, tried, replaced>>

\* The camera refuses, for whatever reason, or never answers.
Rejected(t) ==
    /\ At(t, "reply")
    /\ bad' = [bad EXCEPT ![call[t].recorded] = More(@)]
    /\ Ends(t, Idle)
    /\ UNCHANGED <<env_vars, marker, pw, current, stok, cut, tried, replaced>>

Clears(t) ==
    /\ At(t, "clear")
    /\ marker' = NoMarker
    /\ GoesTo(t, "post")
    /\ UNCHANGED <<env_vars, pw, current, stok, lock, history>>
-----------------------------------------------------------------------------
Login(t) ==
    \/ IsBlocked(t) \/ MayLogIn(t) \/ ChallengeFails(t) \/ Challenged(t)
    \/ ReadsTime(t) \/ Truncates(t) \/ Writes(t) \/ Sends(t)
    \/ Accepted(t) \/ Rejected(t) \/ Clears(t)

Next ==
    \/ Restart \/ Drop
    \/ \E p \in Passwords : Edit(p)
    \/ \E t \in Callers :
            \/ GetShared(t) \/ \E c \in Clients : GetNew(t, c)
            \/ Begins(t) \/ Answered(t) \/ Unauthorized(t) \/ Login(t)

Spec == Init /\ [][Next]_vars
-----------------------------------------------------------------------------
(* Properties.                                                              *)

\* A wrong or unconfirmed login happens at most once per change of .env, through
\* crashes and edits at any point of a login, as long as nobody uses a client
\* that the registry has replaced.
RationedWhenShared == ~replaced => \A v \in Versions : bad[v] <= 1

\* Logins are held back only for a reason: one under this very .env was rejected
\* or never confirmed, or the process died on it.  A camera that was merely out
\* of reach is tried again.
BlocksForCause ==
    Blocked /\ (\A t \in Callers : call[t].pc \notin Arming)
        => bad[env] > 0 \/ env \in cut

\* Not so, and listed in no run: (docstring, vigi_openapi_client.py:20-21) "a wrong or
\* unconfirmed login happens at most once per change to .env".  Two clients of one
\* camera share no lock, and both may pass the marker before either writes it.
OncePerChange == \A v \in Versions : bad[v] <= 1

\* Not so, and listed in no run: (message, camera_health_service.py:168-169) "Fix
\* VIGI_CAMERA_PASSWORD in backend/.env (saving the file allows one new attempt)":
\* when logins are held back again after .env was saved, the password that it holds
\* has been tried.  The process still tries the password it was started with.
SavingAllowsAnAttempt ==
    Blocked /\ (\A t \in Callers : call[t].pc \notin Arming)
        => envPw \in tried \/ env \in cut
=============================================================================
