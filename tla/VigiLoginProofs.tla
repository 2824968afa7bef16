---------------------------- MODULE VigiLoginProofs ----------------------------
(***************************************************************************)
(* Proofs about VigiLogin, for any number of callers, clients and edits,   *)
(* and about AlarmBuffer, as VigiMC instantiates it, for any limits and    *)
(* any number of pushes.                                                   *)
(***************************************************************************)
EXTENDS VigiMC, FiniteSetTheorems, SequenceTheorems, WellFoundedInduction, TLAPS

Busy == [pc : {"want", "post"} \cup LoggingIn, client : Clients,
         recorded : Versions, again : BOOLEAN]

\* What moving a busy caller on, or ending its call, leaves of the call's type.
LEMMA CallType ==
    ASSUME TypeOK, NEW t \in Callers, call[t].pc # "idle"
    PROVE  /\ call[t] \in Busy /\ call[t].client \in Clients
           /\ \A pc \in {"want", "post"} \cup LoggingIn :
                [call EXCEPT ![t].pc = pc] \in [Callers -> {Idle} \cup Busy]
           /\ \A next \in {Idle} \cup Busy :
                [call EXCEPT ![t] = next] \in [Callers -> {Idle} \cup Busy]
<1>1. call \in [Callers -> {Idle} \cup Busy]  BY DEF TypeOK, Busy
<1>2. call[t] \in Busy  BY <1>1 DEF Idle
<1>3. ASSUME NEW pc \in {"want", "post"} \cup LoggingIn
      PROVE  [call[t] EXCEPT !.pc = pc] \in Busy
  BY <1>2 DEF Busy
<1>. QED  BY <1>1, <1>2, <1>3 DEF Busy

LEMMA VersionType == 0 \in Versions /\ MaxEdits \in Nat
BY EditsAssumption DEF Versions

LEMMA TypeInit == Init => TypeOK
<1>. SUFFICES ASSUME Init PROVE TypeOK
  OBVIOUS
<1>1. call \in [Callers -> {Idle} \cup Busy]  BY DEF Init
<1>2. bad \in [Versions -> 0..2]  BY DEF Init
<1>3. lock \in [Clients -> Callers \cup {NoCaller}]  BY DEF Init
<1>. QED  BY <1>1, <1>2, <1>3, VersionType DEF Init, TypeOK, Busy

LEMMA TypeNext == TypeOK /\ [Next]_vars => TypeOK'
<1>. SUFFICES ASSUME TypeOK, [Next]_vars PROVE TypeOK'
  OBVIOUS
<1>. USE DEF env_vars, history
<1>0. call \in [Callers -> {Idle} \cup Busy]  BY DEF TypeOK, Busy
<1>1. CASE \E p \in Passwords : Edit(p)
  <2>1. env' \in Versions
    BY <1>1, EditsAssumption DEF Edit, TypeOK, Versions
  <2>. QED  BY <1>1, <2>1 DEF Edit, TypeOK
<1>2. CASE Restart
  <2>1. bad' \in [Versions -> 0..2]
    <3>1. \A v \in Versions : More(bad[v]) \in 0..2  BY DEF TypeOK, More
    <3>. QED  BY <1>2, <3>1 DEF Restart, TypeOK
  <2>2. cut' \subseteq Versions
    BY <1>2 DEF Restart, TypeOK, Marker
  <2>. QED  BY <1>2, <2>1, <2>2 DEF Restart, TypeOK
<1>3. CASE Drop
  BY <1>3 DEF Drop, Replace, TypeOK
<1>4. CASE \E t \in Callers, c \in Clients : GetNew(t, c)
  <2>. PICK t \in Callers, c \in Clients : GetNew(t, c)  BY <1>4
  <2>1. [Idle EXCEPT !.pc = "want", !.client = c] \in Busy
    BY VersionType DEF Idle, Busy
  <2>2. call' \in [Callers -> {Idle} \cup Busy]
    BY <1>0, <2>1 DEF GetNew, Holds
  <2>. QED  BY <2>2 DEF GetNew, Replace, TypeOK, Busy
<1>5. CASE \E t \in Callers : GetShared(t)
  <2>. PICK t \in Callers : GetShared(t)  BY <1>5
  <2>1. [Idle EXCEPT !.pc = "want", !.client = current] \in Busy
    BY VersionType DEF Idle, Busy, GetShared, TypeOK
  <2>2. call' \in [Callers -> {Idle} \cup Busy]
    BY <1>0, <2>1 DEF GetShared, Holds
  <2>. QED  BY <2>2 DEF GetShared, TypeOK, Busy
<1>6. CASE \E t \in Callers : Begins(t)
  <2>. PICK t \in Callers : Begins(t)  BY <1>6
  <2>1. call[t] \in Busy  BY CallType DEF Begins, At
  <2>2. [call[t] EXCEPT !.pc = "check", !.again = TRUE] \in Busy
    BY <2>1 DEF Busy, LoggingIn
  <2>3. [call EXCEPT ![t].pc = "check", ![t].again = TRUE]
          = [call EXCEPT ![t] = [call[t] EXCEPT !.pc = "check", !.again = TRUE]]
    BY <1>0
  <2>4. call' \in [Callers -> {Idle} \cup Busy]
    BY <1>0, <2>2, <2>3, CallType DEF Begins, At, GoesTo
  <2>. QED  BY <2>1, <2>4 DEF Begins, TypeOK, Busy
<1>7. CASE \E t \in Callers : Answered(t)
  <2>. PICK t \in Callers : Answered(t)  BY <1>7
  <2>1. call[t] \in Busy  BY CallType DEF Answered, At
  <2>2. [call[t] EXCEPT !.pc = "want", !.again = FALSE] \in Busy
    BY <2>1 DEF Busy
  <2>3. call' \in [Callers -> {Idle} \cup Busy]
    BY <1>0, <2>2 DEF Answered, Ends
  <2>. QED  BY <2>3 DEF Answered, Ends, TypeOK, Busy
<1>8. CASE \E t \in Callers : Unauthorized(t)
  <2>. PICK t \in Callers : Unauthorized(t)  BY <1>8
  <2>1. call[t] \in Busy  BY CallType DEF Unauthorized, At
  <2>2. [call[t] EXCEPT !.pc = "check", !.again = TRUE] \in Busy
    BY <2>1 DEF Busy, LoggingIn
  <2>3. call' \in [Callers -> {Idle} \cup Busy]
    BY <1>0, <2>2 DEF Unauthorized
  <2>. QED  BY <2>3 DEF Unauthorized, TypeOK, Busy
<1>9. CASE \E t \in Callers : Login(t)
  <2>. PICK t \in Callers : Login(t)  BY <1>9
  <2>. DEFINE CallOK == call' \in [Callers -> {Idle} \cup Busy]
  <2>0. call[t].pc # "idle" /\ call[t] \in Busy
    <3>1. call[t].pc # "idle"
      BY DEF Login, At, IsBlocked, MayLogIn, ChallengeFails, Challenged, ReadsTime,
             Truncates, Writes, Sends, Accepted, Rejected, Clears
    <3>. QED  BY <3>1, CallType
  <2>1. CASE IsBlocked(t) \/ ChallengeFails(t)
    BY <2>0, <2>1, CallType DEF IsBlocked, ChallengeFails, Ends, TypeOK, Busy
  <2>2. CASE MayLogIn(t) \/ Challenged(t)
    <3>1. CallOK
      <4>1. {"challenge", "arm"} \subseteq {"want", "post"} \cup LoggingIn
        BY DEF LoggingIn, Arming
      <4>. QED  BY <2>0, <2>2, <4>1, CallType DEF MayLogIn, Challenged, GoesTo
    <3>. QED  BY <2>2, <3>1 DEF MayLogIn, Challenged, TypeOK, Busy
  <2>3. CASE ReadsTime(t)
    <3>1. [call[t] EXCEPT !.pc = "truncate", !.recorded = env] \in Busy
      BY <2>0 DEF Busy, LoggingIn, Arming, TypeOK
    <3>2. CallOK  BY <1>0, <2>3, <3>1 DEF ReadsTime
    <3>. QED  BY <2>3, <3>2 DEF ReadsTime, TypeOK, Busy
  <2>4. CASE Truncates(t)
    BY <2>0, <2>4, CallType DEF Truncates, GoesTo, TypeOK, Busy, LoggingIn, Arming, Marker
  <2>5. CASE Writes(t)
    <3>1. call[t].recorded \in Versions  BY <2>0 DEF Busy
    <3>. QED
      BY <2>0, <2>5, <3>1, CallType
      DEF Writes, GoesTo, TypeOK, Busy, LoggingIn, Arming, Marker
  <2>6. CASE Sends(t)
    BY <2>0, <2>6, CallType DEF Sends, GoesTo, TypeOK, Busy, LoggingIn, Arming
  <2>7. CASE Accepted(t)
    BY <2>0, <2>7, CallType DEF Accepted, GoesTo, TypeOK, Busy, LoggingIn, Arming
  <2>8. CASE Rejected(t)
    <3>1. bad' \in [Versions -> 0..2]
      <4>1. \A n \in 0..2 : More(n) \in 0..2  BY DEF More
      <4>2. call[t].recorded \in Versions  BY <2>0 DEF Busy
      <4>. QED  BY <2>8, <4>1, <4>2 DEF Rejected, TypeOK
    <3>. QED  BY <2>0, <2>8, <3>1, CallType DEF Rejected, Ends, TypeOK, Busy
  <2>9. CASE Clears(t)
    BY <2>0, <2>9, CallType DEF Clears, GoesTo, TypeOK, Busy
  <2>. QED
    BY <2>1, <2>2, <2>3, <2>4, <2>5, <2>6, <2>7, <2>8, <2>9 DEF Login
<1>10. CASE UNCHANGED vars
  BY <1>10 DEF vars, TypeOK
<1>. QED
  BY <1>1, <1>2, <1>3, <1>4, <1>5, <1>6, <1>7, <1>8, <1>9, <1>10 DEF Next

\* The login state keeps its type.
THEOREM TypeCorrect == Spec => []TypeOK
BY TypeInit, TypeNext, PTL DEF Spec
-----------------------------------------------------------------------------
\* Who is past the client's lock holds it.
LocksHeld ==
    \A t \in Callers :
        call[t].pc \in LoggingIn \cup {"post"} => lock[call[t].client] = t

\* As long as no client was replaced in use, all calls are on the registry's.
AllShare ==
    ~replaced => \A t \in Callers : call[t] # Idle => call[t].client = current

\* At most one failure for each time, and none for a time yet to come.
BadIsPast == \A v \in Versions : bad[v] <= 1 /\ (v > env => bad[v] = 0)

\* A failure under this .env left its marker.
BadIsMarked == bad[env] > 0 => Blocked

\* A login under way is the first since .env was saved; and the time it recorded
\* is one that no login failed under, and the one in the marker.
Clean(t) ==
    /\ call[t].pc \in {"challenge"} \cup Arming => bad[env] = 0
    /\ call[t].pc \in {"truncate"} \cup Armed
          => call[t].recorded <= env /\ bad[call[t].recorded] = 0
    /\ call[t].pc \in {"send", "reply"}
          => marker # NoMarker /\ marker.env = call[t].recorded

Rationed ==
    BadIsPast /\ BadIsMarked /\ \A t \in Callers : Clean(t)

RationInv == TypeOK /\ LocksHeld /\ AllShare /\ (~replaced => Rationed)

\* A marker belongs to a login under way, or to one that failed or was cut off.
Owned ==
    marker # NoMarker =>
        \/ \E t \in Callers : call[t].pc = "write"
        \/ \E t \in Callers : call[t].pc \in {"send", "reply", "clear"}
                              /\ call[t].recorded = marker.env
        \/ bad[marker.env] > 0
        \/ marker.env \in cut

-----------------------------------------------------------------------------
(* Locks.                                                                   *)

\* A busy caller's client is a client, an idle one's is not.
LEMMA CallerIsTyped ==
    ASSUME TypeOK, NEW t \in Callers
    PROVE  /\ call[t] = Idle <=> call[t].pc = "idle"
           /\ call[t] # Idle => call[t].client \in Clients /\ call[t].recorded \in Versions
           /\ Idle.pc = "idle" /\ Idle.client = NoClient
BY DEF TypeOK, Idle, LoggingIn, Arming

\* What one caller's move leaves of the others.
LEMMA Moving ==
    ASSUME TypeOK, NEW t \in Callers
    PROVE  /\ \A pc : GoesTo(t, pc) =>
                /\ call'[t].pc = pc /\ call'[t].client = call[t].client
                /\ call'[t].recorded = call[t].recorded
                /\ \A u \in Callers \ {t} : call'[u] = call[u]
           /\ \A next : Ends(t, next) =>
                /\ call'[t] = next
                /\ \A u \in Callers \ {t} : call'[u] = call[u]
<1>1. DOMAIN call = Callers  BY DEF TypeOK
<1>2. ASSUME call[t] # Idle
      PROVE  call[t] \in [pc : {"want", "post"} \cup LoggingIn, client : Clients,
                          recorded : Versions, again : BOOLEAN]
  BY <1>2 DEF TypeOK
<1>3. ASSUME NEW pc, GoesTo(t, pc)
      PROVE  /\ call'[t] = [call[t] EXCEPT !.pc = pc]
             /\ \A u \in Callers \ {t} : call'[u] = call[u]
  BY <1>1, <1>3 DEF GoesTo
<1>4. ASSUME NEW pc
      PROVE  /\ [call[t] EXCEPT !.pc = pc].pc = pc
             /\ [call[t] EXCEPT !.pc = pc].client = call[t].client
             /\ [call[t] EXCEPT !.pc = pc].recorded = call[t].recorded
  <2>1. CASE call[t] = Idle  BY <2>1 DEF Idle
  <2>2. CASE call[t] # Idle  BY <1>2, <2>2
  <2>. QED  BY <2>1, <2>2
<1>5. ASSUME NEW next, Ends(t, next)
      PROVE  call'[t] = next /\ \A u \in Callers \ {t} : call'[u] = call[u]
  BY <1>1, <1>5 DEF Ends
<1>6. ASSUME NEW pc, GoesTo(t, pc)
      PROVE  /\ call'[t].pc = pc /\ call'[t].client = call[t].client
             /\ call'[t].recorded = call[t].recorded
             /\ \A u \in Callers \ {t} : call'[u] = call[u]
  <2>1. call'[t] = [call[t] EXCEPT !.pc = pc] /\ \A u \in Callers \ {t} : call'[u] = call[u]
    BY <1>3, <1>6
  <2>. QED  BY <1>4, <2>1, Zenon
<1>. QED  BY <1>5, <1>6

Critical == LoggingIn \cup {"post"}

LEMMA LockKept ==
    ASSUME TypeOK, LocksHeld, NEW t \in Callers, call[t].pc \in Critical,
           lock' = lock, call'[t].client = call[t].client,
           \A u \in Callers \ {t} : call'[u] = call[u]
    PROVE  LocksHeld'
BY DEF LocksHeld, Critical

LEMMA LockFreed ==
    ASSUME TypeOK, LocksHeld, NEW t \in Callers, call[t].pc \in Critical,
           lock' = [lock EXCEPT ![call[t].client] = NoCaller],
           call'[t].pc \notin Critical,
           \A u \in Callers \ {t} : call'[u] = call[u]
    PROVE  LocksHeld'
<1>1. lock[call[t].client] = t  BY DEF LocksHeld, Critical
<1>2. lock \in [Clients -> Callers \cup {NoCaller}]  BY DEF TypeOK
<1>3. ASSUME NEW u \in Callers, call'[u].pc \in Critical
      PROVE  lock'[call'[u].client] = u
  <2>1. u # t /\ call'[u] = call[u]  BY <1>3
  <2>2. lock[call[u].client] = u  BY <1>3, <2>1 DEF LocksHeld, Critical
  <2>3. call[u].client # call[t].client  BY <1>1, <2>1, <2>2
  <2>. QED  BY <1>2, <2>1, <2>2, <2>3
<1>. QED  BY <1>3 DEF LocksHeld, Critical

LEMMA LocksNext == TypeOK /\ LocksHeld /\ [Next]_vars => LocksHeld'
<1>. SUFFICES ASSUME TypeOK, LocksHeld, [Next]_vars PROVE LocksHeld'
  OBVIOUS
<1>. USE DEF env_vars, history
<1>0. "want" \notin Critical /\ "idle" \notin Critical
      /\ LoggingIn \subseteq Critical /\ "post" \in Critical
  BY DEF Critical, LoggingIn, Arming
<1>1. CASE \E p \in Passwords : Edit(p)
  BY <1>1 DEF Edit, LocksHeld
<1>2. CASE Restart
  <2>1. \A u \in Callers : call'[u].pc = "idle"  BY <1>2 DEF Restart, Idle
  <2>. QED  BY <1>0, <2>1 DEF LocksHeld, Critical
<1>3. CASE Drop
  BY <1>3 DEF Drop, LocksHeld
<1>4. ASSUME NEW t \in Callers, NEW c, Holds(t, c), lock' = lock
      PROVE  LocksHeld'
  <2>1. call'[t].pc = "want" /\ \A u \in Callers \ {t} : call'[u] = call[u]
    BY <1>4 DEF Holds, Idle, TypeOK
  <2>. QED  BY <1>0, <1>4, <2>1 DEF LocksHeld, Critical
<1>5. ASSUME NEW t \in Callers, Begins(t) PROVE LocksHeld'
  <2>1. call'[t].client = call[t].client /\ \A u \in Callers \ {t} : call'[u] = call[u]
    <3>1. call[t] # Idle  BY <1>5, CallerIsTyped DEF Begins, At
    <3>2. call[t] \in Busy  BY <3>1 DEF TypeOK, Busy
    <3>. QED  BY <1>5, <3>2, Moving DEF Begins, TypeOK, Busy
  <2>2. call[t].client \in Clients /\ lock[call[t].client] = NoCaller
    BY <1>5, CallerIsTyped DEF Begins, At
  <2>3. lock' = [lock EXCEPT ![call[t].client] = t]  BY <1>5 DEF Begins
  <2>4. ASSUME NEW u \in Callers, u # t, call[u].pc \in Critical
        PROVE  lock'[call[u].client] = u
    <3>1. lock[call[u].client] = u  BY <2>4 DEF LocksHeld, Critical
    <3>2. call[u].client # call[t].client  BY <2>2, <3>1, NamesAssumption
    <3>. QED  BY <2>3, <3>1, <3>2 DEF TypeOK
  <2>5. lock'[call[t].client] = t  BY <2>2, <2>3 DEF TypeOK
  <2>. QED  BY <2>1, <2>4, <2>5 DEF LocksHeld, Critical
<1>6. ASSUME NEW t \in Callers, Answered(t) PROVE LocksHeld'
  <2>1. call[t].pc = "post"  BY <1>6 DEF Answered, At
  <2>2. [call[t] EXCEPT !.pc = "want", !.again = FALSE].pc = "want"
    BY <2>1, CallType DEF Busy
  <2>3. call'[t].pc \in {"idle", "want"} /\ \A u \in Callers \ {t} : call'[u] = call[u]
    BY <1>6, <2>2, Moving, CallerIsTyped DEF Answered
  <2>4. lock' = [lock EXCEPT ![call[t].client] = NoCaller]
    BY <1>6 DEF Answered, Ends
  <2>. QED  BY <1>0, <2>1, <2>3, <2>4, LockFreed
<1>7. ASSUME NEW t \in Callers, Unauthorized(t) PROVE LocksHeld'
  <2>1. call[t].pc = "post"  BY <1>7 DEF Unauthorized, At
  <2>2. call'[t].client = call[t].client /\ \A u \in Callers \ {t} : call'[u] = call[u]
    BY <1>7, <2>1, CallType DEF Unauthorized, TypeOK, Busy
  <2>. QED  BY <1>0, <1>7, <2>1, <2>2, LockKept DEF Unauthorized
<1>8. ASSUME NEW t \in Callers, Login(t) PROVE LocksHeld'
  <2>1. call[t].pc \in Critical
    BY <1>8
    DEF Login, At, IsBlocked, MayLogIn, ChallengeFails, Challenged, ReadsTime,
        Truncates, Writes, Sends, Accepted, Rejected, Clears, Critical, LoggingIn, Arming
  <2>2. CASE IsBlocked(t) \/ ChallengeFails(t) \/ Rejected(t)
    <3>1. Ends(t, Idle)  BY <2>2 DEF IsBlocked, ChallengeFails, Rejected
    <3>2. call'[t].pc = "idle" /\ \A u \in Callers \ {t} : call'[u] = call[u]
      BY <3>1, Moving, CallerIsTyped
    <3>3. lock' = [lock EXCEPT ![call[t].client] = NoCaller]  BY <3>1 DEF Ends
    <3>. QED  BY <1>0, <2>1, <3>2, <3>3, LockFreed
  <2>3. CASE ReadsTime(t)
    <3>1. call[t] \in Busy  BY <2>3, CallType DEF ReadsTime, At
    <3>2. call'[t].client = call[t].client /\ \A u \in Callers \ {t} : call'[u] = call[u]
      BY <2>3, <3>1 DEF ReadsTime, TypeOK, Busy
    <3>. QED  BY <2>1, <2>3, <3>2, LockKept DEF ReadsTime
  <2>4. CASE \/ MayLogIn(t) \/ Challenged(t) \/ Truncates(t) \/ Writes(t) \/ Sends(t)
             \/ Accepted(t) \/ Clears(t)
    <3>1. lock' = lock /\ \E pc : GoesTo(t, pc)
      BY <2>4 DEF MayLogIn, Challenged, Truncates, Writes, Sends, Accepted, Clears
    <3>. QED  BY <2>1, <3>1, Moving, LockKept
  <2>. QED  BY <1>8, <2>2, <2>3, <2>4 DEF Login
<1>9. CASE UNCHANGED vars
  BY <1>9 DEF vars, LocksHeld
<1>. QED
  BY <1>1, <1>2, <1>3, <1>4, <1>5, <1>6, <1>7, <1>8, <1>9 DEF Next, GetNew, GetShared

LEMMA ShareNext == TypeOK /\ AllShare /\ [Next]_vars => AllShare'
<1>. SUFFICES ASSUME TypeOK, AllShare, [Next]_vars, ~replaced'
              PROVE  \A u \in Callers : call'[u] # Idle => call'[u].client = current'
  BY DEF AllShare
<1>. USE DEF env_vars, history
<1>1. ASSUME ~replaced, current' = current,
             NEW t \in Callers, call[t] # Idle,
             call'[t] = Idle \/ call'[t].client = call[t].client,
             \A u \in Callers \ {t} : call'[u] = call[u]
      PROVE  \A u \in Callers : call'[u] # Idle => call'[u].client = current'
  BY <1>1 DEF AllShare
<1>2. ASSUME NEW c, Replace(c)
      PROVE  \A u \in Callers : call[u] = Idle
  <2>1. ~replaced /\ (current # NoClient => Users(current) = {})  BY <1>2 DEF Replace
  <2>2. ASSUME NEW u \in Callers, call[u] # Idle PROVE FALSE
    <3>1. call[u].client = current /\ current \in Clients
      BY <2>1, <2>2, CallerIsTyped DEF AllShare
    <3>2. u \in Users(current)  BY <3>1 DEF Users
    <3>. QED  BY <2>1, <3>1, <3>2, NamesAssumption
  <2>. QED  BY <2>2
<1>3. CASE \E p \in Passwords : Edit(p)
  BY <1>3 DEF Edit, AllShare
<1>4. CASE Restart
  BY <1>4 DEF Restart
<1>5. CASE Drop
  <2>1. call' = call  BY <1>5 DEF Drop
  <2>2. \A u \in Callers : call[u] = Idle  BY <1>2, <1>5 DEF Drop
  <2>. QED  BY <2>1, <2>2
<1>6. ASSUME NEW t \in Callers, NEW c \in Clients, GetNew(t, c)
      PROVE  \A u \in Callers : call'[u] # Idle => call'[u].client = current'
  <2>1. \A u \in Callers : call[u] = Idle  BY <1>2, <1>6 DEF GetNew
  <2>2. call'[t].client = c /\ \A u \in Callers \ {t} : call'[u] = call[u]
    BY <1>6 DEF GetNew, Holds, Idle, TypeOK
  <2>. QED  BY <1>6, <2>1, <2>2 DEF GetNew, Replace
<1>7. ASSUME NEW t \in Callers, GetShared(t)
      PROVE  \A u \in Callers : call'[u] # Idle => call'[u].client = current'
  <2>1. call'[t].client = current /\ \A u \in Callers \ {t} : call'[u] = call[u]
    BY <1>7 DEF GetShared, Holds, Idle, TypeOK
  <2>. QED  BY <1>7, <2>1 DEF GetShared, AllShare
<1>8. ASSUME NEW t \in Callers, Begins(t) \/ Answered(t) \/ Unauthorized(t) \/ Login(t)
      PROVE  \A u \in Callers : call'[u] # Idle => call'[u].client = current'
  <2>1. call[t] # Idle /\ current' = current /\ ~replaced
    BY <1>8, CallerIsTyped
    DEF Begins, Answered, Unauthorized, Login, At, IsBlocked, MayLogIn, ChallengeFails,
        Challenged, ReadsTime, Truncates, Writes, Sends, Accepted, Rejected, Clears
  <2>2. call[t] \in Busy /\ DOMAIN call = Callers  BY <2>1 DEF TypeOK, Busy
  <2>3. CASE \E pc : GoesTo(t, pc)
    BY <1>1, <2>1, <2>3, Moving
  <2>4. CASE Ends(t, Idle)
    BY <1>1, <2>1, <2>4, Moving
  <2>5. CASE Ends(t, [call[t] EXCEPT !.pc = "want", !.again = FALSE])
    <3>1. call'[t].client = call[t].client  BY <2>2, <2>5 DEF Ends, Busy
    <3>. QED  BY <1>1, <2>1, <2>5, <3>1, Moving
  <2>6. CASE \/ call' = [call EXCEPT ![t].pc = "check", ![t].again = TRUE]
             \/ call' = [call EXCEPT ![t].pc = "truncate", ![t].recorded = env]
    <3>1. call'[t].client = call[t].client /\ \A u \in Callers \ {t} : call'[u] = call[u]
      BY <2>2, <2>6 DEF Busy
    <3>. QED  BY <1>1, <2>1, <3>1
  <2>. QED
    BY <1>8, <2>3, <2>4, <2>5, <2>6
    DEF Begins, Answered, Unauthorized, Login, IsBlocked, MayLogIn, ChallengeFails,
        Challenged, ReadsTime, Truncates, Writes, Sends, Accepted, Rejected, Clears
<1>9. CASE UNCHANGED vars
  BY <1>9 DEF vars, AllShare
<1>. QED
  BY <1>3, <1>4, <1>5, <1>6, <1>7, <1>8, <1>9 DEF Next

-----------------------------------------------------------------------------
(* Rationing.                                                               *)

\* One login at a time, as all callers contend for one lock.
LEMMA OneLogin ==
    ASSUME TypeOK, LocksHeld, AllShare, ~replaced,
           NEW t \in Callers, NEW u \in Callers,
           call[t].pc \in LoggingIn, call[u].pc \in LoggingIn
    PROVE  t = u
<1>1. call[t] # Idle /\ call[u] # Idle
  BY CallerIsTyped DEF LoggingIn, Arming
<1>2. call[t].client = current /\ call[u].client = current  BY <1>1 DEF AllShare
<1>. QED  BY <1>2 DEF LocksHeld

\* A step of one caller that leaves .env, the marker and the history alone.
LEMMA QuietStep ==
    ASSUME Rationed, NEW t \in Callers,
           env' = env, marker' = marker, bad' = bad, Clean(t)',
           \A u \in Callers \ {t} : call'[u] = call[u]
    PROVE  Rationed'
<1>1. BadIsPast' /\ BadIsMarked'
  BY DEF Rationed, BadIsPast, BadIsMarked, Blocked
<1>2. ASSUME NEW u \in Callers PROVE Clean(u)'
  BY DEF Rationed, Clean
<1>. QED  BY <1>1, <1>2 DEF Rationed

LEMMA MayLogInRations ==
    ASSUME RationInv, ~replaced, NEW t \in Callers, MayLogIn(t)
    PROVE  Rationed'
<1>. USE DEF env_vars, history
<1>1. bad[env] = 0
  BY DEF RationInv, Rationed, BadIsMarked, MayLogIn, TypeOK
<1>2. TypeOK  BY DEF RationInv
<1>3. call'[t].pc = "challenge" /\ \A u \in Callers \ {t} : call'[u] = call[u]
  BY <1>2, Moving DEF MayLogIn
<1>4. Clean(t)'  BY <1>1, <1>3 DEF MayLogIn, Clean, Armed
<1>. QED  BY <1>3, <1>4, QuietStep DEF MayLogIn, RationInv

\* From the challenge to the last byte of the marker.
LEMMA ArmingRations ==
    ASSUME RationInv, ~replaced, NEW t \in Callers,
           Challenged(t) \/ ReadsTime(t) \/ Truncates(t) \/ Writes(t)
    PROVE  Rationed'
<1>. USE DEF env_vars, history
<1>1. TypeOK /\ Rationed /\ Clean(t)  BY DEF RationInv, Rationed
<1>2. env \in Nat /\ bad \in [Versions -> 0..2]  BY <1>1 DEF TypeOK, Versions
<1>3. CASE Challenged(t)
  <2>1. call'[t].pc = "arm" /\ \A u \in Callers \ {t} : call'[u] = call[u]
    BY <1>1, <1>3, Moving DEF Challenged
  <2>2. bad[env] = 0  BY <1>1, <1>3 DEF Challenged, Clean, At
  <2>3. Clean(t)'  BY <1>3, <2>1, <2>2 DEF Challenged, Clean, Armed
  <2>. QED  BY <1>1, <1>3, <2>1, <2>3, QuietStep DEF Challenged
<1>4. CASE ReadsTime(t)
  <2>1. call[t] \in Busy  BY <1>1, <1>4, CallType DEF ReadsTime, At
  <2>2. /\ call'[t].pc = "truncate" /\ call'[t].recorded = env
        /\ \A u \in Callers \ {t} : call'[u] = call[u]
    BY <1>1, <1>4, <2>1 DEF ReadsTime, TypeOK, Busy
  <2>3. bad[env] = 0  BY <1>1, <1>4 DEF ReadsTime, Clean, At, Arming
  <2>4. Clean(t)'  BY <1>2, <1>4, <2>2, <2>3 DEF ReadsTime, Clean, Armed
  <2>. QED  BY <1>1, <1>4, <2>2, <2>4, QuietStep DEF ReadsTime
<1>5. CASE Truncates(t) \/ Writes(t)
  <2>1. call[t].pc \in {"truncate", "write"}  BY <1>5 DEF Truncates, Writes, At
  <2>2. \A u \in Callers \ {t} : call[u].pc \notin LoggingIn
    BY <2>1, OneLogin DEF RationInv, LoggingIn, Arming
  <2>3. /\ call'[t].pc \in {"write", "send"} /\ call'[t].recorded = call[t].recorded
        /\ \A u \in Callers \ {t} : call'[u] = call[u]
        /\ env' = env /\ bad' = bad
    BY <1>1, <1>5, Moving DEF Truncates, Writes
  <2>4. /\ bad[env] = 0
        /\ call[t].recorded <= env /\ bad[call[t].recorded] = 0
    BY <1>1, <2>1 DEF Clean, Arming, Armed
  <2>5. BadIsPast' /\ BadIsMarked'
    BY <1>1, <2>3, <2>4 DEF Rationed, BadIsPast, BadIsMarked
  <2>6. call'[t].pc = "send" => marker' # NoMarker /\ marker'.env = call[t].recorded
    <3>1. CASE Truncates(t)
      <4>1. call'[t].pc = "write"  BY <1>1, <3>1, Moving DEF Truncates
      <4>. QED  BY <4>1
    <3>2. CASE Writes(t)
      <4>1. marker' = [env |-> call[t].recorded, torn |-> FALSE]  BY <3>2 DEF Writes
      <4>2. call[t].recorded \in Versions
        BY <1>1, <3>2, CallerIsTyped DEF Writes, At
      <4>3. marker' \in Marker  BY <4>1, <4>2 DEF Marker
      <4>. QED  BY <4>1, <4>3, NamesAssumption
    <3>. QED  BY <1>5, <3>1, <3>2
  <2>7. Clean(t)'  BY <2>3, <2>4, <2>6 DEF Clean
  <2>8. ASSUME NEW u \in Callers \ {t} PROVE Clean(u)'
    BY <2>2, <2>3 DEF Clean, LoggingIn, Arming, Armed
  <2>. QED  BY <2>5, <2>7, <2>8 DEF Rationed
<1>. QED  BY <1>3, <1>4, <1>5

\* From sending the password to the marker's removal.
LEMMA SendingRations ==
    ASSUME RationInv, ~replaced, NEW t \in Callers,
           Sends(t) \/ Accepted(t) \/ Rejected(t) \/ Clears(t)
    PROVE  Rationed'
<1>. USE DEF env_vars, history
<1>1. TypeOK /\ Rationed /\ Clean(t)  BY DEF RationInv, Rationed
<1>2. env \in Nat /\ bad \in [Versions -> 0..2]  BY <1>1 DEF TypeOK, Versions
<1>3. CASE Sends(t) \/ Accepted(t)
  <2>1. /\ call'[t].pc \in {"reply", "clear"} /\ call'[t].recorded = call[t].recorded
        /\ \A u \in Callers \ {t} : call'[u] = call[u]
    BY <1>1, <1>3, Moving DEF Sends, Accepted
  <2>2. /\ call[t].pc \in {"send", "reply"}
        /\ call'[t].pc = "reply" => call[t].pc = "send"
    BY <1>1, <1>3, Moving DEF Sends, Accepted, At
  <2>3. env' = env /\ marker' = marker /\ bad' = bad  BY <1>3 DEF Sends, Accepted
  <2>4. Clean(t)'  BY <1>1, <2>1, <2>2, <2>3 DEF Clean, Arming, Armed
  <2>. QED  BY <1>1, <2>1, <2>3, <2>4, QuietStep
<1>4. CASE Rejected(t) \/ Clears(t)
  <2>1. call[t].pc \in {"reply", "clear"}  BY <1>4 DEF Rejected, Clears, At
  <2>2. \A u \in Callers \ {t} : call[u].pc \notin LoggingIn
    BY <2>1, OneLogin DEF RationInv, LoggingIn, Arming
  <2>3. /\ call'[t].pc \in {"idle", "post"}
        /\ \A u \in Callers \ {t} : call'[u] = call[u]
    BY <1>1, <1>4, Moving, CallerIsTyped DEF Rejected, Clears
  <2>4. \A u \in Callers : Clean(u)'
    BY <2>2, <2>3 DEF Clean, LoggingIn, Arming, Armed
  <2>5. /\ bad[env] = 0
        /\ call[t].recorded <= env /\ bad[call[t].recorded] = 0
    BY <1>1, <2>1 DEF Clean, Arming, Armed
  <2>6. CASE Clears(t)
    BY <1>1, <2>4, <2>5, <2>6 DEF Clears, Rationed, BadIsPast, BadIsMarked
  <2>7. CASE Rejected(t)
    <3>1. call[t].recorded \in Versions
      BY <1>1, <2>7, CallerIsTyped DEF Rejected, At
    <3>2. bad' = [bad EXCEPT ![call[t].recorded] = 1]
      BY <2>5, <2>7 DEF Rejected, More
    <3>3. marker # NoMarker /\ marker.env = call[t].recorded
      BY <1>1, <2>7 DEF Rejected, At, Clean
    <3>4. env' = env /\ marker' = marker  BY <2>7 DEF Rejected
    <3>5. BadIsPast'
      BY <1>1, <1>2, <2>5, <3>1, <3>2, <3>4 DEF Rationed, BadIsPast, Versions
    <3>6. BadIsMarked'
      BY <1>1, <1>2, <2>5, <3>1, <3>2, <3>3, <3>4 DEF BadIsMarked, Blocked, TypeOK
    <3>. QED  BY <2>4, <3>5, <3>6 DEF Rationed
  <2>. QED  BY <1>4, <2>6, <2>7
<1>. QED  BY <1>3, <1>4

\* The environment: .env is saved, or the process dies and starts again.
LEMMA EnvironmentRations ==
    ASSUME RationInv, ~replaced, Restart \/ \E p \in Passwords : Edit(p)
    PROVE  Rationed'
<1>. USE DEF env_vars, history
<1>1. TypeOK /\ Rationed  BY DEF RationInv
<1>2. env \in Nat /\ bad \in [Versions -> 0..2]  BY <1>1 DEF TypeOK, Versions
<1>3. CASE \E p \in Passwords : Edit(p)
  <2>1. /\ env < MaxEdits /\ env' = env + 1
        /\ marker' = marker /\ call' = call /\ bad' = bad
    BY <1>3 DEF Edit
  <2>2. env' \in Versions /\ bad[env'] = 0
    BY <1>1, <1>2, <2>1, EditsAssumption DEF Rationed, BadIsPast, Versions
  <2>3. BadIsPast' /\ BadIsMarked'
    BY <1>1, <1>2, <2>1, <2>2 DEF Rationed, BadIsPast, BadIsMarked, Versions
  <2>4. ASSUME NEW u \in Callers PROVE Clean(u)'
    <3>1. Clean(u)  BY <1>1 DEF Rationed
    <3>2. call[u] # Idle => call[u].recorded \in Nat
      BY <1>1, CallerIsTyped DEF Versions
    <3>3. call[u].pc \in {"truncate"} \cup Armed => call[u].recorded <= env'
      BY <1>1, <1>2, <2>1, <3>1, <3>2, CallerIsTyped DEF Clean, Armed
    <3>. QED  BY <2>1, <2>2, <3>1, <3>3 DEF Clean
  <2>. QED  BY <2>3, <2>4 DEF Rationed
<1>4. CASE Restart
  <2>1. env' = env /\ marker' = marker  BY <1>4 DEF Restart
  <2>2. \A u \in Callers : call'[u].pc = "idle"  BY <1>4 DEF Restart, Idle
  <2>3. \A u \in Callers : Clean(u)'  BY <2>2 DEF Clean, Arming, Armed
  <2>4. ASSUME NEW v \in Versions
        PROVE  /\ bad'[v] <= 1 /\ (v > env => bad'[v] = 0)
               /\ v = env /\ bad'[v] > 0 => Blocked
    <3>1. bad[v] <= 1 /\ (v > env => bad[v] = 0)
      BY <1>1 DEF Rationed, BadIsPast
    <3>2. CASE \E t \in Callers : call[t].pc = "reply" /\ call[t].recorded = v
      <4>. PICK t \in Callers : call[t].pc = "reply" /\ call[t].recorded = v  BY <3>2
      <4>1. v <= env /\ bad[v] = 0 /\ marker # NoMarker /\ marker.env = v
        BY <1>1 DEF Rationed, Clean, Armed
      <4>2. bad'[v] = 1  BY <1>4, <3>2, <4>1 DEF Restart, More
      <4>. QED  BY <1>2, <4>1, <4>2 DEF Blocked, Versions
    <3>3. CASE ~\E t \in Callers : call[t].pc = "reply" /\ call[t].recorded = v
      <4>1. bad'[v] = bad[v]  BY <1>4, <3>3 DEF Restart
      <4>. QED  BY <1>1, <3>1, <4>1 DEF Rationed, BadIsMarked
    <3>. QED  BY <3>2, <3>3
  <2>5. env \in Versions  BY <1>1 DEF TypeOK
  <2>6. BadIsPast' /\ BadIsMarked'
    BY <2>1, <2>4, <2>5 DEF BadIsPast, BadIsMarked, Blocked
  <2>. QED  BY <2>3, <2>6 DEF Rationed
<1>. QED  BY <1>3, <1>4

LEMMA RationNext == RationInv /\ [Next]_vars => RationInv'
<1>. SUFFICES ASSUME RationInv, [Next]_vars, ~replaced' PROVE Rationed'
  BY TypeNext, LocksNext, ShareNext DEF RationInv
<1>. USE DEF env_vars, history
<1>0. TypeOK /\ LocksHeld /\ AllShare  BY DEF RationInv
<1>1. ~replaced
  <2>1. CASE UNCHANGED vars  BY <2>1 DEF vars
  <2>2. CASE Next
    BY <2>2
    DEF Next, Restart, Drop, Edit, GetShared, GetNew, Replace, Begins, Answered,
        Unauthorized, Login, IsBlocked, MayLogIn, ChallengeFails, Challenged, ReadsTime,
        Truncates, Writes, Sends, Accepted, Rejected, Clears
  <2>. QED  BY <2>1, <2>2
<1>2. Rationed  BY <1>1 DEF RationInv
\* Who is not in _login() after the step has nothing to be clean of.
<1>3. ASSUME NEW t \in Callers, env' = env, marker' = marker, bad' = bad,
             call'[t].pc \in {"idle", "want", "check", "post"},
             \A u \in Callers \ {t} : call'[u] = call[u]
      PROVE  Rationed'
  <2>1. Clean(t)'  BY <1>3 DEF Clean, Arming, Armed
  <2>. QED  BY <1>2, <1>3, <2>1, QuietStep
<1>4. CASE Restart \/ \E p \in Passwords : Edit(p)
  BY <1>1, <1>4, EnvironmentRations
<1>5. CASE Drop
  BY <1>2, <1>5 DEF Drop, Rationed, BadIsPast, BadIsMarked, Blocked, Clean
<1>6. ASSUME NEW t \in Callers, GetShared(t) \/ \E c \in Clients : GetNew(t, c)
      PROVE  Rationed'
  <2>1. \E c : Holds(t, c)  BY <1>6 DEF GetShared, GetNew
  <2>2. call'[t].pc = "want" /\ \A u \in Callers \ {t} : call'[u] = call[u]
    BY <1>0, <2>1 DEF Holds, Idle, TypeOK
  <2>3. env' = env /\ marker' = marker /\ bad' = bad  BY <1>6 DEF GetShared, GetNew
  <2>. QED  BY <1>3, <2>2, <2>3
<1>7. ASSUME NEW t \in Callers,
             Begins(t) \/ Answered(t) \/ Unauthorized(t) \/ IsBlocked(t) \/ ChallengeFails(t)
      PROVE  Rationed'
  <2>1. env' = env /\ marker' = marker /\ bad' = bad
    BY <1>7 DEF Begins, Answered, Unauthorized, IsBlocked, ChallengeFails
  <2>2. call[t] \in Busy /\ DOMAIN call = Callers
    BY <1>0, <1>7, CallType
    DEF Begins, Answered, Unauthorized, IsBlocked, ChallengeFails, At, TypeOK
  <2>3. CASE Ends(t, Idle)
    BY <1>0, <1>3, <2>1, <2>3, Moving, CallerIsTyped
  <2>4. CASE GoesTo(t, "post")
    BY <1>0, <1>3, <2>1, <2>4, Moving
  <2>5. CASE Ends(t, [call[t] EXCEPT !.pc = "want", !.again = FALSE])
    <3>1. call'[t].pc = "want" /\ \A u \in Callers \ {t} : call'[u] = call[u]
      BY <2>2, <2>5 DEF Ends, Busy
    <3>. QED  BY <1>3, <2>1, <3>1
  <2>6. CASE call' = [call EXCEPT ![t].pc = "check", ![t].again = TRUE]
    <3>1. call'[t].pc = "check" /\ \A u \in Callers \ {t} : call'[u] = call[u]
      BY <2>2, <2>6 DEF Busy
    <3>. QED  BY <1>3, <2>1, <3>1
  <2>. QED
    BY <1>7, <2>3, <2>4, <2>5, <2>6
    DEF Begins, Answered, Unauthorized, IsBlocked, ChallengeFails
<1>8. CASE UNCHANGED vars
  BY <1>2, <1>8 DEF vars, Rationed, BadIsPast, BadIsMarked, Blocked, Clean
<1>. QED
  BY <1>1, <1>4, <1>5, <1>6, <1>7, <1>8, MayLogInRations, ArmingRations, SendingRations
  DEF Next, Login

LEMMA RationInit == Init => RationInv
<1>. SUFFICES ASSUME Init PROVE RationInv
  OBVIOUS
<1>1. \A t \in Callers : call[t].pc = "idle" /\ call[t] = Idle  BY DEF Init, Idle
<1>2. TypeOK  BY TypeInit
<1>3. LocksHeld /\ AllShare
  BY <1>1 DEF LocksHeld, AllShare, LoggingIn, Arming
<1>4. \A t \in Callers : Clean(t)  BY <1>1 DEF Clean, Arming, Armed
<1>5. BadIsPast /\ BadIsMarked
  BY VersionType DEF Init, BadIsPast, BadIsMarked
<1>. QED  BY <1>2, <1>3, <1>4, <1>5 DEF RationInv, Rationed

\* While clients in use are not replaced, a wrong or unconfirmed login happens at
\* most once per change of .env, for any number of callers and edits, wherever the
\* process dies.
THEOREM OncePerEdit == Spec => []RationedWhenShared
<1>1. RationInv => RationedWhenShared
  BY DEF RationInv, Rationed, BadIsPast, RationedWhenShared
<1>. QED  BY <1>1, RationInit, RationNext, PTL DEF Spec

-----------------------------------------------------------------------------
(* Cause.                                                                   *)

Making == \E t \in Callers : call[t].pc = "write"
UnderWay(v) ==
    \E t \in Callers : call[t].pc \in {"send", "reply", "clear"} /\ call[t].recorded = v

LEMMA OwnedNext == TypeOK /\ Owned /\ [Next]_vars => Owned'
<1>. SUFFICES ASSUME TypeOK, Owned, [Next]_vars, marker' # NoMarker
              PROVE  \/ Making' \/ UnderWay(marker.env)'
                     \/ bad'[marker'.env] > 0 \/ marker'.env \in cut'
  BY DEF Owned, Making, UnderWay
<1>. DEFINE Caused == \/ Making' \/ UnderWay(marker.env)'
                      \/ bad'[marker'.env] > 0 \/ marker'.env \in cut'
<1>. USE DEF env_vars, history
<1>0. /\ marker \in Marker \cup {NoMarker} /\ bad \in [Versions -> 0..2]
      /\ marker # NoMarker => marker.env \in Versions
  BY DEF TypeOK, Marker
<1>1. marker # NoMarker =>
        Making \/ UnderWay(marker.env) \/ bad[marker.env] > 0 \/ marker.env \in cut
  BY DEF Owned, Making, UnderWay
\* Steps that leave the marker, and every caller that is past its making.
<1>2. ASSUME marker' = marker, bad' = bad, cut' = cut,
             \A u \in Callers : call[u].pc \in Armed => call'[u] = call[u]
      PROVE  Caused
  BY <1>1, <1>2 DEF Making, UnderWay, Armed
<1>3. CASE (\E p \in Passwords : Edit(p)) \/ Drop \/ UNCHANGED vars
  BY <1>2, <1>3 DEF Edit, Drop, vars
<1>4. CASE Restart
  <2>1. marker' = marker  BY <1>4 DEF Restart
  <2>2. CASE Making \/ UnderWay(marker.env)
    BY <1>4, <2>1, <2>2 DEF Restart, Making, UnderWay, Armed
  <2>3. CASE bad[marker.env] > 0
    <3>1. bad'[marker.env] > 0
      BY <1>0, <1>4, <2>1, <2>3 DEF Restart, More
    <3>. QED  BY <2>1, <3>1
  <2>4. CASE marker.env \in cut
    BY <1>4, <2>1, <2>4 DEF Restart
  <2>. QED  BY <1>1, <2>1, <2>2, <2>3, <2>4
<1>5. ASSUME NEW t \in Callers, GetShared(t) \/ \E c \in Clients : GetNew(t, c)
      PROVE  Caused
  <2>1. /\ call[t].pc \notin Armed
        /\ \A u \in Callers \ {t} : call'[u] = call[u]
    BY <1>5, CallerIsTyped DEF GetShared, GetNew, Holds, TypeOK, Armed
  <2>2. marker' = marker /\ bad' = bad /\ cut' = cut
    BY <1>5 DEF GetShared, GetNew
  <2>. QED  BY <1>2, <2>1, <2>2
<1>6. ASSUME NEW t \in Callers,
             \/ Begins(t) \/ Answered(t) \/ Unauthorized(t)
             \/ IsBlocked(t) \/ MayLogIn(t) \/ ChallengeFails(t) \/ Challenged(t)
             \/ ReadsTime(t)
      PROVE  Caused
  <2>1. call[t].pc \notin Armed
    BY <1>6
    DEF Begins, Answered, Unauthorized, IsBlocked, MayLogIn, ChallengeFails, Challenged,
        ReadsTime, At, Armed
  <2>2. \A u \in Callers \ {t} : call'[u] = call[u]
    BY <1>6
    DEF Begins, Answered, Unauthorized, IsBlocked, MayLogIn, ChallengeFails, Challenged,
        ReadsTime, GoesTo, Ends, TypeOK
  <2>3. marker' = marker /\ bad' = bad /\ cut' = cut
    BY <1>6
    DEF Begins, Answered, Unauthorized, IsBlocked, MayLogIn, ChallengeFails, Challenged,
        ReadsTime
  <2>. QED  BY <1>2, <2>1, <2>2, <2>3
<1>7. ASSUME NEW t \in Callers, Truncates(t) PROVE Caused
  <2>1. call'[t].pc = "write"  BY <1>7, Moving DEF Truncates
  <2>. QED  BY <2>1 DEF Making
<1>8. ASSUME NEW t \in Callers, Writes(t) PROVE Caused
  <2>1. call'[t].pc = "send" /\ call'[t].recorded = call[t].recorded
    BY <1>8, Moving DEF Writes
  <2>2. marker'.env = call[t].recorded  BY <1>8 DEF Writes
  <2>. QED  BY <2>1, <2>2 DEF UnderWay
<1>9. ASSUME NEW t \in Callers, Sends(t) \/ Accepted(t) PROVE Caused
  <2>1. /\ call[t].pc \in {"send", "reply"} /\ call'[t].pc \in {"reply", "clear"}
        /\ call'[t].recorded = call[t].recorded
        /\ \A u \in Callers \ {t} : call'[u] = call[u]
    BY <1>9, Moving DEF Sends, Accepted, At
  <2>2. marker' = marker /\ bad' = bad /\ cut' = cut  BY <1>9 DEF Sends, Accepted
  <2>3. Making => Making'  BY <2>1 DEF Making
  <2>4. UnderWay(marker.env) => UnderWay(marker.env)'  BY <2>1, <2>2 DEF UnderWay
  <2>. QED  BY <1>1, <2>2, <2>3, <2>4
<1>10. ASSUME NEW t \in Callers, Rejected(t) PROVE Caused
  <2>1. /\ call[t].pc = "reply" /\ \A u \in Callers \ {t} : call'[u] = call[u]
        /\ call[t].recorded \in Versions
    BY <1>10, Moving, CallerIsTyped DEF Rejected, At
  <2>2. marker' = marker /\ cut' = cut  BY <1>10 DEF Rejected
  <2>3. bad' = [bad EXCEPT ![call[t].recorded] = More(bad[call[t].recorded])]
    BY <1>10 DEF Rejected
  <2>4. bad'[call[t].recorded] > 0
    BY <1>0, <2>1, <2>3 DEF More
  <2>5. bad[marker.env] > 0 => bad'[marker.env] > 0
    BY <1>0, <2>1, <2>2, <2>3 DEF More
  <2>6. Making => Making'  BY <2>1 DEF Making
  <2>7. UnderWay(marker.env) => UnderWay(marker.env)' \/ call[t].recorded = marker.env
    BY <2>1, <2>2 DEF UnderWay
  <2>. QED  BY <1>1, <2>2, <2>4, <2>5, <2>6, <2>7
<1>11. ASSUME NEW t \in Callers, Clears(t) PROVE Caused
  BY <1>11 DEF Clears
<1>. QED
  BY <1>3, <1>4, <1>5, <1>6, <1>7, <1>8, <1>9, <1>10, <1>11 DEF Next, Login

\* Logins are held back only after a rejected or unconfirmed one, or after the
\* process died on one, whatever the interleaving of callers, clients and edits.
THEOREM BlockedForCause == Spec => []BlocksForCause
<1>1. Init => Owned  BY DEF Init, Owned
<1>2. TypeOK /\ Owned => BlocksForCause
  BY DEF Owned, BlocksForCause, Blocked, Arming
<1>. QED  BY <1>1, <1>2, TypeInit, TypeNext, OwnedNext, PTL DEF Spec
--------------------------------------------------------------------------------
(* The buffer of a camera's detections (AlarmBuffer, the part "alarms"). *)

\* Induction, from the well-founded order of the sets of numbers up to n.
LEMMA EveryNumber ==
    ASSUME NEW S \in SUBSET Nat, 0 \in S, \A n \in S : n + 1 \in S
    PROVE  S = Nat
<1>. SUFFICES ASSUME NEW N \in Nat, N \notin S  PROVE FALSE
  OBVIOUS
<1>. DEFINE T == {X \in SUBSET (1..N) : \E k \in (0..N) \ S : X = 1..k}
            R == StrictSubsetOrdering(1..N)
<1>1. 1..N \in T  OBVIOUS
<1>2. T \subseteq SUBSET (1..N)  OBVIOUS
<1>3. IsWellFoundedOn(R, SUBSET (1..N))
  <2>1. IsFiniteSet(1..N)  BY FS_Interval
  <2>. QED  BY <2>1, FS_FiniteSubsetsOfFinite, FS_StrictSubsetOrderingWellFounded
<1>4. PICK x \in T : \A y \in T : ~(<<y, x>> \in R)
  <2>. HIDE DEF T, R
  <2>. QED  BY <1>1, <1>2, <1>3, WFMin
<1>5. PICK k \in (0..N) \ S : x = 1..k  OBVIOUS
<1>6. k # 0 /\ k - 1 \in 0..N  OBVIOUS
<1>7. k - 1 \notin S
  <2>1. k - 1 \in S => k - 1 + 1 \in S  OBVIOUS
  <2>. QED  BY <1>6, <2>1
<1>8. 1..(k - 1) \in T  BY <1>6, <1>7
<1>9. k \in 1..k /\ k \notin 1..(k - 1) /\ 1..(k - 1) \subseteq 1..k /\ 1..k \subseteq 1..N
  BY <1>6
<1>10. <<1..(k - 1), x>> \in R  BY <1>2, <1>8, <1>5, <1>9 DEF StrictSubsetOrdering
<1>. QED  BY <1>4, <1>8, <1>10

\* A set of numbers has a least one: else every number is below all of them.
LEMMA LeastOf ==
    ASSUME NEW S \in SUBSET Nat, NEW n \in S
    PROVE  \E m \in S : \A k \in S : m <= k
<1>. SUFFICES ASSUME \A m \in S : \E k \in S : k < m  PROVE FALSE
  OBVIOUS
<1>. DEFINE Below == {m \in Nat : \A k \in S : k >= m}
<1>1. Below = Nat
  <2>1. \A m \in Below : m + 1 \in Below
    <3>. SUFFICES ASSUME NEW m \in Below, NEW k \in S  PROVE k >= m + 1
      OBVIOUS
    <3>1. k # m
      <4>. SUFFICES ASSUME k = m  PROVE FALSE
        OBVIOUS
      <4>1. PICK j \in S : j < m  OBVIOUS
      <4>. QED  BY <4>1
    <3>. QED  BY <3>1
  <2>2. 0 \in Below  OBVIOUS
  <2>3. Below \in SUBSET Nat  OBVIOUS
  <2>. HIDE DEF Below
  <2>. QED  BY <2>1, <2>2, <2>3, EveryNumber
<1>2. n + 1 \in Below  BY <1>1
<1>. QED  BY <1>2

\* s is t without its first n entries.
Cuts(s, t, n) ==
    /\ n \in 0 .. Len(t) /\ s \in Seq(Alarms!Detection) /\ Len(s) = Len(t) - n
    /\ \A i \in 1 .. Len(s) : s[i] = t[n + i]

LEMMA SubSeqCuts ==
    ASSUME NEW t \in Seq(Alarms!Detection), NEW n \in 0 .. Len(t)
    PROVE  Cuts(SubSeq(t, n + 1, Len(t)), t, n)
<1>1. n + 1 \in Int /\ Len(t) \in Int  OBVIOUS
<1>2. \A i \in n + 1 .. Len(t) : t[i] \in Alarms!Detection  OBVIOUS
<1>3. PICK s : s = SubSeq(t, n + 1, Len(t))  OBVIOUS
<1>4. /\ s \in Seq(Alarms!Detection)
      /\ Len(s) = IF n + 1 <= Len(t) THEN Len(t) - (n + 1) + 1 ELSE 0
      /\ \A i \in 1 .. Len(t) - (n + 1) + 1 : s[i] = t[n + 1 + i - 1]
  BY <1>1, <1>2, <1>3, SubSeqProperties
<1>5. Len(s) = Len(t) - n  BY <1>4
<1>. QED  BY <1>3, <1>4, <1>5 DEF Cuts

LEMMA PrunedCuts ==
    ASSUME NEW t \in Seq(Alarms!Detection)
    PROVE  \E n \in 0 .. Len(t) :
              /\ Cuts(Alarms!Pruned(t), t, n)
              /\ \A j \in 1 .. n : t[j].age > Window
              /\ n < Len(t) => t[n + 1].age <= Window
<1>. DEFINE First(i) == /\ \A j \in 1 .. i - 1 : t[j].age > Window
                        /\ i <= Len(t) => t[i].age <= Window
            Young == {i \in 1 .. Len(t) + 1 : i <= Len(t) => t[i].age <= Window}
<1>0. Window \in Nat  BY AlarmsAssumption
<1>1. \A j \in 1 .. Len(t) : t[j].age \in Int
  <2>1. \A d \in Alarms!Detection : d.age \in Int
    BY AlarmsAssumption DEF Alarms!Detection, Alarms!Ages, Alarms!Old
  <2>. QED  BY <2>1
<1>2. \E i \in 1 .. Len(t) + 1 : First(i)
  <2>1. Young \in SUBSET Nat /\ Len(t) + 1 \in Young  OBVIOUS
  <2>2. PICK m \in Young : \A k \in Young : m <= k
    <3>. HIDE DEF Young
    <3>. QED  BY <2>1, LeastOf
  <2>3. \A j \in 1 .. m - 1 : j \notin Young  BY <2>1, <2>2
  <2>4. \A j \in 1 .. m - 1 : t[j].age > Window  BY <1>0, <1>1, <2>3
  <2>. QED  BY <2>4
<1>3. PICK f \in 1 .. Len(t) + 1 : First(f) /\ f = CHOOSE i \in 1 .. Len(t) + 1 : First(i)
  <2>. HIDE DEF First
  <2>. QED  BY <1>2
<1>4. Alarms!Pruned(t) = SubSeq(t, f, Len(t))  BY <1>3 DEF Alarms!Pruned
<1>5. f - 1 \in 0 .. Len(t) /\ f - 1 + 1 = f  OBVIOUS
<1>6. Cuts(Alarms!Pruned(t), t, f - 1)  BY <1>4, <1>5, SubSeqCuts
<1>7. /\ \A j \in 1 .. f - 1 : t[j].age > Window
      /\ f - 1 < Len(t) => t[f - 1 + 1].age <= Window
  BY <1>3, <1>5
<1>. QED  BY <1>5, <1>6, <1>7

\* How many LastOf drops.
Over(t) == IF Len(t) > MaxEntries THEN Len(t) - MaxEntries ELSE 0

LEMMA LastOfCuts ==
    ASSUME NEW t \in Seq(Alarms!Detection)
    PROVE  Cuts(Alarms!LastOf(t, MaxEntries), t, Over(t)) /\ Over(t) \in 0 .. Len(t)
<1>1. Over(t) \in 0 .. Len(t)  BY AlarmsAssumption DEF Over
<1>2. Over(t) + 1 = IF Len(t) > MaxEntries THEN Len(t) - MaxEntries + 1 ELSE 1
  BY AlarmsAssumption DEF Over
<1>3. Alarms!LastOf(t, MaxEntries) = SubSeq(t, Over(t) + 1, Len(t))
  BY <1>2 DEF Alarms!LastOf
<1>. QED  BY <1>1, <1>3, SubSeqCuts

LEMMA AgesAreInts ==
    /\ Window \in Nat /\ MaxDelay \in Nat /\ MaxEntries \in Nat \ {0} /\ Alarms!Old \in Nat
    /\ \A d \in Alarms!Detection : d.age \in 0 .. Alarms!Old
BY AlarmsAssumption DEF Alarms!Detection, Alarms!Ages, Alarms!Old

\* What the buffer b does not have of a, what was added, is old or of before the start.
Honest(b, a, start) ==
    /\ Len(a) - Len(b) \in Nat
    /\ \A i \in 1 .. Len(b) : b[i] = a[Len(a) - Len(b) + i]
    /\ \A i \in 1 .. Len(a) - Len(b) : a[i].age > Window \/ a[i].age >= start

\* An entry that stands behind a younger one is older by no more than it was late.
InTurn(b) ==
    \A i, j \in 1 .. Len(b) : i < j => b[j].age <= b[i].age + MaxDelay

LEMMA PruningIsHonest ==
    ASSUME NEW b \in Seq(Alarms!Detection), NEW a \in Seq(Alarms!Detection),
           NEW start \in Alarms!Ages, Honest(b, a, start)
    PROVE  Honest(Alarms!Pruned(b), a, start)
<1>1. PICK n \in 0 .. Len(b) : /\ Cuts(Alarms!Pruned(b), b, n)
                               /\ \A j \in 1 .. n : b[j].age > Window
  BY PrunedCuts
<1>2. PICK s : s = Alarms!Pruned(b)  OBVIOUS
<1>3. Len(s) = Len(b) - n /\ \A i \in 1 .. Len(s) : s[i] = b[n + i]  BY <1>1, <1>2 DEF Cuts
<1>4. Len(a) - Len(s) = Len(a) - Len(b) + n /\ Len(a) - Len(s) \in Nat
  BY <1>3 DEF Honest
<1>5. \A i \in 1 .. Len(s) : s[i] = a[Len(a) - Len(s) + i]
  <2>. SUFFICES ASSUME NEW i \in 1 .. Len(s)  PROVE s[i] = a[Len(a) - Len(s) + i]
    OBVIOUS
  <2>1. n + i \in 1 .. Len(b)  BY <1>3
  <2>2. b[n + i] = a[Len(a) - Len(b) + (n + i)]  BY <2>1 DEF Honest
  <2>3. Len(a) - Len(b) + (n + i) = Len(a) - Len(s) + i  BY <1>4
  <2>. QED  BY <1>3, <2>2, <2>3
<1>6. ASSUME NEW i \in 1 .. Len(a) - Len(s)  PROVE a[i].age > Window \/ a[i].age >= start
  <2>1. CASE i <= Len(a) - Len(b)  BY <2>1 DEF Honest
  <2>2. CASE i > Len(a) - Len(b)
    <3>1. PICK j : j = i - (Len(a) - Len(b))  OBVIOUS
    <3>2. j \in 1 .. n /\ j \in 1 .. Len(b) /\ Len(a) - Len(b) + j = i
      BY <1>4, <2>2, <3>1 DEF Honest
    <3>3. b[j] = a[i]  BY <3>2 DEF Honest
    <3>. QED  BY <1>1, <3>2, <3>3
  <2>. QED  BY <2>1, <2>2 DEF Honest
<1>. QED  BY <1>2, <1>4, <1>5, <1>6 DEF Honest

LEMMA CutsInTurn ==
    ASSUME NEW b \in Seq(Alarms!Detection), InTurn(b), NEW s, NEW n, Cuts(s, b, n)
    PROVE  InTurn(s)
<1>. SUFFICES ASSUME NEW i \in 1 .. Len(s), NEW j \in 1 .. Len(s), i < j
              PROVE  s[j].age <= s[i].age + MaxDelay
  BY DEF InTurn
<1>1. n \in Nat /\ n + i \in 1 .. Len(b) /\ n + j \in 1 .. Len(b) /\ n + i < n + j
  BY DEF Cuts
<1>2. s[i] = b[n + i] /\ s[j] = b[n + j]  BY DEF Cuts
<1>. QED  BY <1>1, <1>2 DEF InTurn

\* When detections are added to both, both lose what is too much, and what the buffer loses
\* so is lost to the other as well.
LEMMA AddingIsHonest ==
    ASSUME NEW b \in Seq(Alarms!Detection), NEW a \in Seq(Alarms!Detection),
           NEW d \in Seq(Alarms!Detection), NEW start, Honest(b, a, start)
    PROVE  Honest(Alarms!LastOf(b \o d, MaxEntries), Alarms!LastOf(a \o d, MaxEntries), start)
<1>1. PICK B, A : B = b \o d /\ A = a \o d  OBVIOUS
<1>2. /\ B \in Seq(Alarms!Detection) /\ Len(B) = Len(b) + Len(d)
      /\ \A i \in 1 .. Len(b) + Len(d) : B[i] = IF i <= Len(b) THEN b[i] ELSE d[i - Len(b)]
  BY <1>1, ConcatProperties
<1>3. /\ A \in Seq(Alarms!Detection) /\ Len(A) = Len(a) + Len(d)
      /\ \A i \in 1 .. Len(a) + Len(d) : A[i] = IF i <= Len(a) THEN a[i] ELSE d[i - Len(a)]
  BY <1>1, ConcatProperties
<1>4. PICK M \in Nat : M = Len(a) - Len(b)  BY DEF Honest
<1>5. Len(a) = Len(b) + M /\ Len(A) = Len(B) + M  BY <1>2, <1>3, <1>4
<1>6. ASSUME NEW i \in 1 .. Len(B)  PROVE B[i] = A[M + i]
  <2>1. CASE i <= Len(b)
    <3>1. b[i] = a[M + i]  BY <1>4, <2>1 DEF Honest
    <3>2. M + i \in 1 .. Len(a) + Len(d) /\ M + i <= Len(a)  BY <1>2, <1>5, <2>1
    <3>. QED  BY <1>2, <1>3, <2>1, <3>1, <3>2
  <2>2. CASE i > Len(b)
    <3>1. M + i \in 1 .. Len(a) + Len(d) /\ ~(M + i <= Len(a)) /\ M + i - Len(a) = i - Len(b)
      BY <1>2, <1>5, <2>2
    <3>2. A[M + i] = d[M + i - Len(a)]  BY <1>3, <3>1
    <3>3. B[i] = d[i - Len(b)]  BY <1>2, <2>2
    <3>. QED  BY <3>1, <3>2, <3>3
  <2>. QED  BY <2>1, <2>2
<1>7. PICK s, t : s = Alarms!LastOf(B, MaxEntries) /\ t = Alarms!LastOf(A, MaxEntries)
  OBVIOUS
<1>8. /\ Cuts(s, B, Over(B)) /\ Over(B) \in 0 .. Len(B)
      /\ Cuts(t, A, Over(A)) /\ Over(A) \in 0 .. Len(A)
  BY <1>2, <1>3, <1>7, LastOfCuts
<1>9. PICK m, n : m = Over(B) /\ n = Over(A)  OBVIOUS
<1>10. /\ m \in Nat /\ n \in Nat /\ Len(s) = Len(B) - m /\ Len(t) = Len(A) - n
       /\ \A i \in 1 .. Len(s) : s[i] = B[m + i]
       /\ \A i \in 1 .. Len(t) : t[i] = A[n + i]
  BY <1>8, <1>9 DEF Cuts
<1>11. /\ n <= M + m /\ (m > 0 => n = M + m) /\ m <= Len(B) /\ n <= Len(A)
       /\ (n = M + m \/ m = 0)
  BY <1>2, <1>3, <1>5, <1>8, <1>9, AgesAreInts DEF Over
<1>12. Len(t) - Len(s) = M + m - n /\ M + m - n \in Nat
  <2>1. Len(B) \in Nat /\ Len(A) \in Nat  BY <1>2, <1>3
  <2>2. PICK x, y \in Nat : x = Len(B) /\ y = Len(A)  BY <2>1
  <2>3. Len(t) = y - n /\ Len(s) = x - m /\ y = x + M  BY <1>5, <1>10, <2>2
  <2>4. y - n - (x - m) = M + m - n  BY <1>10, <2>3
  <2>5. M + m - n \in Nat  BY <1>10, <1>11
  <2>. QED  BY <2>3, <2>4, <2>5
<1>13. ASSUME NEW i \in 1 .. Len(s)  PROVE s[i] = t[Len(t) - Len(s) + i]
  <2>1. m + i \in 1 .. Len(B) /\ s[i] = B[m + i]  BY <1>2, <1>10, <1>11
  <2>2. M + m - n + i \in 1 .. Len(t)  BY <1>2, <1>3, <1>5, <1>10, <1>11
  <2>3. t[M + m - n + i] = A[n + (M + m - n + i)] /\ n + (M + m - n + i) = M + (m + i)
    BY <1>10, <2>2
  <2>. QED  BY <1>6, <1>12, <2>1, <2>3
<1>14. ASSUME NEW i \in 1 .. Len(t) - Len(s)
       PROVE  t[i].age > Window \/ t[i].age >= start
  <2>1. m = 0 /\ i \in 1 .. Len(t) /\ n + i \in 1 .. M  BY <1>2, <1>3, <1>5, <1>10, <1>11, <1>12
  <2>2. t[i] = A[n + i]  BY <1>10, <2>1
  <2>3. A[n + i] = a[n + i]  BY <1>3, <1>5, <2>1
  <2>. QED  BY <1>4, <2>1, <2>2, <2>3 DEF Honest
<1>. QED  BY <1>1, <1>7, <1>12, <1>13, <1>14 DEF Honest

LEMMA AddingInTurn ==
    ASSUME NEW b \in Seq(Alarms!Detection), NEW d \in Seq(Alarms!Detection), InTurn(b),
           NEW age \in 0 .. MaxDelay, \A i \in 1 .. Len(d) : d[i].age = age
    PROVE  InTurn(b \o d)
<1>1. PICK B : B = b \o d  OBVIOUS
<1>2. /\ Len(B) = Len(b) + Len(d)
      /\ \A i \in 1 .. Len(b) + Len(d) : B[i] = IF i <= Len(b) THEN b[i] ELSE d[i - Len(b)]
  BY <1>1, ConcatProperties
<1>3. ASSUME NEW i \in 1 .. Len(B), NEW j \in 1 .. Len(B), i < j
      PROVE  B[j].age <= B[i].age + MaxDelay
  <2>1. CASE j <= Len(b)
    <3>1. B[i] = b[i] /\ B[j] = b[j] /\ i \in 1 .. Len(b) /\ j \in 1 .. Len(b)
      BY <1>2, <1>3, <2>1
    <3>. QED  BY <1>3, <3>1 DEF InTurn
  <2>2. CASE j > Len(b)
    <3>1. B[j] = d[j - Len(b)] /\ j - Len(b) \in 1 .. Len(d)  BY <1>2, <2>2
    <3>2. B[j].age = age  BY <3>1
    <3>3. B[i].age \in Nat
      <4>1. CASE i <= Len(b)
        <5>1. b[i] \in Alarms!Detection /\ B[i] = b[i]  BY <1>2, <4>1
        <5>. QED  BY <5>1, AgesAreInts
      <4>2. CASE i > Len(b)
        <5>1. B[i] = d[i - Len(b)] /\ i - Len(b) \in 1 .. Len(d)  BY <1>2, <4>2
        <5>. QED  BY <5>1
      <4>. QED  BY <4>1, <4>2
    <3>. QED  BY <3>2, <3>3, AgesAreInts
  <2>. QED  BY <2>1, <2>2
<1>. QED  BY <1>1, <1>3 DEF InTurn

\* What is stored is what add_many() was given, without what is too much or too old.
LEMMA StoringIsHonest ==
    ASSUME NEW b \in Seq(Alarms!Detection), NEW a \in Seq(Alarms!Detection),
           NEW d \in Seq(Alarms!Detection), NEW start \in Alarms!Ages,
           Len(b) <= MaxEntries, Len(a) <= MaxEntries, Honest(b, a, start), InTurn(b),
           NEW age \in 0 .. MaxDelay, \A i \in 1 .. Len(d) : d[i].age = age
    PROVE  /\ Alarms!Stored(b, d) \in Seq(Alarms!Detection)
           /\ Len(Alarms!Stored(b, d)) <= MaxEntries
           /\ Alarms!LastOf(a \o d, MaxEntries) \in Seq(Alarms!Detection)
           /\ Len(Alarms!LastOf(a \o d, MaxEntries)) <= MaxEntries
           /\ Honest(Alarms!Stored(b, d), Alarms!LastOf(a \o d, MaxEntries), start)
           /\ InTurn(Alarms!Stored(b, d))
<1>1. PICK B, A : B = b \o d /\ A = a \o d  OBVIOUS
<1>2. B \in Seq(Alarms!Detection) /\ A \in Seq(Alarms!Detection)  BY <1>1, ConcatProperties
<1>3. PICK s, t : s = Alarms!LastOf(B, MaxEntries) /\ t = Alarms!LastOf(A, MaxEntries)
  OBVIOUS
<1>4. Cuts(s, B, Over(B)) /\ Cuts(t, A, Over(A))  BY <1>2, <1>3, LastOfCuts
<1>5. /\ s \in Seq(Alarms!Detection) /\ t \in Seq(Alarms!Detection)
      /\ Len(s) <= MaxEntries /\ Len(t) <= MaxEntries
  BY <1>2, <1>4, AgesAreInts DEF Cuts, Over
<1>6. Honest(s, t, start)  BY <1>1, <1>3, AddingIsHonest
<1>7. InTurn(s)  BY <1>1, <1>2, <1>4, AddingInTurn, CutsInTurn
<1>8. CASE d = << >>
  <2>1. B = b /\ A = a  BY <1>1, <1>8, ConcatEmptySeq
  <2>2. Over(a) = 0  BY AgesAreInts DEF Over
  <2>3. Len(t) = Len(a) /\ \A i \in 1 .. Len(t) : t[i] = a[i]
    BY <1>4, <2>1, <2>2 DEF Cuts
  <2>4. t = a  BY <1>5, <2>3
  <2>. QED  BY <1>1, <1>3, <1>8, <2>4 DEF Alarms!Stored
<1>9. CASE d # << >>
  <2>1. Alarms!Stored(b, d) = Alarms!Pruned(s)  BY <1>1, <1>3, <1>9 DEF Alarms!Stored
  <2>2. PICK n : n \in 0 .. Len(s) /\ Cuts(Alarms!Pruned(s), s, n)  BY <1>5, PrunedCuts
  <2>3. PICK u : u = Alarms!Pruned(s)  OBVIOUS
  <2>4. u \in Seq(Alarms!Detection) /\ Len(u) <= MaxEntries
    BY <1>5, <2>2, <2>3, AgesAreInts DEF Cuts
  <2>5. Honest(u, t, start)  BY <1>5, <1>6, <2>3, PruningIsHonest
  <2>6. InTurn(u)  BY <1>5, <1>7, <2>2, <2>3, CutsInTurn
  <2>. QED  BY <1>1, <1>3, <1>5, <2>1, <2>3, <2>4, <2>5, <2>6
<1>. QED  BY <1>8, <1>9

LEMMA AgingIsHonest ==
    ASSUME NEW b \in Seq(Alarms!Detection), NEW a \in Seq(Alarms!Detection),
           NEW start \in Alarms!Ages, Honest(b, a, start), InTurn(b)
    PROVE  /\ Alarms!Aged(b) \in Seq(Alarms!Detection) /\ Len(Alarms!Aged(b)) = Len(b)
           /\ Alarms!Aged(a) \in Seq(Alarms!Detection) /\ Len(Alarms!Aged(a)) = Len(a)
           /\ Alarms!Older(start, Alarms!Old) \in Alarms!Ages
           /\ Honest(Alarms!Aged(b), Alarms!Aged(a), Alarms!Older(start, Alarms!Old))
           /\ InTurn(Alarms!Aged(b))
<1>. DEFINE Later(n) == Alarms!Older(n, Alarms!Old)
            Grown(e) == [e EXCEPT !.age = Later(@)]
<1>1. \A n \in 0 .. Alarms!Old : Later(n) = IF n < Alarms!Old THEN n + 1 ELSE Alarms!Old
  BY DEF Alarms!Older
<1>2. ASSUME NEW q \in Seq(Alarms!Detection)
      PROVE  /\ Alarms!Aged(q) \in Seq(Alarms!Detection) /\ Len(Alarms!Aged(q)) = Len(q)
             /\ \A i \in 1 .. Len(q) : /\ Alarms!Aged(q)[i] = Grown(q[i])
                                       /\ Alarms!Aged(q)[i].age = Later(q[i].age)
  <2>1. ASSUME NEW i \in 1 .. Len(q)
        PROVE  /\ Grown(q[i]) \in Alarms!Detection
               /\ Grown(q[i]).age = Later(q[i].age)
    <3>1. q[i] \in Alarms!Detection  OBVIOUS
    <3>2. Later(q[i].age) \in 0 .. Alarms!Old  BY <1>1, <3>1, AgesAreInts
    <3>. HIDE DEF Later
    <3>. QED  BY <3>1, <3>2 DEF Alarms!Detection, Alarms!Ages
  <2>2. Alarms!Aged(q) = [i \in 1 .. Len(q) |-> Grown(q[i])]  BY DEF Alarms!Aged
  <2>3. PICK g : g = Alarms!Aged(q)  OBVIOUS
  <2>. HIDE DEF Later, Grown
  <2>4. g \in Seq(Alarms!Detection) /\ Len(g) = Len(q)  BY <2>1, <2>2, <2>3
  <2>5. \A i \in 1 .. Len(q) : g[i] = Grown(q[i])  BY <2>2, <2>3
  <2>. QED  BY <2>1, <2>3, <2>4, <2>5
<1>3. PICK B, A, S : B = Alarms!Aged(b) /\ A = Alarms!Aged(a) /\ S = Later(start)
  OBVIOUS
<1>4. /\ Len(B) = Len(b) /\ Len(A) = Len(a)
      /\ \A i \in 1 .. Len(b) : /\ B[i] = Grown(b[i])
                                /\ B[i].age = Later(b[i].age)
      /\ \A i \in 1 .. Len(a) : /\ A[i] = Grown(a[i])
                                /\ A[i].age = Later(a[i].age)
  BY <1>2, <1>3
<1>5. \A i \in 1 .. Len(b) : b[i].age \in 0 .. Alarms!Old  BY AgesAreInts
<1>6. \A i \in 1 .. Len(a) : a[i].age \in 0 .. Alarms!Old  BY AgesAreInts
<1>7. S \in Alarms!Ages  BY <1>1, <1>3, AgesAreInts DEF Alarms!Ages
<1>8. Honest(B, A, S)
  <2>1. \A i \in 1 .. Len(b) : Len(a) - Len(b) + i \in 1 .. Len(a)  BY DEF Honest
  <2>2. \A i \in 1 .. Len(B) : B[i] = A[Len(A) - Len(B) + i]
    <3>. HIDE DEF Later, Grown
    <3>. SUFFICES ASSUME NEW i \in 1 .. Len(b)  PROVE B[i] = A[Len(a) - Len(b) + i]
      BY <1>4
    <3>1. PICK x \in 1 .. Len(a) : x = Len(a) - Len(b) + i  BY <2>1
    <3>2. b[i] = a[x]  BY <3>1 DEF Honest
    <3>. QED  BY <1>4, <3>1, <3>2
  <2>3. ASSUME NEW i \in 1 .. Len(A) - Len(B)  PROVE A[i].age > Window \/ A[i].age >= S
    <3>1. i \in 1 .. Len(a) /\ i \in 1 .. Len(a) - Len(b)  BY <1>4 DEF Honest
    <3>2. a[i].age > Window \/ a[i].age >= start  BY <3>1 DEF Honest
    <3>3. A[i].age = Later(a[i].age) /\ a[i].age \in 0 .. Alarms!Old  BY <1>4, <1>6, <3>1
    <3>4. start \in 0 .. Alarms!Old /\ Window < Alarms!Old
      BY AgesAreInts DEF Alarms!Ages, Alarms!Old
    <3>. HIDE DEF Later
    <3>5. PICK o \in Nat : o = Alarms!Old  BY AgesAreInts
    <3>6. PICK x, y \in 0 .. o : x = a[i].age /\ y = start  BY <3>3, <3>4, <3>5
    <3>7. /\ Later(x) = IF x < o THEN x + 1 ELSE o
          /\ S = IF y < o THEN y + 1 ELSE o
      BY <1>1, <1>3, <3>5, <3>6
    <3>8. Window \in Nat /\ Window < o /\ (x > Window \/ x >= y)
      BY <3>2, <3>4, <3>5, <3>6, AgesAreInts
    <3>. QED  BY <3>3, <3>6, <3>7, <3>8
  <2>. QED  BY <1>4, <2>2, <2>3 DEF Honest
<1>9. InTurn(B)
  <2>. SUFFICES ASSUME NEW i \in 1 .. Len(B), NEW j \in 1 .. Len(B), i < j
                PROVE  B[j].age <= B[i].age + MaxDelay
    BY DEF InTurn
  <2>1. b[j].age <= b[i].age + MaxDelay  BY <1>4 DEF InTurn
  <2>2. B[i].age = Later(b[i].age) /\ B[j].age = Later(b[j].age)  BY <1>4
  <2>3. b[i].age \in 0 .. Alarms!Old /\ b[j].age \in 0 .. Alarms!Old  BY <1>4, <1>5
  <2>4. PICK x, y \in 0 .. Alarms!Old : x = b[i].age /\ y = b[j].age  BY <2>3
  <2>. HIDE DEF Later, Grown
  <2>5. y <= x + MaxDelay  BY <2>1, <2>4
  <2>6. Later(y) <= Later(x) + MaxDelay
    <3>1. PICK o \in Nat : o = Alarms!Old  BY AgesAreInts
    <3>2. /\ Later(x) = IF x < o THEN x + 1 ELSE o
          /\ Later(y) = IF y < o THEN y + 1 ELSE o
      BY <1>1, <2>4, <3>1
    <3>3. x \in 0 .. o /\ y \in 0 .. o /\ MaxDelay \in Nat  BY <2>4, <3>1, AgesAreInts
    <3>. QED  BY <2>5, <3>2, <3>3
  <2>. QED  BY <2>2, <2>4, <2>6
<1>. QED  BY <1>2, <1>3, <1>7, <1>8, <1>9

Kinds == {"people", "motion", "malformed"}

\* Whatever the body, the parser is given a part that has its events in a row.
LEMMA SaysAreParts == \A p \in Alarms!Says : p.events \in Seq(Kinds)
<1>1. Alarms!NoPart.events \in Seq(Kinds)  BY DEF Alarms!NoPart
<1>2. ASSUME NEW body \in Bodies  PROVE Alarms!Extracted(body).events \in Seq(Kinds)
  <2>1. PICK parts \in Seq(Alarms!Part) : parts = body.parts  BY AlarmsAssumption
  <2>2. \A i \in DOMAIN parts : parts[i].events \in Seq(Kinds)
    <3>1. \A p \in Alarms!Part : p.events \in Seq(Kinds)  BY DEF Alarms!Part, Kinds
    <3>. QED  BY <2>1, <3>1
  <2>. DEFINE Objects == {i \in DOMAIN parts : parts[i].is \in {"alarm", "nameless"}}
              First == CHOOSE i \in Objects : \A j \in Objects : i <= j
  <2>3. CASE Objects = {}  BY <1>1, <2>1, <2>3 DEF Alarms!Extracted, Alarms!FirstObject
  <2>4. CASE Objects # {}
    <3>1. Objects \in SUBSET Nat  BY <2>1
    <3>2. PICK n : n \in Objects  BY <2>4
    <3>3. \E i \in Objects : \A j \in Objects : i <= j
      <4>. HIDE DEF Objects
      <4>. QED  BY <3>1, <3>2, LeastOf
    <3>4. First \in Objects
      <4>. HIDE DEF Objects
      <4>. QED  BY <3>3
    <3>5. Alarms!FirstObject(parts) = parts[First]  BY <2>4 DEF Alarms!FirstObject
    <3>6. Alarms!Extracted(body) = Alarms!NoPart \/ Alarms!Extracted(body) = parts[First]
      BY <2>1, <3>5 DEF Alarms!Extracted
    <3>7. First \in DOMAIN parts  BY <3>4
    <3>. HIDE DEF First
    <3>. QED  BY <1>1, <2>2, <3>6, <3>7
  <2>. QED  BY <2>3, <2>4
<1>. QED  BY <1>1, <1>2 DEF Alarms!Says

LEMMA DetectionsOfAPush ==
    ASSUME NEW p, p.says \in Alarms!Says, p.age \in 0 .. MaxDelay
    PROVE  /\ Alarms!Detections(p) \in Seq(Alarms!Detection)
           /\ \A i \in 1 .. Len(Alarms!Detections(p)) : Alarms!Detections(p)[i].age = p.age
<1>. DEFINE fine == {i \in DOMAIN p.says.events : p.says.events[i] # "malformed"}
            Nth(n) == CHOOSE i \in fine : Alarms!Cardinality({j \in fine : j <= i}) = n
            D(n) == [age |-> p.age, human |-> p.says.events[Nth(n)] = "people"]
<1>1. p.says.events \in Seq(Kinds)  BY SaysAreParts
<1>2. IsFiniteSet(fine)
  <2>1. DOMAIN p.says.events = 1 .. Len(p.says.events) /\ Len(p.says.events) \in Nat  BY <1>1
  <2>2. IsFiniteSet(1 .. Len(p.says.events))  BY <2>1, FS_Interval
  <2>. QED  BY <2>1, <2>2, FS_Subset
<1>3. Alarms!Cardinality(fine) = Cardinality(fine)
  <2>1. \A S : Alarms!Cardinality(S) = Cardinality(S)  BY DEF Cardinality, Alarms!Cardinality
  <2>. QED  BY <2>1
<1>4. PICK k \in Nat : k = Alarms!Cardinality(fine)  BY <1>2, <1>3, FS_CardinalityType
<1>5. \A n \in 1 .. k : D(n) \in Alarms!Detection /\ D(n).age = p.age
  <2>1. p.age \in Alarms!Ages  BY AgesAreInts DEF Alarms!Ages, Alarms!Old
  <2>. HIDE DEF Nth
  <2>. QED  BY <2>1 DEF Alarms!Detection
<1>6. Alarms!Detections(p) = [n \in 1 .. Alarms!Cardinality(fine) |-> D(n)]
  BY DEF Alarms!Detections
<1>7. PICK s : s = Alarms!Detections(p)  OBVIOUS
<1>. HIDE DEF D, fine
<1>8. s = [n \in 1 .. k |-> D(n)]  BY <1>4, <1>6, <1>7
<1>9. s \in Seq(Alarms!Detection) /\ Len(s) = k  BY <1>5, <1>8
<1>. QED  BY <1>5, <1>7, <1>8, <1>9

AlarmInv ==
    /\ Alarms!TypeOK
    /\ Honest(buffer, added, started) /\ InTurn(buffer)

LEMMA AlarmInit == Alarms!Init => AlarmInv
<1>. SUFFICES ASSUME Alarms!Init  PROVE AlarmInv
  OBVIOUS
<1>1. 0 \in Alarms!Ages /\ Alarms!NoPush.age \in 0 .. MaxDelay
  BY AgesAreInts DEF Alarms!Ages, Alarms!NoPush
<1>2. Alarms!NoPush \in [at : {"idle", "handle", "heartbeat"}, age : 0 .. MaxDelay,
                         says : Alarms!Says]
  BY <1>1 DEF Alarms!NoPush, Alarms!Says
<1>3. buffer = << >> /\ added = << >> /\ Len(<< >>) = 0  BY DEF Alarms!Init
<1>4. << >> \in Seq(Alarms!Detection)  OBVIOUS
<1>5. Alarms!TypeOK
  BY <1>1, <1>2, <1>3, <1>4, AgesAreInts DEF Alarms!Init, Alarms!TypeOK
<1>. QED  BY <1>3, <1>5 DEF AlarmInv, Honest, InTurn

\* A push that moves on, and leaves the rest alone.
LEMMA PushMoves ==
    ASSUME AlarmInv, UNCHANGED <<buffer, started, added>>,
           push' \in [Callers -> [at : {"idle", "handle", "heartbeat"}, age : 0 .. MaxDelay,
                                  says : Alarms!Says]]
    PROVE  AlarmInv'
BY DEF AlarmInv, Alarms!TypeOK, Honest, InTurn

LEMMA AlarmNext ==
    ASSUME AlarmInv, Alarms!Next
    PROVE  AlarmInv'
<1>. DEFINE Push == [at : {"idle", "handle", "heartbeat"}, age : 0 .. MaxDelay,
                     says : Alarms!Says]
<1>0. /\ push \in [Callers -> Push]
      /\ buffer \in Seq(Alarms!Detection) /\ added \in Seq(Alarms!Detection)
      /\ Len(buffer) <= MaxEntries /\ Len(added) <= MaxEntries /\ started \in Alarms!Ages
  BY DEF AlarmInv, Alarms!TypeOK
<1>1. Alarms!NoPush \in Push
  <2>1. 0 \in 0 .. MaxDelay  BY AgesAreInts
  <2>. QED  BY <2>1 DEF Alarms!NoPush, Alarms!Says
<1>2. ASSUME NEW s \in Callers, NEW body \in Bodies, Alarms!Arrive(s, body)  PROVE AlarmInv'
  <2>1. 0 \in 0 .. MaxDelay /\ Alarms!Extracted(body) \in Alarms!Says
    BY AgesAreInts DEF Alarms!Says
  <2>2. [at |-> "handle", age |-> 0, says |-> Alarms!Extracted(body)] \in Push  BY <2>1
  <2>3. push' \in [Callers -> Push]  BY <1>0, <1>2, <2>2 DEF Alarms!Arrive
  <2>. QED  BY <1>2, <2>3, PushMoves DEF Alarms!Arrive
<1>3. ASSUME NEW s \in Callers, Alarms!Answered(s) \/ Alarms!Heartbeat(s)  PROVE AlarmInv'
  <2>1. push' \in [Callers -> Push]
    BY <1>0, <1>1, <1>3 DEF Alarms!Answered, Alarms!Heartbeat
  <2>. QED  BY <1>3, <2>1, PushMoves DEF Alarms!Answered, Alarms!Heartbeat
<1>4. ASSUME NEW s \in Callers, Alarms!Accept(s)  PROVE AlarmInv'
  <2>1. push[s] \in Push /\ push[s].says \in Alarms!Says /\ push[s].age \in 0 .. MaxDelay
    BY <1>0
  <2>2. PICK d : d = Alarms!Detections(push[s])  OBVIOUS
  <2>3. d \in Seq(Alarms!Detection) /\ \A i \in 1 .. Len(d) : d[i].age = push[s].age
    BY <2>1, <2>2, DetectionsOfAPush
  <2>4. /\ buffer' = Alarms!Stored(buffer, d)
        /\ added' = Alarms!LastOf(added \o d, MaxEntries)
        /\ started' = started
    BY <1>4, <2>2 DEF Alarms!Accept
  <2>5. push' \in [Callers -> Push]
    <3>1. [push[s] EXCEPT !.at = "heartbeat"] \in Push  BY <2>1
    <3>2. push' = [push EXCEPT ![s].at = "heartbeat"]  BY <1>4 DEF Alarms!Accept
    <3>. QED  BY <1>0, <3>1, <3>2
  <2>6. /\ buffer' \in Seq(Alarms!Detection) /\ Len(buffer') <= MaxEntries
        /\ added' \in Seq(Alarms!Detection) /\ Len(added') <= MaxEntries
        /\ Honest(buffer', added', started') /\ InTurn(buffer')
    BY <1>0, <2>1, <2>3, <2>4, StoringIsHonest DEF AlarmInv
  <2>. QED  BY <1>0, <2>4, <2>5, <2>6 DEF AlarmInv, Alarms!TypeOK, Honest, InTurn
<1>5. CASE Alarms!Recent
  <2>1. buffer' = Alarms!Pruned(buffer) /\ UNCHANGED <<push, started, added>>
    BY <1>5 DEF Alarms!Recent
  <2>2. PICK n \in 0 .. Len(buffer) : Cuts(Alarms!Pruned(buffer), buffer, n)
    BY <1>0, PrunedCuts
  <2>3. buffer' \in Seq(Alarms!Detection) /\ Len(buffer') <= MaxEntries
    BY <1>0, <2>1, <2>2, AgesAreInts DEF Cuts
  <2>4. Honest(buffer', added', started')
    BY <1>0, <2>1, PruningIsHonest DEF AlarmInv
  <2>5. InTurn(buffer')  BY <1>0, <2>1, <2>2, CutsInTurn DEF AlarmInv
  <2>. QED  BY <1>0, <2>1, <2>3, <2>4, <2>5 DEF AlarmInv, Alarms!TypeOK, Honest, InTurn
<1>6. CASE Alarms!Drop
  <2>1. buffer' = << >> /\ added' = << >> /\ UNCHANGED <<push, started>>
    BY <1>6 DEF Alarms!Drop
  <2>2. << >> \in Seq(Alarms!Detection) /\ Len(<< >>) = 0  OBVIOUS
  <2>. QED
    BY <1>0, <2>1, <2>2, AgesAreInts DEF AlarmInv, Alarms!TypeOK, Honest, InTurn
<1>7. CASE Alarms!Tick
  <2>1. /\ \A s \in Callers : push[s].at = "handle" => push[s].age < MaxDelay
        /\ push' = [s \in Callers |-> IF push[s].at = "handle"
                                      THEN [push[s] EXCEPT !.age = @ + 1] ELSE push[s]]
        /\ buffer' = Alarms!Aged(buffer) /\ added' = Alarms!Aged(added)
        /\ started' = Alarms!Older(started, Alarms!Old)
    BY <1>7 DEF Alarms!Tick
  <2>2. push' \in [Callers -> Push]
    <3>. SUFFICES ASSUME NEW s \in Callers
                  PROVE  (IF push[s].at = "handle" THEN [push[s] EXCEPT !.age = @ + 1]
                                                   ELSE push[s]) \in Push
      BY <2>1
    <3>1. push[s] \in Push  BY <1>0
    <3>2. push[s].at = "handle" => push[s].age + 1 \in 0 .. MaxDelay
      BY <2>1, <3>1, AgesAreInts
    <3>. QED  BY <3>1, <3>2
  <2>3. /\ buffer' \in Seq(Alarms!Detection) /\ Len(buffer') <= MaxEntries
        /\ added' \in Seq(Alarms!Detection) /\ Len(added') <= MaxEntries
        /\ started' \in Alarms!Ages
        /\ Honest(buffer', added', started') /\ InTurn(buffer')
    BY <1>0, <2>1, AgingIsHonest DEF AlarmInv
  <2>. QED  BY <2>2, <2>3 DEF AlarmInv, Alarms!TypeOK, Honest, InTurn
<1>8. CASE Alarms!Restart
  <2>1. /\ push' = [s \in Callers |-> Alarms!NoPush] /\ buffer' = << >>
        /\ added' = added /\ started' = 0
    BY <1>8 DEF Alarms!Restart, Alarms!MarkProcessStart
  <2>2. push' \in [Callers -> Push]  BY <1>1, <2>1
  <2>3. 0 \in Alarms!Ages  BY AgesAreInts DEF Alarms!Ages
  <2>4. \A i \in 1 .. Len(added) : added[i].age >= 0
    <3>1. \A i \in 1 .. Len(added) : added[i] \in Alarms!Detection  BY <1>0
    <3>. QED  BY <3>1, AgesAreInts
  <2>5. << >> \in Seq(Alarms!Detection) /\ Len(<< >>) = 0  OBVIOUS
  <2>6. Honest(buffer', added', started')  BY <1>0, <2>1, <2>4, <2>5 DEF Honest
  <2>7. InTurn(buffer')  BY <2>1, <2>5 DEF InTurn
  <2>. QED
    BY <1>0, <2>1, <2>2, <2>3, <2>5, <2>6, <2>7, AgesAreInts
    DEF AlarmInv, Alarms!TypeOK, Honest, InTurn
<1>. QED
  BY <1>2, <1>3, <1>4, <1>5, <1>6, <1>7, <1>8
  DEF Alarms!Next, Alarms!Unsupported, Alarms!NoMac, Alarms!NotOurs, Alarms!Fails

LEMMA AlarmsHold ==
    ASSUME AlarmInv
    PROVE  Alarms!TypeOK /\ Alarms!SilenceIsHonest /\ Alarms!ShownIsRecent
<1>0. /\ Alarms!TypeOK /\ buffer \in Seq(Alarms!Detection)
      /\ added \in Seq(Alarms!Detection)
  BY DEF AlarmInv, Alarms!TypeOK
<1>1. Alarms!SilenceIsHonest
  <2>1. DOMAIN buffer = 1 .. Len(buffer) /\ Alarms!Missing = Len(added) - Len(buffer)
    BY <1>0 DEF Alarms!Missing
  <2>2. Honest(buffer, added, started)  BY DEF AlarmInv
  <2>. QED  BY <2>1, <2>2 DEF Honest, Alarms!SilenceIsHonest
<1>2. Alarms!ShownIsRecent
  <2>1. PICK n \in 0 .. Len(buffer) :
            /\ Cuts(Alarms!Pruned(buffer), buffer, n)
            /\ n < Len(buffer) => buffer[n + 1].age <= Window
    BY <1>0, PrunedCuts
  <2>2. PICK s : s = Alarms!Pruned(buffer)  OBVIOUS
  <2>3. /\ s \in Seq(Alarms!Detection) /\ Len(s) = Len(buffer) - n
        /\ \A i \in 1 .. Len(s) : s[i] = buffer[n + i]
    BY <2>1, <2>2 DEF Cuts
  <2>4. ASSUME NEW i \in 1 .. Len(s)  PROVE s[i].age <= Window + MaxDelay
    <3>1. n < Len(buffer) /\ n + 1 \in 1 .. Len(buffer) /\ n + i \in 1 .. Len(buffer)
      BY <1>0, <2>3
    <3>2. buffer[n + 1] \in Alarms!Detection /\ buffer[n + i] \in Alarms!Detection
      BY <1>0, <3>1
    <3>3. i = 1 \/ buffer[n + i].age <= buffer[n + 1].age + MaxDelay
      BY <3>1 DEF AlarmInv, InTurn
    <3>4. s[i] = buffer[n + i]  BY <2>3
    <3>5. PICK x, y \in Nat : x = buffer[n + 1].age /\ y = buffer[n + i].age
      BY <3>2, AgesAreInts
    <3>. QED  BY <2>1, <3>1, <3>3, <3>4, <3>5, AgesAreInts
  <2>5. DOMAIN s = 1 .. Len(s)  BY <2>3
  <2>. QED  BY <2>2, <2>4, <2>5 DEF Alarms!ShownIsRecent
<1>. QED  BY <1>0, <1>1, <1>2

\* What the dashboard is told of a camera's last quarter of an hour is true, whatever the
\* order in which its pushes are handled, however many are lost, and across restarts.
THEOREM AlarmsTellTheTruth == VigiSpec => []AlarmsAreHonest
<1>. DEFINE I == part = "alarms" => AlarmInv
<1>1. VigiInit => I  BY AlarmInit DEF VigiInit
<1>2. I /\ [VigiNext]_<<vars, alarmVars, part>> => I'
  <2>. SUFFICES ASSUME I, [VigiNext]_<<vars, alarmVars, part>>  PROVE I'
    OBVIOUS
  <2>1. CASE part = "alarms" /\ Alarms!Next /\ UNCHANGED <<vars, part>>
    BY <2>1, AlarmNext
  <2>2. CASE part = "login" /\ Next /\ UNCHANGED <<alarmVars, part>>
    BY <2>2
  <2>3. CASE UNCHANGED <<vars, alarmVars, part>>
    BY <2>3 DEF alarmVars, AlarmInv, Alarms!TypeOK, Honest, InTurn
  <2>. QED  BY <2>1, <2>2, <2>3 DEF VigiNext
<1>3. I => AlarmsAreHonest  BY AlarmsHold DEF AlarmsAreHonest
<1>. QED  BY <1>1, <1>2, <1>3, PTL DEF VigiSpec
================================================================================
