----------------------------- MODULE ManDownProofs -----------------------------
(***************************************************************************)
(* Proofs about ManDown, for any number of people and any thresholds.      *)
(***************************************************************************)
EXTENDS ManDown, TLAPS

LEMMA OlderType ==
    ASSUME NEW cap \in Nat, NEW n \in 0..cap
    PROVE  Older(n, cap) \in 0..cap /\ Older(n, cap) >= n /\ Older(n, cap) <= n + 1
BY DEF Older

ToldType == [still : 0..2, loss : 0..2, here : 0..2, since : 0..SweepPeriod]

\* What Tell does to the person told, and to everybody else.
LEMMA TellType ==
    ASSUME told \in [People -> ToldType], NEW p \in People, NEW c, Tell(p, c)
    PROVE  /\ told' \in [People -> ToldType]
           /\ \A q \in People \ {p} : told'[q] = told[q]
           /\ told'[p].still = IF c = "stillness" THEN Older(told[p].still, 2)
                               ELSE told[p].still
           /\ told'[p].loss = IF c = "signal_loss" THEN Older(told[p].loss, 2)
                              ELSE told[p].loss
           /\ told'[p].here = IF c = "signal_loss" THEN Older(told[p].here, 2)
                              ELSE told[p].here
           /\ told'[p].since = IF c = "signal_loss" THEN 0 ELSE told[p].since
<1>. DEFINE s == IF c = "stillness" THEN Older(told[p].still, 2) ELSE told[p].still
            l == IF c = "signal_loss" THEN Older(told[p].loss, 2) ELSE told[p].loss
            h == IF c = "signal_loss" THEN Older(told[p].here, 2) ELSE told[p].here
            a == IF c = "signal_loss" THEN 0 ELSE told[p].since
<1>1. s \in 0..2 /\ l \in 0..2 /\ h \in 0..2  BY OlderType DEF ToldType
<1>2. a \in 0..SweepPeriod  BY TimesAssumption DEF ToldType
<1>3. told' = [told EXCEPT ![p] = [still |-> s, loss |-> l, here |-> h, since |-> a]]
  BY DEF Tell
<1>. QED  BY <1>1, <1>2, <1>3 DEF ToldType

LEMMA TypeInit == Init => TypeOK
<1>1. /\ 0 \in 0..SweepPeriod /\ Spacing \in 0..Spacing /\ 0 \in 0..(MaxAge + 1)
      /\ SweepPeriod \in 0..SweepPeriod
  BY TimesAssumption
<1>. QED  BY <1>1 DEF Init, TypeOK, Untold

LEMMA TypeNext == TypeOK /\ [Next]_vars => TypeOK'
<1>. SUFFICES ASSUME TypeOK, [Next]_vars PROVE TypeOK'
  OBVIOUS
<1>. USE DEF TypeOK, memory, history
<1>0. told \in [People -> ToldType]  BY DEF ToldType
<1>1. CASE Elapse
  <2>1. slept' \in 0..SweepPeriod  BY <1>1, TimesAssumption DEF Elapse
  <2>2. record' \in [People -> {NoRecord} \cup 0..(MaxAge + 1)]
    <3>1. ASSUME NEW p \in People, record[p] # NoRecord
          PROVE  Older(record[p], MaxAge + 1) \in 0..(MaxAge + 1)
      <4>1. record[p] \in 0..(MaxAge + 1) /\ MaxAge + 1 \in Nat
        BY <3>1, TimesAssumption
      <4>. QED  BY <4>1, OlderType
    <3>. QED  BY <1>1, <3>1 DEF Elapse
  <2>3. anchor' \in [People -> Anchor \cup {NoAnchor}]
    <3>1. ASSUME NEW p \in People, anchor[p] # NoAnchor
          PROVE  [anchor[p] EXCEPT !.age = Older(@, StillAfter)] \in Anchor
      BY <3>1, OlderType, TimesAssumption DEF Anchor
    <3>. QED  BY <1>1, <3>1 DEF Elapse
  <2>4. last' \in [People -> 0..Spacing]
    BY <1>1, OlderType, TimesAssumption DEF Elapse
  <2>5. told' \in [People -> ToldType]
    <3>1. ASSUME NEW p \in People
          PROVE  [told[p] EXCEPT !.since = Older(@, SweepPeriod)] \in ToldType
      BY <1>0, OlderType, TimesAssumption DEF ToldType
    <3>. QED  BY <1>1, <3>1 DEF Elapse
  <2>6. uptime' \in 0..(MaxAge + 1)
    <3>1. MaxAge + 1 \in Nat  BY TimesAssumption
    <3>. QED  BY <1>1, <3>1, OlderType DEF Elapse
  <2>7. /\ still' = still /\ stale' = stale /\ tick' = tick
        /\ sweep' = sweep /\ overlapped' = overlapped
    BY <1>1 DEF Elapse
  <2>. QED  BY <2>1, <2>2, <2>3, <2>4, <2>5, <2>6, <2>7 DEF ToldType
<1>2. CASE Restart
  <2>1. 0 \in 0..SweepPeriod /\ Spacing \in 0..Spacing /\ 0 \in 0..(MaxAge + 1)
    BY TimesAssumption
  <2>2. told' \in [People -> ToldType]
    <3>1. ASSUME NEW p \in People
          PROVE  [told[p] EXCEPT !.here = 0, !.loss = IF Returning(p) THEN 0 ELSE @]
                      \in ToldType
      <4>1. PICK t \in ToldType : t = told[p]  BY <1>0
      <4>2. PICK n \in 0..2 : n = IF Returning(p) THEN 0 ELSE t.loss
        BY <4>1 DEF ToldType
      <4>3. [t EXCEPT !.here = 0] \in ToldType  BY <4>1 DEF ToldType
      <4>4. [[t EXCEPT !.here = 0] EXCEPT !.loss = n] \in ToldType
        BY <4>2, <4>3 DEF ToldType
      <4>. QED  BY <4>1, <4>2, <4>4
    <3>. QED  BY <1>2, <3>1 DEF Restart
  <2>. QED  BY <1>2, <2>1, <2>2 DEF Restart, ToldType
<1>3. ASSUME NEW p \in People, RemoveRecord(p) PROVE TypeOK'
  BY <1>3 DEF RemoveRecord
<1>4. ASSUME NEW p \in People, TickBegins(p) PROVE TypeOK'
  <2>1. 0 \in 0..(MaxAge + 1)  BY TimesAssumption
  <2>. QED  BY <1>4, <2>1 DEF TickBegins
<1>5. CASE TickDiscards
  <2>1. tick \in [pc : {"saved", "check", "save", "latch"},
                  who : People, at : Places, kind : Kinds]
    BY <1>5 DEF TickDiscards, NoTick
  <2>2. told' \in [People -> ToldType]
    <3>1. [told[tick.who] EXCEPT !.loss = 0, !.here = 0] \in ToldType
      <4>1. PICK t \in ToldType : t = told[tick.who]  BY <1>0, <2>1
      <4>2. [t EXCEPT !.loss = 0] \in ToldType  BY <4>1 DEF ToldType
      <4>3. [[t EXCEPT !.loss = 0] EXCEPT !.here = 0] \in ToldType
        BY <4>2 DEF ToldType
      <4>. QED  BY <4>1, <4>3
    <3>2. told' = [told EXCEPT
                    ![tick.who] = [told[tick.who] EXCEPT !.loss = 0, !.here = 0]]
      BY <1>0, <1>5, <2>1 DEF TickDiscards, ToldType
    <3>. QED  BY <1>0, <3>1, <3>2
  <2>3. tick' \in {NoTick} \cup [pc : {"saved", "check", "save", "latch"},
                                 who : People, at : Places, kind : Kinds]
    BY <1>5, <2>1 DEF TickDiscards
  <2>. QED  BY <1>5, <2>1, <2>2, <2>3 DEF TickDiscards, ToldType
<1>6. CASE TickSetsAnchor
  <2>1. tick.who \in People /\ tick.at \in Places /\ tick.kind \in Kinds
    BY <1>6 DEF TickSetsAnchor, NoTick
  <2>2. told' \in [People -> ToldType]
    <3>1. [told[tick.who] EXCEPT !.still = 0] \in ToldType  BY <1>0, <2>1 DEF ToldType
    <3>. QED  BY <1>0, <1>6, <3>1 DEF TickSetsAnchor
  <2>3. [at |-> tick.at, kind |-> tick.kind, age |-> 0] \in Anchor
    BY <2>1, TimesAssumption DEF Anchor
  <2>. QED  BY <1>6, <2>1, <2>2, <2>3 DEF TickSetsAnchor, ToldType
<1>7. CASE TickPasses
  <2>1. tick \in [pc : {"saved", "check", "save", "latch"},
                  who : People, at : Places, kind : Kinds]
    BY <1>7 DEF TickPasses, NoTick
  <2>. QED  BY <1>7, <2>1 DEF TickPasses
<1>8. CASE TickSavesAlert
  <2>1. tick \in [pc : {"saved", "check", "save", "latch"},
                  who : People, at : Places, kind : Kinds]
    BY <1>8 DEF TickSavesAlert, NoTick
  <2>2. told' \in [People -> ToldType]
    BY <1>0, <1>8, <2>1, TellType DEF TickSavesAlert
  <2>. QED  BY <1>8, <2>1, <2>2 DEF TickSavesAlert, ToldType
<1>9. CASE TickLatches
  <2>1. tick.who \in People  BY <1>9 DEF TickLatches, NoTick
  <2>. QED  BY <1>9, <2>1, TimesAssumption DEF TickLatches
<1>10. CASE TickRaises  BY <1>10 DEF TickRaises
<1>11. CASE SweepReads  BY <1>11 DEF SweepReads
<1>12. ASSUME NEW p \in People, SweepLooksAt(p) PROVE TypeOK'
  <2>1. sweep \in [pc : {"run"}, todo : SUBSET People, who : {Nobody}]
    BY <1>12 DEF SweepLooksAt, Asleep
  <2>2. sweep' \in [pc : {"run"}, todo : SUBSET People, who : {Nobody}]
                     \cup [pc : {"save", "latch"}, todo : SUBSET People, who : People]
    BY <1>12, <2>1 DEF SweepLooksAt
  <2>. QED  BY <1>12, <2>2 DEF SweepLooksAt
<1>13. CASE SweepSavesAlert
  <2>1. sweep \in [pc : {"save", "latch"}, todo : SUBSET People, who : People]
    BY <1>13 DEF SweepSavesAlert, Asleep
  <2>2. told' \in [People -> ToldType]
    BY <1>0, <1>13, <2>1, TellType DEF SweepSavesAlert
  <2>3. sweep' \in [pc : {"save", "latch"}, todo : SUBSET People, who : People]
    BY <1>13, <2>1 DEF SweepSavesAlert
  <2>. QED  BY <1>13, <2>2, <2>3 DEF SweepSavesAlert, ToldType
<1>14. CASE SweepLatches
  <2>1. sweep \in [pc : {"save", "latch"}, todo : SUBSET People, who : People]
    BY <1>14 DEF SweepLatches, Asleep
  <2>. QED  BY <1>14, <2>1, TimesAssumption DEF SweepLatches
<1>15. CASE SweepEnds
  BY <1>15, TimesAssumption DEF SweepEnds
<1>17. CASE SweepRaises
  <2>1. sweep.todo \subseteq People
    BY <1>17 DEF SweepRaises, Asleep
  <2>. QED  BY <1>17, <2>1, TimesAssumption DEF SweepRaises
<1>16. CASE UNCHANGED vars  BY <1>16 DEF vars
<1>. QED
  BY <1>1, <1>2, <1>3, <1>4, <1>5, <1>6, <1>7, <1>8, <1>9, <1>10, <1>11, <1>12,
     <1>13, <1>14, <1>15, <1>16, <1>17
  DEF Next, TickStep, SweepStep

\* Type correctness, whichever saves fail and wherever the process restarts.
THEOREM TypeCorrect == Spec => []TypeOK
BY TypeInit, TypeNext, PTL DEF Spec
-----------------------------------------------------------------------------
(* No alert is repeated.  None of the counts is inductive alone: between   *)
(* the save and the latch the alert is out and the latch is not set, so    *)
(* the invariants say where the sweep and the tick then are.               *)

\* A signal-loss alert of this process that is out is latched, or the sweep is about
\* to latch it; and the sweep saves only for someone who has none.
LossInv ==
    /\ \A p \in People :
          /\ told[p].here <= 1
          /\ told[p].here = 1 =>
                p \in stale \/ (sweep.pc = "latch" /\ sweep.who = p)
    /\ sweep.pc = "save" => told[sweep.who].here = 0

\* The same of the stillness alert and the tick, as long as the anchor is in memory:
\* a restart loses both, and the position that sets the next anchor begins an episode.
StillInv ==
    /\ \A p \in People :
          /\ told[p].still <= 1
          /\ told[p].still = 1 /\ anchor[p] # NoAnchor =>
                p \in still \/ (tick.pc = "latch" /\ tick.who = p)
    /\ tick.pc = "save" => told[tick.who].still = 0 /\ tick.who \notin still

\* Nobody was told of since the sweep last slept, but for those it has done with and
\* the one it is at: across restarts, which begin the sleep anew.
SpacedInv ==
    /\ sweep = Asleep => \A p \in People : slept <= told[p].since
    /\ sweep # Asleep =>
            \A p \in sweep.todo :
                told[p].since = SweepPeriod \/ (sweep.pc = "latch" /\ sweep.who = p)
    /\ sweep.pc = "save" => sweep.who \in sweep.todo

LEMMA LossInvNext == TypeOK /\ LossInv /\ [Next]_vars => LossInv'
<1>. SUFFICES ASSUME TypeOK, LossInv, [Next]_vars PROVE LossInv'
  OBVIOUS
<1>. USE DEF LossInv, memory, history
<1>0. told \in [People -> ToldType]  BY DEF TypeOK, ToldType
<1>1. CASE Elapse
  <2>1. /\ sweep' = sweep /\ stale' = stale /\ sweep = Asleep
        /\ \A p \in People : told'[p].here = told[p].here
    BY <1>0, <1>1 DEF Elapse, ToldType
  <2>. QED  BY <2>1 DEF Asleep
<1>2. CASE Restart
  <2>1. sweep' = Asleep /\ \A p \in People : told'[p].here = 0
    BY <1>0, <1>2 DEF Restart, ToldType
  <2>. QED  BY <2>1 DEF Asleep
<1>3. ASSUME NEW p \in People, RemoveRecord(p) \/ TickBegins(p) PROVE LossInv'
  BY <1>3 DEF RemoveRecord, TickBegins
<1>4. CASE TickDiscards
  <2>1. tick.who \in People /\ sweep' = sweep /\ stale' = stale \ {tick.who}
    BY <1>4 DEF TickDiscards, TypeOK, NoTick
  <2>2. /\ told'[tick.who].here = 0
        /\ \A p \in People \ {tick.who} : told'[p] = told[p]
    BY <1>0, <1>4, <2>1 DEF TickDiscards, ToldType
  <2>3. sweep.pc = "save" => sweep.who \in People  BY DEF TypeOK, Asleep
  <2>. QED  BY <2>1, <2>2, <2>3
<1>5. CASE TickSetsAnchor
  <2>1. /\ sweep' = sweep /\ stale' = stale
        /\ \A p \in People : told'[p].here = told[p].here
    BY <1>0, <1>5 DEF TickSetsAnchor, ToldType
  <2>2. sweep.pc = "save" => sweep.who \in People  BY DEF TypeOK, Asleep
  <2>. QED  BY <2>1, <2>2
<1>6. CASE TickPasses \/ TickLatches \/ TickRaises
  BY <1>6 DEF TickPasses, TickLatches, TickRaises
<1>7. CASE TickSavesAlert
  <2>1. tick.who \in People  BY <1>7 DEF TickSavesAlert, TypeOK, NoTick
  <2>2. /\ sweep' = sweep /\ stale' = stale
        /\ \A p \in People : told'[p].here = told[p].here
    BY <1>0, <1>7, <2>1, TellType DEF TickSavesAlert
  <2>3. sweep.pc = "save" => sweep.who \in People  BY DEF TypeOK, Asleep
  <2>. QED  BY <2>2, <2>3
<1>8. CASE SweepReads  BY <1>8 DEF SweepReads, Asleep
<1>9. ASSUME NEW p \in People, SweepLooksAt(p) PROVE LossInv'
  <2>1. /\ stale' = stale /\ told' = told /\ sweep.pc = "run"
        /\ sweep'.pc = "run" \/ (sweep'.pc = "save" /\ sweep'.who = p /\ p \notin stale)
    <3>1. sweep \in [pc : {"run"}, todo : SUBSET People, who : {Nobody}]
      BY <1>9 DEF SweepLooksAt, TypeOK, Asleep
    <3>. QED  BY <1>9, <3>1 DEF SweepLooksAt
  <2>2. told[p].here \in 0..2  BY <1>0 DEF ToldType
  <2>. QED  BY <2>1, <2>2
<1>10. CASE SweepSavesAlert
  <2>1. /\ sweep.who \in People /\ sweep.pc = "save"
        /\ sweep'.pc = "latch" /\ sweep'.who = sweep.who /\ stale' = stale
    BY <1>10 DEF SweepSavesAlert, TypeOK, Asleep
  <2>2. /\ told'[sweep.who].here = 1
        /\ \A p \in People \ {sweep.who} : told'[p] = told[p]
    BY <1>0, <1>10, <2>1, TellType DEF SweepSavesAlert, Older
  <2>. QED  BY <2>1, <2>2
<1>11. CASE SweepLatches
  BY <1>11 DEF SweepLatches
<1>12. CASE SweepEnds \/ SweepRaises
  BY <1>12 DEF SweepEnds, SweepRaises, Asleep
<1>13. CASE UNCHANGED vars  BY <1>13 DEF vars
<1>. QED
  BY <1>1, <1>2, <1>3, <1>4, <1>5, <1>6, <1>7, <1>8, <1>9, <1>10, <1>11, <1>12,
     <1>13
  DEF Next, TickStep, SweepStep

LEMMA StillInvNext == TypeOK /\ StillInv /\ [Next]_vars => StillInv'
<1>. SUFFICES ASSUME TypeOK, StillInv, [Next]_vars PROVE StillInv'
  OBVIOUS
<1>. USE DEF StillInv, memory, history
<1>0. told \in [People -> ToldType]  BY DEF TypeOK, ToldType
<1>00. tick.pc = "idle" \/ tick.who \in People  BY DEF TypeOK, NoTick
<1>1. CASE Elapse
  <2>1. /\ tick' = tick /\ still' = still /\ tick = NoTick
        /\ \A p \in People : told'[p].still = told[p].still
        /\ \A p \in People : anchor'[p] # NoAnchor => anchor[p] # NoAnchor
    BY <1>0, <1>1 DEF Elapse, ToldType
  <2>. QED  BY <2>1 DEF NoTick
<1>2. CASE Restart
  <2>1. /\ tick' = NoTick /\ \A p \in People : anchor'[p] = NoAnchor
        /\ \A p \in People : told'[p].still = told[p].still
    BY <1>0, <1>2 DEF Restart, ToldType
  <2>. QED  BY <2>1 DEF NoTick
<1>3. ASSUME NEW p \in People, RemoveRecord(p) PROVE StillInv'
  BY <1>3 DEF RemoveRecord
<1>4. ASSUME NEW p \in People, TickBegins(p) PROVE StillInv'
  BY <1>4 DEF TickBegins, NoTick
<1>5. CASE TickDiscards
  <2>1. /\ tick.who \in People /\ tick.pc = "saved" /\ tick'.pc \in {"idle", "check"}
        /\ still' = still /\ anchor' = anchor
    BY <1>5 DEF TickDiscards, TypeOK, NoTick
  <2>2. \A p \in People : told'[p].still = told[p].still
    BY <1>0, <1>5, <2>1 DEF TickDiscards, ToldType
  <2>. QED  BY <2>1, <2>2
<1>6. CASE TickSetsAnchor
  <2>1. /\ tick.who \in People /\ tick.pc = "check" /\ tick'.pc = "idle"
        /\ still' = still \ {tick.who}
        /\ \A p \in People \ {tick.who} : anchor'[p] = anchor[p]
    BY <1>6 DEF TickSetsAnchor, TypeOK, NoTick
  <2>2. /\ told'[tick.who].still = 0
        /\ \A p \in People \ {tick.who} : told'[p] = told[p]
    BY <1>0, <1>6, <2>1 DEF TickSetsAnchor, ToldType
  <2>. QED  BY <2>1, <2>2
<1>7. CASE TickPasses
  <2>1. /\ tick.who \in People /\ tick.pc = "check" /\ still' = still /\ told' = told
        /\ anchor' = anchor /\ anchor[tick.who] # NoAnchor
        /\ \/ tick'.pc = "idle"
           \/ tick'.pc = "save" /\ tick'.who = tick.who /\ tick.who \notin still
    BY <1>7 DEF TickPasses, TypeOK, NoTick, IsDown, KeepsAnchor
  <2>2. told[tick.who].still \in 0..2  BY <1>0, <2>1 DEF ToldType
  <2>. QED  BY <2>1, <2>2
<1>8. CASE TickSavesAlert
  <2>1. /\ tick.who \in People /\ tick.pc = "save"
        /\ tick'.pc = "latch" /\ tick'.who = tick.who /\ still' = still
        /\ anchor' = anchor
    BY <1>8 DEF TickSavesAlert, TypeOK, NoTick
  <2>2. /\ told'[tick.who].still = 1
        /\ \A p \in People \ {tick.who} : told'[p] = told[p]
    BY <1>0, <1>8, <2>1, TellType DEF TickSavesAlert, Older
  <2>. QED  BY <2>1, <2>2
<1>9. CASE TickLatches \/ TickRaises
  BY <1>9 DEF TickLatches, TickRaises, NoTick
<1>10. CASE SweepReads \/ SweepLatches \/ SweepEnds \/ SweepRaises
  BY <1>10 DEF SweepReads, SweepLatches, SweepEnds, SweepRaises
<1>11. ASSUME NEW p \in People, SweepLooksAt(p) PROVE StillInv'
  BY <1>11 DEF SweepLooksAt
<1>12. CASE SweepSavesAlert
  <2>1. sweep.who \in People /\ tick' = tick /\ still' = still /\ anchor' = anchor
    BY <1>12 DEF SweepSavesAlert, TypeOK, Asleep
  <2>2. \A p \in People : told'[p].still = told[p].still
    BY <1>0, <1>12, <2>1, TellType DEF SweepSavesAlert
  <2>. QED  BY <1>00, <2>1, <2>2
<1>13. CASE UNCHANGED vars  BY <1>13 DEF vars
<1>. QED
  BY <1>1, <1>2, <1>3, <1>4, <1>5, <1>6, <1>7, <1>8, <1>9, <1>10, <1>11, <1>12,
     <1>13
  DEF Next, TickStep, SweepStep

LEMMA SpacedInvNext == TypeOK /\ SpacedInv /\ [Next]_vars => SpacedInv'
<1>. SUFFICES ASSUME TypeOK, SpacedInv, [Next]_vars PROVE SpacedInv'
  OBVIOUS
<1>. USE DEF SpacedInv, memory, history
<1>0. /\ told \in [People -> ToldType] /\ slept \in 0..SweepPeriod
      /\ SweepPeriod \in Nat \ {0}
  BY TimesAssumption DEF TypeOK, ToldType
<1>00. \A p \in People : told[p].since \in 0..SweepPeriod  BY <1>0 DEF ToldType
<1>1. CASE Elapse
  <2>1. /\ sweep = Asleep /\ sweep' = Asleep /\ slept' = slept + 1
        /\ \A p \in People : told'[p].since = Older(told[p].since, SweepPeriod)
    BY <1>0, <1>1 DEF Elapse, ToldType
  <2>. QED  BY <1>0, <1>00, <1>1, <2>1 DEF Elapse, Older, Asleep
<1>2. CASE Restart
  <2>1. /\ sweep' = Asleep /\ slept' = 0
        /\ \A p \in People : told'[p].since = told[p].since
    BY <1>0, <1>2 DEF Restart, ToldType
  <2>. QED  BY <1>00, <2>1 DEF Asleep
<1>3. ASSUME NEW p \in People, RemoveRecord(p) \/ TickBegins(p) PROVE SpacedInv'
  BY <1>3 DEF RemoveRecord, TickBegins
<1>4. CASE TickDiscards \/ TickSetsAnchor \/ TickSavesAlert
  <2>1. tick.who \in People
    BY <1>4 DEF TickDiscards, TickSetsAnchor, TickSavesAlert, TypeOK, NoTick
  <2>2. sweep' = sweep /\ slept' = slept
    BY <1>4 DEF TickDiscards, TickSetsAnchor, TickSavesAlert
  <2>3. \A p \in People : told'[p].since = told[p].since
    <3>1. CASE TickDiscards  BY <1>0, <2>1, <3>1 DEF TickDiscards, ToldType
    <3>2. CASE TickSetsAnchor  BY <1>0, <2>1, <3>2 DEF TickSetsAnchor, ToldType
    <3>3. CASE TickSavesAlert  BY <1>0, <2>1, <3>3, TellType DEF TickSavesAlert
    <3>. QED  BY <1>4, <3>1, <3>2, <3>3
  <2>4. sweep.todo \subseteq People  BY DEF TypeOK, Asleep
  <2>. QED  BY <2>2, <2>3, <2>4
<1>5. CASE TickPasses \/ TickLatches \/ TickRaises
  BY <1>5 DEF TickPasses, TickLatches, TickRaises
<1>6. CASE SweepReads
  <2>1. /\ sweep = Asleep /\ slept = SweepPeriod /\ told' = told
        /\ sweep'.pc = "run" /\ sweep'.todo \subseteq People
    BY <1>6 DEF SweepReads
  <2>2. \A p \in People : told[p].since = SweepPeriod  BY <1>0, <1>00, <2>1
  <2>. QED  BY <2>1, <2>2 DEF Asleep
<1>7. ASSUME NEW p \in People, SweepLooksAt(p) PROVE SpacedInv'
  <2>1. sweep \in [pc : {"run"}, todo : SUBSET People, who : {Nobody}]
    BY <1>7 DEF SweepLooksAt, TypeOK, Asleep
  <2>2. /\ sweep # Asleep /\ sweep.pc = "run" /\ p \in sweep.todo /\ told' = told
        /\ \/ sweep'.pc = "save" /\ sweep'.todo = sweep.todo /\ sweep'.who = p
           \/ sweep'.pc = "run" /\ sweep'.todo = sweep.todo \ {p}
    BY <1>7, <2>1 DEF SweepLooksAt, Asleep
  <2>. QED  BY <2>2 DEF Asleep
<1>8. CASE SweepSavesAlert
  <2>1. /\ sweep.who \in People /\ sweep.pc = "save" /\ sweep # Asleep
        /\ sweep'.pc = "latch" /\ sweep'.who = sweep.who /\ sweep'.todo = sweep.todo
        /\ sweep.todo \subseteq People
    BY <1>8 DEF SweepSavesAlert, TypeOK, Asleep
  <2>2. \A p \in People \ {sweep.who} : told'[p] = told[p]
    BY <1>0, <1>8, <2>1, TellType DEF SweepSavesAlert
  <2>. QED  BY <2>1, <2>2 DEF Asleep
<1>9. CASE SweepLatches
  <2>1. /\ sweep.pc = "latch" /\ sweep # Asleep /\ told' = told /\ sweep'.pc = "run"
        /\ sweep'.todo = sweep.todo \ {sweep.who}
    BY <1>9 DEF SweepLatches, Asleep
  <2>. QED  BY <2>1 DEF Asleep
<1>10. CASE SweepEnds \/ SweepRaises
  <2>1. sweep' = Asleep /\ slept' = 0 /\ told' = told
    BY <1>10 DEF SweepEnds, SweepRaises
  <2>. QED  BY <1>00, <2>1 DEF Asleep
<1>11. CASE UNCHANGED vars  BY <1>11 DEF vars
<1>. QED
  BY <1>1, <1>2, <1>3, <1>4, <1>5, <1>6, <1>7, <1>8, <1>9, <1>10, <1>11
  DEF Next, TickStep, SweepStep

\* No alert is repeated: a stillness alert within its episode, a signal-loss alert
\* within its silence and process, nor, whatever restarts come between, within a
\* sweep's period.
THEOREM NotRepeated == Spec => AlertsAreNotRepeated
<1>1. Init => LossInv /\ StillInv /\ SpacedInv
  BY TimesAssumption
  DEF Init, LossInv, StillInv, SpacedInv, Untold, NoTick, Asleep
<1>2. ASSUME TypeOK, LossInv, StillInv, SpacedInv
      PROVE  /\ TickSavesAlert => told[tick.who].still = 0
             /\ SweepSavesAlert => /\ told[sweep.who].here = 0
                                   /\ told[sweep.who].since = SweepPeriod
  BY <1>2 DEF LossInv, StillInv, SpacedInv, TickSavesAlert, SweepSavesAlert, Asleep
<1>. QED
  BY <1>1, <1>2, LossInvNext, StillInvNext, SpacedInvNext, TypeCorrect, PTL
  DEF Spec, AlertsAreNotRepeated
-----------------------------------------------------------------------------
(* Silences are reported in time.  Someone not told of yet was young when  *)
(* the last sweep looked (YoungAtLastSweep), and cannot slip through the   *)
(* sweep under way (StillToLookAt): not for a latch left over from an      *)
(* earlier silence (LatchMeansTold), and not for the 30 s suppression,     *)
(* which a silence long enough to be swept has outlasted (QuietMeansOld).  *)

Watched(p) == p \notin overlapped /\ told[p].here = 0

JustSaved == tick # NoTick => record[tick.who] <= 0

LatchMeansTold ==
    \A p \in People :
        p \in stale \/ (sweep.pc = "latch" /\ sweep.who = p) => ~Watched(p)

QuietMeansOld ==
    \A p \in People : Watched(p) => last[p] = Spacing \/ record[p] <= last[p]

YoungAtLastSweep ==
    \A p \in People \ Forklifts :
        Watched(p) /\ record[p] <= MaxAge /\ record[p] <= uptime
            => record[p] < slept + Stale

StillToLookAt ==
    sweep # Asleep =>
        \A p \in People \ Forklifts :
            Watched(p) /\ record[p] \in Stale..MaxAge => p \in sweep.todo

SilenceInv ==
    /\ JustSaved /\ LatchMeansTold /\ QuietMeansOld
    /\ YoungAtLastSweep /\ StillToLookAt

\* The suppression is shorter than the silence limit, as 30 s is than
\* MAN_DOWN_STALE_SECONDS.
Punctual == Spacing <= Stale /\ Stale > 0

LEMMA SilenceInvInit == ASSUME Punctual PROVE Init => SilenceInv
BY TimesAssumption
DEF Punctual, Init, SilenceInv, JustSaved, LatchMeansTold, QuietMeansOld, Watched,
    YoungAtLastSweep, StillToLookAt, Asleep, NoRecord, Untold

LEMMA SilenceInvNext ==
    ASSUME Punctual, TypeOK, SilenceInv, [Next]_vars
    PROVE  SilenceInv'
<1>. USE DEF memory, history
<1>0. /\ told \in [People -> ToldType] /\ record \in [People -> Int]
      /\ last \in [People -> Nat] /\ uptime \in Nat /\ slept \in Nat
      /\ Stale \in Nat \ {0} /\ MaxAge \in Nat /\ Spacing \in Nat /\ Spacing <= Stale
      /\ tick # NoTick => tick.who \in People
      /\ sweep.pc \in {"save", "latch"} => sweep.who \in People
  BY TimesAssumption DEF Punctual, TypeOK, ToldType, NoRecord, NoTick, Asleep
<1>00. /\ JustSaved /\ LatchMeansTold /\ QuietMeansOld
       /\ YoungAtLastSweep /\ StillToLookAt
  BY DEF SilenceInv
<1>1. CASE Elapse
  <2>1. /\ tick' = NoTick /\ sweep' = Asleep /\ sweep = Asleep /\ stale' = stale
        /\ overlapped' = overlapped /\ slept' = slept + 1
        /\ \A p \in People : told'[p].here = told[p].here
    BY <1>0, <1>1 DEF Elapse, ToldType
  <2>2. \A p \in People : Watched(p)' <=> Watched(p)  BY <2>1 DEF Watched
  <2>3. QuietMeansOld'
    <3>. SUFFICES ASSUME NEW p \in People, Watched(p), last'[p] # Spacing
                  PROVE  record'[p] <= last'[p]
      BY <2>2 DEF QuietMeansOld
    <3>1. last'[p] = Older(last[p], Spacing) /\ last[p] \in 0..Spacing
      BY <1>1 DEF Elapse, TypeOK
    <3>2. last[p] < Spacing /\ last'[p] = last[p] + 1  BY <1>0, <3>1 DEF Older
    <3>3. record[p] <= last[p]  BY <1>00, <3>2, <1>0 DEF QuietMeansOld
    <3>4. record'[p] = IF record[p] = NoRecord THEN NoRecord
                       ELSE Older(record[p], MaxAge + 1)
      BY <1>1 DEF Elapse
    <3>. QED  BY <1>0, <3>2, <3>3, <3>4 DEF Older, NoRecord
  <2>4. YoungAtLastSweep'
    <3>. SUFFICES ASSUME NEW p \in People \ Forklifts, Watched(p),
                         record'[p] <= MaxAge, record'[p] <= uptime'
                  PROVE  record'[p] < slept + 1 + Stale
      BY <2>1, <2>2 DEF YoungAtLastSweep
    <3>1. record'[p] = IF record[p] = NoRecord THEN NoRecord
                       ELSE Older(record[p], MaxAge + 1)
      BY <1>1 DEF Elapse
    <3>2. CASE record[p] = NoRecord  BY <1>0, <3>1, <3>2 DEF NoRecord
    <3>3. CASE record[p] # NoRecord
      <4>1. record[p] \in 0..(MaxAge + 1) /\ uptime \in 0..(MaxAge + 1)
        BY <3>3 DEF TypeOK
      <4>2. record'[p] = record[p] + 1 /\ record[p] <= MaxAge
        BY <1>0, <3>1, <3>3, <4>1 DEF Older
      <4>3. uptime' = Older(uptime, MaxAge + 1)  BY <1>1 DEF Elapse
      <4>4. record[p] <= uptime  BY <1>0, <4>1, <4>2, <4>3 DEF Older
      <4>5. record[p] < slept + Stale  BY <1>00, <4>2, <4>4 DEF YoungAtLastSweep
      <4>. QED  BY <1>0, <4>2, <4>5
    <3>. QED  BY <3>2, <3>3
  <2>. QED
    BY <1>00, <2>1, <2>2, <2>3, <2>4
    DEF SilenceInv, JustSaved, LatchMeansTold, StillToLookAt, Asleep
<1>2. CASE Restart
  <2>1. /\ tick' = NoTick /\ sweep' = Asleep /\ stale' = {} /\ slept' = 0
        /\ uptime' = 0 /\ last' = [p \in People |-> Spacing] /\ record' = record
    BY <1>2 DEF Restart
  <2>. QED
    BY <1>0, <2>1
    DEF SilenceInv, JustSaved, LatchMeansTold, QuietMeansOld, YoungAtLastSweep,
        StillToLookAt, Asleep
<1>3. ASSUME NEW p \in People, RemoveRecord(p) \/ TickBegins(p) PROVE SilenceInv'
  <2>1. /\ record'[p] \in {NoRecord, 0} /\ record' \in [People -> Int]
        /\ \A q \in People \ {p} : record'[q] = record[q]
        /\ stale' = stale /\ sweep' = sweep /\ slept' = slept /\ last' = last
        /\ uptime' = uptime /\ \A q : Watched(q)' <=> Watched(q)
    BY <1>0, <1>3 DEF RemoveRecord, TickBegins, Watched, NoRecord
  <2>2. JustSaved'
    BY <1>0, <1>00, <1>3, <2>1 DEF RemoveRecord, TickBegins, JustSaved, NoRecord
  <2>3. QuietMeansOld'
    BY <1>0, <1>00, <2>1 DEF QuietMeansOld, NoRecord
  <2>4. YoungAtLastSweep' /\ StillToLookAt'
    BY <1>0, <1>00, <2>1 DEF YoungAtLastSweep, StillToLookAt, NoRecord
  <2>. QED  BY <1>00, <2>1, <2>2, <2>3, <2>4 DEF SilenceInv, LatchMeansTold
<1>4. CASE TickDiscards
  <2>0. PICK p \in People : p = tick.who
    BY <1>0, <1>4 DEF TickDiscards, NoTick
  <2>1. /\ tick.who = p /\ record[p] <= 0
        /\ record' = record /\ sweep' = sweep /\ slept' = slept /\ last' = last
        /\ uptime' = uptime /\ stale' = stale \ {p}
        /\ tick' # NoTick => tick'.who = p
    <3>1. tick # NoTick  BY <1>4 DEF TickDiscards, NoTick
    <3>. QED  BY <1>0, <1>00, <1>4, <2>0, <3>1 DEF TickDiscards, JustSaved, TypeOK
  <2>2. \A q \in People \ {p} : Watched(q)' <=> Watched(q)
    BY <1>0, <1>4, <2>1 DEF TickDiscards, Watched
  <2>3. Watched(p)' => sweep = Asleep
    BY <1>4, <2>1 DEF TickDiscards, Watched
  <2>4. JustSaved'  BY <2>1 DEF JustSaved
  <2>5. LatchMeansTold'
    BY <1>00, <2>1, <2>2, <2>3 DEF LatchMeansTold, Asleep
  <2>6. QuietMeansOld'
    BY <1>0, <1>00, <2>1, <2>2 DEF QuietMeansOld
  <2>7. YoungAtLastSweep' /\ StillToLookAt'
    BY <1>0, <1>00, <2>1, <2>2 DEF YoungAtLastSweep, StillToLookAt
  <2>. QED  BY <2>4, <2>5, <2>6, <2>7 DEF SilenceInv
<1>5. ASSUME TickSetsAnchor \/ TickPasses \/ TickSavesAlert \/ TickRaises
      PROVE  SilenceInv'
  <2>1. /\ record' = record /\ sweep' = sweep /\ slept' = slept /\ last' = last
        /\ uptime' = uptime /\ stale' = stale /\ overlapped' = overlapped
        /\ tick' # NoTick => tick # NoTick /\ tick'.who = tick.who
    BY <1>5
    DEF TickSetsAnchor, TickPasses, TickSavesAlert, TickRaises, NoTick, TypeOK
  <2>2. \A q \in People : told'[q].here = told[q].here
    <3>1. tick.who \in People
      BY <1>0, <1>5
      DEF TickSetsAnchor, TickPasses, TickSavesAlert, TickRaises, NoTick
    <3>2. CASE TickSavesAlert  BY <1>0, <3>1, <3>2, TellType DEF TickSavesAlert
    <3>3. CASE TickSetsAnchor  BY <1>0, <3>1, <3>3 DEF TickSetsAnchor, ToldType
    <3>. QED  BY <1>5, <3>2, <3>3 DEF TickPasses, TickRaises
  <2>3. \A q \in People : Watched(q)' <=> Watched(q)  BY <2>1, <2>2 DEF Watched
  <2>. QED
    BY <1>00, <2>1, <2>3
    DEF SilenceInv, JustSaved, LatchMeansTold, QuietMeansOld, YoungAtLastSweep,
        StillToLookAt
<1>6. CASE TickLatches
  <2>1. /\ record' = record /\ sweep' = sweep /\ slept' = slept
        /\ uptime' = uptime /\ stale' = stale /\ tick' = NoTick
        /\ tick.who \in People /\ record[tick.who] <= 0
        /\ last' = [last EXCEPT ![tick.who] = 0]
        /\ \A q : Watched(q)' <=> Watched(q)
    BY <1>0, <1>00, <1>6 DEF TickLatches, Watched, JustSaved, NoTick
  <2>2. QuietMeansOld'  BY <1>0, <1>00, <2>1 DEF QuietMeansOld
  <2>. QED
    BY <1>00, <2>1, <2>2
    DEF SilenceInv, JustSaved, LatchMeansTold, YoungAtLastSweep, StillToLookAt
<1>7. CASE SweepReads
  <2>1. /\ record' = record /\ slept' = slept /\ last' = last /\ uptime' = uptime
        /\ stale' = stale /\ tick' = tick /\ sweep'.pc = "run"
        /\ sweep'.todo = {q \in People \ Forklifts : record[q] \in Stale..MaxAge}
        /\ \A q : Watched(q)' <=> Watched(q)
    BY <1>7 DEF SweepReads, Watched
  <2>. QED
    BY <1>00, <2>1
    DEF SilenceInv, JustSaved, LatchMeansTold, QuietMeansOld, YoungAtLastSweep,
        StillToLookAt
<1>8. ASSUME NEW p \in People, SweepLooksAt(p) PROVE SilenceInv'
  <2>1. /\ record' = record /\ slept' = slept /\ last' = last /\ uptime' = uptime
        /\ stale' = stale /\ tick' = tick /\ sweep # Asleep
        /\ \A q : Watched(q)' <=> Watched(q)
    BY <1>8 DEF SweepLooksAt, Watched, Asleep
  <2>2. sweep'.pc # "latch"
        /\ \/ sweep'.todo = sweep.todo
           \/ /\ sweep'.todo = sweep.todo \ {p}
              /\ p \in stale \/ last[p] < Spacing
    <3>1. sweep \in [pc : {"run"}, todo : SUBSET People, who : {Nobody}]
      BY <1>8 DEF SweepLooksAt, TypeOK, Asleep
    <3>. QED  BY <1>0, <1>8, <3>1 DEF SweepLooksAt
  <2>3. p \in stale => ~Watched(p)  BY <1>00 DEF LatchMeansTold
  <2>4. Watched(p) /\ last[p] < Spacing => record[p] < Stale
    BY <1>0, <1>00 DEF QuietMeansOld
  <2>5. StillToLookAt'
    BY <1>0, <1>00, <2>1, <2>2, <2>3, <2>4 DEF StillToLookAt
  <2>. QED
    BY <1>00, <2>1, <2>2, <2>5
    DEF SilenceInv, JustSaved, LatchMeansTold, QuietMeansOld, YoungAtLastSweep
<1>9. CASE SweepSavesAlert
  <2>1. /\ record' = record /\ slept' = slept /\ last' = last /\ uptime' = uptime
        /\ stale' = stale /\ tick' = tick /\ overlapped' = overlapped
        /\ sweep.who \in People /\ sweep # Asleep
        /\ sweep'.todo = sweep.todo /\ sweep'.who = sweep.who
    BY <1>0, <1>9 DEF SweepSavesAlert, TypeOK, Asleep
  <2>2. /\ \A q \in People \ {sweep.who} : told'[q] = told[q]
        /\ told'[sweep.who].here > 0
    BY <1>0, <1>9, <2>1, TellType DEF SweepSavesAlert, Older, ToldType
  <2>3. /\ ~Watched(sweep.who)'
        /\ \A q \in People \ {sweep.who} : Watched(q)' <=> Watched(q)
    BY <2>1, <2>2 DEF Watched
  <2>4. LatchMeansTold'
    BY <1>00, <2>1, <2>3 DEF LatchMeansTold
  <2>. QED
    BY <1>00, <2>1, <2>3, <2>4
    DEF SilenceInv, JustSaved, QuietMeansOld, YoungAtLastSweep, StillToLookAt
<1>10. CASE SweepLatches
  <2>1. /\ record' = record /\ slept' = slept /\ uptime' = uptime /\ tick' = tick
        /\ sweep.who \in People /\ sweep # Asleep /\ ~Watched(sweep.who)
        /\ stale' = stale \cup {sweep.who} /\ last' = [last EXCEPT ![sweep.who] = 0]
        /\ sweep'.pc = "run" /\ sweep'.todo = sweep.todo \ {sweep.who}
        /\ \A q : Watched(q)' <=> Watched(q)
    BY <1>0, <1>00, <1>10 DEF SweepLatches, LatchMeansTold, Watched, Asleep
  <2>2. QuietMeansOld'  BY <1>0, <1>00, <2>1 DEF QuietMeansOld
  <2>. QED
    BY <1>00, <2>1, <2>2
    DEF SilenceInv, JustSaved, LatchMeansTold, YoungAtLastSweep, StillToLookAt
<1>11. CASE SweepEnds
  <2>1. /\ record' = record /\ slept' = 0 /\ last' = last /\ uptime' = uptime
        /\ stale' = stale /\ tick' = tick /\ sweep' = Asleep
        /\ sweep # Asleep /\ sweep.todo = {}
        /\ \A q : Watched(q)' <=> Watched(q)
    BY <1>11 DEF SweepEnds, Watched, Asleep
  <2>2. YoungAtLastSweep'
    <3>. SUFFICES ASSUME NEW p \in People \ Forklifts, Watched(p), record[p] <= MaxAge
                  PROVE  record[p] < Stale
      BY <1>0, <2>1 DEF YoungAtLastSweep
    <3>. QED  BY <1>0, <1>00, <2>1 DEF StillToLookAt
  <2>. QED
    BY <1>00, <2>1, <2>2
    DEF SilenceInv, JustSaved, LatchMeansTold, QuietMeansOld, StillToLookAt, Asleep
<1>13. CASE SweepRaises
  <2>1. /\ record' = record /\ slept' = 0 /\ last' = last /\ uptime' = uptime
        /\ stale' = stale /\ tick' = tick /\ sweep' = Asleep /\ sweep # Asleep
        /\ \A q : Watched(q)' => Watched(q) /\ q \notin sweep.todo
    BY <1>13 DEF SweepRaises, Watched, Asleep
  <2>2. YoungAtLastSweep'
    <3>. SUFFICES ASSUME NEW p \in People \ Forklifts, Watched(p),
                         p \notin sweep.todo, record[p] <= MaxAge
                  PROVE  record[p] < Stale
      BY <1>0, <2>1 DEF YoungAtLastSweep
    <3>. QED  BY <1>0, <1>00, <2>1 DEF StillToLookAt
  <2>. QED
    BY <1>00, <2>1, <2>2
    DEF SilenceInv, JustSaved, LatchMeansTold, QuietMeansOld, StillToLookAt, Asleep
<1>12. CASE UNCHANGED vars
  <2>1. /\ record' = record /\ slept' = slept /\ last' = last /\ uptime' = uptime
        /\ stale' = stale /\ tick' = tick /\ sweep' = sweep
        /\ \A q : Watched(q)' <=> Watched(q)
    BY <1>12 DEF vars, Watched
  <2>. QED
    BY <1>00, <2>1
    DEF SilenceInv, JustSaved, LatchMeansTold, QuietMeansOld, YoungAtLastSweep,
        StillToLookAt
<1>. QED
  BY <1>1, <1>2, <1>3, <1>4, <1>5, <1>6, <1>7, <1>8, <1>9, <1>10, <1>11, <1>12,
     <1>13
  DEF Next, TickStep, SweepStep

\* A bounded response: no silence grows one sweep older than the limit without a
\* signal-loss alert, if the process was up throughout, the last position was not
\* taken up in the middle of a sweep, and no save cut a sweep since short.
THEOREM SilenceReported ==
    ASSUME Punctual
    PROVE  Spec => []SilenceIsReported
<1>1. TypeOK /\ SilenceInv => SilenceIsReported
  <2>. SUFFICES ASSUME TypeOK, SilenceInv, NEW p \in People \ Forklifts,
                       SilentTooLong(p), p \notin overlapped, told[p].here <= 0
                PROVE  FALSE
    BY DEF SilenceIsReported, TypeOK
  <2>1. Watched(p) /\ slept \in 0..SweepPeriod
    BY DEF Watched, TypeOK
  <2>2. record[p] < slept + Stale
    BY <2>1 DEF SilenceInv, YoungAtLastSweep, SilentTooLong
  <2>. QED  BY <2>1, <2>2, TimesAssumption DEF SilentTooLong
<1>2. TypeOK /\ SilenceInv /\ [Next]_vars => SilenceInv'  BY SilenceInvNext
<1>. QED  BY <1>1, <1>2, SilenceInvInit, TypeCorrect, PTL DEF Spec
=============================================================================
