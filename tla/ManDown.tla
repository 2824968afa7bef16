------------------------------- MODULE ManDown -------------------------------
(***************************************************************************)
(* Man-down detection (services/safety_service.py): the stillness check    *)
(* that runs on every position, and the signal-loss sweep that runs in a   *)
(* thread of its own every SweepPeriod (main.py).                          *)
(*                                                                         *)
(* The two share the latches, the 30 s suppressor and /positions, and no   *)
(* lock: ticks hold pipeline_lock among themselves, the sweep holds        *)
(* nothing.  Each is therefore cut at every remote call, the read of       *)
(* /positions and the saves of positions and alerts, where the other can   *)
(* run.  Both are short against a unit of time (30 s): no unit passes      *)
(* while one is under way, and a sweep starts as soon as it has slept its  *)
(* period.  Ages saturate at the last value the code tells apart.          *)
(***************************************************************************)
EXTENDS Integers, FiniteSets

CONSTANTS
    People, Forklifts,  \* everyone with a beacon; the forklifts among them
    Places, Near,       \* where a position can be; the pairs of places closer
                        \* than MAN_DOWN_MOVEMENT_EPSILON_M
    Kinds,              \* the kinds of position: "exact" is a solve, "approx" the
                        \* nearest AP's own coordinate
    StillAfter,         \* man_down_minutes, in time units
    Stale, MaxAge,      \* MAN_DOWN_STALE_SECONDS, MAN_DOWN_STALE_MAX_AGE_S
    Spacing,            \* the 30 s per-person suppression
    SweepPeriod,        \* _MAN_DOWN_STALE_TICK_S
    SavesMayFail,       \* whether the save of an alert may raise
    NoAnchor, Nobody

ASSUME PeopleAssumption == Forklifts \subseteq People /\ Nobody \notin People
ASSUME PlacesAssumption ==
    /\ Near \subseteq Places \X Places
    /\ \A p \in Places : <<p, p>> \in Near
ASSUME KindsAssumption == Kinds \subseteq {"exact", "approx"}
ASSUME TimesAssumption ==
    /\ StillAfter \in Nat /\ Stale \in Nat /\ MaxAge \in Nat
    /\ Spacing \in Nat /\ SweepPeriod \in Nat \ {0}
ASSUME SavesAssumption == SavesMayFail \in BOOLEAN

Older(age, cap) == IF age < cap THEN age + 1 ELSE age

NoRecord == -1
Anchor == [at : Places, kind : Kinds, age : 0..StillAfter]
ASSUME NoAnchorAssumption == NoAnchor \notin Anchor

VARIABLES
    record,     \* the age of each person's record in /positions
    anchor,     \* _man_down_tracker
    still,      \* _still_alerted
    stale,      \* _stale_alerted
    last,       \* the age of _last_man_down[p], Spacing if old or absent
    tick,       \* the tick under way: where it is, whose, and the position
    sweep,      \* the sweep: where it is, who is left to look at, whose turn
    slept,      \* how long the sweep has slept
    told,       \* history: the stillness alerts saved since the anchor was set; the
                \* signal-loss alerts since the last position was taken up, all of them
                \* and this process's; the age of the latest signal-loss alert
    uptime,     \* history: how long the process has been up
    overlapped  \* history: whose last position was taken up during a sweep, or
                \* whom a sweep has since left out because a save raised

memory == <<anchor, still, stale, last>>
history == <<told, uptime, overlapped>>
vars == <<record, memory, tick, sweep, slept, history>>

NoTick == [pc |-> "idle", who |-> Nobody, at |-> Nobody, kind |-> "exact"]
Asleep == [pc |-> "asleep", todo |-> {}, who |-> Nobody]
Untold == [still |-> 0, loss |-> 0, here |-> 0, since |-> SweepPeriod]

TypeOK ==
    /\ record \in [People -> {NoRecord} \cup 0..(MaxAge + 1)]
    /\ anchor \in [People -> Anchor \cup {NoAnchor}]
    /\ still \subseteq People /\ stale \subseteq People
    /\ last \in [People -> 0..Spacing]
    /\ tick \in {NoTick} \cup [pc : {"saved", "check", "save", "latch"},
                               who : People, at : Places, kind : Kinds]
    /\ sweep \in {Asleep} \cup [pc : {"run"}, todo : SUBSET People, who : {Nobody}]
                   \cup [pc : {"save", "latch"}, todo : SUBSET People, who : People]
    /\ slept \in 0..SweepPeriod
    /\ told \in [People -> [still : 0..2, loss : 0..2, here : 0..2, since : 0..SweepPeriod]]
    /\ uptime \in 0..(MaxAge + 1)
    /\ overlapped \subseteq People

Init ==
    /\ record = [p \in People |-> NoRecord]
    /\ anchor = [p \in People |-> NoAnchor]
    /\ still = {} /\ stale = {}
    /\ last = [p \in People |-> Spacing]
    /\ tick = NoTick /\ sweep = Asleep /\ slept = 0
    /\ told = [p \in People |-> Untold] /\ uptime = 0 /\ overlapped = {}
-----------------------------------------------------------------------------
(* The environment.                                                         *)

Elapse ==
    /\ tick = NoTick /\ sweep = Asleep
    /\ slept < SweepPeriod /\ slept' = slept + 1
    /\ record' = [p \in People |->
                    IF record[p] = NoRecord THEN NoRecord
                    ELSE Older(record[p], MaxAge + 1)]
    /\ anchor' = [p \in People |->
                    IF anchor[p] = NoAnchor THEN NoAnchor
                    ELSE [anchor[p] EXCEPT !.age = Older(@, StillAfter)]]
    /\ last' = [p \in People |-> Older(last[p], Spacing)]
    /\ told' = [p \in People |-> [told[p] EXCEPT !.since = Older(@, SweepPeriod)]]
    /\ uptime' = Older(uptime, MaxAge + 1)
    /\ UNCHANGED <<still, stale, tick, sweep, overlapped>>

Returning(p) == tick.pc = "saved" /\ tick.who = p

\* The process dies, at any point of a tick or a sweep, and starts again:
\* everything is in memory but /positions.  A silence goes on, and what was told of
\* it stays told, unless its end was in /positions already.
Restart ==
    /\ anchor' = [p \in People |-> NoAnchor]
    /\ still' = {} /\ stale' = {}
    /\ last' = [p \in People |-> Spacing]
    /\ tick' = NoTick /\ sweep' = Asleep /\ slept' = 0
    /\ told' = [p \in People |->
                  [told[p] EXCEPT !.here = 0, !.loss = IF Returning(p) THEN 0 ELSE @]]
    /\ uptime' = 0 /\ overlapped' = {}
    /\ UNCHANGED record

\* A stopped simulation removes its people from /positions.
RemoveRecord(p) ==
    /\ record[p] # NoRecord
    /\ record' = [record EXCEPT ![p] = NoRecord]
    /\ UNCHANGED <<memory, tick, sweep, slept, history>>
-----------------------------------------------------------------------------
(* A tick: the pipeline saves a position, then check_man_down() looks at it. *)

TickBegins(p) ==
    /\ tick = NoTick
    /\ \E q \in Places, kind \in Kinds :
            tick' = [pc |-> "saved", who |-> p, at |-> q, kind |-> kind]
    /\ record' = [record EXCEPT ![p] = 0]
    /\ UNCHANGED <<memory, sweep, slept, history>>

\* Mutant: a position does not clear the latch of the silence before it.
TickKeepsLatch ==
    /\ tick.pc = "saved"
    /\ tick' = IF tick.who \in Forklifts THEN NoTick ELSE [tick EXCEPT !.pc = "check"]
    /\ told' = [told EXCEPT ![tick.who].loss = 0, ![tick.who].here = 0]
    /\ overlapped' = IF sweep = Asleep THEN overlapped \ {tick.who}
                     ELSE overlapped \cup {tick.who}
    /\ UNCHANGED <<record, memory, sweep, slept, uptime>>

\* The beacon transmits again, so a later silence is a new one.  The settings,
\* which may have to be fetched, are read after this.
TickDiscards ==
    /\ tick.pc = "saved"
    /\ stale' = stale \ {tick.who}
    /\ tick' = IF tick.who \in Forklifts THEN NoTick ELSE [tick EXCEPT !.pc = "check"]
    /\ told' = [told EXCEPT ![tick.who].loss = 0, ![tick.who].here = 0]
    /\ overlapped' = IF sweep = Asleep THEN overlapped \ {tick.who}
                     ELSE overlapped \cup {tick.who}
    /\ UNCHANGED <<record, anchor, still, last, sweep, slept, uptime>>

\* A first sighting, an exact position on an approximate anchor, or genuine
\* movement sets the anchor anew.  Positions of two kinds are not compared.
Comparable == anchor[tick.who].kind = tick.kind
Moved == <<anchor[tick.who].at, tick.at>> \notin Near
\* Mutant: the anchor follows every position, and with it the jitter.
NeverKeepsAnchor == FALSE

KeepsAnchor ==
    /\ anchor[tick.who] # NoAnchor
    /\ anchor[tick.who].kind = "approx" => tick.kind = "approx"
    /\ Comparable => ~Moved

TickSetsAnchor ==
    /\ tick.pc = "check" /\ ~KeepsAnchor
    /\ anchor' = [anchor EXCEPT
                    ![tick.who] = [at |-> tick.at, kind |-> tick.kind, age |-> 0]]
    /\ still' = still \ {tick.who}
    /\ tick' = NoTick
    /\ told' = [told EXCEPT ![tick.who].still = 0]
    /\ UNCHANGED <<record, stale, last, sweep, slept, uptime, overlapped>>

\* Still for long enough, not told yet in this episode, and no other man-down
\* alert of this person in the last 30 s.
IsDown ==
    /\ Comparable
    /\ anchor[tick.who].age >= StillAfter
    /\ tick.who \notin still
    /\ last[tick.who] >= Spacing

TickPasses ==
    /\ tick.pc = "check" /\ KeepsAnchor
    /\ tick' = IF IsDown THEN [tick EXCEPT !.pc = "save"] ELSE NoTick
    /\ UNCHANGED <<record, memory, sweep, slept, history>>

Tell(p, cause) ==
    told' = [told EXCEPT
        ![p] = [still |-> IF cause = "stillness" THEN Older(@.still, 2) ELSE @.still,
                loss |-> IF cause = "signal_loss" THEN Older(@.loss, 2) ELSE @.loss,
                here |-> IF cause = "signal_loss" THEN Older(@.here, 2) ELSE @.here,
                since |-> IF cause = "signal_loss" THEN 0 ELSE @.since]]

TickSavesAlert ==
    /\ tick.pc = "save"
    /\ tick' = [tick EXCEPT !.pc = "latch"]
    /\ Tell(tick.who, "stillness")
    /\ UNCHANGED <<record, memory, sweep, slept, uptime, overlapped>>

TickLatches ==
    /\ tick.pc = "latch"
    /\ last' = [last EXCEPT ![tick.who] = 0]
    /\ still' = still \cup {tick.who}
    /\ tick' = NoTick
    /\ UNCHANGED <<record, anchor, stale, sweep, slept, history>>

\* The save raises; ingest catches it and the rest of the tick is lost.
TickRaises ==
    /\ SavesMayFail /\ tick.pc = "save"
    /\ tick' = NoTick
    /\ UNCHANGED <<record, memory, sweep, slept, history>>
-----------------------------------------------------------------------------
(* The sweep: check_man_down_stale().                                       *)

\* One read of /positions; the ages are those of this moment to the end of the
\* sweep.  Records young enough, dead or of forklifts are passed over.
SweepReads ==
    /\ sweep = Asleep /\ slept = SweepPeriod
    /\ sweep' = [pc |-> "run", who |-> Nobody,
                 todo |-> {p \in People \ Forklifts : record[p] \in Stale..MaxAge}]
    /\ UNCHANGED <<record, memory, tick, slept, history>>

SweepLooksAt(p) ==
    /\ sweep.pc = "run" /\ p \in sweep.todo
    /\ sweep' = IF p \notin stale /\ last[p] >= Spacing
                THEN [pc |-> "save", todo |-> sweep.todo, who |-> p]
                ELSE [sweep EXCEPT !.todo = @ \ {p}]
    /\ UNCHANGED <<record, memory, tick, slept, history>>

SweepSavesAlert ==
    /\ sweep.pc = "save"
    /\ sweep' = [sweep EXCEPT !.pc = "latch"]
    /\ Tell(sweep.who, "signal_loss")
    /\ UNCHANGED <<record, memory, tick, slept, uptime, overlapped>>

\* Mutant: only the 30 s suppressor is set.
SweepForgetsLatch ==
    /\ sweep.pc = "latch"
    /\ last' = [last EXCEPT ![sweep.who] = 0]
    /\ sweep' = [pc |-> "run", who |-> Nobody, todo |-> sweep.todo \ {sweep.who}]
    /\ UNCHANGED <<record, anchor, still, stale, tick, slept, history>>

SweepLatches ==
    /\ sweep.pc = "latch"
    /\ last' = [last EXCEPT ![sweep.who] = 0]
    /\ stale' = stale \cup {sweep.who}
    /\ sweep' = [pc |-> "run", who |-> Nobody, todo |-> sweep.todo \ {sweep.who}]
    /\ UNCHANGED <<record, anchor, still, tick, slept, history>>

SweepEnds ==
    /\ sweep.pc = "run" /\ sweep.todo = {}
    /\ sweep' = Asleep /\ slept' = 0
    /\ UNCHANGED <<record, memory, tick, history>>

\* The save raises: the loop logs it and sleeps; whoever is left waits for the
\* next sweep.
SweepRaises ==
    /\ SavesMayFail /\ sweep.pc = "save"
    /\ sweep' = Asleep /\ slept' = 0
    /\ overlapped' = overlapped \cup sweep.todo
    /\ UNCHANGED <<record, memory, tick, told, uptime>>
-----------------------------------------------------------------------------
TickStep ==
    \/ TickDiscards \/ TickSetsAnchor \/ TickPasses
    \/ TickSavesAlert \/ TickLatches
SweepStep ==
    \/ SweepReads \/ SweepSavesAlert \/ SweepLatches \/ SweepEnds
    \/ \E p \in People : SweepLooksAt(p)

Next ==
    \/ Elapse \/ Restart \/ TickStep \/ TickRaises \/ SweepStep \/ SweepRaises
    \/ \E p \in People : RemoveRecord(p) \/ TickBegins(p)

Spec == Init /\ [][Next]_vars

\* Threads that can run do, and every beacon goes on transmitting, now and then.  Any
\* number of ticks fits into a unit of time, but time passes all the same: it passes
\* between ticks, so Elapse is enabled again and again rather than throughout.
FairSpec ==
    /\ Spec /\ SF_vars(Elapse) /\ WF_vars(TickStep) /\ WF_vars(SweepStep)
    /\ \A p \in People : SF_vars(TickBegins(p))
-----------------------------------------------------------------------------
(* Properties.                                                              *)

\* Alerts are not repeated, however ticks and sweeps come between each other's check,
\* save and latch, and whichever saves raise: one stillness alert for an anchor, one
\* signal-loss alert for a silence and a process.  A process that starts within a
\* silence tells of it again, but no two signal-loss alerts of a person, of any silence
\* and any process, are closer than a sweep's period.
AlertsAreNotRepeated ==
    [][/\ TickSavesAlert => told[tick.who].still = 0
       /\ SweepSavesAlert => /\ told[sweep.who].here = 0
                             /\ told[sweep.who].since = SweepPeriod]_vars

\* A silence is reported before it is one sweep older than the limit, if the
\* process was up all along, the last position came while the sweep slept, and no
\* sweep since was cut short by a save that raised.
SilentTooLong(p) == record[p] \in (Stale + SweepPeriod)..MaxAge /\ uptime >= record[p]
SilenceIsReported ==
    \A p \in People \ Forklifts :
        SilentTooLong(p) /\ p \notin overlapped => told[p].here > 0

\* Someone who lies where they are, and whose beacon goes on giving exact positions
\* there, give or take epsilon, is reported: the stillness alert is out for good,
\* or signal-loss ones come again and again, once saves no longer raise.
LiesIn(p, around) ==
    <>[][/\ ~Restart /\ ~TickRaises /\ ~SweepRaises
         /\ tick'.pc = "saved" /\ tick'.who = p
              => tick'.at \in around /\ tick'.kind = "exact"]_vars
Close(around) == around \X around \subseteq Near
Spots == {around \in SUBSET Places :
            Close(around) /\ \A q \in Places \ around : ~Close(around \cup {q})}
DownIsReported ==
    \A p \in People \ Forklifts, around \in Spots :
        LiesIn(p, around) => <>[](p \in still) \/ []<>(told[p].loss > 0)

\* Not so, and listed in no run: (comment, safety_service.py:118-119) "let it fire a
\* signal-loss alert a second time if it goes dark again later": every later silence
\* is reported, also one that follows a position taken up during a sweep.  Such a
\* position may discard the latch just before the sweep sets it.
DarkAgainIsReported ==
    \A p \in People \ Forklifts : SilentTooLong(p) => told[p].here > 0

\* Nor this: (comment, safety_service.py:27-28) "person_ids that have already fired a
\* signal-loss man-down and haven't been seen again since": the latch is lost with the
\* process, and /positions keeps the silence, which the next process tells of again.
OneAlertPerSilence == \A p \in People : told[p].loss <= 1
=============================================================================
