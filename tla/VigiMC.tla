--------------------------------- MODULE VigiMC ---------------------------------
(***************************************************************************)
(* What the backend and the cameras say to each other: the login to a      *)
(* camera (VigiLogin), with two threads, and a client more than there are  *)
(* threads; and the alarms that cameras push (AlarmBuffer).  The two share *)
(* no state; one run explores both, each from its own initial state while  *)
(* the other one stands still.                                             *)
(***************************************************************************)
EXTENDS VigiLogin, Sequences, TLC

CONSTANTS t1, t2, c1, c2, c3, good, wrong, Bodies, Window, MaxEntries, MaxDelay

VARIABLES push, buffer, started, added, part

alarmVars == <<push, buffer, started, added>>

Alarms == INSTANCE AlarmBuffer WITH Slots <- Callers

ASSUME AlarmsAssumption ==
    /\ Window \in Nat /\ MaxEntries \in Nat \ {0} /\ MaxDelay \in Nat
    /\ \A body \in Bodies : /\ body.type \in {"json", "multipart", "other"}
                            /\ body.parts \in Seq(Alarms!Part)

OneAlarm(events) == [is |-> "alarm", events |-> events]
SomeBodies ==
    {[type |-> "json", parts |-> <<OneAlarm(<<"people">>)>>],
     [type |-> "multipart", parts |-> <<[is |-> "image", events |-> << >>],
                                        OneAlarm(<<"motion", "people">>), OneAlarm(<<"people">>)>>],
     [type |-> "multipart", parts |-> <<[is |-> "junk", events |-> << >>],
                                        OneAlarm(<<"malformed", "motion">>)>>],
     [type |-> "json", parts |-> <<[is |-> "nameless", events |-> <<"people">>]>>],
     [type |-> "other", parts |-> <<OneAlarm(<<"people">>)>>]}

VigiInit ==
    /\ Init /\ Alarms!Init
    /\ \/ part = "login"
       \/ part = "alarms" /\ envPw = good

VigiNext ==
    \/ part = "login" /\ Next /\ UNCHANGED <<alarmVars, part>>
    \/ part = "alarms" /\ Alarms!Next /\ UNCHANGED <<vars, part>>

VigiSpec == VigiInit /\ [][VigiNext]_<<vars, alarmVars, part>>

\* The threads of the login are also the pushes that are handled at the same time, so that
\* one permutation serves both parts.
Symmetry == Permutations(Callers) \cup Permutations(Clients)

\* "No detection in the window" is said only when none in it is missing, and what is shown
\* of a camera is of the window (AlarmBuffer).
AlarmsAreHonest ==
    part = "alarms" =>
        Alarms!TypeOK /\ Alarms!SilenceIsHonest /\ Alarms!ShownIsRecent
=================================================================================
