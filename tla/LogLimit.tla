-------------------------------- MODULE LogLimit --------------------------------
(***************************************************************************)
(* Who is turned away is logged once every ten minutes and not more        *)
(* (verify_omada_source() of middleware/auth_middleware.py, on the event   *)
(* loop; VigiService._log_limited(), under a lock): a map from the source, *)
(* or another key, to its last line, that is emptied when it is full.      *)
(* The map of one process.  Times are ages.                                *)
(***************************************************************************)
EXTENDS Naturals, FiniteSets

CONSTANTS
    Sources,
    Every,      \* _REJECT_LOG_EVERY_S, _LOG_EVERY_S, in time units
    MostKeys,   \* 1000, _MAX_LOG_KEYS
    None

VARIABLES
    last,       \* the map: how long ago each source's last line was
    quiet,      \* history: how long ago it really was
    dropped     \* history: how many lines, of whom, the map had when it lost a source's

vars == <<last, quiet, dropped>>

TypeOK ==
    /\ last \in [Sources -> 0..Every \cup {None}]
    /\ quiet \in [Sources -> 0..Every]
    /\ dropped \in [Sources -> SUBSET Sources]

Keys == {s \in Sources : last[s] # None}

Init ==
    /\ last = [s \in Sources |-> None]
    /\ quiet = [s \in Sources |-> Every] /\ dropped = [s \in Sources |-> {}]

Older(age) == IF age < Every THEN age + 1 ELSE age

Elapse ==
    /\ last' = [s \in Sources |-> IF last[s] = None THEN None ELSE Older(last[s])]
    /\ quiet' = [s \in Sources |-> Older(quiet[s])]
    /\ UNCHANGED dropped

Limited(s) == last[s] # None /\ last[s] < Every

TurnedAway(s) == Limited(s) /\ UNCHANGED vars

\* A line; of a full map nothing is kept but the new entry.
Logs(s) ==
    LET full == Cardinality(Keys) >= MostKeys IN
    /\ ~Limited(s)
    /\ last' = [k \in Sources |-> IF k = s THEN 0 ELSE IF full THEN None ELSE last[k]]
    /\ quiet' = [quiet EXCEPT ![s] = 0]
    /\ dropped' = [k \in Sources |-> IF k = s THEN {}
                                     ELSE IF full /\ k \in Keys THEN Keys
                                     ELSE dropped[k]]

Next == Elapse \/ \E s \in Sources : TurnedAway(s) \/ Logs(s)

Spec == Init /\ [][Next]_vars

--------------------------------------------------------------------------------
\* "Each rejected address is logged at most once every 10 minutes"
\* (middleware/auth_middleware.py:51): whoever was logged within that time is not logged
\* again, unless the map has been full meanwhile and was emptied.
SaidOnce ==
    \A s \in Sources : quiet[s] < Every =>
        Limited(s) \/ Cardinality(dropped[s]) >= MostKeys

\* However many addresses there are, the map does not grow.
MapIsBounded == Cardinality(Keys) <= MostKeys
================================================================================
