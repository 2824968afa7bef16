------------------------------ MODULE SimControl ------------------------------
(***************************************************************************)
(* Who runs a simulation and who clears up after it: the start, stop and   *)
(* shutdown of routes/simulation_routes.py, the cleanup of                 *)
(* services/simulation_cleanup.py, the life of a simulator's task          *)
(* (run_simulation in services/simulation_*.py) and the startup order of   *)
(* main.py.                                                                *)
(*                                                                         *)
(* Everything here runs on one event loop, so an action is what happens    *)
(* between two awaits.  Two things do not run on it: the thread that       *)
(* deletes the records of simulated people from /positions, and the        *)
(* server's own handling of the telemetry a simulator posts to it, which   *)
(* goes on when the simulator that sent it is cancelled.                   *)
(***************************************************************************)
EXTENDS FiniteSets

CONSTANTS
    Modes,      \* "patrol", "events", "shift"
    Keys,       \* keys of /positions that simulated beacons write
    Writes,     \* the keys of each simulator's own beacons
    Clears,     \* the keys each simulator deletes before its first tick
    Tasks,      \* asyncio tasks there can be at one time
    Stoppers,   \* POST /simulation/stop requests there can be at one time
    None        \* no task, or the mode of one that has ended

ASSUME ModesAssumption ==
    /\ Writes \in [Modes -> SUBSET Keys]
    /\ Clears \in [Modes -> SUBSET Keys]

ASSUME NoneAssumption == None \notin Tasks \cup Modes

Startup == "startup"    \* main.py's cleanup, who = "startup"
ASSUME StartupAssumption == Startup \notin Tasks

Owners == Tasks \cup {Startup}
AllKeys == UNION {Writes[m] : m \in Modes}

VARIABLES
    proc,       \* the backend process
    positions,  \* the simulated keys that /positions holds
    inflight,   \* keys of telemetry posts the server has not handled yet
    mode,       \* the simulator a task runs
    phase,      \* where the task is
    hit,        \* cancel() was called and is not delivered yet
    handle,     \* _task
    waiting,    \* the task a stop request awaits
    thread,     \* where the worker thread of a cleanup is
    todo,       \* the keys it has still to look for, then to delete
    slipped,    \* tasks started while a stop request was still to return
    left        \* keys whose record nobody removes any more, for a cause

vars == <<proc, positions, inflight, mode, phase, hit, handle, waiting,
          thread, todo, slipped, left>>

TypeOK ==
    /\ proc \in {"down", "starting", "up", "stopping"}
    /\ positions \subseteq Keys /\ inflight \subseteq Keys
    /\ mode \in [Tasks -> Modes \cup {None}]
    /\ phase \in [Tasks -> {"created", "running", "cleanup", "done"}]
    /\ hit \in [Tasks -> BOOLEAN]
    /\ handle \in Tasks \cup {None}
    /\ waiting \in [Stoppers -> Tasks \cup {None}]
    /\ thread \in [Owners -> {"idle", "queued", "reading", "deleting"}]
    /\ todo \in [Owners -> SUBSET Keys]
    /\ slipped \subseteq Tasks
    /\ left \subseteq Keys

Live(t) == phase[t] # "done"
IsRunning == handle # None /\ Live(handle)

\* A task object that nothing refers to but, perhaps, _task after its end.
Free(t) == ~Live(t) /\ thread[t] = "idle" /\ \A s \in Stoppers : waiting[s] # t

\* A thread looks every key up in one read and deletes those it found.
Idle(o) == thread[o] = "idle"
Queue(o, keys) ==
    /\ thread' = [thread EXCEPT ![o] = "queued"]
    /\ todo' = [todo EXCEPT ![o] = keys]

\* Waiting for the thread ends early.  A thread that has not begun is taken
\* out of the pool's queue; one that has begun goes on.
Abandon(o) ==
    IF thread[o] = "queued"
    THEN /\ thread' = [thread EXCEPT ![o] = "idle"]
         /\ todo' = [todo EXCEPT ![o] = {}]
         /\ left' = left \cup (positions \cap todo[o])
    ELSE UNCHANGED <<thread, todo, left>>

Init ==
    /\ proc = "down"
    /\ positions \in SUBSET AllKeys
    /\ inflight = {}
    /\ mode = [t \in Tasks |-> None] /\ phase = [t \in Tasks |-> "done"]
    /\ hit = [t \in Tasks |-> FALSE]
    /\ handle = None /\ waiting = [s \in Stoppers |-> None]
    /\ thread = [o \in Owners |-> "idle"] /\ todo = [o \in Owners |-> {}]
    /\ slipped = {} /\ left = positions

--------------------------------------------------------------------------------
(* The requests and the lifespan.                                          *)

\* lifespan, before its yield: every simulator's records are removed before
\* the loops are created.  Nothing that was left before counts as left now.
Boot ==
    /\ proc = "down"
    /\ proc' = "starting" /\ left' = {}
    /\ Queue(Startup, AllKeys)
    /\ UNCHANGED <<positions, inflight, mode, phase, hit, handle, waiting, slipped>>

BootEnds ==
    /\ proc = "starting" /\ Idle(Startup)
    /\ proc' = "up"
    /\ UNCHANGED <<positions, inflight, mode, phase, hit, handle, waiting,
                   thread, todo, slipped, left>>

\* wait_for() gives up after CLEANUP_TIMEOUT_S.
BootTimesOut ==
    /\ proc = "starting" /\ ~Idle(Startup)
    /\ proc' = "up"
    /\ Abandon(Startup)
    /\ UNCHANGED <<positions, inflight, mode, phase, hit, handle, waiting, slipped>>

Start(t, m) ==
    /\ proc = "up" /\ ~IsRunning /\ Free(t)
    /\ mode' = [mode EXCEPT ![t] = m]
    /\ phase' = [phase EXCEPT ![t] = "created"]
    /\ handle' = t
    /\ slipped' = IF \E s \in Stoppers : waiting[s] # None
                  THEN slipped \cup {t} ELSE slipped \ {t}
    /\ UNCHANGED <<proc, positions, inflight, hit, waiting, thread, todo, left>>

StopForgets(s) ==
    /\ proc = "up" /\ IsRunning /\ waiting[s] = None
    /\ hit' = [hit EXCEPT ![handle] = TRUE]
    /\ handle' = None
    /\ UNCHANGED <<proc, positions, inflight, mode, phase, waiting, thread, todo, slipped, left>>

\* stop_simulation() up to its await.
Stop(s) ==
    /\ proc = "up" /\ IsRunning /\ waiting[s] = None
    /\ hit' = [hit EXCEPT ![handle] = TRUE]
    /\ waiting' = [waiting EXCEPT ![s] = handle]
    /\ UNCHANGED <<proc, positions, inflight, mode, phase, handle, thread, todo, slipped, left>>

\* ... and after it.  Other requests may run between the task's end and this:
\* _task need not be the task that was awaited.
Stopped(s) ==
    /\ waiting[s] # None /\ ~Live(waiting[s])
    /\ waiting' = [waiting EXCEPT ![s] = None]
    /\ handle' = None
    /\ UNCHANGED <<proc, positions, inflight, mode, phase, hit, thread, todo, slipped, left>>

\* cancel_running_simulation(), from the lifespan after its yield.
Shutdown ==
    /\ proc = "up"
    /\ proc' = "stopping"
    /\ hit' = IF IsRunning THEN [hit EXCEPT ![handle] = TRUE] ELSE hit
    /\ UNCHANGED <<positions, inflight, mode, phase, handle, waiting, thread, todo, slipped, left>>

\* A record that is still somebody's to remove.
Awaited(k) ==
    \/ \E t \in Tasks : phase[t] = "running" /\ k \in Writes[mode[t]]
    \/ \E o \in Owners : thread[o] # "idle" /\ k \in todo[o]

\* The process is gone, with its threads: what they had to remove stays.
Gone ==
    /\ proc' = "down"
    /\ left' = left \cup {k \in positions : Awaited(k)}
    /\ inflight' = {} /\ handle' = None /\ slipped' = {}
    /\ phase' = [t \in Tasks |-> "done"] /\ hit' = [t \in Tasks |-> FALSE]
    /\ waiting' = [s \in Stoppers |-> None]
    /\ mode' = [t \in Tasks |-> None]
    /\ thread' = [o \in Owners |-> "idle"] /\ todo' = [o \in Owners |-> {}]
    /\ UNCHANGED positions

\* The simulation has ended, or did not within the 8 s allowed.
Exit == proc = "stopping" /\ Gone
Kill == proc \in {"starting", "up"} /\ Gone

--------------------------------------------------------------------------------
(* The task: run_simulation().                                             *)

\* Setup and the first tick, up to the first await: the stale records of the
\* simulator's beacons are deleted, and some it does not write.
SetUp(t) ==
    /\ phase[t] = "created" /\ ~hit[t]
    /\ phase' = [phase EXCEPT ![t] = "running"]
    /\ positions' = positions \ Clears[mode[t]]
    /\ left' = left \ Clears[mode[t]]
    /\ UNCHANGED <<proc, inflight, mode, hit, handle, waiting, thread, todo, slipped>>

TaskDone(t) ==
    /\ phase' = [phase EXCEPT ![t] = "done"]
    /\ mode' = [mode EXCEPT ![t] = None]

\* The finally block: remove_positions(position_keys(own beacons)).
EnterCleanup(t) ==
    /\ phase' = [phase EXCEPT ![t] = "cleanup"]
    /\ Queue(t, Writes[mode[t]])
    /\ UNCHANGED mode

\* No active floor, fewer than three APs or a failed read, before anything is
\* cleared; a call of the loop that raises outside its try blocks.
Ends(t) ==
    /\ phase[t] \in {"created", "running"} /\ ~hit[t]
    /\ EnterCleanup(t)
    /\ UNCHANGED <<proc, positions, inflight, hit, handle, waiting, slipped, left>>

\* A tick posts a beacon's telemetry, and goes on without an answer after 5 s.
Post(t, k) ==
    /\ proc = "up" /\ phase[t] = "running" /\ ~hit[t]
    /\ k \in Writes[mode[t]] \ inflight
    /\ inflight' = inflight \cup {k}
    /\ UNCHANGED <<proc, positions, mode, phase, hit, handle, waiting,
                   thread, todo, slipped, left>>

\* The server saves the position, whatever became of the simulator meanwhile,
\* or refuses the post.
PostSaved(k) ==
    /\ k \in inflight
    /\ inflight' = inflight \ {k}
    /\ positions' = positions \cup {k}
    /\ left' = IF Awaited(k) THEN left ELSE left \cup {k}
    /\ UNCHANGED <<proc, mode, phase, hit, handle, waiting, thread, todo, slipped>>

PostRefused(k) ==
    /\ k \in inflight
    /\ inflight' = inflight \ {k}
    /\ UNCHANGED <<proc, positions, mode, phase, hit, handle, waiting,
                   thread, todo, slipped, left>>

CancelledUncaught(t) ==
    /\ Live(t) /\ hit[t]
    /\ hit' = [hit EXCEPT ![t] = FALSE]
    /\ TaskDone(t)
    /\ IF phase[t] = "cleanup" THEN Abandon(t) ELSE UNCHANGED <<thread, todo, left>>
    /\ UNCHANGED <<proc, positions, inflight, handle, waiting, slipped>>

\* The CancelledError reaches the task at its await: before its first step it
\* never runs, while running it enters the finally block, and inside that
\* block it ends the wait for the thread.
Cancelled(t) ==
    /\ Live(t) /\ hit[t]
    /\ hit' = [hit EXCEPT ![t] = FALSE]
    /\ \/ /\ phase[t] = "created"
          /\ TaskDone(t)
          /\ UNCHANGED <<thread, todo, left>>
       \/ /\ phase[t] = "running"
          /\ EnterCleanup(t)
          /\ UNCHANGED left
       \/ /\ phase[t] = "cleanup"
          /\ TaskDone(t)
          /\ Abandon(t)
    /\ UNCHANGED <<proc, positions, inflight, handle, waiting, slipped>>

CleanupEnds(t) ==
    /\ phase[t] = "cleanup" /\ Idle(t) /\ ~hit[t]
    /\ TaskDone(t)
    /\ UNCHANGED <<proc, positions, inflight, hit, handle, waiting,
                   thread, todo, slipped, left>>

CleanupTimesOut(t) ==
    /\ phase[t] = "cleanup" /\ ~Idle(t) /\ ~hit[t]
    /\ TaskDone(t)
    /\ Abandon(t)
    /\ UNCHANGED <<proc, positions, inflight, hit, handle, waiting, slipped>>

--------------------------------------------------------------------------------
(* The worker thread: delete_positions().                                  *)

ThreadBegins(o) ==
    /\ thread[o] = "queued"
    /\ thread' = [thread EXCEPT ![o] = "reading"]
    /\ UNCHANGED <<proc, positions, inflight, mode, phase, hit, handle, waiting,
                   todo, slipped, left>>

ThreadReads(o) ==
    /\ thread[o] = "reading"
    /\ LET present == todo[o] \cap positions
       IN /\ todo' = [todo EXCEPT ![o] = present]
          /\ thread' = [thread EXCEPT ![o] = IF present = {} THEN "idle" ELSE "deleting"]
    /\ UNCHANGED <<proc, positions, inflight, mode, phase, hit, handle, waiting, slipped, left>>

ThreadDeletes(o, k) ==
    /\ thread[o] = "deleting" /\ k \in todo[o]
    /\ positions' = positions \ {k}
    /\ left' = left \ {k}
    /\ todo' = [todo EXCEPT ![o] = @ \ {k}]
    /\ thread' = [thread EXCEPT ![o] = IF todo[o] = {k} THEN "idle" ELSE "deleting"]
    /\ UNCHANGED <<proc, inflight, mode, phase, hit, handle, waiting, slipped>>

\* The read or a delete raises: the error is logged and what was not deleted
\* stays.
ThreadFails(o) ==
    /\ thread[o] \in {"reading", "deleting"}
    /\ thread' = [thread EXCEPT ![o] = "idle"]
    /\ todo' = [todo EXCEPT ![o] = {}]
    /\ left' = left \cup (positions \cap todo[o])
    /\ UNCHANGED <<proc, positions, inflight, mode, phase, hit, handle, waiting, slipped>>

--------------------------------------------------------------------------------
TaskStep(t) ==
    \/ SetUp(t) \/ Ends(t) \/ Cancelled(t) \/ CleanupEnds(t) \/ CleanupTimesOut(t)
    \/ \E k \in Keys : Post(t, k)

ThreadStep(o) ==
    \/ ThreadBegins(o) \/ ThreadReads(o) \/ ThreadFails(o)
    \/ \E k \in Keys : ThreadDeletes(o, k)

Next ==
    \/ Boot \/ BootEnds \/ BootTimesOut \/ Shutdown \/ Exit \/ Kill
    \/ \E s \in Stoppers : Stop(s) \/ Stopped(s)
    \/ \E t \in Tasks : TaskStep(t) \/ \E m \in Modes : Start(t, m)
    \/ \E o \in Owners : ThreadStep(o)
    \/ \E k \in Keys : PostSaved(k) \/ PostRefused(k)

Spec == Init /\ [][Next]_vars

--------------------------------------------------------------------------------
\* simulation_cleanup.py:10-14, "a stop, an error or a cancel all clean up" and
\* "anything found then is a leftover from a hard kill".  Every record of a
\* simulated person belongs to a running simulator or is on the list of a
\* cleanup in progress, unless it is left for a cause: its post was handled
\* after the cleanup had looked, the deletion failed, the wait for it ended
\* before a thread took it up, or the process went away in the middle.
NobodyLeftBehind == \A k \in positions : k \in left \/ Awaited(k)

\* simulation_routes.py:7, "stops whichever is running": _task is the task of
\* every simulation that runs, so at most one does, unless it was started
\* between the end of a task and the return of the stop that awaited it, whose
\* reset of _task then hides it.
HandleOwnsRunner ==
    \A t \in Tasks : Live(t) => handle = t \/ t \in slipped
================================================================================
