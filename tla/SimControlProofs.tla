--------------------------- MODULE SimControlProofs ---------------------------
(***************************************************************************)
(* Proofs about SimControl, for every set of simulators, keys, tasks and   *)
(* stop requests, and about the script and the walk of SimWalk, for every  *)
(* set of access points, routes, guards and deletions.                     *)
(***************************************************************************)
EXTENDS SimulationsMC, Naturals, FiniteSetTheorems, TLAPS

\* The strengthening that makes the properties inductive.
OnlySimulated == positions \subseteq AllKeys /\ inflight \subseteq AllKeys

\* A task has a mode while it lives, and its thread is for its cleanup.
TasksInOrder ==
    \A t \in Tasks : Live(t) =>
        mode[t] \in Modes /\ (phase[t] # "cleanup" => thread[t] = "idle")

\* A request that will reset _task and is not waiting for the task that _task
\* holds was there when that task was started.
ResetsSlipped ==
    \A s \in Stoppers :
        waiting[s] # None /\ IsRunning /\ waiting[s] # handle => handle \in slipped

Inv == /\ TypeOK /\ OnlySimulated /\ TasksInOrder /\ NobodyLeftBehind
       /\ HandleOwnsRunner /\ ResetsSlipped

LEMMA KeysType == AllKeys \subseteq Keys
BY ModesAssumption DEF AllKeys

--------------------------------------------------------------------------------
LEMMA QueueType ==
    ASSUME TypeOK, NEW o \in Owners, NEW keys \in SUBSET Keys, Queue(o, keys)
    PROVE  /\ thread' \in [Owners -> {"idle", "queued", "reading", "deleting"}]
           /\ todo' \in [Owners -> SUBSET Keys]
BY DEF TypeOK, Queue

LEMMA AbandonType ==
    ASSUME TypeOK, NEW o \in Owners, Abandon(o)
    PROVE  /\ thread' \in [Owners -> {"idle", "queued", "reading", "deleting"}]
           /\ todo' \in [Owners -> SUBSET Keys]
           /\ left' \subseteq Keys
BY DEF TypeOK, Abandon

LEMMA TaskDoneType ==
    ASSUME TypeOK, NEW t \in Tasks, TaskDone(t)
    PROVE  /\ mode' \in [Tasks -> Modes \cup {None}]
           /\ phase' \in [Tasks -> {"created", "running", "cleanup", "done"}]
BY DEF TypeOK, TaskDone

LEMMA TypeInit == Init => TypeOK
BY KeysType DEF Init, TypeOK

LEMMA TaskIsOwner == \A t \in Tasks : t \in Owners
BY DEF Owners

LEMMA TypeRequests ==
    ASSUME TypeOK,
           \/ Boot \/ BootEnds \/ BootTimesOut \/ Shutdown \/ Exit \/ Kill
           \/ \E s \in Stoppers : Stop(s) \/ Stopped(s)
           \/ \E t \in Tasks : \E m \in Modes : Start(t, m)
    PROVE  TypeOK'
<1>1. CASE Boot
  <2>1. Startup \in Owners  BY DEF Owners
  <2>2. /\ thread' \in [Owners -> {"idle", "queued", "reading", "deleting"}]
        /\ todo' \in [Owners -> SUBSET Keys]
    BY <1>1, <2>1, KeysType, QueueType DEF Boot
  <2>. QED  BY <1>1, <2>2 DEF Boot, TypeOK
<1>2. CASE BootEnds  BY <1>2 DEF BootEnds, TypeOK
<1>3. CASE BootTimesOut
  <2>1. Startup \in Owners  BY DEF Owners
  <2>. QED  BY <1>3, <2>1, AbandonType DEF BootTimesOut, TypeOK
<1>4. CASE Shutdown
  <2>1. hit' \in [Tasks -> BOOLEAN]  BY <1>4 DEF Shutdown, IsRunning, TypeOK
  <2>. QED  BY <1>4, <2>1 DEF Shutdown, TypeOK
<1>5. CASE Gone  BY <1>5 DEF Gone, TypeOK
<1>6. ASSUME NEW s \in Stoppers, Stop(s) PROVE TypeOK'
  BY <1>6 DEF Stop, IsRunning, TypeOK
<1>7. ASSUME NEW s \in Stoppers, Stopped(s) PROVE TypeOK'
  BY <1>7 DEF Stopped, TypeOK
<1>8. ASSUME NEW t \in Tasks, NEW m \in Modes, Start(t, m) PROVE TypeOK'
  BY <1>8 DEF Start, TypeOK
<1>. QED  BY <1>1, <1>2, <1>3, <1>4, <1>5, <1>6, <1>7, <1>8 DEF Exit, Kill

LEMMA TypeTask ==
    ASSUME TypeOK, TasksInOrder, NEW t \in Tasks, TaskStep(t)
    PROVE  TypeOK'
<1>0. t \in Owners  BY TaskIsOwner
<1>1. CASE SetUp(t)  BY <1>1 DEF SetUp, TypeOK
<1>2. ASSUME EnterCleanup(t), Live(t)
      PROVE  /\ thread' \in [Owners -> {"idle", "queued", "reading", "deleting"}]
             /\ todo' \in [Owners -> SUBSET Keys]
             /\ phase' \in [Tasks -> {"created", "running", "cleanup", "done"}]
             /\ mode' = mode
  <2>1. mode[t] \in Modes  BY <1>2 DEF TasksInOrder
  <2>2. Writes[mode[t]] \in SUBSET Keys  BY <2>1, ModesAssumption
  <2>3. Queue(t, Writes[mode[t]])  BY <1>2 DEF EnterCleanup
  <2>. QED  BY <1>0, <1>2, <2>2, <2>3, QueueType DEF EnterCleanup, TypeOK
<1>3. CASE Ends(t)  BY <1>2, <1>3 DEF Ends, Live, TypeOK
<1>4. CASE Cancelled(t)
  <2>1. hit' \in [Tasks -> BOOLEAN]  BY <1>4 DEF Cancelled, TypeOK
  <2>2. /\ UNCHANGED <<proc, positions, inflight, handle, waiting, slipped>>
        /\ Live(t)
    BY <1>4 DEF Cancelled
  <2>3. CASE TaskDone(t) /\ UNCHANGED <<thread, todo, left>>
    BY <2>1, <2>2, <2>3, TaskDoneType DEF TypeOK
  <2>4. CASE EnterCleanup(t) /\ UNCHANGED left
    BY <1>2, <2>1, <2>2, <2>4 DEF TypeOK
  <2>5. CASE TaskDone(t) /\ Abandon(t)
    BY <1>0, <2>1, <2>2, <2>5, TaskDoneType, AbandonType DEF TypeOK
  <2>. QED  BY <1>4, <2>3, <2>4, <2>5 DEF Cancelled
<1>5. CASE CleanupEnds(t)  BY <1>5, TaskDoneType DEF CleanupEnds, TypeOK
<1>6. CASE CleanupTimesOut(t)
  BY <1>0, <1>6, TaskDoneType, AbandonType DEF CleanupTimesOut, TypeOK
<1>7. ASSUME NEW k \in Keys, Post(t, k) PROVE TypeOK'  BY <1>7 DEF Post, TypeOK
<1>. QED  BY <1>1, <1>3, <1>4, <1>5, <1>6, <1>7 DEF TaskStep

LEMMA TypeThread ==
    ASSUME TypeOK, NEW o \in Owners, ThreadStep(o)
    PROVE  TypeOK'
<1>1. CASE ThreadBegins(o)  BY <1>1 DEF ThreadBegins, TypeOK
<1>2. CASE ThreadReads(o)
  <2>1. todo' \in [Owners -> SUBSET Keys]  BY <1>2 DEF ThreadReads, TypeOK
  <2>2. thread' \in [Owners -> {"idle", "queued", "reading", "deleting"}]
    BY <1>2 DEF ThreadReads, TypeOK
  <2>. QED  BY <1>2, <2>1, <2>2 DEF ThreadReads, TypeOK
<1>3. CASE ThreadFails(o)  BY <1>3 DEF ThreadFails, TypeOK
<1>4. ASSUME NEW k \in Keys, ThreadDeletes(o, k) PROVE TypeOK'
  <2>1. todo' \in [Owners -> SUBSET Keys]  BY <1>4 DEF ThreadDeletes, TypeOK
  <2>2. thread' \in [Owners -> {"idle", "queued", "reading", "deleting"}]
    BY <1>4 DEF ThreadDeletes, TypeOK
  <2>. QED  BY <1>4, <2>1, <2>2 DEF ThreadDeletes, TypeOK
<1>. QED  BY <1>1, <1>2, <1>3, <1>4 DEF ThreadStep

LEMMA TypePost ==
    ASSUME TypeOK, NEW k \in Keys, PostSaved(k) \/ PostRefused(k)
    PROVE  TypeOK'
BY DEF PostSaved, PostRefused, TypeOK

LEMMA TypeNext == TypeOK /\ TasksInOrder /\ [Next]_vars => TypeOK'
<1>. SUFFICES ASSUME TypeOK, TasksInOrder, [Next]_vars PROVE TypeOK'  OBVIOUS
<1>1. CASE UNCHANGED vars  BY <1>1 DEF vars, TypeOK
<1>2. CASE Next
  BY <1>2, TypeRequests, TypeTask, TypeThread, TypePost DEF Next
<1>. QED  BY <1>1, <1>2

--------------------------------------------------------------------------------
LEMMA OnlyNext ==
    TypeOK /\ OnlySimulated /\ TasksInOrder /\ [Next]_vars => OnlySimulated'
<1>. SUFFICES ASSUME TypeOK, OnlySimulated, TasksInOrder, [Next]_vars
              PROVE  OnlySimulated'
  OBVIOUS
<1>0. CASE UNCHANGED <<positions, inflight>>  BY <1>0 DEF OnlySimulated
<1>1. CASE Boot \/ BootEnds \/ BootTimesOut \/ Shutdown
  BY <1>0, <1>1 DEF Boot, BootEnds, BootTimesOut, Shutdown
<1>2. CASE Exit \/ Kill  BY <1>2 DEF Exit, Kill, Gone, OnlySimulated
<1>3. ASSUME NEW s \in Stoppers, Stop(s) \/ Stopped(s) PROVE OnlySimulated'
  BY <1>0, <1>3 DEF Stop, Stopped
<1>4. ASSUME NEW t \in Tasks, TaskStep(t) PROVE OnlySimulated'
  <2>1. CASE SetUp(t)  BY <2>1 DEF SetUp, OnlySimulated
  <2>2. CASE Ends(t) \/ Cancelled(t) \/ CleanupEnds(t) \/ CleanupTimesOut(t)
    BY <1>0, <2>2 DEF Ends, Cancelled, CleanupEnds, CleanupTimesOut
  <2>3. ASSUME NEW k \in Keys, Post(t, k) PROVE OnlySimulated'
    <3>1. mode[t] \in Modes  BY <2>3 DEF Post, TasksInOrder, Live
    <3>2. k \in AllKeys  BY <2>3, <3>1 DEF Post, AllKeys
    <3>. QED  BY <2>3, <3>2 DEF Post, OnlySimulated
  <2>. QED  BY <1>4, <2>1, <2>2, <2>3 DEF TaskStep
<1>5. ASSUME NEW t \in Tasks, NEW m \in Modes, Start(t, m) PROVE OnlySimulated'
  BY <1>0, <1>5 DEF Start
<1>6. ASSUME NEW o \in Owners, ThreadStep(o) PROVE OnlySimulated'
  BY <1>6 DEF ThreadStep, ThreadBegins, ThreadReads, ThreadFails, ThreadDeletes, OnlySimulated
<1>7. ASSUME NEW k \in Keys, PostSaved(k) \/ PostRefused(k) PROVE OnlySimulated'
  BY <1>7 DEF PostSaved, PostRefused, OnlySimulated
<1>. QED  BY <1>0, <1>1, <1>2, <1>3, <1>4, <1>5, <1>6, <1>7 DEF Next, vars

\* Threads of live tasks: only the task's own steps take it out of order.
LEMMA OrderNext ==
    TypeOK /\ TasksInOrder /\ [Next]_vars => TasksInOrder'
<1>. SUFFICES ASSUME TypeOK, TasksInOrder, [Next]_vars, NEW u \in Tasks, Live(u)'
              PROVE  mode'[u] \in Modes /\ (phase'[u] # "cleanup" => thread'[u] = "idle")
  BY DEF TasksInOrder, Live
<1>0. CASE mode'[u] = mode[u] /\ phase'[u] = phase[u] /\ thread'[u] = thread[u]
  BY <1>0 DEF TasksInOrder, Live
<1>1. CASE Boot \/ BootEnds \/ BootTimesOut \/ Shutdown
  <2>1. u # Startup  BY StartupAssumption
  <2>. QED
    BY <1>0, <1>1, <2>1
    DEF Boot, BootEnds, BootTimesOut, Shutdown, Queue, Abandon, TypeOK, Owners
<1>2. CASE Exit \/ Kill  BY <1>2 DEF Exit, Kill, Gone, Live
<1>3. ASSUME NEW s \in Stoppers, Stop(s) \/ Stopped(s)
      PROVE  mode'[u] = mode[u] /\ phase'[u] = phase[u] /\ thread'[u] = thread[u]
  BY <1>3 DEF Stop, Stopped
<1>4. ASSUME NEW t \in Tasks, TaskStep(t)
      PROVE  mode'[u] \in Modes /\ (phase'[u] # "cleanup" => thread'[u] = "idle")
  <2>0. CASE t # u
    BY <1>0, <1>4, <2>0
    DEF TaskStep, SetUp, Ends, Cancelled, CleanupEnds, CleanupTimesOut, Post,
        EnterCleanup, TaskDone, Queue, Abandon, TypeOK, Owners
  <2>1. CASE t = u
    <3>1. CASE SetUp(u)  BY <3>1 DEF SetUp, TasksInOrder, Live, TypeOK
    <3>2. CASE Ends(u)  BY <3>2 DEF Ends, EnterCleanup, TasksInOrder, Live, TypeOK
    <3>3. CASE Cancelled(u)
      BY <3>3 DEF Cancelled, EnterCleanup, TaskDone, TasksInOrder, Live, TypeOK
    <3>4. CASE CleanupEnds(u) \/ CleanupTimesOut(u)
      BY <3>4 DEF CleanupEnds, CleanupTimesOut, TaskDone, Live, TypeOK
    <3>5. CASE \E k \in Keys : Post(u, k)  BY <1>0, <3>5 DEF Post
    <3>. QED  BY <1>4, <2>1, <3>1, <3>2, <3>3, <3>4, <3>5 DEF TaskStep
  <2>. QED  BY <2>0, <2>1
<1>5. ASSUME NEW t \in Tasks, NEW m \in Modes, Start(t, m)
      PROVE  mode'[u] \in Modes /\ (phase'[u] # "cleanup" => thread'[u] = "idle")
  <2>1. CASE t = u  BY <1>5, <2>1 DEF Start, Free, TypeOK
  <2>2. CASE t # u  BY <1>0, <1>5, <2>2 DEF Start, TypeOK
  <2>. QED  BY <2>1, <2>2
<1>6. ASSUME NEW o \in Owners, ThreadStep(o)
      PROVE  mode'[u] \in Modes /\ (phase'[u] # "cleanup" => thread'[u] = "idle")
  <2>1. mode'[u] = mode[u] /\ phase'[u] = phase[u]
    BY <1>6 DEF ThreadStep, ThreadBegins, ThreadReads, ThreadFails, ThreadDeletes
  <2>2. thread[u] = "idle" => thread'[u] = "idle"
    <3>1. CASE o = u
      BY <1>6, <3>1 DEF ThreadStep, ThreadBegins, ThreadReads, ThreadFails, ThreadDeletes
    <3>2. CASE o # u
      BY <1>6, <3>2
      DEF ThreadStep, ThreadBegins, ThreadReads, ThreadFails, ThreadDeletes, TypeOK, Owners
    <3>. QED  BY <3>1, <3>2
  <2>. QED  BY <2>1, <2>2 DEF TasksInOrder, Live
<1>7. ASSUME NEW k \in Keys, PostSaved(k) \/ PostRefused(k)
      PROVE  mode'[u] = mode[u] /\ phase'[u] = phase[u] /\ thread'[u] = thread[u]
  BY <1>7 DEF PostSaved, PostRefused
<1>8. CASE UNCHANGED vars  BY <1>0, <1>8 DEF vars
<1>. QED  BY <1>0, <1>1, <1>2, <1>3, <1>4, <1>5, <1>6, <1>7, <1>8 DEF Next

--------------------------------------------------------------------------------
(* Every record is somebody's to remove.                                   *)

LEMMA AwaitedFrame ==
    ASSUME UNCHANGED <<phase, mode, thread, todo>>, NEW k
    PROVE  Awaited(k)' <=> Awaited(k)
BY DEF Awaited

\* Entering the finally block, and giving up on a thread.
LEMMA EnterKeeps ==
    ASSUME TypeOK, TasksInOrder, NEW t \in Tasks, EnterCleanup(t),
           phase[t] \in {"created", "running"}, NEW k \in Keys, Awaited(k)
    PROVE  Awaited(k)'
<1>0. t \in Owners  BY TaskIsOwner
<1>1. CASE \E u \in Tasks : phase[u] = "running" /\ k \in Writes[mode[u]]
  <2>1. PICK u \in Tasks : phase[u] = "running" /\ k \in Writes[mode[u]]  BY <1>1
  <2>2. CASE u = t
    <3>1. thread'[t] = "queued" /\ k \in todo'[t]
      BY <1>0, <2>1, <2>2 DEF EnterCleanup, Queue, TypeOK
    <3>. QED  BY <1>0, <3>1 DEF Awaited
  <2>3. CASE u # t
    <3>1. phase'[u] = "running" /\ mode'[u] = mode[u]
      BY <2>1, <2>3 DEF EnterCleanup, TypeOK
    <3>. QED  BY <2>1, <3>1 DEF Awaited
  <2>. QED  BY <2>2, <2>3
<1>2. CASE \E o \in Owners : thread[o] # "idle" /\ k \in todo[o]
  <2>1. PICK o \in Owners : thread[o] # "idle" /\ k \in todo[o]  BY <1>2
  <2>2. o # t  BY <2>1 DEF TasksInOrder, Live
  <2>3. thread'[o] = thread[o] /\ todo'[o] = todo[o]
    BY <2>1, <2>2 DEF EnterCleanup, Queue, TypeOK
  <2>. QED  BY <2>1, <2>3 DEF Awaited
<1>. QED  BY <1>1, <1>2 DEF Awaited

LEMMA DoneKeeps ==
    ASSUME TypeOK, NEW t \in Tasks, TaskDone(t), phase[t] # "running",
           NEW o \in Owners, Abandon(o) \/ UNCHANGED <<thread, todo, left>>,
           NEW k \in positions, k \in left \/ Awaited(k)
    PROVE  k \in left' \/ Awaited(k)'
<1>1. \A u \in Tasks : phase[u] = "running" => phase'[u] = "running" /\ mode'[u] = mode[u]
  BY DEF TaskDone, TypeOK
<1>2. CASE k \in left  BY <1>2 DEF Abandon
<1>3. CASE \E u \in Tasks : phase[u] = "running" /\ k \in Writes[mode[u]]
  BY <1>1, <1>3 DEF Awaited
<1>4. CASE \E v \in Owners : thread[v] # "idle" /\ k \in todo[v]
  <2>1. PICK v \in Owners : thread[v] # "idle" /\ k \in todo[v]  BY <1>4
  <2>2. k \in left' \/ (thread'[v] = thread[v] /\ todo'[v] = todo[v])
    BY <2>1 DEF Abandon, TypeOK
  <2>. QED  BY <2>1, <2>2 DEF Awaited
<1>. QED  BY <1>2, <1>3, <1>4 DEF Awaited

LEMMA AbandonKeeps ==
    ASSUME TypeOK, NEW o \in Owners, Abandon(o), UNCHANGED <<phase, mode>>,
           NEW k \in positions, k \in left \/ Awaited(k)
    PROVE  k \in left' \/ Awaited(k)'
<1>1. CASE k \in left  BY <1>1 DEF Abandon
<1>2. CASE \E u \in Tasks : phase[u] = "running" /\ k \in Writes[mode[u]]
  BY <1>2 DEF Awaited
<1>3. CASE \E v \in Owners : thread[v] # "idle" /\ k \in todo[v]
  <2>1. PICK v \in Owners : thread[v] # "idle" /\ k \in todo[v]  BY <1>3
  <2>2. k \in left' \/ (thread'[v] = thread[v] /\ todo'[v] = todo[v])
    BY <2>1 DEF Abandon, TypeOK
  <2>. QED  BY <2>1, <2>2 DEF Awaited
<1>. QED  BY <1>1, <1>2, <1>3 DEF Awaited

\* A thread's step: what it drops from its list is deleted, was absent, or is
\* left for a cause.
LEMMA ThreadKeeps ==
    ASSUME TypeOK, NEW o \in Owners, ThreadStep(o),
           NEW k \in positions', k \in left \/ Awaited(k)
    PROVE  k \in left' \/ Awaited(k)'
<1>0. UNCHANGED <<phase, mode>> /\ k \in positions
  BY DEF ThreadStep, ThreadBegins, ThreadReads, ThreadFails, ThreadDeletes
<1>1. CASE k \in left
  BY <1>1 DEF ThreadStep, ThreadBegins, ThreadReads, ThreadFails, ThreadDeletes
<1>2. CASE \E u \in Tasks : phase[u] = "running" /\ k \in Writes[mode[u]]
  BY <1>0, <1>2 DEF Awaited
<1>3. CASE \E v \in Owners : thread[v] # "idle" /\ k \in todo[v]
  <2>1. PICK v \in Owners : thread[v] # "idle" /\ k \in todo[v]  BY <1>3
  <2>2. CASE v # o
    <3>1. thread'[v] = thread[v] /\ todo'[v] = todo[v]
      BY <2>1, <2>2 DEF ThreadStep, ThreadBegins, ThreadReads, ThreadFails, ThreadDeletes, TypeOK
    <3>. QED  BY <2>1, <3>1 DEF Awaited
  <2>3. CASE v = o
    <3>1. CASE ThreadBegins(o)
      BY <2>1, <2>3, <3>1 DEF ThreadBegins, Awaited, TypeOK
    <3>2. CASE ThreadReads(o)
      <4>1. k \in todo[o] \cap positions  BY <1>0, <2>1, <2>3
      <4>2. thread'[o] = "deleting" /\ k \in todo'[o]
        BY <3>2, <4>1 DEF ThreadReads, TypeOK
      <4>. QED  BY <4>2 DEF Awaited
    <3>3. CASE ThreadFails(o)  BY <1>0, <2>1, <2>3, <3>3 DEF ThreadFails
    <3>4. ASSUME NEW j \in Keys, ThreadDeletes(o, j) PROVE Awaited(k)'
      <4>1. k # j  BY <3>4 DEF ThreadDeletes
      <4>2. thread'[o] = "deleting" /\ k \in todo'[o]
        BY <2>1, <2>3, <3>4, <4>1 DEF ThreadDeletes, TypeOK
      <4>. QED  BY <4>2 DEF Awaited
    <3>. QED  BY <3>1, <3>2, <3>3, <3>4 DEF ThreadStep
  <2>. QED  BY <2>2, <2>3
<1>. QED  BY <1>1, <1>2, <1>3 DEF Awaited

LEMMA LeftInit == Init => NobodyLeftBehind
BY DEF Init, NobodyLeftBehind

LEMMA LeftNext ==
    TypeOK /\ OnlySimulated /\ TasksInOrder /\ NobodyLeftBehind /\ [Next]_vars
        => NobodyLeftBehind'
<1>. SUFFICES ASSUME TypeOK, OnlySimulated, TasksInOrder, NobodyLeftBehind, [Next]_vars,
                     NEW k \in positions'
              PROVE  k \in left' \/ Awaited(k)'
  BY DEF NobodyLeftBehind
<1>0. CASE UNCHANGED <<positions, left, phase, mode, thread, todo>>
  BY <1>0, AwaitedFrame DEF NobodyLeftBehind
<1>1. CASE Boot
  <2>1. Startup \in Owners  BY DEF Owners
  <2>2. k \in AllKeys  BY <1>1 DEF Boot, OnlySimulated
  <2>3. thread'[Startup] = "queued" /\ todo'[Startup] = AllKeys
    BY <1>1, <2>1 DEF Boot, Queue, TypeOK
  <2>. QED  BY <2>1, <2>2, <2>3 DEF Awaited
<1>2. CASE BootTimesOut
  <2>1. Startup \in Owners  BY DEF Owners
  <2>2. k \in positions /\ UNCHANGED <<phase, mode>>  BY <1>2 DEF BootTimesOut
  <2>. QED  BY <1>2, <2>1, <2>2, AbandonKeeps DEF BootTimesOut, NobodyLeftBehind
<1>3. CASE BootEnds \/ Shutdown  BY <1>0, <1>3 DEF BootEnds, Shutdown
<1>4. CASE Exit \/ Kill  BY <1>4 DEF Exit, Kill, Gone, NobodyLeftBehind
<1>5. ASSUME NEW s \in Stoppers, Stop(s) \/ Stopped(s) PROVE k \in left' \/ Awaited(k)'
  BY <1>0, <1>5 DEF Stop, Stopped
<1>6. ASSUME NEW t \in Tasks, NEW m \in Modes, Start(t, m)
      PROVE  k \in left' \/ Awaited(k)'
  <2>1. \A u \in Tasks : phase[u] = "running" => phase'[u] = "running" /\ mode'[u] = mode[u]
    BY <1>6 DEF Start, Free, Live, TypeOK
  <2>. QED  BY <1>6, <2>1 DEF Start, Awaited, NobodyLeftBehind
<1>7. ASSUME NEW t \in Tasks, TaskStep(t) PROVE k \in left' \/ Awaited(k)'
  <2>0. t \in Owners  BY TaskIsOwner
  <2>1. CASE SetUp(t)
    <3>1. \A u \in Tasks : phase[u] = "running" => phase'[u] = "running" /\ mode'[u] = mode[u]
      BY <2>1 DEF SetUp, TypeOK
    <3>. QED  BY <2>1, <3>1 DEF SetUp, Awaited, NobodyLeftBehind
  <2>2. ASSUME EnterCleanup(t), phase[t] \in {"created", "running"}, UNCHANGED <<positions, left>>
        PROVE  k \in left' \/ Awaited(k)'
    BY <2>2, EnterKeeps DEF NobodyLeftBehind, TypeOK
  <2>3. ASSUME TaskDone(t), phase[t] # "running", UNCHANGED positions,
               Abandon(t) \/ UNCHANGED <<thread, todo, left>>
        PROVE  k \in left' \/ Awaited(k)'
    BY <2>0, <2>3, DoneKeeps DEF NobodyLeftBehind
  <2>4. CASE Ends(t)  BY <2>2, <2>4 DEF Ends
  <2>5. CASE Cancelled(t)  BY <2>2, <2>3, <2>5 DEF Cancelled
  <2>6. CASE CleanupEnds(t) \/ CleanupTimesOut(t)
    BY <2>3, <2>6 DEF CleanupEnds, CleanupTimesOut
  <2>7. CASE \E j \in Keys : Post(t, j)  BY <1>0, <2>7 DEF Post
  <2>. QED  BY <1>7, <2>1, <2>4, <2>5, <2>6, <2>7 DEF TaskStep
<1>8. ASSUME NEW o \in Owners, ThreadStep(o) PROVE k \in left' \/ Awaited(k)'
  <2>1. k \in positions
    BY <1>8 DEF ThreadStep, ThreadBegins, ThreadReads, ThreadFails, ThreadDeletes
  <2>. QED  BY <1>8, <2>1, ThreadKeeps DEF NobodyLeftBehind
<1>9. ASSUME NEW j \in Keys, PostSaved(j) \/ PostRefused(j) PROVE k \in left' \/ Awaited(k)'
  <2>1. Awaited(k)' <=> Awaited(k)  BY <1>9, AwaitedFrame DEF PostSaved, PostRefused
  <2>. QED  BY <1>9, <2>1 DEF PostSaved, PostRefused, NobodyLeftBehind
<1>10. CASE UNCHANGED vars  BY <1>0, <1>10 DEF vars
<1>. QED
  BY <1>1, <1>2, <1>3, <1>4, <1>5, <1>6, <1>7, <1>8, <1>9, <1>10 DEF Next

--------------------------------------------------------------------------------
(* Who owns a running simulation.                                          *)

LEMMA OwnerNext ==
    TypeOK /\ HandleOwnsRunner /\ ResetsSlipped /\ [Next]_vars
        => HandleOwnsRunner' /\ ResetsSlipped'
<1>. SUFFICES ASSUME TypeOK, HandleOwnsRunner, ResetsSlipped, [Next]_vars
              PROVE  HandleOwnsRunner' /\ ResetsSlipped'
  OBVIOUS
<1>0. ASSUME UNCHANGED <<handle, slipped, waiting>>, \A t \in Tasks : Live(t)' => Live(t)
      PROVE  HandleOwnsRunner' /\ ResetsSlipped'
  <2>1. IsRunning' => IsRunning  BY <1>0 DEF IsRunning, TypeOK
  <2>2. HandleOwnsRunner'  BY <1>0 DEF HandleOwnsRunner
  <2>3. ResetsSlipped'  BY <1>0, <2>1 DEF ResetsSlipped
  <2>. QED  BY <2>2, <2>3
<1>1. CASE Boot \/ BootEnds \/ BootTimesOut \/ Shutdown
  <2>1. UNCHANGED <<handle, slipped, waiting, phase>>
    BY <1>1 DEF Boot, BootEnds, BootTimesOut, Shutdown
  <2>. QED  BY <1>0, <2>1 DEF Live
<1>2. CASE Exit \/ Kill
  <2>1. \A t \in Tasks : ~Live(t)'  BY <1>2 DEF Exit, Kill, Gone, Live
  <2>2. \A s \in Stoppers : waiting'[s] = None  BY <1>2 DEF Exit, Kill, Gone
  <2>. QED  BY <2>1, <2>2 DEF HandleOwnsRunner, ResetsSlipped
<1>3. ASSUME NEW s \in Stoppers, Stop(s) PROVE HandleOwnsRunner' /\ ResetsSlipped'
  <2>1. UNCHANGED <<handle, slipped, phase>>  BY <1>3 DEF Stop
  <2>2. HandleOwnsRunner'  BY <2>1 DEF HandleOwnsRunner, Live
  <2>3. ResetsSlipped'
    BY <1>3, <2>1 DEF Stop, ResetsSlipped, IsRunning, Live, TypeOK
  <2>. QED  BY <2>2, <2>3
<1>4. ASSUME NEW s \in Stoppers, Stopped(s) PROVE HandleOwnsRunner' /\ ResetsSlipped'
  <2>1. handle' = None /\ UNCHANGED <<phase, slipped>>  BY <1>4 DEF Stopped
  <2>2. ResetsSlipped'  BY <2>1 DEF ResetsSlipped, IsRunning
  <2>3. ASSUME NEW t \in Tasks, Live(t)' PROVE t \in slipped'
    <3>1. Live(t)  BY <2>1, <2>3 DEF Live
    <3>2. CASE handle = t
      <4>1. IsRunning /\ waiting[s] # handle
        BY <1>4, <3>1, <3>2, NoneAssumption DEF IsRunning, Stopped
      <4>. QED  BY <1>4, <2>1, <3>2, <4>1 DEF ResetsSlipped, Stopped
    <3>. QED  BY <2>1, <3>1, <3>2 DEF HandleOwnsRunner
  <2>. QED  BY <2>2, <2>3 DEF HandleOwnsRunner
<1>5. ASSUME NEW t \in Tasks, NEW m \in Modes, Start(t, m)
      PROVE  HandleOwnsRunner' /\ ResetsSlipped'
  <2>1. ~Live(t) /\ ~IsRunning /\ handle' = t  BY <1>5 DEF Start, Free
  <2>2. ResetsSlipped'  BY <1>5 DEF Start, ResetsSlipped, IsRunning
  <2>3. ASSUME NEW u \in Tasks, Live(u)', u # t PROVE u \in slipped'
    <3>1. Live(u)  BY <1>5, <2>3 DEF Start, Live, TypeOK
    <3>2. handle # u  BY <2>1, <3>1, NoneAssumption DEF IsRunning
    <3>3. u \in slipped  BY <3>1, <3>2 DEF HandleOwnsRunner
    <3>. QED  BY <1>5, <2>3, <3>3 DEF Start
  <2>. QED  BY <2>1, <2>2, <2>3 DEF HandleOwnsRunner
<1>6. ASSUME NEW t \in Tasks, TaskStep(t) PROVE HandleOwnsRunner' /\ ResetsSlipped'
  <2>1. UNCHANGED <<handle, slipped, waiting>>
    BY <1>6 DEF TaskStep, SetUp, Ends, Cancelled, CleanupEnds, CleanupTimesOut, Post
  <2>2. \A u \in Tasks : Live(u)' => Live(u)
    BY <1>6
    DEF TaskStep, SetUp, Ends, Cancelled, CleanupEnds, CleanupTimesOut, Post,
        EnterCleanup, TaskDone, Live, TypeOK
  <2>. QED  BY <1>0, <2>1, <2>2
<1>7. ASSUME NEW o \in Owners, ThreadStep(o) PROVE HandleOwnsRunner' /\ ResetsSlipped'
  <2>1. UNCHANGED <<handle, slipped, waiting, phase>>
    BY <1>7 DEF ThreadStep, ThreadBegins, ThreadReads, ThreadFails, ThreadDeletes
  <2>. QED  BY <1>0, <2>1 DEF Live
<1>8. ASSUME NEW k \in Keys, PostSaved(k) \/ PostRefused(k)
      PROVE  HandleOwnsRunner' /\ ResetsSlipped'
  <2>1. UNCHANGED <<handle, slipped, waiting, phase>>  BY <1>8 DEF PostSaved, PostRefused
  <2>. QED  BY <1>0, <2>1 DEF Live
<1>9. CASE UNCHANGED vars  BY <1>0, <1>9 DEF vars, Live
<1>. QED  BY <1>1, <1>2, <1>3, <1>4, <1>5, <1>6, <1>7, <1>8, <1>9 DEF Next

--------------------------------------------------------------------------------
LEMMA InvInit == Init => Inv
<1>. SUFFICES ASSUME Init PROVE Inv  OBVIOUS
<1>1. OnlySimulated  BY DEF Init, OnlySimulated
<1>2. TasksInOrder /\ HandleOwnsRunner /\ ResetsSlipped
  BY DEF Init, TasksInOrder, HandleOwnsRunner, ResetsSlipped, Live, IsRunning
<1>. QED  BY <1>1, <1>2, TypeInit, LeftInit DEF Inv

LEMMA InvNext == Inv /\ [Next]_vars => Inv'
BY TypeNext, OnlyNext, OrderNext, LeftNext, OwnerNext DEF Inv

LEMMA Invariance == Spec => []Inv
BY InvInit, InvNext, PTL DEF Spec

\* The control of simulations keeps its type.
THEOREM TypeCorrect == Spec => []TypeOK
<1>1. Inv => TypeOK  BY DEF Inv
<1>. QED  BY <1>1, Invariance, PTL

\* simulation_cleanup.py:10-14: whatever stops, fails, is cut short or dies, and
\* whenever the server gets to the telemetry, a record of a simulated person has
\* somebody to remove it or is left for one of the named causes.
THEOREM NobodyIsLeft == Spec => []NobodyLeftBehind
<1>1. Inv => NobodyLeftBehind  BY DEF Inv
<1>. QED  BY <1>1, Invariance, PTL

\* simulation_routes.py: _task is the task of every simulation that lives, except
\* those started while a stop request was still to return.
THEOREM OneOwner == Spec => []HandleOwnsRunner
<1>1. Inv => HandleOwnsRunner  BY DEF Inv
<1>. QED  BY <1>1, Invariance, PTL
--------------------------------------------------------------------------------
(* The script of safety events (SimWalk, the part "walk" of SimulationsMC). *)

\* An alert that the marks of this segment do not tell of was not raised in it, and one
\* that was is the segment's own.
AlertsAreMarked ==
    /\ raised \in [Walk!Alerts -> 0..1]
    /\ "event" \notin fired => raised["ghost"] = 0 /\ raised["missed"] = 0
    /\ "seeded" \notin fired => raised["seed"] = 0
    /\ raised["ghost"] = 1 => Walk!Segment.name = "ghost_patrol"
    /\ raised["missed"] = 1 => Walk!Segment.name = "missed_checkpoint"
    /\ raised["seed"] = 1 => Walk!Segment.name = "man_down"

\* An event is raised by the segment it is of, where none was raised yet.
LEMMA EventRaised ==
    ASSUME AlertsAreMarked, "event" \notin fired,
           NEW e \in {"ghost", "missed"}, Walk!Raises(e), UNCHANGED seg,
           e = "ghost" => Walk!Segment.name = "ghost_patrol",
           e = "missed" => Walk!Segment.name = "missed_checkpoint"
    PROVE  AlertsAreMarked'
<1>1. Walk!Checks(e) \subseteq {e}  BY DEF Walk!Checks
<1>2. raised' = [k \in Walk!Alerts |-> IF k \in Walk!Checks(e) THEN raised[k] + 1
                                       ELSE raised[k]]
      /\ fired' = fired \cup {"event"}
  BY DEF Walk!Raises
<1>3. raised[e] = 0  BY DEF AlertsAreMarked
<1>4. \A k \in Walk!Alerts : raised'[k] = raised[k] \/ (k = e /\ raised'[k] = 1)
  BY <1>1, <1>2, <1>3 DEF AlertsAreMarked
<1>5. raised' \in [Walk!Alerts -> 0..1]  BY <1>2, <1>4 DEF AlertsAreMarked
<1>6. "ghost" \in Walk!Alerts /\ "missed" \in Walk!Alerts /\ "seed" \in Walk!Alerts
  BY DEF Walk!Alerts
<1>. QED  BY <1>2, <1>4, <1>5, <1>6 DEF AlertsAreMarked, Walk!Segment

\* A new segment, or a new run, begins with nothing raised.
LEMMA NothingRaised ==
    ASSUME raised' = [e \in Walk!Alerts |-> 0]
    PROVE  AlertsAreMarked'
<1>1. /\ raised' \in [Walk!Alerts -> 0..1]
      /\ raised'["ghost"] = 0 /\ raised'["missed"] = 0 /\ raised'["seed"] = 0
  BY DEF Walk!Alerts
<1>. QED  BY <1>1 DEF AlertsAreMarked

LEMMA ScriptStands ==
    ASSUME AlertsAreMarked, UNCHANGED <<seg, fired, raised>>
    PROVE  AlertsAreMarked'
  BY DEF AlertsAreMarked, Walk!Segment

LEMMA AlertsStep ==
    ASSUME AlertsAreMarked, Walk!Next
    PROVE  AlertsAreMarked'
<1>. USE DEF Walk!scriptVars
<1>1. ASSUME NEW cfg \in Configs, Walk!SetupReads(cfg)  PROVE AlertsAreMarked'
  BY <1>1, ScriptStands DEF Walk!SetupReads
<1>2. CASE Walk!SetupReturns \/ Walk!Stop \/ Walk!BreaksDown \/ Walk!RemovesFromFloor
  BY <1>2, ScriptStands DEF Walk!SetupReturns, Walk!Stop, Walk!BreaksDown, Walk!Dies,
     Walk!RemovesFromFloor, Walk!vars
<1>3. CASE Walk!SetupStores  BY <1>3, NothingRaised DEF Walk!SetupStores, Walk!NewScript
<1>4. CASE Walk!BeginTick
  <2>1. CASE UNCHANGED <<seg, fired, raised>>  BY <2>1, ScriptStands
  <2>2. CASE raised' = [e \in Walk!Alerts |-> 0]  BY <2>2, NothingRaised
  <2>. QED  BY <1>4, <2>1, <2>2 DEF Walk!BeginTick
<1>5. CASE Walk!EndTick
  <2>1. CASE UNCHANGED <<seg, fired, raised>>  BY <2>1, ScriptStands
  <2>2. CASE /\ UNCHANGED seg /\ Walk!Segment.name = "man_down" /\ "seeded" \notin fired
             /\ fired' = fired \cup {"seeded"}
             /\ raised' \in {raised, [raised EXCEPT !["seed"] = @ + 1]}
    <3>1. raised["seed"] = 0 /\ "seed" \in Walk!Alerts
      BY <2>2 DEF AlertsAreMarked, Walk!Alerts
    <3>2. /\ raised' \in [Walk!Alerts -> 0..1]
          /\ raised'["ghost"] = raised["ghost"] /\ raised'["missed"] = raised["missed"]
      BY <2>2, <3>1 DEF AlertsAreMarked, Walk!Alerts
    <3>. QED  BY <2>2, <3>2 DEF AlertsAreMarked, Walk!Segment
  <2>. QED  BY <1>5, <2>1, <2>2 DEF Walk!EndTick, Walk!SeedPosts
<1>6. CASE Walk!StandsStill
  <2>1. CASE Walk!Raises("ghost") /\ "event" \notin fired
    BY <1>6, <2>1, EventRaised DEF Walk!StandsStill
  <2>. QED  BY <1>6, <2>1, ScriptStands DEF Walk!StandsStill
<1>7. ASSUME NEW g \in Walk!Guards, Walk!Acts(g)  PROVE AlertsAreMarked'
  <2>1. CASE Walk!SkipsOne(g) /\ Walk!Raises("missed") /\ "event" \notin fired
    BY <1>7, <2>1, EventRaised DEF Walk!Acts, Walk!SkipsOne
  <2>. QED  BY <1>7, <2>1, ScriptStands DEF Walk!Acts, Walk!Strolls
<1>8. ASSUME NEW g \in Walk!Guards,
             \/ Walk!Skips(g) \/ Walk!Fails(g) \/ Walk!Walks(g) \/ Walk!Advances(g)
             \/ Walk!Advanced(g) \/ Walk!ActingFails(g) \/ Walk!RemovesFromGuard(g)
      PROVE  AlertsAreMarked'
  BY <1>8, ScriptStands DEF Walk!Skips, Walk!Fails, Walk!Walks, Walk!Advances,
     Walk!Advanced, Walk!ActingFails, Walk!Dies, Walk!RemovesFromGuard
<1>9. ASSUME NEW ap \in Deletable, Walk!Deletes(ap)  PROVE AlertsAreMarked'
  BY <1>9, ScriptStands DEF Walk!Deletes
<1>. QED
  BY <1>1, <1>2, <1>3, <1>4, <1>5, <1>6, <1>7, <1>8, <1>9 DEF Walk!Next, Walk!GuardStep

\* simulation_events.py:245, "exactly its own alert": whatever fails and whichever access
\* points are deleted, a segment of the script raises its own alert at most once, no other.
THEOREM OwnAlertAlways == SimulationsSpec => []OwnAlertOnce
<1>. DEFINE Marked == part = "walk" => AlertsAreMarked
<1>1. SimulationsInit => Marked
  BY DEF SimulationsInit, Walk!Init, AlertsAreMarked, Walk!Alerts
<1>2. Marked /\ [SimulationsNext]_<<vars, walk, part>> => Marked'
  <2>1. UNCHANGED walk => UNCHANGED <<seg, fired, raised>>  BY DEF walk
  <2>. QED  BY <2>1, AlertsStep, ScriptStands DEF SimulationsNext
<1>3. Marked => OwnAlertOnce
  BY DEF AlertsAreMarked, OwnAlertOnce, Walk!OwnAlertOnce, Walk!Alerts
<1>. QED  BY <1>1, <1>2, <1>3, PTL DEF SimulationsSpec

--------------------------------------------------------------------------------
(* The walk, for every floor, every route and any number of guards.        *)

OutSet == Walk!Range(Outgoing)
InSet == Walk!Range(Incoming)

\* A guard is in the middle of its advance.
Pending(g) == adv # None /\ Walk!Turns[turn] = g

Listed(g) == Len(guard[g].order)

\* The simulator's lists name an AP once, so that remove_ap() takes one entry from each.
Lists ==
    /\ Apart(floor)
    /\ run = "reading" => read # None
    /\ read # None => Apart(read)

\* A guard's list is 1, 2, ... without a gap: remove_ap() moves the later indices down.
Ordered == \A g \in Walk!Guards : guard[g].order = [i \in 1..Listed(g) |-> i]

AdvInTurn ==
    adv # None => run = "running" /\ turn \in 1..Len(Walk!Turns) /\ simulator # "events"

WalkShape == Walk!TypeOK /\ Lists /\ Ordered /\ AdvInTurn

\* remove_ap() has the floor done before the first guard, and while a guard that it has not
\* met may be walking, the index it takes is one of the guard's.
RemovalInOrder ==
    removing # None =>
        /\ removing.left \subseteq OutSet
        /\ removing.at = 0 => removing.left = {}
        /\ removing.at # 0 => simulator # "shift"
        /\ run = "running" /\ ~(removing.left \subseteq raced) => removing.at <= Len(floor) + 1

\* A guard's list is as long as the floor, but for the AP of a removal that has yet to reach
\* it, and the index it is at, or is about to store, is one of the list.
IndicesLead ==
    run = "running" =>
        \A g \in Walk!Walkers \ raced :
            /\ Listed(g) = IF Walk!Removing(g) THEN Len(floor) + 1 ELSE Len(floor)
            /\ simulator # "events" /\ Listed(g) > 0 => guard[g].cur \in 1..Listed(g)
            /\ Pending(g) => Listed(g) > 0 /\ adv.next = Walk!Succ(guard[g].cur, Listed(g))

\* Deleted from Firestore; remove_ap() has not begun.
Spared == IF removing # None /\ removing.at = 0 THEN {removing.ap} ELSE {}

ListsAreRead ==
    simulator # "shift" =>
        /\ run = "running" => Walk!Range(floor) \subseteq aps \cup unheard \cup Spared
        /\ run = "reading" => Walk!Range(read) \subseteq aps \cup unheard \cup Spared

\* How many steps of the round lie between index x and the guard's.
Back(x, cur, n) == IF x <= cur THEN cur - x ELSE cur + n - x

\* The steps of its loop that a guard has stored.
Done(g) == IF Pending(g) THEN guard[g].count - 1 ELSE guard[g].count

\* A guard has arrived at every AP within as many steps back as it counts, and where it
\* wanders; what it is about to call a loop has a step for every AP.
Toured(g) ==
    /\ \A x \in DOMAIN floor :
          Back(x, guard[g].cur, Len(floor)) \in 1..Done(g) => floor[x] \in seen[g]
    /\ guard[g].state = "wandering" /\ Len(floor) > 0 => floor[guard[g].cur] \in seen[g]
    /\ Pending(g) => /\ guard[g].state = "wandering"
                     /\ adv.whole => Done(g) + 1 >= Len(floor)

BeenThere ==
    run = "running" /\ simulator # "events" =>
        \A g \in Walk!Walkers \ (raced \cup torn) : ~Walk!Removing(g) => Toured(g)

LoopsTold == \A g \in Walk!Guards : lastLoop[g] # None => Walk!Range(floor) \subseteq lastLoop[g]

\* The shift, which no removal touches: who is complete is frozen after a loop round all APs,
\* and nobody of the incoming guards takes a turn before all are.
ShiftInv ==
    run = "running" /\ simulator = "shift" =>
        /\ torn = {} /\ raced = {}
        /\ triggered => complete = OutSet
        /\ \A g \in OutSet : seen[g] \subseteq Walk!Range(floor)
        /\ \A g \in complete : guard[g].frozen /\ lastLoop[g] = Walk!Range(floor)
        /\ ~triggered => \A h \in InSet : guard[h].state = "moving" /\ guard[h].cur = guard[h].start
        /\ \A g \in Walk!Guards : Pending(g) => ~guard[g].frozen /\ (g \in InSet => triggered)

WalkInv == /\ AlertsAreMarked /\ WalkShape /\ RemovalInOrder /\ IndicesLead
           /\ ListsAreRead /\ BeenThere /\ LoopsTold /\ ShiftInv

--------------------------------------------------------------------------------
(* What the operators on lists and indices do.                             *)

\* SimWalk has the Cardinality of the library.
LEMMA WalkCardinality == \A S : Walk!Cardinality(S) = Cardinality(S)
BY DEF Cardinality, Walk!Cardinality

\* At which place of P an index is.
Rank(P, i) == Cardinality({j \in P : j <= i})

\* Ranks number the places from 1 without a gap, in their order.
LEMMA Ranks ==
    ASSUME NEW n \in Nat, NEW P \in SUBSET (1..n)
    PROVE  /\ Cardinality(P) \in Nat
           /\ \A i \in P : Rank(P, i) \in 1..Cardinality(P)
           /\ \A i, j \in P : i < j => Rank(P, i) < Rank(P, j)
           /\ \A m \in 1..Cardinality(P) : \E i \in P : Rank(P, i) = m
<1>1. IsFiniteSet(P) /\ \A Q \in SUBSET P : IsFiniteSet(Q)
  <2>1. IsFiniteSet(1..n)  BY FS_Interval
  <2>2. IsFiniteSet(P)  BY <2>1, FS_Subset
  <2>. QED  BY <2>2, FS_Subset
<1>2. \A Q \in SUBSET P : Cardinality(Q) \in Nat /\ Cardinality(Q) <= Cardinality(P)
  BY <1>1, FS_CardinalityType, FS_Subset
<1>3. ASSUME NEW i \in P  PROVE Rank(P, i) \in 1..Cardinality(P)
  <2>. DEFINE Q == {j \in P : j <= i}
  <2>1. Q \in SUBSET P /\ i \in Q  OBVIOUS
  <2>2. Cardinality(Q) # 0
    <3>. HIDE DEF Q
    <3>. QED  BY <1>1, <2>1, FS_EmptySet
  <2>. QED  BY <1>2, <2>1, <2>2 DEF Rank
<1>4. ASSUME NEW i \in P, NEW j \in P, i < j  PROVE Rank(P, i) < Rank(P, j)
  <2>. DEFINE Q == {m \in P : m <= i}
              R == {m \in P : m <= j}
  <2>0. i \in Int /\ j \in Int /\ \A m \in P : m \in Int  OBVIOUS
  <2>1. Q \in SUBSET P /\ R \in SUBSET P  OBVIOUS
  <2>2. Q \in SUBSET R
    <3>. SUFFICES ASSUME NEW m \in P, m <= i  PROVE m <= j
      OBVIOUS
    <3>. QED  BY <1>4, <2>0
  <2>3. j \in R /\ j \notin Q  BY <1>4, <2>0
  <2>4. Cardinality(Q) < Cardinality(R)
    <3>. HIDE DEF Q, R
    <3>1. Cardinality(Q) <= Cardinality(R) /\ Cardinality(Q) # Cardinality(R)
      BY <1>1, <2>1, <2>2, <2>3, FS_Subset
    <3>. QED  BY <1>2, <2>1, <3>1
  <2>. QED  BY <2>4 DEF Rank
<1>5. \A m \in 1..Cardinality(P) : \E i \in P : Rank(P, i) = m
  <2>. DEFINE f == [i \in P |-> Rank(P, i)]
              T == 1..Cardinality(P)
  <2>1. f \in [P -> T]  BY <1>3
  <2>2. \A i, j \in P : f[i] = f[j] => i = j
    <3>. SUFFICES ASSUME NEW i \in P, NEW j \in P, f[i] = f[j], i # j  PROVE FALSE
      OBVIOUS
    <3>1. Rank(P, i) \in Int /\ Rank(P, i) = Rank(P, j)  BY <1>3
    <3>2. i < j \/ j < i  OBVIOUS
    <3>. QED  BY <1>4, <3>1, <3>2
  <2>3. f \in Injection(P, T)  BY <2>1, <2>2 DEF Injection, IsInjective
  <2>4. Cardinality(P) \in Nat  BY <1>2
  <2>5. IsFiniteSet(T) /\ Cardinality(T) = Cardinality(P)  BY <2>4, FS_Interval
  <2>6. f \in Surjection(P, T)
    <3>. HIDE DEF f, T
    <3>. QED  BY <2>3, <2>5, FS_Injection
  <2>. QED  BY <2>6 DEF Surjection
<1>6. Cardinality(P) \in Nat  BY <1>2
<1>. QED  BY <1>3, <1>4, <1>5, <1>6

\* The place that Nth chooses is there, and there is no other.
LEMMA NthPlace ==
    ASSUME NEW n \in Nat, NEW P \in SUBSET (1..n), NEW m \in 1..Cardinality(P)
    PROVE  /\ Walk!Nth(P, m) \in P /\ Rank(P, Walk!Nth(P, m)) = m
           /\ \A i \in P : Rank(P, i) = m => i = Walk!Nth(P, m)
<1>1. \E i \in P : Rank(P, i) = m  BY Ranks
<1>2. Walk!Nth(P, m) = CHOOSE i \in P : Rank(P, i) = m
  BY WalkCardinality DEF Walk!Nth, Rank
<1>3. Walk!Nth(P, m) \in P /\ Rank(P, Walk!Nth(P, m)) = m  BY <1>1, <1>2
<1>4. ASSUME NEW i \in P, Rank(P, i) = m  PROVE i = Walk!Nth(P, m)
  <2>1. PICK j \in P : j = Walk!Nth(P, m)  BY <1>3
  <2>2. Rank(P, j) = m  BY <1>3, <2>1
  <2>3. i < j => Rank(P, i) < Rank(P, j)  BY Ranks
  <2>4. j < i => Rank(P, j) < Rank(P, i)  BY Ranks
  <2>5. i \in Int /\ j \in Int /\ m \in Int  BY Ranks
  <2>. QED  BY <1>4, <2>1, <2>2, <2>3, <2>4, <2>5
<1>. QED  BY <1>3, <1>4

\* What is in S of a list, in its order.
LEMMA OnlyKeeps ==
    ASSUME NEW T, NEW s \in Seq(T), NEW S
    PROVE  /\ Walk!Only(s, S) \in Seq(T)
           /\ Walk!Range(Walk!Only(s, S)) = Walk!Range(s) \cap S
           /\ Apart(s) => Apart(Walk!Only(s, S))
           /\ Len(Walk!Only(s, S)) = Cardinality({i \in DOMAIN s : s[i] \in S})
<1>. DEFINE P == {i \in DOMAIN s : s[i] \in S}
            o == Walk!Only(s, S)
<1>1. P \in SUBSET (1..Len(s)) /\ Len(s) \in Nat  OBVIOUS
<1>2. Cardinality(P) \in Nat  BY <1>1, Ranks
<1>3. o = [m \in 1..Cardinality(P) |-> s[Walk!Nth(P, m)]]
  BY WalkCardinality DEF Walk!Only
<1>4. \A m \in 1..Cardinality(P) : Walk!Nth(P, m) \in P /\ Rank(P, Walk!Nth(P, m)) = m
  <2>. HIDE DEF P
  <2>. QED  BY <1>1, NthPlace
<1>5. \A i \in P : Rank(P, i) \in 1..Cardinality(P) /\ i = Walk!Nth(P, Rank(P, i))
  <2>. HIDE DEF P
  <2>. QED  BY <1>1, NthPlace, Ranks
<1>6. \A i \in P : i \in DOMAIN s /\ s[i] \in S /\ s[i] \in T  OBVIOUS
<1>7. \A i \in DOMAIN s : s[i] \in S => i \in P  OBVIOUS
<1>. HIDE DEF P, o
<1>8. o \in Seq(T) /\ Len(o) = Cardinality(P)  BY <1>2, <1>3, <1>4, <1>6
<1>9. DOMAIN o = 1..Cardinality(P)  BY <1>3
<1>10. Walk!Range(o) = Walk!Range(s) \cap S
  <2>1. \A m \in DOMAIN o : o[m] \in Walk!Range(s) \cap S
    BY <1>3, <1>4, <1>6, <1>9 DEF Walk!Range
  <2>2. \A i \in DOMAIN s : s[i] \in S => \E m \in DOMAIN o : o[m] = s[i]
    BY <1>3, <1>5, <1>7, <1>9
  <2>. QED  BY <2>1, <2>2 DEF Walk!Range
<1>11. ASSUME Apart(s)  PROVE Apart(o)
  <2>. SUFFICES ASSUME NEW m \in DOMAIN o, NEW k \in DOMAIN o, o[m] = o[k]  PROVE m = k
    BY DEF Apart
  <2>1. Walk!Nth(P, m) = Walk!Nth(P, k)  BY <1>3, <1>4, <1>6, <1>9, <1>11 DEF Apart
  <2>. QED  BY <1>4, <1>9, <2>1
<1>. QED  BY <1>8, <1>10, <1>11 DEF o, P

Identity(n) == [i \in 1..n |-> i]

\* remove_ap() on a guard's list: it is of one AP less, and each is at its index again.
LEMMA WithoutOne ==
    ASSUME NEW n \in Nat, NEW at \in Nat \ {0}
    PROVE  Walk!Without(Identity(n), at) = Identity(IF at <= n THEN n - 1 ELSE n)
<1>. DEFINE s == Identity(n)
            P == {i \in DOMAIN s : s[i] \in Nat \ {at}}
            m == IF at <= n THEN n - 1 ELSE n
            kept == Walk!Only(s, Nat \ {at})
<1>1. P = (1..n) \ {at} /\ m \in Nat  BY DEF Identity
<1>2. IsFiniteSet(1..n) /\ Cardinality(1..n) = n  BY FS_Interval
<1>3. Cardinality(P) = m
  <2>1. Cardinality((1..n) \ {at}) = IF at \in 1..n THEN Cardinality(1..n) - 1
                                     ELSE Cardinality(1..n)
    BY <1>2, FS_RemoveElement
  <2>. HIDE DEF P
  <2>. QED  BY <1>1, <1>2, <2>1
<1>4. kept = [k \in 1..m |-> s[Walk!Nth(P, k)]]
  BY <1>3, WalkCardinality DEF Walk!Only
<1>5. ASSUME NEW k \in 1..m  PROVE Walk!Nth(P, k) = IF k < at THEN k ELSE k + 1
  <2>. DEFINE x == IF k < at THEN k ELSE k + 1
  <2>1. x \in P  BY <1>1
  <2>2. {j \in P : j <= x} = (1..x) \ {at} /\ x \in Nat  BY <1>1
  <2>3. IsFiniteSet(1..x) /\ Cardinality(1..x) = x  BY <2>2, FS_Interval
  <2>4. Rank(P, x) = k
    <3>1. Cardinality((1..x) \ {at}) = IF at \in 1..x THEN Cardinality(1..x) - 1
                                       ELSE Cardinality(1..x)
      BY <2>3, FS_RemoveElement
    <3>2. Rank(P, x) = Cardinality((1..x) \ {at})  BY <2>2 DEF Rank
    <3>. QED  BY <2>3, <3>1, <3>2
  <2>5. P \in SUBSET (1..n)  BY <1>1
  <2>. HIDE DEF P, x
  <2>6. x = Walk!Nth(P, k)  BY <1>3, <2>1, <2>4, <2>5, NthPlace
  <2>. QED  BY <2>6 DEF x
<1>6. \A k \in 1..m : kept[k] = IF k < at THEN k ELSE k + 1
  <2>1. \A k \in 1..m : (IF k < at THEN k ELSE k + 1) \in 1..n  OBVIOUS
  <2>. QED  BY <1>4, <1>5, <2>1 DEF Identity
<1>7. DOMAIN kept = 1..m  BY <1>4
<1>8. Walk!Without(s, at) = [j \in 1..m |-> IF kept[j] < at THEN kept[j] ELSE kept[j] - 1]
  BY <1>7 DEF Walk!Without
<1>9. \A j \in 1..m : (IF kept[j] < at THEN kept[j] ELSE kept[j] - 1) = j
  <2>. HIDE DEF kept
  <2>. QED  BY <1>1, <1>6
<1>. QED  BY <1>8, <1>9 DEF Identity

\* The indices that the code computes stay among the list's.
LEMMA SuccIs ==
    ASSUME NEW n \in Nat \ {0}, NEW i \in 1..n
    PROVE  Walk!Succ(i, n) = IF i = n THEN 1 ELSE i + 1
BY DEF Walk!Succ

LEMMA SuccType ==
    ASSUME NEW n \in Nat \ {0}, NEW i \in Nat
    PROVE  Walk!Succ(i, n) \in 1..n
BY DEF Walk!Succ

LEMMA WrapIn ==
    ASSUME NEW n \in Nat, NEW i \in Nat \ {0}
    PROVE  Walk!Wrap(i, n) \in Nat \ {0} /\ (n # 0 => Walk!Wrap(i, n) \in 1..n)
BY DEF Walk!Wrap

LEMMA StartIn ==
    ASSUME NEW n \in Nat, NEW g
    PROVE  Walk!Start(g, n) \in Nat \ {0} /\ (n # 0 => Walk!Start(g, n) \in 1..n)
BY DEF Walk!Start

\* The list that setup makes.
LEMMA FloorListIs ==
    ASSUME NEW cfg \in Configs
    PROVE  /\ Walk!FloorList(cfg) \in Seq(APs) /\ Apart(Walk!FloorList(cfg))
           /\ Walk!Range(Walk!FloorList(cfg)) \subseteq aps
<1>1. /\ Walk!OrderedRoute(cfg) \in Seq(APs) /\ Apart(Walk!OrderedRoute(cfg))
      /\ Walk!Range(Walk!OrderedRoute(cfg)) \subseteq aps
  <2>1. cfg.route \in Seq(APs) /\ Apart(cfg.route)  BY WalkAssumption
  <2>2. PICK o : o = Walk!Only(cfg.route, aps)  OBVIOUS
  <2>3. o \in Seq(APs) /\ Apart(o) /\ Walk!Range(o) = Walk!Range(cfg.route) \cap aps
    BY <2>1, <2>2, OnlyKeeps
  <2>. QED  BY <2>2, <2>3 DEF Walk!OrderedRoute
<1>2. /\ Walk!SortedAPs \in Seq(APs) /\ Apart(Walk!SortedAPs)
      /\ Walk!Range(Walk!SortedAPs) \subseteq aps
  <2>1. ByCoordinates \in Seq(APs) /\ Apart(ByCoordinates)  BY WalkAssumption
  <2>2. PICK o : o = Walk!Only(ByCoordinates, aps)  OBVIOUS
  <2>3. o \in Seq(APs) /\ Apart(o) /\ Walk!Range(o) = Walk!Range(ByCoordinates) \cap aps
    BY <2>1, <2>2, OnlyKeeps
  <2>. QED  BY <2>2, <2>3 DEF Walk!SortedAPs
<1>. QED  BY <1>1, <1>2 DEF Walk!FloorList

\* What remove_ap() leaves of the floor.
LEMMA FloorWithout ==
    ASSUME floor \in Seq(APs), Apart(floor), NEW ap \in Walk!Range(floor)
    PROVE  LET rest == Walk!Only(floor, APs \ {ap}) IN
           /\ rest \in Seq(APs) /\ Apart(rest) /\ Len(rest) = Len(floor) - 1
           /\ Walk!Range(rest) = Walk!Range(floor) \ {ap}
           /\ Walk!FirstIndex(ap) \in 1..Len(floor)
<1>1. PICK at \in DOMAIN floor : floor[at] = ap  BY DEF Walk!Range
<1>2. Len(floor) \in Nat /\ DOMAIN floor = 1..Len(floor) /\ \A i \in DOMAIN floor : floor[i] \in APs
  OBVIOUS
<1>3. {i \in DOMAIN floor : floor[i] \in APs \ {ap}} = (1..Len(floor)) \ {at}
  BY <1>1, <1>2 DEF Apart
<1>4. Cardinality((1..Len(floor)) \ {at}) = Len(floor) - 1
  <2>0. PICK n \in Nat : n = Len(floor)  BY <1>2
  <2>1. IsFiniteSet(1..Len(floor)) /\ Cardinality(1..Len(floor)) = Len(floor)
    <3>1. IsFiniteSet(1..n) /\ Cardinality(1..n) = n  BY FS_Interval
    <3>. QED  BY <2>0, <3>1
  <2>2. Cardinality((1..Len(floor)) \ {at}) = IF at \in 1..Len(floor)
              THEN Cardinality(1..Len(floor)) - 1 ELSE Cardinality(1..Len(floor))
    BY <2>1, FS_RemoveElement
  <2>. QED  BY <1>1, <1>2, <2>1, <2>2
<1>5. Walk!Range(floor) \cap (APs \ {ap}) = Walk!Range(floor) \ {ap}
  BY <1>2 DEF Walk!Range
<1>6. Walk!FirstIndex(ap) \in 1..Len(floor)
  <2>1. \A j \in 1..(at - 1) : floor[j] # ap
    <3>. SUFFICES ASSUME NEW j \in 1..(at - 1)  PROVE floor[j] # ap
      OBVIOUS
    <3>1. j \in DOMAIN floor /\ j # at  BY <1>1, <1>2
    <3>. QED  BY <1>1, <3>1 DEF Apart
  <2>. QED  BY <1>1, <1>2, <2>1 DEF Walk!FirstIndex
<1>. QED  BY <1>3, <1>4, <1>5, <1>6, OnlyKeeps

--------------------------------------------------------------------------------
(* The shape of the state: lists, indices and types.                       *)

LEMMA BeaconOf ==
    ASSUME Walk!TypeOK, NEW g \in Walk!Guards
    PROVE  /\ guard[g] \in Walk!Beacon
           /\ \A q \in Walk!Beacon : [guard EXCEPT ![g] = q] \in [Walk!Guards -> Walk!Beacon]
BY DEF Walk!TypeOK

LEMMA TurnsType ==
    /\ Len(Walk!Turns) \in Nat
    /\ \A i \in 1..Len(Walk!Turns) : Walk!Turns[i] \in Walk!Guards /\ Walk!Turns[i] \in Walk!Walkers
    /\ Walk!Walkers \subseteq Walk!Guards /\ OutSet \subseteq Walk!Walkers
    /\ Len(Segments) \in Nat \ {0}
<1>1. Outgoing \in Seq(Walk!Guards) /\ Incoming \in Seq(Walk!Guards)
      /\ Segments \in Seq([name : STRING, ticks : Nat]) /\ Segments # << >>
  BY WalkAssumption
<1>2. \A i \in 1..Len(Outgoing) : Outgoing[i] \in Walk!Range(Outgoing)
  BY <1>1 DEF Walk!Range
<1>3. \A i \in 1..Len(Incoming) : Incoming[i] \in Walk!Range(Incoming)
  BY <1>1 DEF Walk!Range
<1>4. Walk!Walkers \subseteq Walk!Guards /\ OutSet \subseteq Walk!Walkers
  BY DEF Walk!Walkers, Walk!Guards, OutSet
<1>5. Len(Segments) \in Nat \ {0}  BY <1>1
<1>6. Len(Walk!Turns) \in Nat /\ \A i \in 1..Len(Walk!Turns) : Walk!Turns[i] \in Walk!Walkers
  <2>1. CASE simulator = "shift"
    <3>1. Walk!Turns = Outgoing \o Incoming  BY <2>1 DEF Walk!Turns
    <3>2. \A i \in 1..Len(Walk!Turns) : \/ i \in 1..Len(Outgoing) /\ Walk!Turns[i] = Outgoing[i]
              \/ \E j \in 1..Len(Incoming) : Walk!Turns[i] = Incoming[j]
      <4>. SUFFICES ASSUME NEW i \in 1..Len(Walk!Turns), i \notin 1..Len(Outgoing)
                    PROVE  \E j \in 1..Len(Incoming) : Walk!Turns[i] = Incoming[j]
        BY <1>1, <3>1
      <4>1. i - Len(Outgoing) \in 1..Len(Incoming) /\ Walk!Turns[i] = Incoming[i - Len(Outgoing)]
        BY <1>1, <3>1
      <4>. QED  BY <4>1
    <3>3. Len(Walk!Turns) \in Nat  BY <1>1, <3>1
    <3>. QED  BY <1>2, <1>3, <2>1, <3>2, <3>3 DEF Walk!Walkers
  <2>2. CASE simulator # "shift"
    <3>1. Walk!Turns = Outgoing  BY <1>1, <2>2 DEF Walk!Turns
    <3>. QED  BY <1>1, <1>2, <3>1 DEF Walk!Walkers
  <2>. QED  BY <2>1, <2>2
<1>. QED  BY <1>4, <1>5, <1>6

LEMMA IdentityType ==
    ASSUME NEW n \in Nat
    PROVE  Identity(n) \in Seq(Nat \ {0}) /\ Len(Identity(n)) = n
           /\ \A i \in 1..n : Identity(n)[i] = i
BY DEF Identity

\* Where a guard looks there is an AP.
LEMMA Looks ==
    ASSUME WalkShape, NEW g \in Walk!Guards, Walk!CanLook(g)
    PROVE  /\ Walk!At(g) \in 1..Listed(g) /\ Walk!At(g) \in DOMAIN floor
           /\ Walk!Here(g) = floor[Walk!At(g)] /\ Walk!Here(g) \in APs
<1>1. guard[g].order = [i \in 1..Listed(g) |-> i] /\ floor \in Seq(APs)
  BY DEF WalkShape, Ordered, Walk!TypeOK
<1>2. Walk!At(g) \in 1..Listed(g) /\ guard[g].order[Walk!At(g)] = Walk!At(g)
  BY <1>1 DEF Walk!CanLook
<1>. QED  BY <1>1, <1>2 DEF Walk!CanLook, Walk!Here

LEMMA ShapeInit == Walk!Init => WalkShape
<1>. SUFFICES ASSUME Walk!Init  PROVE WalkShape
  OBVIOUS
<1>. DEFINE still == [order |-> << >>, cur |-> 1, start |-> 1,
                      state |-> "moving", count |-> 0, frozen |-> FALSE]
<1>1. still \in Walk!Beacon /\ still.order = [i \in 1..Len(still.order) |-> i]
  BY DEF Walk!Beacon
<1>2. guard = [g \in Walk!Guards |-> still]  BY DEF Walk!Init
<1>3. guard \in [Walk!Guards -> Walk!Beacon]
      /\ \A g \in Walk!Guards : guard[g].order = [i \in 1..Listed(g) |-> i]
  <2>. HIDE DEF still
  <2>. QED  BY <1>1, <1>2 DEF Listed
<1>4. aps \subseteq APs  BY WalkAssumption DEF Walk!Init
<1>5. /\ raised \in [Walk!Alerts -> 0..2] /\ 1 \in 1..Len(Segments)
      /\ turn \in 0..(Len(Walk!Turns) + 1)
  BY TurnsType DEF Walk!Init
<1>6. /\ seen \in [Walk!Guards -> SUBSET APs]
      /\ lastLoop \in [Walk!Guards -> (SUBSET APs) \cup {None}]
  BY DEF Walk!Init
<1>7. floor \in Seq(APs) /\ Apart(floor)  BY DEF Walk!Init, Apart
<1>8. /\ seg \in 1..Len(Segments) /\ turn \in 0..(Len(Walk!Turns) + 1)
      /\ raised \in [Walk!Alerts -> 0..2]
  BY <1>5 DEF Walk!Init
<1>9. Walk!TypeOK  BY <1>3, <1>4, <1>6, <1>7, <1>8 DEF Walk!Init, Walk!TypeOK
<1>. QED  BY <1>3, <1>7, <1>9 DEF Walk!Init, WalkShape, Lists, Ordered, AdvInTurn

LEMMA OneGuard ==
    ASSUME WalkShape, NEW g \in Walk!Guards, NEW q \in Walk!Beacon,
           q.order = [i \in 1..Len(q.order) |-> i], guard' = [guard EXCEPT ![g] = q]
    PROVE  guard' \in [Walk!Guards -> Walk!Beacon] /\ Ordered'
BY DEF WalkShape, Walk!TypeOK, Ordered, Listed

\* What remove_ap() does to a guard's beacon.
LEMMA Shortened ==
    ASSUME WalkShape, NEW g \in Walk!Guards, Walk!RemovesFromGuard(g)
    PROVE  \E q \in Walk!Beacon : \E m \in Nat :
             /\ m = IF removing.at <= Listed(g) THEN Listed(g) - 1 ELSE Listed(g)
             /\ guard' = [guard EXCEPT ![g] = q]
             /\ q.order = [i \in 1..m |-> i] /\ Len(q.order) = m
             /\ m # 0 => q.cur \in 1..m
             /\ q.state = guard[g].state /\ q.frozen = guard[g].frozen
             /\ simulator = "patrol" => q.count = 0
<1>1. guard \in [Walk!Guards -> Walk!Beacon] /\ guard[g] \in Walk!Beacon
      /\ guard[g].order = [i \in 1..Listed(g) |-> i] /\ Listed(g) \in Nat
  BY DEF WalkShape, Walk!TypeOK, Ordered, Listed, Walk!Beacon
<1>2. removing # None /\ removing.at \in Nat \ {0}
  BY DEF Walk!RemovesFromGuard, WalkShape, Walk!TypeOK
<1>3. PICK m \in Nat : m = IF removing.at <= Listed(g) THEN Listed(g) - 1 ELSE Listed(g)
  BY <1>1, <1>2
<1>4. PICK n \in Nat : n = Listed(g)  BY <1>1
<1>5. PICK at \in Nat \ {0} : at = removing.at  BY <1>2
<1>6. PICK o : o = Walk!Without(guard[g].order, removing.at)  OBVIOUS
<1>7. o = Identity(m)  BY <1>1, <1>3, <1>4, <1>5, <1>6, WithoutOne DEF Identity
<1>8. o \in Seq(Nat \ {0}) /\ Len(o) = m  BY <1>7, IdentityType
<1>9. PICK cur : cur = Walk!Wrap(guard[g].cur, m)  OBVIOUS
<1>10. cur \in Nat \ {0} /\ (m # 0 => cur \in 1..m)
  <2>1. PICK i \in Nat \ {0} : i = guard[g].cur  BY <1>1 DEF Walk!Beacon
  <2>. QED  BY <1>9, <2>1, WrapIn
<1>11. PICK start : start = IF simulator = "patrol" THEN Walk!Wrap(guard[g].start, m)
                            ELSE guard[g].start
  OBVIOUS
<1>12. start \in Nat \ {0}
  <2>1. PICK i \in Nat \ {0} : i = guard[g].start  BY <1>1 DEF Walk!Beacon
  <2>2. Walk!Wrap(i, m) \in Nat \ {0}  BY WrapIn
  <2>. QED  BY <1>11, <2>1, <2>2
<1>13. PICK k \in Nat : k = IF simulator = "patrol" THEN 0 ELSE guard[g].count
  BY <1>1 DEF Walk!Beacon
<1>14. PICK q : q = [guard[g] EXCEPT !.order = o, !.cur = cur, !.start = start, !.count = k]
  OBVIOUS
<1>15. guard' = [guard EXCEPT ![g] = q]
  BY <1>1, <1>6, <1>8, <1>9, <1>11, <1>13, <1>14 DEF Walk!RemovesFromGuard, Walk!NewCount
<1>16. q \in Walk!Beacon  BY <1>1, <1>8, <1>10, <1>12, <1>14 DEF Walk!Beacon
<1>17. /\ q.order = o /\ q.cur = cur /\ q.state = guard[g].state /\ q.frozen = guard[g].frozen
       /\ q.count = k
  BY <1>1, <1>14 DEF Walk!Beacon
<1>. QED  BY <1>3, <1>7, <1>8, <1>10, <1>13, <1>15, <1>16, <1>17 DEF Identity

\* Each step keeps the lists apart, the guards' lists without a gap and every type.
LEMMA ShapeNext ==
    ASSUME WalkShape, AlertsAreMarked', Walk!Next
    PROVE  WalkShape'
<1>. USE DEF Walk!walkVars, Walk!scriptVars, Walk!apVars
<1>0. raised' \in [Walk!Alerts -> 0..2]
  <2>1. raised' \in [Walk!Alerts -> 0..1]  BY DEF AlertsAreMarked
  <2>. QED  BY <2>1
<1>t. Walk!TypeOK /\ Lists /\ Ordered /\ AdvInTurn  BY DEF WalkShape
<1>. HIDE DEF Ordered
<1>o. UNCHANGED guard => Ordered'  BY <1>t DEF Ordered, Listed
<1>l. UNCHANGED <<floor, read, run>> => Lists'  BY <1>t DEF Lists, Apart
<1>1. ASSUME NEW cfg \in Configs, Walk!SetupReads(cfg)  PROVE WalkShape'
  <2>1. Walk!FloorList(cfg) \in Seq(APs) /\ Apart(Walk!FloorList(cfg))  BY FloorListIs
  <2>2. read' # None /\ read' \in Seq(APs) /\ Apart(read')
    BY <1>1, <2>1, WalkAssumption DEF Walk!SetupReads
  <2>3. Lists'
    BY <1>1, <1>t, <2>2 DEF Walk!SetupReads, Lists, Apart
  <2>4. Walk!TypeOK'
    BY <1>0, <1>1, <1>t, <2>2 DEF Walk!SetupReads, Walk!TypeOK, Walk!Turns
  <2>5. AdvInTurn'  BY <1>1, <1>t DEF Walk!SetupReads, AdvInTurn, Walk!Turns
  <2>. QED  BY <1>1, <1>o, <2>3, <2>4, <2>5 DEF Walk!SetupReads, WalkShape
<1>2. CASE Walk!SetupReturns \/ Walk!Stop \/ Walk!BreaksDown
  <2>1. Walk!TypeOK'
    <3>1. /\ UNCHANGED <<simulator, read, floor, guard, adv, complete, triggered, seen, lastLoop>>
          /\ UNCHANGED <<seg, tick, fired, aps, removing, torn, raced, unheard>>
          /\ turn' \in {turn, 0} /\ run' \in {run, "stopped"}
      BY <1>2 DEF Walk!SetupReturns, Walk!Stop, Walk!BreaksDown, Walk!Dies, Walk!vars
    <3>. QED  BY <1>0, <1>t, <3>1, TurnsType DEF Walk!TypeOK, Walk!Turns
  <2>2. Lists' /\ AdvInTurn'
    BY <1>2, <1>t, TurnsType DEF Walk!SetupReturns, Walk!Stop, Walk!BreaksDown, Walk!Dies,
       Walk!vars, Lists, AdvInTurn, Walk!Turns, Apart
  <2>. QED
    BY <1>2, <1>o, <2>1, <2>2 DEF Walk!SetupReturns, Walk!Stop, Walk!BreaksDown, Walk!Dies,
       Walk!vars, WalkShape
<1>3. CASE Walk!SetupStores
  <2>1. read # None /\ read \in Seq(APs) /\ Apart(read)
    BY <1>3, <1>t DEF Walk!SetupStores, Walk!TypeOK, Lists
  <2>2. PICK n \in Nat : n = Len(read)  BY <2>1
  <2>3. ASSUME NEW g \in Walk!Guards
        PROVE  Walk!Placed(g, n) \in Walk!Beacon
               /\ Walk!Placed(g, n).order = [i \in 1..Len(Walk!Placed(g, n).order) |-> i]
    <3>1. Walk!Placed(g, n).order = Identity(n)  BY DEF Walk!Placed, Identity
    <3>2. Walk!Start(g, n) \in Nat \ {0}  BY StartIn
    <3>3. guard[g].state \in {"moving", "wandering"}  BY BeaconOf, <1>t DEF Walk!Beacon
    <3>4. Walk!Placed(g, n) \in Walk!Beacon
      BY <3>1, <3>2, <3>3, IdentityType DEF Walk!Placed, Walk!Beacon
    <3>. QED  BY <3>1, <3>4, IdentityType DEF Identity
  <2>4. guard' = [g \in Walk!Guards |-> IF g \in Walk!Walkers THEN Walk!Placed(g, n)
                                        ELSE guard[g]]
    BY <1>3, <2>2 DEF Walk!SetupStores
  <2>5. guard' \in [Walk!Guards -> Walk!Beacon]  BY <2>3, <2>4, <1>t, BeaconOf
  <2>6. Ordered'  BY <2>3, <2>4, <1>t DEF Ordered, Listed
  <2>7. /\ seen' \in [Walk!Guards -> SUBSET APs]
        /\ lastLoop' \in [Walk!Guards -> (SUBSET APs) \cup {None}]
        /\ raced' \subseteq Walk!Guards
    BY <1>3, <1>t DEF Walk!SetupStores, Walk!TypeOK
  <2>8. Walk!TypeOK'
    <3>1. /\ run' = "running" /\ floor' = read /\ read' = None /\ complete' = {}
          /\ triggered' = FALSE /\ seg' = 1 /\ tick' = 0 /\ fired' = {}
          /\ turn' = 0 /\ adv' = None /\ torn' = {}
          /\ UNCHANGED <<simulator, aps, removing, unheard>>
      BY <1>3 DEF Walk!SetupStores, Walk!NewShift, Walk!NewScript
    <3>2. 1 \in 1..Len(Segments) /\ 0 \in 0..(Len(Walk!Turns) + 1)  BY TurnsType
    <3>. QED  BY <1>0, <1>t, <2>1, <2>5, <2>7, <3>1, <3>2 DEF Walk!TypeOK, Walk!Turns
  <2>9. Lists' /\ AdvInTurn'
    BY <1>3, <2>1 DEF Walk!SetupStores, Lists, AdvInTurn, Apart
  <2>. QED  BY <2>6, <2>8, <2>9 DEF WalkShape
<1>4. CASE Walk!BeginTick
  <2>1. ASSUME NEW g \in Walk!Guards
        PROVE  Walk!Reset(g) \in Walk!Beacon /\ Walk!Reset(g).order = guard[g].order
    <3>1. guard[g] \in Walk!Beacon /\ Walk!Start(g, Len(floor)) \in Nat \ {0}
      BY <1>t, BeaconOf, StartIn DEF Walk!TypeOK
    <3>. QED  BY <3>1 DEF Walk!Reset, Walk!Beacon
  <2>2. guard' \in [Walk!Guards -> Walk!Beacon] /\ Ordered'
    <3>1. CASE guard' = [g \in Walk!Guards |-> Walk!Reset(g)]
      BY <1>t, <2>1, <3>1 DEF Ordered, Listed
    <3>. QED  BY <1>4, <1>o, <1>t, <3>1 DEF Walk!BeginTick, Walk!TypeOK
  <2>3. /\ UNCHANGED <<simulator, run, read, floor, adv, complete, triggered, seen, lastLoop>>
        /\ UNCHANGED <<aps, removing, torn, raced, unheard>>
        /\ turn = 0 /\ turn' = 1
    BY <1>4 DEF Walk!BeginTick
  <2>4. seg' \in 1..Len(Segments) /\ tick' \in Nat /\ fired' \subseteq {"event", "seeded"}
    <3>1. Walk!Succ(seg, Len(Segments)) \in 1..Len(Segments)
      BY <1>t, SuccType, TurnsType DEF Walk!TypeOK
    <3>2. \/ seg' = Walk!Succ(seg, Len(Segments)) /\ tick' = 0 /\ fired' = {}
          \/ UNCHANGED <<seg, tick, fired>>
      BY <1>4 DEF Walk!BeginTick
    <3>3. seg \in 1..Len(Segments) /\ tick \in Nat /\ fired \subseteq {"event", "seeded"}
      BY <1>t DEF Walk!TypeOK
    <3>4. CASE seg' = Walk!Succ(seg, Len(Segments)) /\ tick' = 0 /\ fired' = {}
      BY <3>1, <3>4
    <3>5. CASE seg' = seg /\ tick' = tick /\ fired' = fired
      BY <3>3, <3>5
    <3>. QED  BY <3>2, <3>4, <3>5
  <2>5. Walk!TypeOK'
    BY <1>0, <1>t, <2>2, <2>3, <2>4, TurnsType DEF Walk!TypeOK, Walk!Turns
  <2>6. AdvInTurn'  BY <1>t, <2>3, TurnsType DEF AdvInTurn
  <2>. QED  BY <1>l, <2>2, <2>3, <2>5, <2>6 DEF WalkShape
<1>5. CASE Walk!EndTick
  <2>1. tick' \in Nat /\ fired' \subseteq {"event", "seeded"}
    <3>1. tick \in Nat /\ fired \subseteq {"event", "seeded"}  BY <1>t DEF Walk!TypeOK
    <3>2. tick' \in {tick, tick + 1} /\ fired' \in {fired, fired \cup {"seeded"}}
      BY <1>5 DEF Walk!EndTick
    <3>3. tick' \in Nat  BY <3>1, <3>2
    <3>4. fired' \subseteq {"event", "seeded"}  BY <3>1, <3>2
    <3>. QED  BY <3>3, <3>4
  <2>2. UNCHANGED <<seg, simulator, run, read, floor, guard, adv, complete, triggered, seen,
                    lastLoop, aps, removing, torn, raced, unheard>> /\ turn' = 0
        /\ turn > Len(Walk!Turns)
    BY <1>5 DEF Walk!EndTick
  <2>3. Walk!TypeOK'  BY <1>0, <1>t, <2>1, <2>2, TurnsType DEF Walk!TypeOK, Walk!Turns
  <2>4. AdvInTurn'  BY <1>t, <2>2, TurnsType DEF AdvInTurn, Walk!TypeOK
  <2>. QED  BY <1>o, <1>l, <2>2, <2>3, <2>4 DEF WalkShape
\* A guard's turn ends: what it did apart, the next one begins.
<1>n. ASSUME turn \in 1..Len(Walk!Turns), Walk!NextTurn,
             adv' = None, Ordered', guard' \in [Walk!Guards -> Walk!Beacon],
             seen' \in [Walk!Guards -> SUBSET APs],
             lastLoop' \in [Walk!Guards -> (SUBSET APs) \cup {None}],
             fired' \subseteq {"event", "seeded"}, UNCHANGED <<complete, triggered, seg, tick>>
      PROVE  WalkShape'
  <2>1. Walk!TypeOK'  BY <1>0, <1>n, <1>t, TurnsType DEF Walk!NextTurn, Walk!TypeOK, Walk!Turns
  <2>. QED  BY <1>l, <1>n, <2>1 DEF Walk!NextTurn, AdvInTurn, WalkShape
<1>g. guard \in [Walk!Guards -> Walk!Beacon] /\ seen \in [Walk!Guards -> SUBSET APs]
      /\ lastLoop \in [Walk!Guards -> (SUBSET APs) \cup {None}]
      /\ fired \subseteq {"event", "seeded"}
  BY <1>t DEF Walk!TypeOK
<1>e. simulator = "events" => adv = None  BY <1>t DEF AdvInTurn
<1>6. CASE Walk!StandsStill
  <2>1. fired' \subseteq {"event", "seeded"}
    BY <1>6, <1>g DEF Walk!StandsStill, Walk!Raises
  <2>. QED
    BY <1>6, <1>e, <1>g, <1>n, <1>o, <2>1 DEF Walk!StandsStill, Walk!Ticks
<1>7. ASSUME NEW g \in Walk!Guards, Walk!Acts(g)  PROVE WalkShape'
  <2>0. guard[g] \in Walk!Beacon /\ guard[g].order = [i \in 1..Listed(g) |-> i]
    BY <1>g, <1>t DEF Ordered
  <2>1. \/ UNCHANGED guard
        \/ \E q \in Walk!Beacon : q.order = guard[g].order /\ guard' = [guard EXCEPT ![g] = q]
    <3>1. CASE guard' = [guard EXCEPT ![g].state = "wandering"]
      <4>1. [guard[g] EXCEPT !.state = "wandering"] \in Walk!Beacon
            /\ [guard[g] EXCEPT !.state = "wandering"].order = guard[g].order
        BY <2>0 DEF Walk!Beacon
      <4>2. guard' = [guard EXCEPT ![g] = [guard[g] EXCEPT !.state = "wandering"]]
        BY <3>1, <1>g
      <4>. QED  BY <4>1, <4>2
    <3>2. CASE guard' = [guard EXCEPT ![g].state = "moving", ![g].cur = @ + 1]
      <4>0. PICK i \in Nat \ {0} : i = guard[g].cur + 1  BY <2>0 DEF Walk!Beacon
      <4>1. PICK q : q = [guard[g] EXCEPT !.state = "moving", !.cur = i]  OBVIOUS
      <4>2. q \in Walk!Beacon /\ q.order = guard[g].order  BY <2>0, <4>1 DEF Walk!Beacon
      <4>3. guard' = [guard EXCEPT ![g] = q]  BY <3>2, <1>g, <4>0, <4>1
      <4>. QED  BY <4>2, <4>3
    <3>3. CASE guard' = [guard EXCEPT ![g].cur = @ + 1]
      <4>0. PICK i \in Nat \ {0} : i = guard[g].cur + 1  BY <2>0 DEF Walk!Beacon
      <4>1. PICK q : q = [guard[g] EXCEPT !.cur = i]  OBVIOUS
      <4>2. q \in Walk!Beacon /\ q.order = guard[g].order  BY <2>0, <4>1 DEF Walk!Beacon
      <4>3. guard' = [guard EXCEPT ![g] = q]  BY <3>3, <1>g, <4>0, <4>1
      <4>. QED  BY <4>2, <4>3
    <3>. QED  BY <1>7, <3>1, <3>2, <3>3 DEF Walk!Acts, Walk!Strolls
  <2>2. guard' \in [Walk!Guards -> Walk!Beacon] /\ Ordered'
    BY <1>g, <1>o, <2>0, <2>1, OneGuard DEF Listed
  <2>3. fired' \subseteq {"event", "seeded"}
    BY <1>7, <1>g DEF Walk!Acts, Walk!Strolls, Walk!Raises
  <2>. QED  BY <1>7, <1>e, <1>g, <1>n, <2>2, <2>3 DEF Walk!Acts, Walk!Ticks
<1>8. ASSUME NEW g \in Walk!Guards, Walk!Skips(g)  PROVE WalkShape'
  BY <1>8, <1>g, <1>n, <1>o DEF Walk!Skips, Walk!Ticks
<1>9. ASSUME NEW g \in Walk!Guards, Walk!Fails(g)  PROVE WalkShape'
  <2>1. PICK q : q = [guard[g] EXCEPT !.state = "moving"]  OBVIOUS
  <2>2. guard[g] \in Walk!Beacon /\ guard[g].order = [i \in 1..Listed(g) |-> i]
    BY <1>g, <1>t DEF Ordered
  <2>3. q \in Walk!Beacon /\ q.order = guard[g].order  BY <2>1, <2>2 DEF Walk!Beacon
  <2>4. guard' = [guard EXCEPT ![g] = q]  BY <1>9, <1>g, <2>1 DEF Walk!Fails
  <2>5. guard' \in [Walk!Guards -> Walk!Beacon] /\ Ordered'
    BY <2>2, <2>3, <2>4, OneGuard DEF Listed
  <2>. QED  BY <1>9, <1>g, <1>n, <2>5 DEF Walk!Fails, Walk!Ticks
<1>10. ASSUME NEW g \in Walk!Guards, Walk!Walks(g)  PROVE WalkShape'
  <2>1. PICK q : q = [guard[g] EXCEPT !.state = "wandering"]  OBVIOUS
  <2>2. guard[g] \in Walk!Beacon /\ guard[g].order = [i \in 1..Listed(g) |-> i]
    BY <1>g, <1>t DEF Ordered
  <2>3. q \in Walk!Beacon /\ q.order = guard[g].order  BY <2>1, <2>2 DEF Walk!Beacon
  <2>4. UNCHANGED guard \/ guard' = [guard EXCEPT ![g] = q]  BY <1>10, <1>g, <2>1 DEF Walk!Walks
  <2>5. guard' \in [Walk!Guards -> Walk!Beacon] /\ Ordered'
    BY <1>g, <1>o, <2>2, <2>3, <2>4, OneGuard DEF Listed
  <2>6. Walk!Here(g) \in APs  BY <1>10, Looks DEF Walk!Walks
  <2>7. seen' \in [Walk!Guards -> SUBSET APs]
        /\ lastLoop' \in [Walk!Guards -> (SUBSET APs) \cup {None}]
    BY <1>10, <1>g, <2>6 DEF Walk!Walks
  <2>. QED  BY <1>10, <1>g, <1>n, <2>5, <2>7 DEF Walk!Walks, Walk!Ticks
<1>11. ASSUME NEW g \in Walk!Guards, Walk!Advances(g)  PROVE WalkShape'
  <2>1. guard[g] \in Walk!Beacon /\ guard[g].order = [i \in 1..Listed(g) |-> i]
    BY <1>g, <1>t DEF Ordered
  <2>2. PICK n \in Nat \ {0} : n = Listed(g)
    <3>1. Listed(g) \in Nat  BY <2>1 DEF Walk!Beacon, Listed
    <3>. QED  BY <1>11, <3>1, Looks DEF Walk!Advances
  <2>3. PICK next \in Nat \ {0} : next = Walk!Succ(guard[g].cur, n)
    <3>1. PICK i \in Nat : i = guard[g].cur  BY <2>1 DEF Walk!Beacon
    <3>2. Walk!Succ(i, n) \in 1..n  BY SuccType
    <3>. QED  BY <3>1, <3>2
  <2>4. adv' = [next |-> next, whole |-> guard[g].count + 1 >= n /\ next = guard[g].start]
    BY <1>11, <2>2, <2>3 DEF Walk!Advances, Listed
  <2>5. adv' \in [next : Nat \ {0}, whole : BOOLEAN] \cup {None}  BY <2>4
  <2>6. PICK k \in Nat : k = guard[g].count + 1  BY <2>1 DEF Walk!Beacon
  <2>7. PICK q : q = [guard[g] EXCEPT !.count = k]  OBVIOUS
  <2>8. q \in Walk!Beacon /\ q.order = guard[g].order  BY <2>1, <2>7 DEF Walk!Beacon
  <2>9. guard' = [guard EXCEPT ![g] = q]  BY <1>11, <1>g, <2>6, <2>7 DEF Walk!Advances
  <2>10. guard' \in [Walk!Guards -> Walk!Beacon] /\ Ordered'
    BY <2>1, <2>8, <2>9, OneGuard DEF Listed
  <2>11. /\ UNCHANGED <<simulator, run, read, floor, turn, complete, triggered, seen, lastLoop>>
         /\ UNCHANGED <<seg, tick, fired, aps, removing, torn, raced, unheard>>
         /\ run = "running" /\ turn \in 1..Len(Walk!Turns) /\ simulator # "events"
    BY <1>11 DEF Walk!Advances, Walk!Ticks
  <2>12. Walk!TypeOK'  BY <1>0, <1>t, <2>5, <2>10, <2>11 DEF Walk!TypeOK, Walk!Turns
  <2>13. AdvInTurn'  BY <2>11 DEF AdvInTurn, Walk!Turns
  <2>. QED  BY <1>l, <2>10, <2>11, <2>12, <2>13 DEF WalkShape
<1>12. ASSUME NEW g \in Walk!Guards, Walk!Advanced(g)  PROVE WalkShape'
  <2>1. guard[g] \in Walk!Beacon /\ guard[g].order = [i \in 1..Listed(g) |-> i]
    BY <1>g, <1>t DEF Ordered
  <2>2. adv.next \in Nat \ {0} /\ adv.whole \in BOOLEAN /\ Walk!Freezes(g) \in BOOLEAN
    BY <1>12, <1>t DEF Walk!Advanced, Walk!TypeOK, Walk!Freezes
  <2>3. PICK k \in Nat : k = IF adv.whole THEN 0 ELSE guard[g].count
    BY <2>1 DEF Walk!Beacon
  <2>4. PICK q : q = [guard[g] EXCEPT !.cur = adv.next, !.state = "moving", !.count = k,
                                     !.frozen = Walk!Freezes(g)]
    OBVIOUS
  <2>5. q \in Walk!Beacon /\ q.order = guard[g].order  BY <2>1, <2>2, <2>4 DEF Walk!Beacon
  <2>6. guard' = [guard EXCEPT ![g] = q]  BY <1>12, <1>g, <2>3, <2>4 DEF Walk!Advanced
  <2>7. guard' \in [Walk!Guards -> Walk!Beacon] /\ Ordered'
    BY <2>1, <2>5, <2>6, OneGuard DEF Listed
  <2>8. seen' \in [Walk!Guards -> SUBSET APs]
        /\ lastLoop' \in [Walk!Guards -> (SUBSET APs) \cup {None}]
    BY <1>12, <1>g DEF Walk!Advanced
  <2>9. complete' \subseteq OutSet /\ triggered' \in BOOLEAN
    BY <1>12, <1>t DEF Walk!Advanced, Walk!Freezes, Walk!TypeOK, OutSet
  <2>10. /\ UNCHANGED <<simulator, run, read, floor>>
         /\ UNCHANGED <<seg, tick, fired, aps, removing, raced, unheard>>
         /\ turn \in 1..Len(Walk!Turns) /\ turn' = turn + 1 /\ adv' = None /\ torn' \subseteq torn
    BY <1>12 DEF Walk!Advanced, Walk!Ticks
  <2>11. turn' \in 0..(Len(Walk!Turns) + 1)  BY <2>10, TurnsType
  <2>12. Walk!TypeOK'
    BY <1>0, <1>t, <2>7, <2>8, <2>9, <2>10, <2>11 DEF Walk!TypeOK, Walk!Turns, OutSet
  <2>13. AdvInTurn'  BY <2>10 DEF AdvInTurn
  <2>. QED  BY <1>l, <2>7, <2>10, <2>12, <2>13 DEF WalkShape
<1>13. ASSUME NEW g \in Walk!Guards, Walk!ActingFails(g)  PROVE WalkShape'
  <2>1. /\ UNCHANGED <<simulator, read, floor, guard, adv, complete, triggered, seen, lastLoop>>
        /\ UNCHANGED <<seg, tick, fired, aps, removing, torn, raced, unheard>>
        /\ turn' = 0 /\ run' = "stopped" /\ simulator = "events"
    BY <1>13 DEF Walk!ActingFails, Walk!Dies, Walk!Ticks
  <2>2. Walk!TypeOK'  BY <1>0, <1>t, <2>1, TurnsType DEF Walk!TypeOK, Walk!Turns
  <2>3. Lists' /\ AdvInTurn'  BY <1>t, <2>1 DEF Lists, AdvInTurn, Apart
  <2>. QED  BY <1>o, <2>1, <2>2, <2>3 DEF WalkShape
<1>14. ASSUME NEW g \in Walk!Guards, Walk!RemovesFromGuard(g)  PROVE WalkShape'
  <2>1. PICK q \in Walk!Beacon, m \in Nat : /\ guard' = [guard EXCEPT ![g] = q]
            /\ q.order = [i \in 1..m |-> i] /\ Len(q.order) = m
    BY <1>14, Shortened
  <2>2. guard' \in [Walk!Guards -> Walk!Beacon] /\ Ordered'  BY <2>1, OneGuard
  <2>3. removing # None /\ removing \in [ap : APs, at : Nat, left : SUBSET Walk!Guards]
    BY <1>14, <1>t DEF Walk!RemovesFromGuard, Walk!TypeOK
  <2>4. removing' \in [ap : APs, at : Nat, left : SUBSET Walk!Guards] \cup {None}
    <3>1. [removing EXCEPT !.left = @ \ {g}] \in [ap : APs, at : Nat, left : SUBSET Walk!Guards]
      BY <2>3
    <3>. QED  BY <1>14, <3>1 DEF Walk!RemovesFromGuard
  <2>5. torn' \subseteq Walk!Guards /\ raced' \subseteq Walk!Guards
    BY <1>14, <1>t DEF Walk!RemovesFromGuard, Walk!TypeOK
  <2>6. /\ UNCHANGED <<simulator, run, read, floor, turn, adv, complete, triggered, seen>>
        /\ UNCHANGED <<lastLoop, seg, tick, fired, aps, unheard>>
    BY <1>14 DEF Walk!RemovesFromGuard
  <2>7. Walk!TypeOK'  BY <1>0, <1>t, <2>2, <2>4, <2>5, <2>6 DEF Walk!TypeOK, Walk!Turns
  <2>8. AdvInTurn'  BY <1>t, <2>6 DEF AdvInTurn, Walk!Turns
  <2>. QED  BY <1>l, <2>2, <2>6, <2>7, <2>8 DEF WalkShape
<1>15. ASSUME NEW ap \in Deletable, Walk!Deletes(ap)  PROVE WalkShape'
  <2>1. ap \in APs  BY WalkAssumption
  <2>2. /\ UNCHANGED <<simulator, run, read, floor, guard, turn, adv, complete, triggered>>
        /\ UNCHANGED <<seen, lastLoop, seg, tick, fired, torn, raced, unheard>>
        /\ aps' \subseteq aps /\ removing' = [ap |-> ap, at |-> 0, left |-> {}]
    BY <1>15 DEF Walk!Deletes
  <2>3. removing' \in [ap : APs, at : Nat, left : SUBSET Walk!Guards]  BY <2>1, <2>2
  <2>4. Walk!TypeOK'  BY <1>0, <1>t, <2>2, <2>3 DEF Walk!TypeOK, Walk!Turns
  <2>5. AdvInTurn'  BY <1>t, <2>2 DEF AdvInTurn, Walk!Turns
  <2>. QED  BY <1>l, <1>o, <2>2, <2>4, <2>5 DEF WalkShape
<1>16. CASE Walk!RemovesFromFloor
  <2>1. /\ UNCHANGED <<simulator, run, read, guard, turn, adv, complete, triggered>>
        /\ UNCHANGED <<seen, lastLoop, seg, tick, fired, aps, torn, raced>>
    BY <1>16 DEF Walk!RemovesFromFloor
  <2>2. removing # None /\ removing.ap \in APs /\ unheard' \subseteq APs
    BY <1>16, <1>t DEF Walk!RemovesFromFloor, Walk!TypeOK
  <2>3. /\ floor' \in Seq(APs) /\ Apart(floor)'
        /\ removing' \in [ap : APs, at : Nat, left : SUBSET Walk!Guards] \cup {None}
    <3>1. CASE UNCHANGED floor /\ removing' = None  BY <3>1, <1>t DEF Walk!TypeOK, Lists, Apart
    <3>2. CASE /\ floor' = Walk!Only(floor, APs \ {removing.ap})
               /\ removing' = [removing EXCEPT !.at = Walk!FirstIndex(removing.ap),
                                               !.left = OutSet]
               /\ removing.ap \in Walk!Range(floor)
      <4>1. PICK rest : rest = Walk!Only(floor, APs \ {removing.ap})  OBVIOUS
      <4>2. rest \in Seq(APs) /\ Apart(rest) /\ Walk!FirstIndex(removing.ap) \in 1..Len(floor)
        BY <1>t, <3>2, <4>1, FloorWithout DEF Walk!TypeOK, Lists
      <4>3. OutSet \subseteq Walk!Guards /\ Len(floor) \in Nat
        BY <1>t DEF OutSet, Walk!Guards, Walk!TypeOK
      <4>4. Walk!FirstIndex(removing.ap) \in Nat  BY <4>2, <4>3
      <4>5. removing' \in [ap : APs, at : Nat, left : SUBSET Walk!Guards]
        BY <1>t, <2>2, <3>2, <4>3, <4>4 DEF Walk!TypeOK
      <4>6. floor' = rest  BY <3>2, <4>1
      <4>. QED  BY <4>2, <4>5, <4>6 DEF Apart
    <3>. QED  BY <1>16, <3>1, <3>2 DEF Walk!RemovesFromFloor, OutSet
  <2>4. Walk!TypeOK'  BY <1>0, <1>t, <2>1, <2>2, <2>3 DEF Walk!TypeOK, Walk!Turns
  <2>5. Lists' /\ AdvInTurn'  BY <1>t, <2>1, <2>3 DEF Lists, AdvInTurn, Walk!Turns, Apart
  <2>. QED  BY <1>o, <2>1, <2>4, <2>5 DEF WalkShape
<1>. QED
  BY <1>1, <1>2, <1>3, <1>4, <1>5, <1>6, <1>7, <1>8, <1>9, <1>10, <1>11, <1>12, <1>13,
     <1>14, <1>15, <1>16 DEF Walk!Next, Walk!GuardStep

--------------------------------------------------------------------------------
(* The walk under removals.                                                *)

\* The steps that leave the lists, the walk and what is told of it as they are.
Aside(g) ==
    \/ Walk!Skips(g) \/ Walk!Fails(g) \/ Walk!Acts(g) \/ Walk!ActingFails(g)
Stays ==
    \/ \E cfg \in Configs : Walk!SetupReads(cfg)
    \/ Walk!SetupReturns \/ Walk!Stop \/ Walk!BreaksDown \/ Walk!BeginTick \/ Walk!EndTick
    \/ Walk!StandsStill \/ \E g \in Walk!Guards : Aside(g)

LEMMA StaysPut ==
    ASSUME WalkShape, Stays
    PROVE  /\ UNCHANGED <<simulator, floor, complete, triggered, seen, lastLoop>>
           /\ UNCHANGED <<aps, removing, torn, raced>>
           /\ adv = None /\ adv' = None
           /\ run' = "running" => run = "running"
           /\ \/ \E cfg \in Configs : Walk!SetupReads(cfg)
              \/ UNCHANGED <<read, unheard>> /\ run' \in {run, "stopped"}
<1>. USE DEF Walk!walkVars, Walk!scriptVars, Walk!apVars
<1>t. adv # None => run = "running" /\ turn \in 1..Len(Walk!Turns) /\ simulator # "events"
  BY DEF WalkShape, AdvInTurn
<1>1. ASSUME NEW cfg \in Configs, Walk!SetupReads(cfg)
      PROVE  /\ UNCHANGED <<simulator, floor, adv, complete, triggered, seen, lastLoop>>
             /\ UNCHANGED <<aps, removing, torn, raced>>
             /\ run' # "running" /\ adv = None
  BY <1>1, <1>t DEF Walk!SetupReads
<1>2. CASE Walk!SetupReturns \/ Walk!Stop \/ Walk!BreaksDown
  BY <1>2, <1>t, TurnsType DEF Walk!SetupReturns, Walk!Stop, Walk!BreaksDown, Walk!Dies, Walk!vars
<1>3. CASE Walk!BeginTick \/ Walk!EndTick
  BY <1>3, <1>t, TurnsType DEF Walk!BeginTick, Walk!EndTick
<1>4. CASE Walk!StandsStill
  BY <1>4, <1>t DEF Walk!StandsStill, Walk!Ticks, Walk!NextTurn
<1>5. ASSUME NEW g \in Walk!Guards, Aside(g)
      PROVE  /\ UNCHANGED <<simulator, floor, adv, complete, triggered, seen, lastLoop>>
             /\ UNCHANGED <<aps, removing, torn, raced, read, unheard>>
             /\ run' \in {run, "stopped"} /\ adv = None
  BY <1>5, <1>t DEF Aside, Walk!Skips, Walk!Fails, Walk!Acts, Walk!ActingFails, Walk!Dies,
     Walk!NextTurn, Walk!Ticks
<1>. QED  BY <1>1, <1>2, <1>3, <1>4, <1>5 DEF Stays

\* Only the script moves a beacon in such a step; a guard of the others may at most be
\* made to move on.
LEMMA StaysGuards ==
    ASSUME WalkShape, Stays, NEW g \in Walk!Guards
    PROVE  /\ guard'[g].order = guard[g].order
           /\ simulator # "events" =>
                /\ guard'[g].cur = guard[g].cur /\ guard'[g].start = guard[g].start
                /\ guard'[g].count = guard[g].count /\ guard'[g].frozen = guard[g].frozen
                /\ guard'[g].state \in {guard[g].state, "moving"}
<1>. USE DEF Walk!walkVars, Walk!scriptVars, Walk!apVars
<1>t. guard \in [Walk!Guards -> Walk!Beacon] /\ guard[g] \in Walk!Beacon
  BY DEF WalkShape, Walk!TypeOK
<1>. DEFINE Kept == /\ guard'[g].order = guard[g].order
                    /\ simulator # "events" =>
                        /\ guard'[g].cur = guard[g].cur /\ guard'[g].start = guard[g].start
                        /\ guard'[g].count = guard[g].count
                        /\ guard'[g].frozen = guard[g].frozen
                        /\ guard'[g].state \in {guard[g].state, "moving"}
<1>1. UNCHANGED guard => Kept  OBVIOUS
<1>2. CASE Walk!BeginTick
  <2>1. CASE guard' = [h \in Walk!Guards |-> Walk!Reset(h)] /\ simulator = "events"
    BY <1>t, <2>1 DEF Walk!Reset, Walk!Beacon
  <2>. QED  BY <1>1, <1>2, <2>1 DEF Walk!BeginTick
<1>3. ASSUME NEW h \in Walk!Guards, Walk!Fails(h)  PROVE Kept
  <2>1. guard' = [guard EXCEPT ![h].state = "moving"]  BY <1>3 DEF Walk!Fails
  <2>2. g # h => guard'[g] = guard[g]  BY <1>t, <2>1
  <2>3. g = h => guard'[g] = [guard[g] EXCEPT !.state = "moving"]  BY <1>t, <2>1
  <2>. QED  BY <1>t, <2>2, <2>3 DEF Walk!Beacon
<1>4. ASSUME NEW h \in Walk!Guards, Walk!Acts(h)  PROVE Kept
  <2>1. \/ UNCHANGED guard
        \/ guard' = [guard EXCEPT ![h].state = "wandering"]
        \/ guard' = [guard EXCEPT ![h].state = "moving", ![h].cur = @ + 1]
        \/ guard' = [guard EXCEPT ![h].cur = @ + 1]
    BY <1>4 DEF Walk!Acts, Walk!Strolls
  <2>2. simulator = "events"  BY <1>4 DEF Walk!Acts, Walk!Ticks
  <2>3. \E q : guard' = [guard EXCEPT ![h] = q] /\ q.order = guard[h].order
    <3>1. guard[h] \in Walk!Beacon  BY <1>t
    <3>2. guard' = [guard EXCEPT ![h].state = "wandering"] =>
            guard' = [guard EXCEPT ![h] = [guard[h] EXCEPT !.state = "wandering"]]
      BY <1>t
    <3>3. guard' = [guard EXCEPT ![h].state = "moving", ![h].cur = @ + 1] =>
            guard' = [guard EXCEPT ![h] = [guard[h] EXCEPT !.state = "moving",
                                                           !.cur = guard[h].cur + 1]]
      BY <1>t
    <3>4. guard' = [guard EXCEPT ![h].cur = @ + 1] =>
            guard' = [guard EXCEPT ![h] = [guard[h] EXCEPT !.cur = guard[h].cur + 1]]
      BY <1>t
    <3>5. /\ [guard[h] EXCEPT !.state = "wandering"].order = guard[h].order
          /\ \A k : [guard[h] EXCEPT !.state = "moving", !.cur = k].order = guard[h].order
          /\ \A k : [guard[h] EXCEPT !.cur = k].order = guard[h].order
      BY <3>1 DEF Walk!Beacon
    <3>6. UNCHANGED guard => guard' = [guard EXCEPT ![h] = guard[h]]  BY <1>t
    <3>. QED  BY <2>1, <3>2, <3>3, <3>4, <3>5, <3>6
  <2>4. guard'[g].order = guard[g].order  BY <1>t, <2>3
  <2>. QED  BY <2>2, <2>4
<1>5. ASSUME NEW h \in Walk!Guards, Walk!Skips(h) \/ Walk!ActingFails(h)  PROVE Kept
  BY <1>1, <1>5 DEF Walk!Skips, Walk!ActingFails, Walk!Dies
<1>6. CASE \/ \E cfg \in Configs : Walk!SetupReads(cfg)
           \/ Walk!SetupReturns \/ Walk!Stop \/ Walk!BreaksDown \/ Walk!EndTick
           \/ Walk!StandsStill
  BY <1>1, <1>6 DEF Walk!SetupReads, Walk!SetupReturns, Walk!Stop, Walk!BreaksDown, Walk!Dies,
     Walk!EndTick, Walk!StandsStill, Walk!vars
<1>. QED  BY <1>2, <1>3, <1>4, <1>5, <1>6 DEF Stays, Aside

LEMMA AllSteps ==
    ASSUME Walk!Next
    PROVE  \/ Stays \/ Walk!SetupStores \/ Walk!RemovesFromFloor
           \/ \E g \in Walk!Guards : \/ Walk!Walks(g) \/ Walk!Advances(g) \/ Walk!Advanced(g)
                                     \/ Walk!RemovesFromGuard(g)
           \/ \E ap \in Deletable : Walk!Deletes(ap)
BY DEF Walk!Next, Walk!GuardStep, Stays, Aside

\* remove_ap() takes its steps in order and an index of the lists.
LEMMA RemovalNext ==
    ASSUME WalkShape, RemovalInOrder, Walk!Next
    PROVE  RemovalInOrder'
<1>. USE DEF Walk!walkVars, Walk!scriptVars, Walk!apVars
<1>1. CASE Stays
  BY <1>1, StaysPut DEF RemovalInOrder, OutSet, Walk!Range
<1>2. CASE Walk!SetupStores
  BY <1>2 DEF Walk!SetupStores, RemovalInOrder, OutSet, Walk!Range
<1>3. CASE Walk!RemovesFromFloor
  <2>1. CASE removing' = None  BY <2>1 DEF RemovalInOrder
  <2>2. CASE removing' # None
    <3>1. /\ floor' = Walk!Only(floor, APs \ {removing.ap}) /\ simulator # "shift"
          /\ removing' = [removing EXCEPT !.at = Walk!FirstIndex(removing.ap), !.left = OutSet]
          /\ removing.ap \in Walk!Range(floor) /\ removing # None /\ UNCHANGED simulator
      BY <1>3, <2>2 DEF Walk!RemovesFromFloor, OutSet
    <3>2. floor \in Seq(APs) /\ Apart(floor)
          /\ removing \in [ap : APs, at : Nat, left : SUBSET Walk!Guards]
      BY <3>1 DEF WalkShape, Walk!TypeOK, Lists
    <3>3. PICK n \in Nat : n = Len(floor)  BY <3>2
    <3>4. Len(floor') = n - 1 /\ Walk!FirstIndex(removing.ap) \in 1..n
      BY <3>1, <3>2, <3>3, FloorWithout
    <3>5. removing'.at = Walk!FirstIndex(removing.ap) /\ removing'.left = OutSet
      BY <3>1, <3>2
    <3>6. removing'.at # 0 /\ removing'.at <= Len(floor') + 1  BY <3>3, <3>4, <3>5
    <3>. QED  BY <3>1, <3>5, <3>6 DEF RemovalInOrder, OutSet, Walk!Range
  <2>. QED  BY <2>1, <2>2
<1>4. ASSUME NEW g \in Walk!Guards, Walk!Walks(g) \/ Walk!Advances(g) \/ Walk!Advanced(g)
      PROVE  RemovalInOrder'
  BY <1>4 DEF Walk!Walks, Walk!Advances, Walk!Advanced, Walk!NextTurn, RemovalInOrder, OutSet,
     Walk!Range
<1>5. ASSUME NEW g \in Walk!Guards, Walk!RemovesFromGuard(g)  PROVE RemovalInOrder'
  <2>1. CASE removing' = None  BY <2>1 DEF RemovalInOrder
  <2>2. CASE removing' # None
    <3>1. /\ removing # None /\ removing.at # 0 /\ removing' = [removing EXCEPT !.left = @ \ {g}]
          /\ UNCHANGED <<simulator, run, floor>> /\ raced \subseteq raced' /\ g \in removing.left
          /\ raced' \subseteq raced \cup {g}
      BY <1>5, <2>2 DEF Walk!RemovesFromGuard
    <3>2. removing \in [ap : APs, at : Nat, left : SUBSET Walk!Guards]
      BY <3>1 DEF WalkShape, Walk!TypeOK
    <3>3. removing'.at = removing.at /\ removing'.left = removing.left \ {g}
      BY <3>1, <3>2
    <3>4. ~(removing'.left \subseteq raced') => ~(removing.left \subseteq raced)
      BY <3>1, <3>3
    <3>. QED  BY <3>1, <3>3, <3>4 DEF RemovalInOrder, OutSet, Walk!Range
  <2>. QED  BY <2>1, <2>2
<1>6. ASSUME NEW ap \in Deletable, Walk!Deletes(ap)  PROVE RemovalInOrder'
  BY <1>6 DEF Walk!Deletes, RemovalInOrder
<1>. QED  BY <1>1, <1>2, <1>3, <1>4, <1>5, <1>6, AllSteps

\* No list has an AP that was deleted, but for those a setup was not told of.
LEMMA ReadNext ==
    ASSUME WalkShape, ListsAreRead, Walk!Next
    PROVE  ListsAreRead'
<1>. USE DEF Walk!walkVars, Walk!scriptVars, Walk!apVars
<1>1. CASE \E cfg \in Configs : Walk!SetupReads(cfg)
  <2>1. PICK cfg \in Configs : Walk!SetupReads(cfg)  BY <1>1
  <2>2. read' = Walk!FloorList(cfg) /\ run' = "reading" /\ UNCHANGED <<simulator, aps>>
    BY <2>1 DEF Walk!SetupReads
  <2>3. Walk!Range(Walk!FloorList(cfg)) \subseteq aps  BY FloorListIs
  <2>. QED  BY <2>2, <2>3 DEF ListsAreRead, Walk!Range
<1>2. CASE UNCHANGED <<simulator, floor, aps, unheard, removing, read>>
           /\ (run' = run \/ run' = "stopped")
  BY <1>2 DEF ListsAreRead, Walk!Range, Spared
<1>3. CASE Walk!SetupStores
  BY <1>3 DEF Walk!SetupStores, ListsAreRead, Walk!Range, Spared
<1>4. CASE Walk!RemovesFromFloor
  <2>. SUFFICES ASSUME simulator # "shift"  PROVE ListsAreRead'
    BY <1>4 DEF Walk!RemovesFromFloor, ListsAreRead
  <2>1. /\ UNCHANGED <<run, read, aps>> /\ removing # None /\ removing.at = 0
        /\ unheard' = IF run = "reading" THEN unheard \cup {removing.ap} ELSE unheard
    BY <1>4 DEF Walk!RemovesFromFloor
  <2>2. Spared = {removing.ap}  BY <2>1 DEF Spared
  <2>3. Walk!Range(floor') = Walk!Range(floor) \ {removing.ap}
    <3>1. floor \in Seq(APs) /\ Apart(floor)  BY DEF WalkShape, Walk!TypeOK, Lists
    <3>2. CASE removing.ap \in Walk!Range(floor)
      BY <1>4, <3>1, <3>2, FloorWithout DEF Walk!RemovesFromFloor
    <3>. QED  BY <1>4, <3>2 DEF Walk!RemovesFromFloor
  <2>4. Walk!Range(floor)' = Walk!Range(floor') /\ Walk!Range(read)' = Walk!Range(read)
    BY <2>1 DEF Walk!Range
  <2>. QED  BY <2>1, <2>2, <2>3, <2>4 DEF ListsAreRead
<1>5. ASSUME NEW g \in Walk!Guards, Walk!RemovesFromGuard(g)  PROVE ListsAreRead'
  <2>1. /\ UNCHANGED <<simulator, floor, aps, unheard, read, run>>
        /\ removing # None /\ removing.at # 0
    BY <1>5 DEF Walk!RemovesFromGuard
  <2>2. Spared = {}  BY <2>1 DEF Spared
  <2>. QED  BY <2>1, <2>2 DEF ListsAreRead, Walk!Range
<1>6. ASSUME NEW ap \in Deletable, Walk!Deletes(ap)  PROVE ListsAreRead'
  <2>1. /\ UNCHANGED <<simulator, floor, unheard, read, run>> /\ removing = None
        /\ aps' = aps \ {ap} /\ removing' = [ap |-> ap, at |-> 0, left |-> {}]
    BY <1>6 DEF Walk!Deletes
  <2>2. Spared = {}  BY <2>1 DEF Spared
  <2>3. Spared' = {ap}
    <3>1. None \notin [ap : APs, at : Nat, left : SUBSET Walk!Guards] /\ ap \in APs
      BY WalkAssumption
    <3>. QED  BY <2>1, <3>1 DEF Spared
  <2>. QED  BY <2>1, <2>2, <2>3 DEF ListsAreRead, Walk!Range
<1>7. ASSUME NEW g \in Walk!Guards, Walk!Walks(g) \/ Walk!Advances(g) \/ Walk!Advanced(g)
      PROVE  ListsAreRead'
  BY <1>2, <1>7 DEF Walk!Walks, Walk!Advances, Walk!Advanced, Walk!NextTurn
<1>8. CASE Stays
  <2>1. CASE ~\E cfg \in Configs : Walk!SetupReads(cfg)
    BY <1>2, <1>8, <2>1, StaysPut
  <2>. QED  BY <1>1, <2>1
<1>. QED  BY <1>3, <1>4, <1>5, <1>6, <1>7, <1>8, AllSteps

\* A removal begins: the AP is not there, or it is gone from the floor and not yet from any
\* guard's list.
LEMMA RemovalBegins ==
    ASSUME WalkShape, RemovalInOrder, Walk!RemovesFromFloor
    PROVE  /\ \A g : ~Walk!Removing(g)
           /\ \/ UNCHANGED floor /\ \A g : ~Walk!Removing(g)'
              \/ /\ simulator # "shift" /\ \A g \in Walk!Walkers : Walk!Removing(g)'
                 /\ Len(floor') + 1 = Len(floor)
                 /\ Walk!Range(floor') \subseteq Walk!Range(floor)
<1>1. removing # None /\ removing.at = 0  BY DEF Walk!RemovesFromFloor
<1>2. \A g : ~Walk!Removing(g)  BY <1>1 DEF RemovalInOrder, Walk!Removing
<1>3. CASE UNCHANGED floor /\ removing' = None
  BY <1>2, <1>3 DEF Walk!Removing
<1>4. CASE /\ floor' = Walk!Only(floor, APs \ {removing.ap}) /\ simulator # "shift"
           /\ removing' = [removing EXCEPT !.at = Walk!FirstIndex(removing.ap), !.left = OutSet]
           /\ removing.ap \in Walk!Range(floor)
  <2>1. floor \in Seq(APs) /\ Apart(floor)  BY DEF WalkShape, Walk!TypeOK, Lists
  <2>2. PICK n \in Nat : n = Len(floor)  BY <2>1
  <2>3. Len(floor') = n - 1  BY <1>4, <2>1, <2>2, FloorWithout
  <2>4. Walk!Range(floor') \subseteq Walk!Range(floor)  BY <1>4, <2>1, FloorWithout
  <2>5. removing \in [ap : APs, at : Nat, left : SUBSET Walk!Guards]
    BY <1>1 DEF WalkShape, Walk!TypeOK
  <2>6. PICK i \in Nat : i = Walk!FirstIndex(removing.ap)
    BY <1>4, <2>1, <2>2, FloorWithout
  <2>7. PICK fresh : fresh = [removing EXCEPT !.at = i, !.left = OutSet]  OBVIOUS
  <2>8. OutSet \subseteq Walk!Guards  BY DEF OutSet, Walk!Guards
  <2>9. fresh \in [ap : APs, at : Nat, left : SUBSET Walk!Guards] /\ fresh.left = OutSet
    BY <2>5, <2>7, <2>8
  <2>10. removing' = fresh  BY <1>4, <2>6, <2>7
  <2>11. Walk!Walkers = OutSet  BY <1>4 DEF Walk!Walkers, OutSet
  <2>12. \A g \in Walk!Walkers : Walk!Removing(g)'
    BY <2>9, <2>10, <2>11, WalkAssumption DEF Walk!Removing
  <2>13. Len(floor') + 1 = Len(floor)  BY <2>2, <2>3
  <2>. QED  BY <1>2, <1>4, <2>4, <2>12, <2>13
<1>. QED  BY <1>3, <1>4 DEF Walk!RemovesFromFloor, OutSet

\* It goes on: one guard's list is done, the others wait as before.
LEMMA RemovalGoesOn ==
    ASSUME WalkShape, NEW g \in Walk!Guards, Walk!RemovesFromGuard(g)
    PROVE  ~Walk!Removing(g)' /\ \A h : h # g => (Walk!Removing(h)' <=> Walk!Removing(h))
<1>1. /\ removing # None /\ g \in removing.left
      /\ removing' = IF removing.left = {g} THEN None ELSE [removing EXCEPT !.left = @ \ {g}]
  BY DEF Walk!RemovesFromGuard
<1>2. removing \in [ap : APs, at : Nat, left : SUBSET Walk!Guards]
  BY <1>1 DEF WalkShape, Walk!TypeOK
<1>3. CASE removing.left = {g}  BY <1>1, <1>3 DEF Walk!Removing
<1>4. CASE removing.left # {g}
  <2>1. removing'.left = removing.left \ {g}  BY <1>1, <1>2, <1>4
  <2>2. [removing EXCEPT !.left = @ \ {g}] \in [ap : APs, at : Nat, left : SUBSET Walk!Guards]
    BY <1>2
  <2>3. removing' # None  BY <1>1, <1>4, <2>2, WalkAssumption
  <2>. QED  BY <1>1, <2>1, <2>3 DEF Walk!Removing
<1>. QED  BY <1>3, <1>4

\* A guard's index stays in its list: over a setup, an advance, a removal and the steps
\* between the two.
LEMMA IndicesNext ==
    ASSUME WalkShape, WalkShape', RemovalInOrder, IndicesLead, Walk!Next
    PROVE  IndicesLead'
<1>. USE DEF Walk!walkVars, Walk!scriptVars, Walk!apVars
<1>t. /\ guard \in [Walk!Guards -> Walk!Beacon] /\ floor \in Seq(APs)
      /\ Walk!Walkers \subseteq Walk!Guards
  BY TurnsType DEF WalkShape, Walk!TypeOK
<1>w. UNCHANGED simulator => Walk!Walkers' = Walk!Walkers  BY DEF Walk!Walkers, Walk!Range
<1>1. CASE Stays
  <2>. SUFFICES ASSUME run' = "running"  PROVE IndicesLead'
    BY DEF IndicesLead
  <2>1. /\ UNCHANGED <<simulator, floor, removing, raced>> /\ adv' = None /\ run = "running"
    BY <1>1, StaysPut
  <2>2. ASSUME NEW g \in Walk!Walkers \ raced
        PROVE  /\ Listed(g)' = Listed(g) /\ (Walk!Removing(g)' <=> Walk!Removing(g)) /\ ~Pending(g)'
               /\ simulator # "events" => guard'[g].cur = guard[g].cur
    BY <1>1, <1>t, <2>1, StaysGuards DEF Listed, Walk!Removing, Pending
  <2>. QED  BY <1>w, <2>1, <2>2 DEF IndicesLead
<1>2. CASE Walk!SetupStores
  <2>1. /\ UNCHANGED <<simulator, removing>> /\ floor' = read /\ adv' = None
        /\ raced' = IF removing = None THEN {} ELSE removing.left
        /\ guard' = [g \in Walk!Guards |->
                       IF g \in Walk!Walkers THEN Walk!Placed(g, Len(read)) ELSE guard[g]]
    BY <1>2 DEF Walk!SetupStores
  <2>2. read \in Seq(APs)  BY <1>2 DEF Walk!SetupStores, WalkShape, Walk!TypeOK, Lists
  <2>3. PICK n \in Nat : n = Len(read)  BY <2>2
  <2>4. ASSUME NEW g \in Walk!Walkers \ raced'
        PROVE  /\ Listed(g)' = n /\ ~Walk!Removing(g)' /\ ~Pending(g)'
               /\ n > 0 => guard'[g].cur \in 1..n
    <3>1. guard'[g] = Walk!Placed(g, n)  BY <1>t, <2>1, <2>3
    <3>2. guard'[g].order = Identity(n) /\ guard'[g].cur = Walk!Start(g, n)
      BY <3>1 DEF Walk!Placed, Identity
    <3>3. Listed(g)' = n  BY <3>2, IdentityType DEF Listed
    <3>4. n > 0 => guard'[g].cur \in 1..n  BY <3>2, StartIn
    <3>. QED  BY <2>1, <3>3, <3>4 DEF Walk!Removing, Pending
  <2>. QED  BY <1>w, <2>1, <2>3, <2>4 DEF IndicesLead
<1>3. CASE Walk!RemovesFromFloor
  <2>. SUFFICES ASSUME run = "running"  PROVE IndicesLead'
    BY <1>3 DEF Walk!RemovesFromFloor, IndicesLead
  <2>0. /\ UNCHANGED <<simulator, run, guard, adv, turn, raced>>
        /\ removing # None /\ removing.at = 0
    BY <1>3 DEF Walk!RemovesFromFloor
  <2>1. \A g : ~Walk!Removing(g)  BY <1>3, RemovalBegins
  <2>2. ASSUME NEW g \in Walk!Walkers \ raced
        PROVE  Listed(g)' = Listed(g) /\ Listed(g) = Len(floor) /\ (Pending(g)' <=> Pending(g))
    BY <2>0, <2>1, <1>w DEF IndicesLead, Listed, Pending, Walk!Turns
  <2>3. CASE UNCHANGED floor /\ \A g : ~Walk!Removing(g)'
    BY <1>w, <2>0, <2>1, <2>2, <2>3 DEF IndicesLead
  <2>4. CASE (\A g \in Walk!Walkers : Walk!Removing(g)') /\ Len(floor') + 1 = Len(floor)
    BY <1>w, <2>0, <2>2, <2>4 DEF IndicesLead
  <2>. QED  BY <1>3, <2>3, <2>4, RemovalBegins
<1>4. ASSUME NEW g \in Walk!Guards, Walk!Walks(g)  PROVE IndicesLead'
  <2>1. /\ UNCHANGED <<simulator, run, floor, removing, raced, adv>> /\ adv = None
        /\ guard' = guard \/ guard' = [guard EXCEPT ![g].state = "wandering"]
    BY <1>4 DEF Walk!Walks, Walk!NextTurn
  <2>2. ASSUME NEW h \in Walk!Walkers
        PROVE  guard'[h].order = guard[h].order /\ guard'[h].cur = guard[h].cur
    <3>1. guard[h] \in Walk!Beacon /\ h \in Walk!Guards  BY <1>t
    <3>2. guard'[h] = guard[h] \/ guard'[h] = [guard[h] EXCEPT !.state = "wandering"]
      BY <1>t, <2>1, <3>1
    <3>. QED  BY <3>1, <3>2 DEF Walk!Beacon
  <2>3. ASSUME NEW h \in Walk!Walkers
        PROVE  Listed(h)' = Listed(h) /\ (Walk!Removing(h)' <=> Walk!Removing(h)) /\ ~Pending(h)'
    BY <2>1, <2>2 DEF Listed, Walk!Removing, Pending
  <2>. QED  BY <1>w, <2>1, <2>2, <2>3 DEF IndicesLead
<1>5. ASSUME NEW g \in Walk!Guards, Walk!Advances(g)  PROVE IndicesLead'
  <2>1. /\ UNCHANGED <<simulator, run, floor, removing, raced, turn>> /\ run = "running"
        /\ Walk!Turns[turn] = g /\ Walk!CanLook(g) /\ simulator # "events"
        /\ guard' = [guard EXCEPT ![g].count = @ + 1]
        /\ adv'.next = Walk!Succ(guard[g].cur, Listed(g))
    BY <1>5 DEF Walk!Advances, Walk!Ticks, Listed
  <2>2. ASSUME NEW h \in Walk!Walkers
        PROVE  guard'[h].order = guard[h].order /\ guard'[h].cur = guard[h].cur
    <3>1. guard[h] \in Walk!Beacon /\ h \in Walk!Guards  BY <1>t
    <3>2. \/ guard'[h] = guard[h]
          \/ guard'[h] = [guard[h] EXCEPT !.count = guard[h].count + 1]
      BY <1>t, <2>1, <3>1
    <3>. QED  BY <3>1, <3>2 DEF Walk!Beacon
  <2>3. ASSUME NEW h \in Walk!Walkers
        PROVE  /\ Listed(h)' = Listed(h) /\ (Walk!Removing(h)' <=> Walk!Removing(h))
               /\ Pending(h)' => h = g
    BY <2>1, <2>2 DEF Listed, Walk!Removing, Pending, Walk!Turns
  <2>4. Listed(g) > 0
    <3>1. Walk!At(g) \in 1..Listed(g)  BY <2>1, Looks
    <3>2. guard[g] \in Walk!Beacon  BY <1>t
    <3>3. Listed(g) \in Nat  BY <3>2 DEF Walk!Beacon, Listed
    <3>. QED  BY <3>1, <3>3
  <2>. QED  BY <1>w, <2>1, <2>2, <2>3, <2>4 DEF IndicesLead
<1>6. ASSUME NEW g \in Walk!Guards, Walk!Advanced(g)  PROVE IndicesLead'
  <2>1. /\ UNCHANGED <<simulator, run, floor, removing, raced>> /\ run = "running"
        /\ Walk!Turns[turn] = g /\ adv # None /\ adv' = None
        /\ \E k, e : guard' = [guard EXCEPT ![g].cur = adv.next, ![g].state = "moving",
                                            ![g].count = k, ![g].frozen = e]
    BY <1>6 DEF Walk!Advanced, Walk!Ticks
  <2>2. PICK k, e : guard' = [guard EXCEPT ![g].cur = adv.next, ![g].state = "moving",
                                           ![g].count = k, ![g].frozen = e]
    BY <2>1
  <2>3. ASSUME NEW h \in Walk!Walkers
        PROVE  /\ guard'[h].order = guard[h].order
               /\ guard'[h].cur = IF h = g THEN adv.next ELSE guard[h].cur
    <3>1. guard[h] \in Walk!Beacon /\ h \in Walk!Guards  BY <1>t
    <3>2. h # g => guard'[h] = guard[h]  BY <1>t, <2>2
    <3>3. h = g => guard'[h] = [guard[h] EXCEPT !.cur = adv.next, !.state = "moving",
                                               !.count = k, !.frozen = e]
      BY <1>t, <2>2, <3>1
    <3>. QED  BY <3>1, <3>2, <3>3 DEF Walk!Beacon
  <2>4. ASSUME NEW h \in Walk!Walkers
        PROVE  Listed(h)' = Listed(h) /\ (Walk!Removing(h)' <=> Walk!Removing(h)) /\ ~Pending(h)'
    BY <2>1, <2>3 DEF Listed, Walk!Removing, Pending
  <2>5. g \in Walk!Walkers \ raced => Listed(g) > 0 /\ adv.next \in 1..Listed(g)
    <3>. SUFFICES ASSUME g \in Walk!Walkers \ raced
                  PROVE  Listed(g) > 0 /\ adv.next \in 1..Listed(g)
      OBVIOUS
    <3>1. Listed(g) > 0 /\ adv.next = Walk!Succ(guard[g].cur, Listed(g))
      BY <2>1 DEF IndicesLead, Pending
    <3>2. guard[g] \in Walk!Beacon  BY <1>t
    <3>3. PICK n \in Nat \ {0}, i \in Nat : n = Listed(g) /\ i = guard[g].cur
      BY <3>1, <3>2 DEF Walk!Beacon, Listed
    <3>. QED  BY <3>1, <3>3, SuccType
  <2>. QED  BY <1>w, <2>1, <2>3, <2>4, <2>5 DEF IndicesLead
<1>7. ASSUME NEW g \in Walk!Guards, Walk!RemovesFromGuard(g)  PROVE IndicesLead'
  <2>. SUFFICES ASSUME run = "running"  PROVE IndicesLead'
    BY <1>7 DEF Walk!RemovesFromGuard, IndicesLead
  <2>1. /\ UNCHANGED <<simulator, run, floor, turn, adv>> /\ removing # None /\ removing.at # 0
        /\ g \in removing.left
        /\ raced' = IF adv # None /\ Walk!Turns[turn] = g THEN raced \cup {g} ELSE raced
    BY <1>7 DEF Walk!RemovesFromGuard
  <2>2. PICK q \in Walk!Beacon, m \in Nat :
           /\ m = IF removing.at <= Listed(g) THEN Listed(g) - 1 ELSE Listed(g)
           /\ guard' = [guard EXCEPT ![g] = q] /\ Len(q.order) = m
           /\ m # 0 => q.cur \in 1..m
    BY <1>7, Shortened
  <2>3. removing \in [ap : APs, at : Nat, left : SUBSET Walk!Guards]
    BY <2>1 DEF WalkShape, Walk!TypeOK
  <2>4. ~Walk!Removing(g)' /\ \A h : h # g => (Walk!Removing(h)' <=> Walk!Removing(h))
    BY <1>7, RemovalGoesOn
  <2>5. ASSUME NEW h \in Walk!Walkers \ raced', h # g
        PROVE  /\ Listed(h)' = Listed(h) /\ guard'[h].cur = guard[h].cur
               /\ (Walk!Removing(h)' <=> Walk!Removing(h)) /\ (Pending(h)' <=> Pending(h))
               /\ h \notin raced
    BY <1>t, <2>1, <2>2, <2>4, <2>5 DEF Listed, Pending, Walk!Turns
  <2>6. ASSUME g \in Walk!Walkers \ raced'
        PROVE  /\ Listed(g)' = Len(floor) /\ ~Pending(g)'
               /\ (Listed(g)' > 0 => guard'[g].cur \in 1..Listed(g)')
    <3>1. g \notin raced /\ ~Pending(g)'  BY <2>1, <2>6 DEF Pending, Walk!Turns
    <3>2. Walk!Removing(g)  BY <2>1 DEF Walk!Removing
    <3>3. Listed(g) = Len(floor) + 1  BY <2>6, <3>1, <3>2 DEF IndicesLead
    <3>4. removing.at <= Len(floor) + 1  BY <2>1, <3>1 DEF RemovalInOrder
    <3>5. PICK n \in Nat : n = Len(floor)  BY <1>t
    <3>6. m = n  BY <2>2, <2>3, <3>3, <3>4, <3>5
    <3>7. guard'[g] = q  BY <1>t, <2>2
    <3>8. Listed(g)' = n /\ guard'[g].cur = q.cur  BY <2>2, <3>6, <3>7 DEF Listed
    <3>9. n > 0 => q.cur \in 1..n  BY <2>2, <3>6
    <3>. QED  BY <3>1, <3>5, <3>8, <3>9
  <2>. QED  BY <1>w, <2>1, <2>4, <2>5, <2>6 DEF IndicesLead
<1>8. ASSUME NEW ap \in Deletable, Walk!Deletes(ap)  PROVE IndicesLead'
  <2>1. /\ UNCHANGED <<simulator, run, floor, guard, turn, adv, raced>> /\ removing = None
        /\ removing' = [ap |-> ap, at |-> 0, left |-> {}]
    BY <1>8 DEF Walk!Deletes
  <2>2. ASSUME NEW h \in Walk!Walkers
        PROVE  /\ Listed(h)' = Listed(h) /\ ~Walk!Removing(h)' /\ ~Walk!Removing(h)
               /\ (Pending(h)' <=> Pending(h))
    BY <2>1 DEF Listed, Walk!Removing, Pending, Walk!Turns
  <2>. QED  BY <1>w, <2>1, <2>2 DEF IndicesLead
<1>. QED  BY <1>1, <1>2, <1>3, <1>4, <1>5, <1>6, <1>7, <1>8, AllSteps

\* So its index leads to an AP of the floor.
LEMMA GuardsWalk ==
    ASSUME WalkShape, IndicesLead
    PROVE  Walk!GuardsCanWalk
<1>. SUFFICES ASSUME run = "running", removing = None, NEW g \in Walk!Walkers \ raced,
                     guard[g].order # << >>
              PROVE  Walk!CanLook(g)
  BY DEF Walk!GuardsCanWalk
<1>1. guard[g] \in Walk!Beacon /\ guard[g].order = [i \in 1..Listed(g) |-> i] /\ floor \in Seq(APs)
  BY TurnsType DEF WalkShape, Walk!TypeOK, Ordered
<1>2. Listed(g) = Len(floor)  BY DEF IndicesLead, Walk!Removing
<1>3. PICK n \in Nat \ {0} : n = Listed(g)  BY <1>1 DEF Listed, Walk!Beacon
<1>4. PICK i \in Nat \ {0} : i = guard[g].cur  BY <1>1 DEF Walk!Beacon
<1>5. Walk!At(g) \in 1..n
  <2>1. CASE simulator = "events"  BY <1>3, <1>4, <2>1, WrapIn DEF Walk!At, Listed
  <2>2. CASE simulator # "events"  BY <1>3, <2>2 DEF Walk!At, IndicesLead
  <2>. QED  BY <2>1, <2>2
<1>. QED  BY <1>1, <1>2, <1>3, <1>5 DEF Walk!CanLook

LEMMA WalksSoundly ==
    ASSUME WalkShape, IndicesLead, ListsAreRead
    PROVE  Walk!WalkIsSound
<1>1. Walk!NoDeletedAP  BY DEF Walk!NoDeletedAP, ListsAreRead, Spared
<1>. QED  BY <1>1, GuardsWalk DEF Walk!WalkIsSound, WalkShape

--------------------------------------------------------------------------------
(* The loops and the change of shift.                                      *)

\* One index on, everything is one step farther back.
LEMMA BackOne ==
    ASSUME NEW n \in Nat \ {0}, NEW cur \in 1..n, NEW x \in 1..n
    PROVE  LET next == Walk!Succ(cur, n) IN
           /\ Back(x, cur, n) \in 0..(n - 1) /\ (Back(x, cur, n) = 0 <=> x = cur)
           /\ x # next => Back(x, next, n) = Back(x, cur, n) + 1
           /\ x = next => Back(x, next, n) = 0
<1>1. Walk!Succ(cur, n) = IF cur = n THEN 1 ELSE cur + 1  BY SuccIs
<1>. QED  BY <1>1 DEF Back

\* A guard that walks and that no removal has met.
LEMMA Undisturbed ==
    ASSUME WalkShape, IndicesLead, run = "running", simulator # "events",
           NEW g \in Walk!Walkers \ raced, ~Walk!Removing(g)
    PROVE  /\ Listed(g) = Len(floor) /\ Len(floor) \in Nat
           /\ Len(floor) > 0 => guard[g].cur \in 1..Len(floor)
           /\ Pending(g) => Len(floor) > 0 /\ adv.next = Walk!Succ(guard[g].cur, Len(floor))
           /\ guard[g] \in Walk!Beacon /\ guard[g].count \in Nat /\ Done(g) \in Int
<1>1. guard[g] \in Walk!Beacon /\ floor \in Seq(APs)  BY TurnsType DEF WalkShape, Walk!TypeOK
<1>2. guard[g].count \in Nat /\ Len(floor) \in Nat  BY <1>1 DEF Walk!Beacon
<1>3. Done(g) \in Int  BY <1>2 DEF Done
<1>. QED  BY <1>1, <1>2, <1>3 DEF IndicesLead

\* simulation_patrol.py:277: who is about to be told to have made a whole loop has been
\* everywhere.
LEMMA WholeLoop ==
    ASSUME WalkShape, IndicesLead, BeenThere, run = "running", simulator # "events",
           NEW g \in Walk!Walkers \ (raced \cup torn), ~Walk!Removing(g), Pending(g), adv.whole
    PROVE  Walk!Range(floor) \subseteq seen[g]
<1>1. Toured(g)  BY DEF BeenThere
<1>2. PICK n \in Nat \ {0} : n = Len(floor)  BY Undisturbed
<1>3. PICK cur \in 1..n : cur = guard[g].cur  BY <1>2, Undisturbed
<1>4. PICK k \in Int : k = Done(g)  BY Undisturbed
<1>5. k + 1 >= n /\ floor[cur] \in seen[g]  BY <1>1, <1>2, <1>3, <1>4 DEF Toured
<1>6. DOMAIN floor = 1..n  BY <1>2 DEF WalkShape, Walk!TypeOK
<1>7. ASSUME NEW x \in 1..n  PROVE floor[x] \in seen[g]
  <2>1. Back(x, cur, n) \in 0..(n - 1) /\ (Back(x, cur, n) = 0 <=> x = cur)  BY BackOne
  <2>2. CASE x = cur  BY <1>5, <2>2
  <2>3. CASE x # cur
    <3>1. Back(x, cur, n) \in 1..k  BY <1>5, <2>1, <2>3
    <3>. QED  BY <1>1, <1>2, <1>3, <1>4, <1>6, <3>1 DEF Toured
  <2>. QED  BY <2>2, <2>3
<1>. QED  BY <1>6, <1>7 DEF Walk!Range

\* Who is left alone has been where he was.
LEMMA TouredStands ==
    ASSUME NEW g, Toured(g), UNCHANGED floor, guard'[g] = guard[g], seen'[g] = seen[g],
           Pending(g)' <=> Pending(g), Pending(g) => adv' = adv
    PROVE  Toured(g)'
BY DEF Toured, Done

\* What a guard counts it has walked, also after a removal, which sets its count to 0.
LEMMA BeenNext ==
    ASSUME WalkShape, RemovalInOrder, IndicesLead, BeenThere, Walk!Next
    PROVE  BeenThere'
<1>. USE DEF Walk!walkVars, Walk!scriptVars, Walk!apVars
<1>t. /\ guard \in [Walk!Guards -> Walk!Beacon] /\ floor \in Seq(APs)
      /\ Walk!Walkers \subseteq Walk!Guards
      /\ seen \in [Walk!Guards -> SUBSET APs]
  BY TurnsType DEF WalkShape, Walk!TypeOK
<1>w. UNCHANGED simulator => Walk!Walkers' = Walk!Walkers  BY DEF Walk!Walkers, Walk!Range
<1>. SUFFICES ASSUME run' = "running", simulator' # "events",
                     NEW g \in Walk!Walkers' \ (raced' \cup torn'), ~Walk!Removing(g)'
              PROVE  Toured(g)'
  BY DEF BeenThere
<1>1. CASE Stays
  <2>1. /\ UNCHANGED <<simulator, floor, seen, removing, torn, raced>>
        /\ adv = None /\ adv' = None /\ run = "running"
    BY <1>1, StaysPut
  <2>2. ~Walk!Removing(g) /\ g \in Walk!Walkers \ (raced \cup torn)
    BY <1>w, <2>1 DEF Walk!Removing
  <2>3. Toured(g) /\ ~Pending(g) /\ ~Pending(g)'  BY <2>1, <2>2 DEF BeenThere, Pending
  <2>4. /\ guard'[g].cur = guard[g].cur /\ guard'[g].count = guard[g].count
        /\ guard'[g].state \in {guard[g].state, "moving"}
    BY <1>1, <1>t, <2>1, <2>2, StaysGuards
  <2>. QED  BY <2>1, <2>3, <2>4 DEF Toured, Done
<1>2. CASE Walk!SetupStores
  <2>1. /\ UNCHANGED simulator /\ adv' = None
        /\ guard' = [h \in Walk!Guards |->
                       IF h \in Walk!Walkers THEN Walk!Placed(h, Len(read)) ELSE guard[h]]
    BY <1>2 DEF Walk!SetupStores
  <2>2. guard'[g] = Walk!Placed(g, Len(read))  BY <1>w, <1>t, <2>1
  <2>3. guard'[g].count = 0 /\ guard'[g].state = "moving" /\ ~Pending(g)'
    BY <2>1, <2>2 DEF Walk!Placed, Pending
  <2>4. Done(g)' = 0  BY <2>3 DEF Done
  <2>5. 1..0 = {}  OBVIOUS
  <2>. QED  BY <2>3, <2>4, <2>5 DEF Toured
<1>3. CASE Walk!RemovesFromFloor
  <2>1. UNCHANGED <<simulator, run, guard, turn, adv, seen, torn, raced>>
    BY <1>3 DEF Walk!RemovesFromFloor
  <2>2. UNCHANGED floor /\ ~Walk!Removing(g)  BY <1>3, <1>w, <2>1, RemovalBegins
  <2>3. Toured(g)  BY <1>w, <2>1, <2>2 DEF BeenThere
  <2>4. Pending(g)' <=> Pending(g)  BY <2>1 DEF Pending, Walk!Turns
  <2>. QED  BY <2>1, <2>2, <2>3, <2>4, TouredStands
<1>4. ASSUME NEW h \in Walk!Guards, Walk!Walks(h)  PROVE Toured(g)'
  <2>1. /\ UNCHANGED <<simulator, run, floor, removing, raced, torn, adv>> /\ adv = None
        /\ Walk!CanLook(h) /\ guard[h].state = "moving" /\ simulator # "events"
        /\ \/ UNCHANGED <<guard, seen>>
           \/ /\ guard' = [guard EXCEPT ![h].state = "wandering"]
              /\ seen' = [seen EXCEPT ![h] = @ \cup {Walk!Here(h)}]
    BY <1>4 DEF Walk!Walks, Walk!NextTurn, Walk!Ticks
  <2>2. ~Walk!Removing(g) /\ ~Pending(g) /\ ~Pending(g)'
    BY <2>1 DEF Walk!Removing, Pending
  <2>3. g \in Walk!Walkers \ (raced \cup torn) /\ run = "running"  BY <1>w, <2>1
  <2>4. Toured(g)  BY <2>1, <2>2, <2>3 DEF BeenThere
  <2>5. CASE guard'[g] = guard[g] /\ seen'[g] = seen[g]
    BY <2>1, <2>2, <2>4, <2>5, TouredStands
  <2>6. CASE /\ g = h /\ guard' = [guard EXCEPT ![h].state = "wandering"]
             /\ seen' = [seen EXCEPT ![h] = @ \cup {Walk!Here(h)}]
    <3>1. guard'[g].cur = guard[g].cur /\ guard'[g].count = guard[g].count
      <4>1. guard[g] \in Walk!Beacon /\ guard'[g] = [guard[g] EXCEPT !.state = "wandering"]
        BY <1>t, <2>6
      <4>. QED  BY <4>1 DEF Walk!Beacon
    <3>2. seen'[g] = seen[g] \cup {Walk!Here(g)}  BY <1>t, <2>6
    <3>3. Walk!Here(g) = floor[guard[g].cur]  BY <2>1, <2>6, Looks DEF Walk!At
    <3>4. Done(g)' = Done(g)  BY <2>2, <3>1 DEF Done
    <3>. QED  BY <2>1, <2>2, <2>4, <3>1, <3>2, <3>3, <3>4 DEF Toured
  <2>7. g # h => guard'[g] = guard[g] /\ seen'[g] = seen[g]  BY <1>t, <2>1, <2>3
  <2>. QED  BY <2>1, <2>5, <2>6, <2>7
<1>5. ASSUME NEW h \in Walk!Guards, Walk!Advances(h)  PROVE Toured(g)'
  <2>1. /\ UNCHANGED <<simulator, run, floor, removing, raced, torn, seen, turn>> /\ adv = None
        /\ Walk!Turns[turn] = h /\ guard[h].state = "wandering" /\ simulator # "events"
        /\ run = "running" /\ guard' = [guard EXCEPT ![h].count = @ + 1]
        /\ adv'.whole = (guard[h].count + 1 >= Listed(h) /\ adv'.next = guard[h].start)
    BY <1>5 DEF Walk!Advances, Walk!Ticks, Listed
  <2>2. ~Walk!Removing(g) /\ ~Pending(g) /\ (Pending(g)' => g = h)
    BY <2>1 DEF Walk!Removing, Pending, Walk!Turns
  <2>3. g \in Walk!Walkers \ (raced \cup torn)  BY <1>w, <2>1
  <2>4. Toured(g)  BY <2>1, <2>2, <2>3 DEF BeenThere
  <2>5. CASE g # h
    <3>1. guard'[g] = guard[g]  BY <1>t, <2>1, <2>5
    <3>. QED  BY <2>1, <2>2, <2>4, <2>5, <3>1, TouredStands
  <2>6. CASE g = h
    <3>1. guard[g] \in Walk!Beacon /\ guard'[g] = [guard[g] EXCEPT !.count = guard[g].count + 1]
      BY <1>t, <2>1, <2>6
    <3>2. PICK k \in Nat : k = guard[g].count  BY <3>1 DEF Walk!Beacon
    <3>3. /\ guard'[g].cur = guard[g].cur /\ guard'[g].state = "wandering"
          /\ guard'[g].count = k + 1
      BY <2>1, <2>6, <3>1, <3>2 DEF Walk!Beacon
    <3>4. adv' # None
      <4>1. PICK n \in Nat \ {0}, cur \in Nat : n = Listed(g) /\ cur = guard[g].cur
        <5>1. Listed(g) \in Nat  BY <3>1 DEF Walk!Beacon, Listed
        <5>2. Walk!At(g) \in 1..Listed(g)  BY <1>5, <2>6, Looks DEF Walk!Advances
        <5>. QED  BY <3>1, <5>1, <5>2 DEF Walk!Beacon
      <4>2. Walk!Succ(cur, n) \in Nat  BY SuccType
      <4>3. adv' = [next |-> Walk!Succ(cur, n),
                    whole |-> guard[g].count + 1 >= n /\ Walk!Succ(cur, n) = guard[g].start]
        BY <1>5, <2>6, <4>1 DEF Walk!Advances, Listed
      <4>4. PICK next \in Nat : next = Walk!Succ(cur, n)  BY <4>2
      <4>5. adv' \in [next : Nat, whole : BOOLEAN]  BY <4>3, <4>4
      <4>. QED  BY <4>5, WalkAssumption
    <3>5. Pending(g)'  BY <2>1, <2>6, <3>4 DEF Pending, Walk!Turns
    <3>6. Done(g) = k /\ Done(g)' = k  BY <2>2, <3>2, <3>3, <3>5 DEF Done
    <3>7. Listed(g) = Len(floor)  BY <2>1, <2>2, <2>3, Undisturbed
    <3>8. adv'.whole => k + 1 >= Len(floor)  BY <2>1, <2>6, <3>2, <3>7
    <3>. QED  BY <2>1, <2>4, <2>6, <3>3, <3>6, <3>8 DEF Toured
  <2>. QED  BY <2>5, <2>6
<1>6. ASSUME NEW h \in Walk!Guards, Walk!Advanced(h)  PROVE Toured(g)'
  <2>1. /\ UNCHANGED <<simulator, run, floor, removing, raced>> /\ run = "running"
        /\ simulator # "events" /\ Walk!Turns[turn] = h /\ adv # None /\ adv' = None
        /\ seen' = IF adv.whole THEN [seen EXCEPT ![h] = {}] ELSE seen
        /\ torn' = IF adv.whole THEN torn \ {h} ELSE torn
    BY <1>6 DEF Walk!Advanced, Walk!Ticks
  <2>2. /\ ~Walk!Removing(g) /\ (Pending(g) <=> g = h) /\ ~Pending(g)'
        /\ g \in Walk!Walkers \ raced
    BY <1>w, <2>1 DEF Walk!Removing, Pending
  <2>3. PICK k, e :
            /\ k = IF adv.whole THEN 0 ELSE guard[h].count
            /\ guard' = [guard EXCEPT ![h].cur = adv.next, ![h].state = "moving",
                                      ![h].count = k, ![h].frozen = e]
    BY <1>6, <1>t DEF Walk!Advanced
  <2>4. CASE g # h
    <3>0. guard'[g] = guard[g]  BY <1>t, <2>2, <2>3, <2>4
    <3>1. seen'[g] = seen[g]  BY <1>t, <2>1, <2>2, <2>4
    <3>2. Toured(g)  BY <2>1, <2>2, <2>4 DEF BeenThere
    <3>. QED  BY <2>1, <2>2, <2>4, <3>0, <3>1, <3>2, TouredStands
  <2>5. CASE g = h
    <3>1. guard[g] \in Walk!Beacon
          /\ guard'[g] = [guard[g] EXCEPT !.cur = adv.next, !.state = "moving",
                                          !.count = k, !.frozen = e]
      BY <1>t, <2>3, <2>5
    <3>2. guard'[g].cur = adv.next /\ guard'[g].state = "moving" /\ guard'[g].count = k
      BY <3>1 DEF Walk!Beacon
    <3>3. Done(g)' = k  BY <2>2, <3>2 DEF Done
    <3>4. CASE adv.whole
      <4>1. 1..0 = {}  OBVIOUS
      <4>. QED  BY <2>2, <2>3, <3>2, <3>3, <3>4, <4>1 DEF Toured
    <3>5. CASE ~adv.whole
      <4>1. PICK n \in Nat \ {0} : n = Len(floor)  BY <2>1, <2>2, <2>5, Undisturbed
      <4>2. PICK cur \in 1..n : cur = guard[g].cur  BY <2>1, <2>2, <4>1, Undisturbed
      <4>3. adv.next = Walk!Succ(cur, n)  BY <2>1, <2>2, <2>5, <4>1, <4>2, Undisturbed
      <4>4. Toured(g)  BY <2>1, <2>2, <3>5 DEF BeenThere
      <4>5. k = guard[g].count /\ k \in Nat  BY <2>3, <2>5, <3>1, <3>5 DEF Walk!Beacon
      <4>6. Done(g) = k - 1  BY <2>2, <2>5, <4>5 DEF Done
      <4>7. floor[cur] \in seen[g]  BY <2>2, <2>5, <4>1, <4>2, <4>4 DEF Toured
      <4>8. DOMAIN floor = 1..n /\ UNCHANGED <<floor, seen>>  BY <1>t, <2>1, <3>5, <4>1
      <4>9. ASSUME NEW x \in 1..n, Back(x, adv.next, n) \in 1..k
            PROVE  floor[x] \in seen[g]
        <5>1. /\ Back(x, cur, n) \in 0..(n - 1) /\ (Back(x, cur, n) = 0 <=> x = cur)
              /\ x # adv.next => Back(x, adv.next, n) = Back(x, cur, n) + 1
              /\ x = adv.next => Back(x, adv.next, n) = 0
          BY <4>3, BackOne
        <5>2. CASE x = cur  BY <4>7, <5>2
        <5>3. CASE x # cur
          <6>1. Back(x, cur, n) \in 1..(k - 1)  BY <4>5, <4>9, <5>1, <5>3
          <6>. QED  BY <4>1, <4>2, <4>4, <4>6, <4>8, <6>1 DEF Toured
        <5>. QED  BY <5>2, <5>3
      <4>. QED  BY <2>2, <3>2, <3>3, <4>1, <4>8, <4>9 DEF Toured
    <3>. QED  BY <3>4, <3>5
  <2>. QED  BY <2>4, <2>5
<1>7. ASSUME NEW h \in Walk!Guards, Walk!RemovesFromGuard(h)  PROVE Toured(g)'
  <2>1. /\ UNCHANGED <<simulator, run, floor, turn, adv, seen>> /\ removing # None
        /\ removing.at # 0
        /\ torn' = IF guard[h].state = "wandering" THEN torn \cup {h} ELSE torn
        /\ raced' = IF adv # None /\ Walk!Turns[turn] = h THEN raced \cup {h} ELSE raced
    BY <1>7 DEF Walk!RemovesFromGuard
  <2>2. g \in Walk!Walkers \ (raced \cup torn)  BY <1>w, <2>1
  <2>3. PICK q \in Walk!Beacon : /\ guard' = [guard EXCEPT ![h] = q]
                                 /\ q.state = guard[h].state
                                 /\ simulator = "patrol" => q.count = 0
    BY <1>7, Shortened
  <2>4. CASE g # h
    <3>1. guard'[g] = guard[g] /\ ~Walk!Removing(g)  BY <1>7, <1>t, <2>2, <2>3, <2>4, RemovalGoesOn
    <3>2. Toured(g)  BY <2>1, <2>2, <3>1 DEF BeenThere
    <3>3. Pending(g)' <=> Pending(g)  BY <2>1 DEF Pending, Walk!Turns
    <3>. QED  BY <2>1, <3>1, <3>2, <3>3, TouredStands
  <2>5. CASE g = h
    <3>1. simulator = "patrol"
      BY <2>1 DEF RemovalInOrder, WalkShape, Walk!TypeOK
    <3>2. guard'[g].count = 0 /\ guard'[g].state # "wandering" /\ ~Pending(g)'
      BY <1>t, <2>1, <2>3, <2>5, <3>1 DEF Pending, Walk!Turns
    <3>3. Done(g)' = 0 /\ 1..0 = {}  BY <3>2 DEF Done
    <3>. QED  BY <3>2, <3>3 DEF Toured
  <2>. QED  BY <2>4, <2>5
<1>8. ASSUME NEW ap \in Deletable, Walk!Deletes(ap)  PROVE Toured(g)'
  <2>1. /\ UNCHANGED <<simulator, run, floor, guard, turn, adv, seen, torn, raced>>
        /\ removing = None
    BY <1>8 DEF Walk!Deletes
  <2>2. ~Walk!Removing(g)  BY <2>1 DEF Walk!Removing
  <2>3. Toured(g)  BY <1>w, <2>1, <2>2 DEF BeenThere
  <2>4. Pending(g)' <=> Pending(g)  BY <2>1 DEF Pending, Walk!Turns
  <2>. QED  BY <2>1, <2>3, <2>4, TouredStands
<1>. QED  BY <1>1, <1>2, <1>3, <1>4, <1>5, <1>6, <1>7, <1>8, AllSteps

\* The loops that are told of are loops round all APs.
LEMMA ToldNext ==
    ASSUME WalkShape, RemovalInOrder, IndicesLead, BeenThere, LoopsTold, Walk!Next
    PROVE  LoopsTold'
<1>. USE DEF Walk!walkVars, Walk!scriptVars, Walk!apVars
<1>t. lastLoop \in [Walk!Guards -> (SUBSET APs) \cup {None}]  BY DEF WalkShape, Walk!TypeOK
<1>0. UNCHANGED <<floor, lastLoop>> => LoopsTold'  BY DEF LoopsTold, Walk!Range
<1>1. CASE Stays  BY <1>0, <1>1, StaysPut
<1>2. CASE Walk!SetupStores
  BY <1>2 DEF Walk!SetupStores, LoopsTold
<1>3. CASE Walk!RemovesFromFloor
  <2>1. UNCHANGED lastLoop  BY <1>3 DEF Walk!RemovesFromFloor
  <2>2. UNCHANGED floor \/ Walk!Range(floor') \subseteq Walk!Range(floor)
    BY <1>3, RemovalBegins
  <2>3. Walk!Range(floor)' = Walk!Range(floor')  BY DEF Walk!Range
  <2>. QED  BY <1>0, <2>1, <2>2, <2>3 DEF LoopsTold
<1>4. ASSUME NEW g \in Walk!Guards, Walk!Walks(g)  PROVE LoopsTold'
  <2>1. UNCHANGED floor /\ lastLoop' = [lastLoop EXCEPT ![g] = None]
    BY <1>4 DEF Walk!Walks, Walk!NextTurn
  <2>. QED  BY <1>t, <2>1 DEF LoopsTold, Walk!Range
<1>5. ASSUME NEW g \in Walk!Guards, Walk!Advances(g)  PROVE LoopsTold'
  BY <1>0, <1>5 DEF Walk!Advances
<1>6. ASSUME NEW g \in Walk!Guards, Walk!Advanced(g)  PROVE LoopsTold'
  <2>1. CASE UNCHANGED lastLoop  BY <1>0, <1>6, <2>1 DEF Walk!Advanced
  <2>2. CASE /\ lastLoop' = [lastLoop EXCEPT ![g] = seen[g]] /\ adv.whole
             /\ g \notin torn \cup raced /\ ~Walk!Removing(g)
    <3>1. /\ run = "running" /\ simulator # "events" /\ Walk!Turns[turn] = g /\ adv # None
          /\ turn \in 1..Len(Walk!Turns) /\ UNCHANGED floor
      BY <1>6 DEF Walk!Advanced, Walk!Ticks
    <3>2. g \in Walk!Walkers /\ Pending(g)  BY <3>1, TurnsType DEF Pending
    <3>3. Walk!Range(floor) \subseteq seen[g]  BY <2>2, <3>1, <3>2, WholeLoop
    <3>. QED  BY <1>t, <2>2, <3>1, <3>3 DEF LoopsTold, Walk!Range
  <2>. QED  BY <1>6, <2>1, <2>2 DEF Walk!Advanced
<1>7. ASSUME NEW g \in Walk!Guards, Walk!RemovesFromGuard(g)  PROVE LoopsTold'
  BY <1>0, <1>7 DEF Walk!RemovesFromGuard
<1>8. ASSUME NEW ap \in Deletable, Walk!Deletes(ap)  PROVE LoopsTold'
  BY <1>0, <1>8 DEF Walk!Deletes
<1>. QED  BY <1>1, <1>2, <1>3, <1>4, <1>5, <1>6, <1>7, <1>8, AllSteps

\* The shift changes when each outgoing guard has made such a loop.
LEMMA ShiftNext ==
    ASSUME WalkShape, RemovalInOrder, IndicesLead, BeenThere, ShiftInv, Walk!Next
    PROVE  ShiftInv'
<1>. USE DEF Walk!walkVars, Walk!scriptVars, Walk!apVars
<1>t. /\ guard \in [Walk!Guards -> Walk!Beacon] /\ complete \subseteq OutSet
      /\ seen \in [Walk!Guards -> SUBSET APs]
      /\ lastLoop \in [Walk!Guards -> (SUBSET APs) \cup {None}]
      /\ OutSet \subseteq Walk!Guards /\ InSet \subseteq Walk!Guards
  BY DEF WalkShape, Walk!TypeOK, OutSet, InSet, Walk!Guards
<1>. SUFFICES ASSUME run' = "running", simulator' = "shift"  PROVE ShiftInv'
  BY DEF ShiftInv
<1>o. /\ OutSet' = OutSet /\ InSet' = InSet
      /\ (UNCHANGED floor => Walk!Range(floor)' = Walk!Range(floor))
  BY DEF OutSet, InSet, Walk!Range
<1>1. CASE Stays
  <2>1. /\ UNCHANGED <<simulator, floor, seen, lastLoop, complete, triggered, torn, raced>>
        /\ adv' = None /\ run = "running" /\ simulator = "shift"
    BY <1>1, StaysPut
  <2>2. \A g \in Walk!Guards :
          /\ guard'[g].cur = guard[g].cur /\ guard'[g].start = guard[g].start
          /\ guard'[g].frozen = guard[g].frozen
          /\ guard'[g].state \in {guard[g].state, "moving"}
    BY <1>1, <2>1, StaysGuards
  <2>3. \A g \in Walk!Guards : ~Pending(g)'  BY <2>1 DEF Pending
  <2>. QED  BY <1>o, <1>t, <2>1, <2>2, <2>3 DEF ShiftInv
<1>2. CASE Walk!SetupStores
  <2>1. /\ UNCHANGED simulator /\ simulator = "shift" /\ complete' = {} /\ triggered' = FALSE
        /\ adv' = None /\ torn' = {} /\ seen' = [g \in Walk!Guards |-> {}]
        /\ raced' = IF removing = None THEN {} ELSE removing.left
        /\ guard' = [g \in Walk!Guards |->
                       IF g \in Walk!Walkers THEN Walk!Placed(g, Len(read)) ELSE guard[g]]
    BY <1>2 DEF Walk!SetupStores, Walk!NewShift
  <2>2. raced' = {}  BY <2>1 DEF RemovalInOrder
  <2>3. InSet \subseteq Walk!Walkers  BY <2>1 DEF InSet, Walk!Walkers
  <2>4. \A h \in InSet : guard'[h].state = "moving" /\ guard'[h].cur = guard'[h].start
    BY <1>t, <2>1, <2>3 DEF Walk!Placed
  <2>5. \A g \in Walk!Guards : ~Pending(g)'  BY <2>1 DEF Pending
  <2>. QED  BY <1>o, <1>t, <2>1, <2>2, <2>4, <2>5 DEF ShiftInv
<1>3. CASE Walk!RemovesFromFloor \/ \E ap \in Deletable : Walk!Deletes(ap)
  <2>1. UNCHANGED <<simulator, run, floor, guard, turn, adv, complete, triggered, seen,
                    lastLoop, torn, raced>>
    BY <1>3 DEF Walk!RemovesFromFloor, Walk!Deletes
  <2>2. \A g \in Walk!Guards : Pending(g)' <=> Pending(g)  BY <2>1 DEF Pending, Walk!Turns
  <2>. QED  BY <1>o, <1>t, <2>1, <2>2 DEF ShiftInv
<1>4. ASSUME NEW g \in Walk!Guards, Walk!Walks(g)  PROVE ShiftInv'
  <2>1. /\ UNCHANGED <<simulator, run, floor, complete, triggered, torn, raced, adv>>
        /\ adv = None /\ run = "running" /\ simulator = "shift" /\ Walk!CanLook(g)
        /\ ~guard[g].frozen /\ (g \in InSet => triggered)
        /\ lastLoop' = [lastLoop EXCEPT ![g] = None]
        /\ \/ UNCHANGED <<guard, seen>>
           \/ /\ guard' = [guard EXCEPT ![g].state = "wandering"]
              /\ seen' = [seen EXCEPT ![g] = @ \cup {Walk!Here(g)}]
    BY <1>4 DEF Walk!Walks, Walk!NextTurn, Walk!Ticks, Walk!Rests, InSet
  <2>2. Walk!Here(g) \in Walk!Range(floor)  BY <2>1, Looks DEF Walk!Range
  <2>3. \A h \in OutSet : seen'[h] \subseteq Walk!Range(floor)
    BY <1>t, <2>1, <2>2 DEF ShiftInv
  <2>4. g \notin complete  BY <2>1 DEF ShiftInv
  <2>5. \A h \in Walk!Guards : /\ guard'[h].frozen = guard[h].frozen
                               /\ h # g => guard'[h] = guard[h] /\ lastLoop'[h] = lastLoop[h]
    <3>1. guard[g] \in Walk!Beacon  BY <1>t
    <3>2. guard'[g] \in {guard[g], [guard[g] EXCEPT !.state = "wandering"]}  BY <1>t, <2>1
    <3>3. guard'[g].frozen = guard[g].frozen  BY <3>1, <3>2 DEF Walk!Beacon
    <3>. QED  BY <1>t, <2>1, <3>3
  <2>6. \A h \in Walk!Guards : ~Pending(h)'  BY <2>1 DEF Pending
  <2>7. \A h \in complete : guard'[h].frozen /\ lastLoop'[h] = Walk!Range(floor)
    BY <1>t, <2>1, <2>4, <2>5 DEF ShiftInv
  <2>8. ~triggered => \A h \in InSet : guard'[h].state = "moving" /\ guard'[h].cur = guard'[h].start
    BY <1>t, <2>1, <2>5 DEF ShiftInv
  <2>. QED  BY <1>o, <2>1, <2>3, <2>6, <2>7, <2>8 DEF ShiftInv
<1>5. ASSUME NEW g \in Walk!Guards, Walk!Advances(g)  PROVE ShiftInv'
  <2>1. /\ UNCHANGED <<simulator, run, floor, complete, triggered, torn, raced, turn>>
        /\ UNCHANGED <<seen, lastLoop>>
        /\ run = "running" /\ simulator = "shift" /\ Walk!Turns[turn] = g
        /\ ~guard[g].frozen /\ (g \in InSet => triggered)
        /\ guard' = [guard EXCEPT ![g].count = @ + 1]
    BY <1>5 DEF Walk!Advances, Walk!Ticks, Walk!Rests, InSet
  <2>2. ASSUME NEW h \in Walk!Guards
        PROVE  /\ guard'[h].cur = guard[h].cur /\ guard'[h].start = guard[h].start
               /\ guard'[h].frozen = guard[h].frozen /\ guard'[h].state = guard[h].state
               /\ Pending(h)' => h = g
    <3>1. guard[h] \in Walk!Beacon  BY <1>t
    <3>2. guard'[h] = guard[h] \/ guard'[h] = [guard[h] EXCEPT !.count = guard[h].count + 1]
      BY <1>t, <2>1
    <3>3. /\ guard'[h].cur = guard[h].cur /\ guard'[h].start = guard[h].start
          /\ guard'[h].frozen = guard[h].frozen /\ guard'[h].state = guard[h].state
      <4>1. PICK k : guard'[h] = guard[h] \/ guard'[h] = [guard[h] EXCEPT !.count = k]
        BY <3>2
      <4>. QED  BY <3>1, <4>1 DEF Walk!Beacon
    <3>4. Pending(h)' => h = g  BY <2>1 DEF Pending, Walk!Turns
    <3>. QED  BY <3>3, <3>4
  <2>. QED  BY <1>o, <1>t, <2>1, <2>2 DEF ShiftInv
<1>6. ASSUME NEW g \in Walk!Guards, Walk!Advanced(g)  PROVE ShiftInv'
  <2>1. /\ UNCHANGED <<simulator, run, floor, removing, raced>> /\ run = "running"
        /\ simulator = "shift" /\ Walk!Turns[turn] = g /\ adv # None /\ adv' = None
        /\ turn \in 1..Len(Walk!Turns) /\ torn' \subseteq torn
        /\ \A h : h # g => (seen'[h] = seen[h] /\ lastLoop'[h] = lastLoop[h])
    BY <1>6, <1>t DEF Walk!Advanced, Walk!Ticks
  <2>2. Pending(g) /\ g \in Walk!Walkers  BY <2>1, TurnsType DEF Pending
  <2>3. ~guard[g].frozen /\ (g \in InSet => triggered) /\ torn = {} /\ raced = {}
    BY <2>1, <2>2 DEF ShiftInv
  <2>4. g \notin complete  BY <2>1, <2>3 DEF ShiftInv
  <2>5. PICK k : guard' = [guard EXCEPT ![g].cur = adv.next, ![g].state = "moving", ![g].count = k,
                                       ![g].frozen = Walk!Freezes(g)]
    BY <1>6 DEF Walk!Advanced
  <2>6. guard'[g].frozen = Walk!Freezes(g) /\ \A h \in Walk!Guards : h # g => guard'[h] = guard[h]
    <3>1. guard[g] \in Walk!Beacon
          /\ guard'[g] = [guard[g] EXCEPT !.cur = adv.next, !.state = "moving", !.count = k,
                                          !.frozen = Walk!Freezes(g)]
      BY <1>t, <2>5
    <3>2. guard'[g].frozen = Walk!Freezes(g)  BY <3>1 DEF Walk!Beacon
    <3>. QED  BY <1>t, <2>5, <3>2
  <2>7. \A h \in OutSet : seen'[h] \subseteq Walk!Range(floor)
    <3>1. seen'[g] = seen[g] \/ seen'[g] = {}  BY <1>6, <1>t DEF Walk!Advanced
    <3>. QED  BY <1>t, <2>1, <3>1 DEF ShiftInv
  <2>8. Walk!Freezes(g) => lastLoop'[g] = Walk!Range(floor)
    <3>. SUFFICES ASSUME Walk!Freezes(g)  PROVE lastLoop'[g] = Walk!Range(floor)
      OBVIOUS
    <3>1. adv.whole /\ g \in OutSet  BY DEF Walk!Freezes, OutSet
    <3>2. ~Walk!Removing(g)  BY <2>1 DEF RemovalInOrder, Walk!Removing
    <3>3. Walk!Range(floor) \subseteq seen[g]  BY <2>1, <2>2, <2>3, <3>1, <3>2, WholeLoop
    <3>4. seen[g] \subseteq Walk!Range(floor)  BY <2>1, <3>1 DEF ShiftInv
    <3>5. lastLoop'[g] = seen[g]  BY <1>6, <1>t, <2>3, <3>1, <3>2 DEF Walk!Advanced
    <3>. QED  BY <3>3, <3>4, <3>5
  <2>9. complete' = (IF Walk!Freezes(g) THEN complete \cup {g} ELSE complete)
        /\ triggered' = (triggered \/ (Walk!Freezes(g) /\ complete' = OutSet))
    BY <1>6 DEF Walk!Advanced, OutSet
  <2>10. triggered' => complete' = OutSet
    <3>1. Walk!Freezes(g) => g \in OutSet  BY DEF Walk!Freezes, OutSet
    <3>. QED  BY <2>1, <2>9, <3>1 DEF ShiftInv
  <2>11. \A h \in complete' : guard'[h].frozen /\ lastLoop'[h] = Walk!Range(floor)
    BY <1>t, <2>1, <2>4, <2>6, <2>8, <2>9 DEF ShiftInv
  <2>12. ~triggered' => \A h \in InSet :
            guard'[h].state = "moving" /\ guard'[h].cur = guard'[h].start
    BY <1>t, <2>1, <2>3, <2>6, <2>9 DEF ShiftInv
  <2>13. \A h \in Walk!Guards : ~Pending(h)'  BY <2>1 DEF Pending
  <2>. QED  BY <1>o, <2>1, <2>3, <2>7, <2>10, <2>11, <2>12, <2>13 DEF ShiftInv
<1>7. ASSUME NEW g \in Walk!Guards, Walk!RemovesFromGuard(g)  PROVE FALSE
  <2>1. removing # None /\ removing.at # 0 /\ UNCHANGED simulator
    BY <1>7 DEF Walk!RemovesFromGuard
  <2>. QED  BY <2>1 DEF RemovalInOrder
<1>. QED  BY <1>1, <1>2, <1>3, <1>4, <1>5, <1>6, <1>7, AllSteps

LEMMA LoopsHold ==
    ASSUME LoopsTold, ShiftInv
    PROVE  Walk!LoopsAreHonest
BY DEF LoopsTold, ShiftInv, Walk!LoopsAreHonest, Walk!LoopMeansAll,
   Walk!ShiftAfterLoops, OutSet, InSet

--------------------------------------------------------------------------------
(* All of it together.                                                     *)

LEMMA WalkInit == Walk!Init => WalkInv
<1>. SUFFICES ASSUME Walk!Init  PROVE WalkInv
  OBVIOUS
<1>1. AlertsAreMarked  BY DEF Walk!Init, AlertsAreMarked, Walk!Alerts
<1>2. WalkShape  BY ShapeInit
<1>3. run = "stopped" /\ removing = None  BY DEF Walk!Init
<1>4. LoopsTold  BY DEF Walk!Init, LoopsTold
<1>. QED
  BY <1>1, <1>2, <1>3, <1>4
     DEF WalkInv, RemovalInOrder, IndicesLead, ListsAreRead, BeenThere, ShiftInv

LEMMA WalkNext == WalkInv /\ Walk!Next => WalkInv'
<1>. SUFFICES ASSUME WalkInv, Walk!Next  PROVE WalkInv'
  OBVIOUS
<1>1. AlertsAreMarked'  BY AlertsStep DEF WalkInv
<1>2. WalkShape'  BY <1>1, ShapeNext DEF WalkInv
<1>3. RemovalInOrder' /\ ListsAreRead'  BY RemovalNext, ReadNext DEF WalkInv
<1>4. IndicesLead'  BY <1>2, IndicesNext DEF WalkInv
<1>5. BeenThere' /\ LoopsTold' /\ ShiftInv'  BY BeenNext, ToldNext, ShiftNext DEF WalkInv
<1>. QED  BY <1>1, <1>2, <1>3, <1>4, <1>5 DEF WalkInv

LEMMA WalkStands == WalkInv /\ UNCHANGED walk => WalkInv'
<1>. SUFFICES ASSUME WalkInv, UNCHANGED walk  PROVE WalkInv'
  OBVIOUS
<1>1. AlertsAreMarked'  BY ScriptStands DEF WalkInv, walk
<1>2. /\ Walk!Walkers' = Walk!Walkers
      /\ \A g : /\ Pending(g)' <=> Pending(g)
                /\ Walk!Removing(g)' <=> Walk!Removing(g)
                /\ Listed(g)' = Listed(g) /\ (Toured(g)' <=> Toured(g))
  BY DEF walk, Walk!Walkers, Walk!Turns, Pending, Walk!Removing, Listed, Toured, Done
<1>3. WalkShape'
  BY DEF WalkInv, walk, WalkShape, Walk!TypeOK, Walk!Turns, Lists, Apart, Ordered, AdvInTurn, Listed
<1>4. RemovalInOrder' /\ ListsAreRead' /\ LoopsTold'
  BY DEF WalkInv, walk, RemovalInOrder, ListsAreRead, Spared, LoopsTold, Walk!Range
<1>5. IndicesLead'
  <2>. SUFFICES ASSUME run' = "running", NEW g \in Walk!Walkers' \ raced'
                PROVE  /\ Listed(g)' = IF Walk!Removing(g)' THEN Len(floor') + 1 ELSE Len(floor')
                       /\ simulator' # "events" /\ Listed(g)' > 0 =>
                            guard'[g].cur \in 1..Listed(g)'
                       /\ Pending(g)' => /\ Listed(g)' > 0
                                         /\ adv'.next = Walk!Succ(guard'[g].cur, Listed(g)')
    BY DEF IndicesLead
  <2>1. g \in Walk!Walkers \ raced /\ run = "running"  BY <1>2 DEF walk
  <2>2. UNCHANGED <<floor, simulator, guard, adv>> /\ Listed(g)' = Listed(g)  BY <1>2 DEF walk
  <2>3. (Pending(g)' <=> Pending(g)) /\ (Walk!Removing(g)' <=> Walk!Removing(g))  BY <1>2
  <2>. QED  BY <2>1, <2>2, <2>3 DEF WalkInv, IndicesLead
<1>7. BeenThere'  BY <1>2 DEF WalkInv, walk, BeenThere
<1>6. ShiftInv'  BY <1>2 DEF WalkInv, walk, ShiftInv, Walk!Range
<1>. QED  BY <1>1, <1>3, <1>4, <1>5, <1>6, <1>7 DEF WalkInv

LEMMA WalkAlways == SimulationsSpec => [](part = "walk" => WalkInv)
<1>. DEFINE Holds == part = "walk" => WalkInv
<1>1. SimulationsInit => Holds  BY WalkInit DEF SimulationsInit
<1>2. Holds /\ [SimulationsNext]_<<vars, walk, part>> => Holds'
  BY WalkNext, WalkStands DEF SimulationsNext
<1>. QED  BY <1>1, <1>2, PTL DEF SimulationsSpec

\* remove_ap() (simulation_patrol.py, simulation_events.py) under the loop of
\* run_simulation(): however many APs are deleted, and whenever, the indices of each guard
\* lead to an AP, and none of them is deleted - but for the races the property names.
THEOREM WalkStaysSound == SimulationsSpec => []WalkIsSound
<1>1. (part = "walk" => WalkInv) => WalkIsSound
  BY WalksSoundly DEF WalkInv, WalkIsSound
<1>. QED  BY <1>1, WalkAlways, PTL

\* simulation_patrol.py:277-278, "Loop completes only when guard has visited all APs", and
\* simulation_shift.py:415: for every floor and route, a loop that is counted went round all
\* APs, and the incoming guards wait until each outgoing guard has made one.
THEOREM LoopsAreWhole == SimulationsSpec => []LoopsAreHonest
<1>1. (part = "walk" => WalkInv) => LoopsAreHonest
  BY LoopsHold DEF WalkInv, LoopsAreHonest
<1>. QED  BY <1>1, WalkAlways, PTL

================================================================================
