-------------------------------- MODULE LiveView --------------------------------
(***************************************************************************)
(* Live view: the go2rtc config that services/live_view_service.py renders *)
(* from the camera registry, the requests that rewrite it (a camera is     *)
(* created, edited or deleted, live view is opened, the backend starts),   *)
(* and tools/go2rtc/start.ps1, which relaunches go2rtc when it changes.    *)
(*                                                                         *)
(* The config is what go2rtc can tell apart: the camera address behind     *)
(* each stream and the address its own media port listens on.  A camera    *)
(* without an address, or without a MAC, has no stream.                    *)
(***************************************************************************)
EXTENDS FiniteSets

CONSTANTS
    Cams,
    Ips,        \* addresses of cameras
    Hosts,      \* addresses that this machine gets from DHCP
    Threads,    \* request threads of the backend
    None        \* no camera, no stream, no file, no process

ASSUME NoneAssumption == None \notin Ips \cup Cams \cup Hosts

Configs == [stream : [Cams -> Ips \cup {None}], host : Hosts]
NoFile == [stream |-> [c \in Cams |-> None], host |-> None]

VARIABLES
    reg,        \* the registry: the address of a camera; None if it is gone,
                \* has no address or no MAC, and so no stream
    host,       \* what webrtc_host() finds
    file,       \* the config file
    backend,    \* the backend process
    job,        \* what a thread does
    pc,         \* where it is
    cam,        \* the camera it opens
    data,       \* the config it has rendered
    aged,       \* the registry or the host changed after it was rendered
    owed,       \* the file is behind for a cause, until the next refresh
    relay,      \* where start.ps1 is
    loaded,     \* the config of the go2rtc that runs
    touched,    \* the file was written after start.ps1 took its stamp
    fresh,      \* the password start.ps1 read for go2rtc is backend/.env's
    envTouched, \* backend/.env was saved after start.ps1 took its stamp
    missed,     \* ... and between its two looks at the file
    calm        \* nothing is changed any more

threads == <<job, pc, cam, data, aged>>
config == <<file, owed, touched>>
script == <<relay, loaded, fresh, envTouched, missed>>
vars == <<reg, host, config, backend, threads, script, calm>>

TypeOK ==
    /\ reg \in [Cams -> Ips \cup {None}]
    /\ host \in Hosts
    /\ file \in Configs \cup {NoFile} /\ loaded \in Configs \cup {NoFile}
    /\ backend \in {"down", "starting", "up"}
    /\ job \in [Threads -> {"none", "change", "boot", "view", "retry"}]
    /\ pc \in [Threads -> {"idle", "read", "write", "ask"}]
    /\ cam \in [Threads -> Cams \cup {None}]
    /\ data \in [Threads -> Configs \cup {NoFile}]
    /\ aged \in [Threads -> BOOLEAN]
    /\ relay \in {"down", "read", "stamped", "up"}
    /\ {owed, touched, fresh, envTouched, missed, calm} \subseteq BOOLEAN

\* render_config.
Wanted == [stream |-> reg, host |-> host]

Init ==
    /\ reg = [c \in Cams |-> None] /\ host \in Hosts
    /\ file = NoFile /\ owed = TRUE /\ touched = FALSE
    /\ backend = "down"
    /\ job = [t \in Threads |-> "none"] /\ pc = [t \in Threads |-> "idle"]
    /\ cam = [t \in Threads |-> None] /\ data = [t \in Threads |-> NoFile]
    /\ aged = [t \in Threads |-> FALSE]
    /\ relay = "down" /\ loaded = NoFile
    /\ fresh = TRUE /\ envTouched = FALSE /\ missed = FALSE
    /\ calm = FALSE

--------------------------------------------------------------------------------
(* The backend.                                                            *)

Begin(t, j, c) ==
    /\ pc[t] = "idle"
    /\ pc' = [pc EXCEPT ![t] = "read"] /\ job' = [job EXCEPT ![t] = j]
    /\ cam' = [cam EXCEPT ![t] = c]
    /\ UNCHANGED data

End(t) ==
    /\ pc' = [pc EXCEPT ![t] = "idle"] /\ job' = [job EXCEPT ![t] = "none"]
    /\ cam' = [cam EXCEPT ![t] = None] /\ data' = [data EXCEPT ![t] = NoFile]
    /\ aged' = [aged EXCEPT ![t] = FALSE]

\* What was rendered before a change is old.
Ages == aged' = [t \in Threads |-> pc[t] = "write"]

\* lifespan: the config is brought in line before the first request.
Boot(t) ==
    /\ backend = "down"
    /\ backend' = "starting"
    /\ Begin(t, "boot", None)
    /\ UNCHANGED <<reg, host, config, script, calm, aged>>

\* create, update and delete: the registry is written, the config is refreshed
\* at the end of the request.
Change(t, c, v) ==
    /\ backend = "up" /\ ~calm /\ reg[c] # v
    /\ reg' = [reg EXCEPT ![c] = v]
    /\ Begin(t, "change", None)
    /\ Ages
    /\ UNCHANGED <<host, config, backend, script, calm>>

\* A call between the two raises, and the request ends with a 500.
ChangeRaises(t) ==
    /\ ~calm /\ job[t] = "change" /\ pc[t] = "read"
    /\ End(t)
    /\ owed' = TRUE
    /\ UNCHANGED <<reg, host, file, touched, backend, script, calm>>

\* floor_service.delete takes the cameras of a floor and refreshes nothing.
DeleteFloor ==
    /\ backend = "up" /\ ~calm
    /\ \E c \in Cams : reg[c] # None
    /\ reg' = [c \in Cams |-> None]
    /\ Ages /\ owed' = TRUE
    /\ UNCHANGED <<host, file, touched, backend, job, pc, cam, data, script, calm>>

ViewUnrefreshed(t, c) ==
    /\ backend = "up" /\ reg[c] \in Ips /\ pc[t] = "idle"
    /\ pc' = [pc EXCEPT ![t] = "ask"] /\ job' = [job EXCEPT ![t] = "view"]
    /\ cam' = [cam EXCEPT ![t] = c]
    /\ UNCHANGED <<reg, host, config, backend, script, calm, data, aged>>

\* open_stream: the camera is looked up, has an address and is online.
View(t, c) ==
    /\ backend = "up" /\ reg[c] \in Ips
    /\ Begin(t, "view", c)
    /\ UNCHANGED <<reg, host, config, backend, script, calm, aged>>

\* write_config reads the registry and the route outside _write_lock.
Read(t) ==
    /\ pc[t] = "read"
    /\ pc' = [pc EXCEPT ![t] = "write"]
    /\ data' = [data EXCEPT ![t] = Wanted] /\ aged' = [aged EXCEPT ![t] = FALSE]
    /\ UNCHANGED <<reg, host, config, backend, script, calm, job, cam>>

\* After a refresh, written or failed.
Goes(t) ==
    /\ IF job[t] = "view"
       THEN /\ pc' = [pc EXCEPT ![t] = "ask"]
            /\ data' = [data EXCEPT ![t] = NoFile] /\ aged' = [aged EXCEPT ![t] = FALSE]
            /\ UNCHANGED <<job, cam>>
       ELSE End(t)
    /\ backend' = IF job[t] = "boot" THEN "up" ELSE backend

StampIsLength(old, new) == old.stream # new.stream

\* The stamp of a file is its time of writing and its length.
NewStamp(old, new) == old # new

\* Under _write_lock: nothing is written if the file has these bytes.
Write(t) ==
    /\ pc[t] = "write"
    /\ file' = data[t]
    /\ touched' = (touched \/ NewStamp(file, data[t]))
    /\ owed' = aged[t]
    /\ Goes(t)
    /\ UNCHANGED <<reg, host, script, calm>>

\* The registry can't be read, or os.replace fails five times: logged, no more.
WriteFails(t) ==
    /\ ~calm /\ pc[t] = "write"
    /\ owed' = TRUE
    /\ Goes(t)
    /\ UNCHANGED <<reg, host, file, touched, script, calm>>

\* _exchange: go2rtc answers, or is not there, or fails in another way.
Answered(t) ==
    /\ pc[t] = "ask" /\ (relay # "up" \/ loaded.stream[cam[t]] # None)
    /\ End(t)
    /\ UNCHANGED <<reg, host, config, backend, script, calm>>

\* It does not know the stream: the config is refreshed once more.
NotLoaded(t) ==
    /\ pc[t] = "ask" /\ relay = "up" /\ loaded.stream[cam[t]] = None
    /\ pc' = [pc EXCEPT ![t] = "read"] /\ job' = [job EXCEPT ![t] = "retry"]
    /\ UNCHANGED <<reg, host, config, backend, script, calm, cam, data, aged>>

Crash ==
    /\ backend # "down" /\ ~calm
    /\ backend' = "down"
    /\ job' = [t \in Threads |-> "none"] /\ pc' = [t \in Threads |-> "idle"]
    /\ cam' = [t \in Threads |-> None] /\ data' = [t \in Threads |-> NoFile]
    /\ aged' = [t \in Threads |-> FALSE]
    /\ owed' = TRUE
    /\ UNCHANGED <<reg, host, file, touched, script, calm>>

NewHost(h) ==
    /\ ~calm /\ h # host
    /\ host' = h
    /\ Ages /\ owed' = TRUE
    /\ UNCHANGED <<reg, file, touched, backend, job, pc, cam, data, script, calm>>

--------------------------------------------------------------------------------
(* start.ps1.                                                              *)

Admin == <<reg, host, file, owed, backend, threads, calm>>

\* The password is read first (and must be there, as the config must) ...
ReadPassword ==
    /\ relay = "down" /\ file # NoFile
    /\ relay' = "read" /\ fresh' = TRUE /\ missed' = FALSE
    /\ UNCHANGED <<Admin, touched, loaded, envTouched>>

\* ... then the stamps of both files, then go2rtc is started.
TakeStamps ==
    /\ relay = "read"
    /\ relay' = "stamped" /\ touched' = FALSE /\ envTouched' = FALSE
    /\ missed' = ~fresh
    /\ UNCHANGED <<Admin, loaded, fresh>>

Start ==
    /\ relay = "stamped"
    /\ relay' = "up" /\ loaded' = file
    /\ UNCHANGED <<Admin, touched, fresh, envTouched, missed>>

Stops ==
    /\ relay' = "down" /\ loaded' = NoFile /\ fresh' = TRUE /\ missed' = FALSE
    /\ UNCHANGED <<Admin, touched>>

SeesConfig == relay = "up" /\ touched /\ Stops /\ UNCHANGED envTouched

\* A save of .env that leaves the password is no reason to restart.
SeesEnv ==
    /\ relay = "up" /\ ~touched /\ envTouched
    /\ envTouched' = FALSE
    /\ IF fresh THEN UNCHANGED <<Admin, touched, relay, loaded, fresh, missed>> ELSE Stops

\* go2rtc stops by itself.
Dies == relay = "up" /\ ~calm /\ Stops /\ UNCHANGED envTouched

\* backend/.env is saved: with another password, with the one that go2rtc has,
\* or with another setting changed.
SaveEnv ==
    /\ ~calm
    /\ fresh' \in (IF relay = "down" THEN {TRUE} ELSE BOOLEAN)
    /\ envTouched' = TRUE
    /\ UNCHANGED <<Admin, touched, relay, loaded, missed>>

\* From here on nothing fails and nobody changes anything; live view goes on.
Calm ==
    /\ ~calm
    /\ calm' = TRUE
    /\ UNCHANGED <<reg, host, config, backend, threads, script>>

ThreadStep(t) == Read(t) \/ Write(t) \/ Answered(t) \/ NotLoaded(t)
Opens == \E t \in Threads, c \in Cams : View(t, c)
RelayStep == ReadPassword \/ TakeStamps \/ Start \/ SeesConfig \/ SeesEnv

Next ==
    \/ \E t \in Threads : \/ Boot(t) \/ ThreadStep(t) \/ ChangeRaises(t) \/ WriteFails(t)
                          \/ \E c \in Cams, v \in Ips \cup {None} : Change(t, c, v)
    \/ Opens \/ DeleteFloor \/ Crash \/ Calm
    \/ \E h \in Hosts : NewHost(h)
    \/ RelayStep \/ Dies \/ SaveEnv

\* A request runs to its end, the backend is started again, and start.ps1 looks
\* at the files every second.
Fairness ==
    /\ \A t \in Threads : WF_vars(ThreadStep(t))
    /\ WF_vars(\E t \in Threads : Boot(t))
    /\ WF_vars(RelayStep)

Spec == Init /\ [][Next]_vars /\ Fairness

--------------------------------------------------------------------------------
(* Properties.                                                             *)

\* A request that will still render the config from a fresh read.
Refreshes(t) ==
    \/ pc[t] = "read"
    \/ pc[t] = "write" /\ ~aged[t]

\* The file is the registry's config, or a request is about to refresh it, or it
\* is behind for a named cause: an older rendering came last, a write failed, a
\* request raised or died half-way, a floor was deleted, the host's address moved.
ConfigCurrent == file # Wanted => owed \/ \E t \in Threads : Refreshes(t)

\* go2rtc runs with the config of the file, or start.ps1 will see that not.
RelayCurrent == relay = "up" /\ loaded # file => touched

\* go2rtc has the password of backend/.env, or start.ps1 will see that not; a
\* save between its two looks at the file it does not see.
PasswordCurrent == relay = "up" /\ ~fresh => envTouched \/ missed

\* What viewers get follows the registry, the file and backend/.env, each in turn, but
\* for causes that are named.
RelayFollows == TypeOK /\ ConfigCurrent /\ RelayCurrent /\ PasswordCurrent

\* Whatever went wrong before, once nothing changes any more and somebody opens
\* live view again and again, go2rtc runs with the registry's config.
OpeningHeals ==
    []<><<Opens>>_vars => <>[](calm => relay = "up" /\ loaded = Wanted)
================================================================================
