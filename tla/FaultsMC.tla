-------------------------------- MODULE FaultsMC --------------------------------
(***************************************************************************)
(* What goes on although a call, a console or a file fails under it: the   *)
(* capture log (CaptureLog) and the capture listener (CaptureListener),    *)
(* the lines about who is turned away (LogLimit), the presence of a camera *)
(* device (CameraPresence) and live view (LiveView).  They share no state; *)
(* one run explores each from its own initial state while the others stand *)
(* still.                                                                  *)
(***************************************************************************)
EXTENDS Naturals, FiniteSets, Sequences, TLC

CONSTANTS Writers, Main, MaxWrites, MaxLost, PartMax, Nothing
CONSTANTS Requests, Callers, Spare
CONSTANTS Members, Ips, Most, Viewed, Addresses, Hosts

ASSUME CamerasAssumption ==
    Nothing \notin Ips \cup Members \cup Addresses \cup Viewed \cup Hosts

ASSUME StepsAssumption == Members \cap {"clear", "drop", "last_seen", "probe"} = {}

ASSUME LogsAssumption ==
    /\ Main \in Writers
    /\ MaxLost \in Nat /\ PartMax \in Nat \ {0}
    /\ Spare \in Nat /\ Nothing \notin 0 .. Spare
    /\ IsFiniteSet(Callers) /\ IsFiniteSet(Requests)

VARIABLES part, v1, v2, v3, v4, v5, v6, v7, v8, v9,
    address, seen, where, node, found, steps, round, during, orphan, still,
    shown, host, file, backend, job, stage, opened, data, aged, owed,
    relay, loaded, touched, fresh, envTouched, missed, quiet

\* The logs are never explored together: they share their variables.
logs == <<v1, v2, v3, v4, v5, v6, v7, v8, v9>>
presence == <<address, seen, where, node, found, steps, round, during, orphan, still>>
live == <<shown, host, file, backend, job, stage, opened, data, aged, owed,
          relay, loaded, touched, fresh, envTouched, missed, quiet>>
cameras == <<presence, live>>

Capture == INSTANCE CaptureLog WITH
                Threads <- Writers,
                pending <- v1, consoleOk <- v2, skipNoted <- v3, parts <- v4, stream <- v5,
                lost <- v6, said <- v7, step <- v8, exit <- v9
Listener == INSTANCE CaptureListener WITH
                Connections <- Requests, None <- Nothing,
                log <- v1, lost <- v2, seq <- v3, conn <- v4, answered <- v5, server <- v6
Sparing == INSTANCE LogLimit WITH
                Sources <- Callers, Every <- Spare, MostKeys <- PartMax, None <- Nothing,
                last <- v1, quiet <- v2, dropped <- v3
Presence == INSTANCE CameraPresence WITH
                Cams <- Members, Threads <- Most, None <- Nothing,
                reg <- address, todo <- steps, calm <- still
Live == INSTANCE LiveView WITH
            Cams <- Viewed, Ips <- Addresses, Threads <- Requests, None <- Nothing,
            reg <- shown, pc <- stage, cam <- opened, calm <- quiet

NoLogs == v1 = 0 /\ v2 = 0 /\ v3 = 0 /\ v4 = 0 /\ v5 = 0 /\ v6 = 0 /\ v7 = 0 /\ v8 = 0 /\ v9 = 0

FaultsInit ==
    /\ Presence!Init /\ Live!Init
    /\ part = "presence" \/ where = Nothing
    /\ part = "live" \/ host = CHOOSE h \in Hosts : TRUE
    /\ \/ part = "capture" /\ Capture!Init
       \/ part = "listener" /\ Listener!Init /\ v7 = 0 /\ v8 = 0 /\ v9 = 0
       \/ /\ part = "limits" /\ Sparing!Init
          /\ v4 = 0 /\ v5 = 0 /\ v6 = 0 /\ v7 = 0 /\ v8 = 0 /\ v9 = 0
       \/ part \in {"presence", "live"} /\ NoLogs

\* A program that has ended takes no step any more; nor need live view, when nothing is
\* changed any more.
Ended ==
    \/ part = "capture" /\ v9 = "clean"
    \/ part = "listener" /\ v6 = "gone"
    \/ part = "live" /\ quiet

FaultsNext ==
    \/ part = "capture" /\ Capture!Next /\ UNCHANGED <<cameras, part>>
    \/ part = "listener" /\ Listener!Next /\ UNCHANGED <<v7, v8, v9, cameras, part>>
    \/ /\ part = "limits" /\ Sparing!Next
       /\ UNCHANGED <<v4, v5, v6, v7, v8, v9, cameras, part>>
    \/ part = "presence" /\ Presence!Next /\ UNCHANGED <<logs, live, part>>
    \/ part = "live" /\ Live!Next /\ UNCHANGED <<logs, presence, part>>
    \/ Ended /\ UNCHANGED <<logs, cameras, part>>

FaultsSpec == FaultsInit /\ [][FaultsNext]_<<logs, cameras, part>>

\* The threads that refresh live view are also the listener's connections, so that one
\* permutation serves both.
Symmetry == Permutations(Requests) \cup Permutations(Members)

\* Every line a thread prints reaches the capture, whole and once, and a console that fails
\* is told there once (CaptureLog); who is turned away is logged once in a while, with a
\* bounded memory (LogLimit).
LogsHold ==
    /\ part = "capture" =>
          /\ Capture!TypeOK
          /\ Capture!LinesAreWhole
          /\ Capture!NothingDropped
          /\ Capture!ToldOnce
    /\ part = "limits" =>
          /\ Sparing!TypeOK
          /\ Sparing!SaidOnce
          /\ Sparing!MapIsBounded

\* The capture is only ever added to (CaptureLog).
OnlyGrows == [][part = "capture" => Capture!Grows]_logs

\* Every connection leaves its record, and a request that was answered is in the file
\* (CaptureListener).
ListenerTells ==
    part = "listener" =>
        /\ Listener!TypeOK
        /\ Listener!EveryConnectionIsTold
        /\ Listener!AnsweredIsRecorded

\* Presence is kept for the devices that are, or lately were, somebody's.
NodesAreOwned == Presence!NodesAreOwned

\* "A registered camera's node is never removed here": prune removes none but of
\* a device that was registered while the round was deleting.
PruneSparesRegistered == Presence!PruneSparesRegistered

\* What viewers get follows the registry, the file and backend/.env, each in turn, but
\* for causes that are named.
RelayFollows == Live!RelayFollows
=================================================================================
