---------------------------- MODULE CaptureListener ----------------------------
(***************************************************************************)
(* The tool that records what a camera sends                               *)
(* (tools/vigi-listener/listener.py): a thread per connection, one request *)
(* per connection, one log file.                                           *)
(*                                                                         *)
(* A record is told by its connection and its kind; a request's also by    *)
(* its number and by whether all of its body arrived.  How a body is       *)
(* described, and the console, are left out.                               *)
(***************************************************************************)
EXTENDS Naturals, Sequences, FiniteSets, SequencesExt

CONSTANTS
    Connections,
    MaxLost,        \* bound: records the file fails on
    None

VARIABLES
    log,            \* the capture file
    lost,           \* history: records that could not be written
    seq,            \* _seq: the last number given
    conn,           \* what each connection's thread does
    answered,       \* connections whose request got its 200
    server          \* "up", "stopped" (its record is written), "gone"

vars == <<log, lost, seq, conn, answered, server>>

Kinds == {"opened", "request", "malformed", "unfinished", "reset"}
Places == {"none", "accepted", "waiting", "body", "record", "reply", "ending", "raised", "over"}
NoConn == [at |-> "none", n |-> 0, whole |-> FALSE, seen |-> FALSE, raises |-> FALSE]
Record == [c : Connections \cup {None}, kind : Kinds \cup {"stopped"}, n : Nat, whole : BOOLEAN]
Rec(c, kind) == [c |-> c, kind |-> kind, n |-> 0, whole |-> FALSE]

TypeOK ==
    /\ log \in Seq(Record) /\ lost \in Seq(Record) /\ Len(lost) <= MaxLost
    /\ seq \in 0 .. Cardinality(Connections)
    /\ conn \in [Connections -> [at : Places, n : 0 .. Cardinality(Connections),
                                 whole : BOOLEAN, seen : BOOLEAN, raises : BOOLEAN]]
    /\ answered \subseteq Connections
    /\ server \in {"up", "stopped", "gone"}

Init ==
    /\ log = << >> /\ lost = << >> /\ seq = 0
    /\ conn = [c \in Connections |-> NoConn]
    /\ answered = {} /\ server = "up"

At(c, at) == conn[c].at = at /\ server # "gone"
Goes(c, new) == conn' = [conn EXCEPT ![c] = new]
To(c, at) == Goes(c, [conn[c] EXCEPT !.at = at])

\* _write(), under its lock: a record is written whole, or the file fails.
Write(r) ==
    \/ log' = Append(log, r) /\ UNCHANGED lost
    \/ Len(lost) < MaxLost /\ lost' = Append(lost, r) /\ UNCHANGED log
------------------------------------------------------------------------------
\* A connection is accepted, and its thread starts.
Accept(c) ==
    /\ At(c, "none") /\ server = "up" /\ To(c, "accepted")
    /\ UNCHANGED <<log, lost, seq, answered, server>>

\* handle(): it is recorded at once.
Opened(c) ==
    /\ At(c, "accepted") /\ Write(Rec(c, "opened")) /\ To(c, "waiting")
    /\ UNCHANGED <<seq, answered, server>>

\* _handle(), of any method: the request is counted and numbered ...
Request(c) ==
    /\ At(c, "waiting")
    /\ seq' = seq + 1
    /\ Goes(c, [conn[c] EXCEPT !.at = "body", !.n = seq', !.seen = TRUE])
    /\ UNCHANGED <<log, lost, answered, server>>

\* A fault: the reply comes first.
ReplyFirst(c) ==
    /\ At(c, "body") /\ answered' = answered \cup {c} /\ To(c, "record")
    /\ UNCHANGED <<log, lost, seq, server>>

\* ... its body is read; whatever arrived of one that stalls or breaks off is kept ...
ReadBody(c) ==
    /\ At(c, "body")
    /\ \E whole \in BOOLEAN : Goes(c, [conn[c] EXCEPT !.at = "record", !.whole = whole])
    /\ UNCHANGED <<log, lost, seq, answered, server>>

\* ... and it is recorded, even when it cannot be described.
RecordRequest(c) ==
    /\ At(c, "record")
    /\ Write([c |-> c, kind |-> "request", n |-> conn[c].n, whole |-> conn[c].whole])
    /\ To(c, "reply")
    /\ UNCHANGED <<seq, answered, server>>

\* The answer is sent, or the camera has gone; the connection is closed in any case
\* (close_connection).
Reply(c) ==
    /\ At(c, "reply")
    /\ answered' \in {answered, answered \cup {c}}
    /\ To(c, "ending")
    /\ UNCHANGED <<log, lost, seq, server>>

\* send_error(): a request line or headers that cannot be read.
Malformed(c) ==
    /\ At(c, "waiting")
    /\ Write(Rec(c, "malformed"))
    /\ Goes(c, [conn[c] EXCEPT !.at = "ending", !.seen = TRUE])
    /\ UNCHANGED <<seq, answered, server>>

\* No request: the camera closes, stalls until the timeout, or resets the connection, which
\* raises.
NoRequest(c) ==
    /\ At(c, "waiting")
    /\ \E raises \in BOOLEAN : Goes(c, [conn[c] EXCEPT !.at = "ending", !.raises = raises])
    /\ UNCHANGED <<log, lost, seq, answered, server>>

\* The end of handle(): a connection without a request is recorded as such.
End(c) ==
    /\ At(c, "ending")
    /\ IF conn[c].seen THEN UNCHANGED <<log, lost>> ELSE Write(Rec(c, "unfinished"))
    /\ To(c, IF conn[c].raises THEN "raised" ELSE "over")
    /\ UNCHANGED <<seq, answered, server>>

\* handle_error()
HandleError(c) ==
    /\ At(c, "raised") /\ Write(Rec(c, "reset")) /\ To(c, "over")
    /\ UNCHANGED <<seq, answered, server>>

\* Ctrl+C: the end is recorded; the threads are daemons and go on ...
Stop ==
    /\ server = "up" /\ server' = "stopped"
    /\ Write(Rec(None, "stopped"))
    /\ UNCHANGED <<seq, conn, answered>>

\* ... until the process is gone, wherever they are.
Exit ==
    /\ server = "stopped" /\ server' = "gone"
    /\ UNCHANGED <<log, lost, seq, conn, answered>>

Next ==
    \/ \E c \in Connections :
          \/ Accept(c) \/ Opened(c) \/ Request(c) \/ ReadBody(c) \/ RecordRequest(c) \/ Reply(c)
          \/ Malformed(c) \/ NoRequest(c) \/ End(c) \/ HandleError(c)
    \/ Stop \/ Exit

Spec == Init /\ [][Next]_vars
------------------------------------------------------------------------------
\* Where a connection's records of a kind are.
Traces(c, kind) ==
    LET Of(records) == {i \in DOMAIN records : records[i].c = c /\ records[i].kind = kind}
    IN  ({"log"} \X Of(log)) \cup ({"lost"} \X Of(lost))

\* Every connection leaves its trace, also one that never sends a request: when it is over,
\* its opening was recorded and exactly one of a request, a malformed one, and none - or the
\* file failed on the record (handle: "Every TCP connection is recorded").
EveryConnectionIsTold ==
    \A c \in Connections :
        At(c, "over") =>
            /\ Cardinality(Traces(c, "opened")) = 1
            /\ Cardinality(Traces(c, "request") \cup Traces(c, "malformed")
                              \cup Traces(c, "unfinished")) = 1

\* A camera that was answered will not send the event again: its request is in the file by
\* then, under a number of its own, or the file failed on it (_handle).
AnsweredIsRecorded ==
    /\ \A c \in answered : Cardinality(Traces(c, "request")) = 1
    /\ \A i, j \in DOMAIN log :
          i # j /\ log[i].kind = "request" /\ log[j].kind = "request" => log[i].n # log[j].n
===============================================================================
