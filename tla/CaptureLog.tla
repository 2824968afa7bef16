------------------------------ MODULE CaptureLog ------------------------------
(***************************************************************************)
(* The capture log (utils/capture_log.py): stdout and stderr of the worker *)
(* are wrapped by a tee each, which writes what the threads print to one   *)
(* log file, in parts, and to the console.  The file comes first and does  *)
(* not depend on the console.                                              *)
(*                                                                         *)
(* A piece is the text of one write up to its newline, or without one; a   *)
(* write of several lines is several writes.  An entry of the file is a    *)
(* line, or a warning about a console.  Output is told apart by its        *)
(* thread, its stream and its number; colours and time stamps are left out.*)
(***************************************************************************)
EXTENDS Naturals, Sequences, FiniteSets, SequencesExt

CONSTANTS
    Threads,        \* threads that print
    Main,           \* of Threads, the one that runs the exit handlers
    MaxWrites,      \* bound: writes
    MaxLost,        \* bound: entries the file fails on
    PartMax         \* entries of a part (_MAX_BYTES)

Streams == {"stdout", "stderr"}
Piece == [t : Threads, s : Streams, n : Nat, ends : BOOLEAN]

VARIABLES
    pending,        \* _Tee._pending: a thread's unfinished line, per stream
    consoleOk,      \* _Tee._console_ok
    skipNoted,      \* _Tee._skip_noted
    parts,          \* the entries of the part files, in the order of their numbers
    stream,         \* _PartFileHandler.stream: "open", "none", or "closed" but not reset
    lost,           \* history: entries the handler could not write
    said,           \* history: writes of each thread to each stream
    step,           \* where each thread is in write()
    exit            \* "no", "stderr" or "stdout" (to be flushed next), "clean"

vars == <<pending, consoleOk, skipNoted, parts, stream, lost, said, step, exit>>

Idle == [at |-> "idle", s |-> "stdout"]
At(place, s) == [at |-> place, s |-> s]
LineOf(pieces) == [kind |-> "line", pieces |-> pieces, s |-> Head(pieces).s]
Warning(kind, s) == [kind |-> kind, pieces |-> << >>, s |-> s]

TypeOK ==
    /\ \A t \in Threads : \A s \in Streams : pending[t][s] \in Seq(Piece)
    /\ consoleOk \in [Streams -> BOOLEAN] /\ skipNoted \in [Streams -> BOOLEAN]
    /\ \A i \in DOMAIN parts : Len(parts[i]) <= PartMax
    /\ stream \in {"open", "none", "closed"}
    /\ said \in [Threads -> [Streams -> Nat]]
    /\ step \in [Threads -> [at : {"idle", "console", "failed", "skipped", "tell", "note"},
                             s : Streams]]
    /\ exit \in {"no", "stderr", "stdout", "clean"}

Init ==
    /\ pending = [t \in Threads |-> [s \in Streams |-> << >>]]
    /\ consoleOk = [s \in Streams |-> TRUE]
    /\ skipNoted = [s \in Streams |-> FALSE]
    /\ parts = << << >> >> /\ stream = "open"
    /\ lost = << >>
    /\ said = [t \in Threads |-> [s \in Streams |-> 0]]
    /\ step = [t \in Threads |-> Idle]
    /\ exit = "no"

Alive == exit # "clean"
------------------------------------------------------------------------------
(* The handler.  handle() holds its lock, so an entry is written in one step. *)

\* shouldRollover()
Full == Len(Last(parts)) >= PartMax
AddedTo(ps, e) == [ps EXCEPT ![Len(ps)] = Append(@, e)]

\* A fault: the number of the part stays, and its file is reset.
RolledOverInPlace(e) == [parts EXCEPT ![Len(parts)] = <<e>>]

\* doRollover(): the next part begins; nothing is renamed or deleted.
RolledOver(e) == Append(parts, <<e>>)

\* The entry is written.  A handler without a stream opens the file of its number again.
Written(e) ==
    /\ stream # "closed"
    /\ parts' = IF Full THEN RolledOver(e) ELSE AddedTo(parts, e)
    /\ stream' = "open"
    /\ UNCHANGED lost

\* The entry is lost: the write fails; or the next part cannot be opened, after its number
\* was taken; or the full part cannot be closed, which leaves a closed stream in place, and
\* every later entry fails on it.
NotWritten(e) ==
    /\ stream = "closed" \/ Len(lost) < MaxLost
    /\ lost' = Append(lost, e)
    /\ \/ UNCHANGED <<parts, stream>>
       \/ Full /\ stream = "open" /\ parts' = Append(parts, << >>) /\ stream' = "none"
       \/ Full /\ stream = "open" /\ stream' = "closed" /\ UNCHANGED parts

Emit(e) == Written(e) \/ NotWritten(e)
------------------------------------------------------------------------------
(* Writing. *)

\* A fault: one pending line for all threads.
OnePending(t) == Main

\* _pending is a threading.local: each thread has its own.
Holder(t) == t

Writes == FoldFunctionOnSet(+, 0, [ts \in Threads \X Streams |-> said[ts[1]][ts[2]]],
                            Threads \X Streams)

\* write(): the text joins the pending line; a finished line goes to the file.  Then the
\* console is next.
Write(t, s, ends) ==
    LET piece == [t |-> t, s |-> s, n |-> said[t][s] + 1, ends |-> ends]
        text == Append(pending[Holder(t)][s], piece)
    IN  /\ Alive /\ (t = Main => exit = "no")
        /\ step[t] = Idle /\ Writes < MaxWrites
        /\ said' = [said EXCEPT ![t][s] = @ + 1]
        /\ pending' = [pending EXCEPT ![Holder(t)][s] = IF ends THEN << >> ELSE text]
        /\ IF ends THEN Emit(LineOf(text))
                   ELSE UNCHANGED <<parts, stream, lost>>
        /\ step' = [step EXCEPT ![t] = At("console", s)]
        /\ UNCHANGED <<consoleOk, skipNoted, exit>>

\* The console takes it and is flushed, raises an OSError, or refuses this one write.
Console(t) ==
    LET s == step[t].s IN
    /\ Alive /\ step[t].at = "console"
    /\ \/ step' = [step EXCEPT ![t] = Idle]
       \/ consoleOk[s] /\ step' = [step EXCEPT ![t] = At("failed", s)]
       \/ consoleOk[s] /\ step' = [step EXCEPT ![t] = At("skipped", s)]
    /\ UNCHANGED <<pending, consoleOk, skipNoted, parts, stream, lost,
                   said, exit>>

\* _console_failed(): the first thread takes the console out of use ...
ConsoleFailed(t) ==
    LET s == step[t].s IN
    /\ Alive /\ step[t].at = "failed"
    /\ consoleOk' = [consoleOk EXCEPT ![s] = FALSE]
    /\ step' = [step EXCEPT ![t] = IF consoleOk[s] THEN At("tell", s) ELSE Idle]
    /\ UNCHANGED <<pending, skipNoted, parts, stream, lost, said, exit>>

\* ... and says so in the file.
Tell(t) ==
    /\ Alive /\ step[t].at = "tell"
    /\ Emit(Warning("dead", step[t].s))
    /\ step' = [step EXCEPT ![t] = Idle]
    /\ UNCHANGED <<pending, consoleOk, skipNoted, said, exit>>

\* _console_skipped(): the first write that only this console refused is noted ...
ConsoleSkipped(t) ==
    LET s == step[t].s IN
    /\ Alive /\ step[t].at = "skipped"
    /\ skipNoted' = [skipNoted EXCEPT ![s] = TRUE]
    /\ step' = [step EXCEPT ![t] = IF skipNoted[s] THEN Idle ELSE At("note", s)]
    /\ UNCHANGED <<pending, consoleOk, parts, stream, lost, said, exit>>

\* ... in the file.
Note(t) ==
    /\ Alive /\ step[t].at = "note"
    /\ Emit(Warning("skip", step[t].s))
    /\ step' = [step EXCEPT ![t] = Idle]
    /\ UNCHANGED <<pending, consoleOk, skipNoted, said, exit>>

------------------------------------------------------------------------------
(* The end. *)

\* The interpreter exits: the handlers run in the main thread, last registered first.
BeginExit ==
    /\ exit = "no" /\ step[Main] = Idle /\ exit' = "stderr"
    /\ UNCHANGED <<pending, consoleOk, skipNoted, parts, stream, lost,
                   said, step>>

\* flush_pending(): the unfinished line of this thread is written.
FlushPending ==
    /\ exit \in {"stderr", "stdout"}
    /\ exit' = IF exit = "stderr" THEN "stdout" ELSE "clean"
    /\ pending' = [pending EXCEPT ![Holder(Main)][exit] = << >>]
    /\ IF pending[Holder(Main)][exit] # << >>
       THEN Emit(LineOf(pending[Holder(Main)][exit]))
       ELSE UNCHANGED <<parts, stream, lost>>
    /\ UNCHANGED <<consoleOk, skipNoted, said, step>>

Proceed(t) == Console(t) \/ ConsoleFailed(t) \/ Tell(t) \/ ConsoleSkipped(t) \/ Note(t)

Next ==
    \/ \E t \in Threads, s \in Streams, ends \in BOOLEAN : Write(t, s, ends)
    \/ \E t \in Threads : Proceed(t)
    \/ BeginExit \/ FlushPending

Spec == Init /\ [][Next]_vars
------------------------------------------------------------------------------
\* The entries of the file, by the number of their part and their place in it.
InFile == UNION {{<<p, i>> : i \in DOMAIN parts[p]} : p \in DOMAIN parts}
EntryAt(place) == parts[place[1]][place[2]]
Before(a, b) == a[1] < b[1] \/ (a[1] = b[1] /\ a[2] < b[2])

\* The numbers of what t wrote to s, of these pieces.
Numbers(pieces, t, s) ==
    {pieces[j].n : j \in {i \in DOMAIN pieces : pieces[i].t = t /\ pieces[i].s = s}}

\* Lines that several threads print at a time do not interleave within a line: a line of
\* the file is what one thread wrote to one stream, without a gap, up to a newline; only
\* the main thread's last line may lack it, when it is written at exit (_Tee's comment).
LinesAreWhole ==
    \A a \in InFile : EntryAt(a).kind = "line" =>
        LET pieces == EntryAt(a).pieces IN
        /\ \A j \in 1 .. Len(pieces) - 1 :
              /\ pieces[j + 1] = [pieces[j] EXCEPT !.n = @ + 1, !.ends = pieces[j + 1].ends]
              /\ ~pieces[j].ends
        /\ ~Last(pieces).ends => Last(pieces).t = Main /\ exit \in {"stdout", "clean"}

\* Whatever happens to the consoles, and across parts, the file holds what each thread wrote
\* to each stream once and in its order; what it does not hold is still pending or was lost
\* by a failure of the file itself.  After a clean exit nothing of the main thread is
\* pending (module comment: the capture must not depend on the console).
NothingDropped ==
    /\ \A t \in Threads, s \in Streams :
          /\ \A a, b \in InFile : Before(a, b) =>
                \A m \in Numbers(EntryAt(a).pieces, t, s), n \in Numbers(EntryAt(b).pieces, t, s) :
                    m < n
          /\ 1 .. said[t][s] = UNION ({Numbers(EntryAt(a).pieces, t, s) : a \in InFile}
                                      \cup {Numbers(lost[i].pieces, t, s) : i \in DOMAIN lost}
                                      \cup {Numbers(pending[t][s], t, s)})
    /\ exit = "clean" => \A s \in Streams : pending[Main][s] = << >>

\* Where a warning about a console is: in the file, lost by it, or about to be written.
Tellings(kind, place, s) ==
    LET About(e) == e.kind = kind /\ e.s = s IN
        ({"told"} \X {a \in InFile : About(EntryAt(a))})
            \cup ({"lost"} \X {i \in DOMAIN lost : About(lost[i])})
            \cup ({"telling"} \X {t \in Threads : step[t] = At(place, s)})

\* A console's failure, and the first write it refused, are told in the file once per stream,
\* although several threads may run into them at the same time (_console_lock).
ToldOnce ==
    \A s \in Streams :
        /\ Cardinality(Tellings("dead", "tell", s)) = IF consoleOk[s] THEN 0 ELSE 1
        /\ Cardinality(Tellings("skip", "note", s)) = IF skipNoted[s] THEN 1 ELSE 0

\* Parts are only added to, and only the last one: nothing that was captured is renamed,
\* overwritten or deleted (_PartFileHandler).
Grows ==
    /\ Len(parts') >= Len(parts)
    /\ \A i \in DOMAIN parts : /\ IsPrefix(parts[i], parts'[i])
                               /\ i < Len(parts) => parts'[i] = parts[i]
OnlyGrows == [][Grows]_vars
===============================================================================
