------------------------------- MODULE Incidents -------------------------------
(***************************************************************************)
(* What becomes of an alert: the feedback on it (services/alert_service.py)*)
(* and the reports on shifts and people (services/llm_service.py), with    *)
(* past feedback as their context (services/rag_service.py).               *)
(*                                                                         *)
(* The routes run in a thread pool.  Alerts are nodes of the Realtime      *)
(* Database, feedback and logs are documents of Firestore.  A feedback     *)
(* document is told by its number; its text never changes, so the          *)
(* embedding cache is keyed by it.  Which of the embedded documents are    *)
(* similar enough, and all wording, is left out.  A call that fails has    *)
(* written nothing.                                                        *)
(***************************************************************************)
EXTENDS Naturals, Sequences, FiniteSets, SequencesExt

CONSTANTS
    Alerts, Guards, Shifts,
    Threads,
    CacheMax,       \* _EMBED_CACHE_MAX, positive
    MaxFeedback,    \* bound: feedback documents
    None

VARIABLES
    node,           \* /alerts: of each alert "new" (not yet raised), "open", "resolved",
                    \* "gone", or "residue", a node of the flag alone
    feedback,       \* the alert of each feedback document
    logs,           \* patrol_logs: pairs of a shift and a guard
    listed,         \* pairs an admin was shown as reportable
    cache,          \* _embed_cache, oldest first
    request,        \* what each thread does
    crossed,        \* history: alerts deleted while feedback on them was between look and mark
    halved          \* history: alerts marked by feedback that was then not saved

vars == <<node, feedback, logs, listed, cache, request, crossed, halved>>

Nothing == [at |-> "idle", alert |-> None, todo |-> {}, doc |-> 0, victim |-> 0]
Pairs == Shifts \X Guards

TypeOK ==
    /\ node \in [Alerts -> {"new", "open", "resolved", "gone", "residue"}]
    /\ feedback \in Seq(Alerts) /\ Len(feedback) <= MaxFeedback
    /\ logs \subseteq Pairs /\ listed \subseteq Pairs
    /\ cache \in Seq(1 .. MaxFeedback)
    /\ request \in [Threads ->
          [at : {"idle", "mark", "file", "alerts", "corpus", "query", "items", "embed", "full",
                 "evict", "put", "generate"},
           alert : Alerts \cup {None}, todo : SUBSET (1 .. MaxFeedback),
           doc : 0 .. MaxFeedback, victim : 0 .. MaxFeedback]]
    /\ crossed \subseteq Alerts /\ halved \subseteq Alerts

Init ==
    /\ node = [a \in Alerts |-> "new"]
    /\ feedback = << >> /\ logs = {} /\ listed = {} /\ cache = << >>
    /\ request = [t \in Threads |-> Nothing]
    /\ crossed = {} /\ halved = {}

Unused(t) == request[t].at = "idle"
At(t, at) == request[t].at = at
Goes(t, new) == request' = [request EXCEPT ![t] = new]
To(t, at) == Goes(t, [request[t] EXCEPT !.at = at])
Ends(t) == Goes(t, Nothing)

There(a) == node[a] \in {"open", "resolved", "residue"}
------------------------------------------------------------------------------
(* Alerts and feedback. *)

\* alert_repository.save(), by a check.
Raised(a) ==
    /\ node[a] = "new" /\ node' = [node EXCEPT ![a] = "open"]
    /\ UNCHANGED <<feedback, logs, listed, cache, request, crossed, halved>>

\* A fault: the alert is not looked up.
FoundAlways(a) == node[a] # "new"
\* alert_repository.get(): a node of the flag alone is one.
Found(a) == There(a)

\* submit_feedback(): the alert is looked up ...
BeginFeedback(t, a) ==
    /\ Unused(t) /\ node[a] # "new"
    /\ IF Found(a) THEN Goes(t, [Nothing EXCEPT !.at = "mark", !.alert = a])
                   ELSE Ends(t)
    /\ UNCHANGED <<node, feedback, logs, listed, cache, crossed, halved>>

\* ... marked as resolved, by an update, which makes a node that is gone ...
Mark(t) ==
    LET a == request[t].alert IN
    /\ At(t, "mark")
    /\ node' = [node EXCEPT ![a] = IF There(a) /\ @ # "residue" THEN "resolved" ELSE "residue"]
    /\ To(t, "file")
    /\ UNCHANGED <<feedback, logs, listed, cache, crossed, halved>>

\* ... and the feedback is saved, for the reports to come.
FileFeedback(t) ==
    /\ At(t, "file") /\ Len(feedback) < MaxFeedback
    /\ feedback' = Append(feedback, request[t].alert)
    /\ Ends(t)
    /\ UNCHANGED <<node, logs, listed, cache, crossed, halved>>

\* An admin deletes an alert.
Delete(t, a) ==
    /\ Unused(t) /\ There(a)
    /\ node' = [node EXCEPT ![a] = "gone"]
    /\ crossed' = IF \E u \in Threads : At(u, "mark") /\ request[u].alert = a
                  THEN crossed \cup {a} ELSE crossed
    /\ Ends(t)
    /\ UNCHANGED <<feedback, logs, listed, cache, halved>>
------------------------------------------------------------------------------
(* Reports. *)

\* A guard's visit is logged; logs are never deleted.
Logged(p) ==
    /\ p \notin logs /\ logs' = logs \cup {p}
    /\ UNCHANGED <<node, feedback, listed, cache, request, crossed, halved>>

\* get_reportable_shifts(): one entry per guard per shift, of the newest that have an arrival.
ListShifts(t) ==
    /\ Unused(t) /\ Ends(t)
    /\ \E shown \in SUBSET logs : listed' = listed \cup shown
    /\ UNCHANGED <<node, feedback, logs, cache, crossed, halved>>

\* generate_report(): the logs of the shift and the guard ...
BeginReport(t, p) ==
    /\ Unused(t)
    /\ IF p \in logs THEN Goes(t, [Nothing EXCEPT !.at = "alerts"]) ELSE Ends(t)
    /\ UNCHANGED <<node, feedback, logs, listed, cache, crossed, halved>>

\* ... the guard's alerts ...
ReadAlerts(t) ==
    /\ At(t, "alerts") /\ To(t, "corpus")
    /\ UNCHANGED <<node, feedback, logs, listed, cache, crossed, halved>>

\* ... and the context.  _retrieve(): all feedback is read; none, or a failure, is no context.
ReadCorpus(t) ==
    /\ At(t, "corpus")
    /\ \/ feedback # << >>
          /\ Goes(t, [request[t] EXCEPT !.at = "query", !.todo = DOMAIN feedback])
       \/ To(t, "generate")
    /\ UNCHANGED <<node, feedback, logs, listed, cache, crossed, halved>>

\* The query is embedded; a failure is no context.
EmbedQuery(t) ==
    /\ At(t, "query") /\ (To(t, "items") \/ To(t, "generate"))
    /\ UNCHANGED <<node, feedback, logs, listed, cache, crossed, halved>>

\* _embed_document_cached(): the next document's vector is in the cache, or is asked for.
Item(t, n) ==
    /\ At(t, "items") /\ n \in request[t].todo
    /\ Goes(t, [request[t] EXCEPT !.todo = @ \ {n}, !.doc = n,
                                  !.at = IF Contains(cache, n) THEN "items" ELSE "embed"])
    /\ UNCHANGED <<node, feedback, logs, listed, cache, crossed, halved>>

Full == Len(cache) >= CacheMax

\* A failed call skips the document; otherwise the cache is looked at ...
Embed(t) ==
    /\ At(t, "embed")
    /\ To(t, "items") \/ To(t, IF Full THEN "full" ELSE "put")
    /\ UNCHANGED <<node, feedback, logs, listed, cache, crossed, halved>>

\* Whatever is raised in _retrieve() is no context, and the report goes on without.
Caught(t) == To(t, "generate")

\* ... the oldest entry is looked for, of which other threads may have left none ...
Oldest(t) ==
    /\ At(t, "full")
    /\ IF cache = << >> THEN Caught(t)
       ELSE Goes(t, [request[t] EXCEPT !.at = "evict", !.victim = Head(cache)])
    /\ UNCHANGED <<node, feedback, logs, listed, cache, crossed, halved>>

\* ... and deleted, unless another thread has ...
Evict(t) ==
    /\ At(t, "evict")
    /\ \/ \E i \in DOMAIN cache :
              /\ cache[i] = request[t].victim /\ cache' = RemoveAt(cache, i)
              /\ Goes(t, [request[t] EXCEPT !.at = "put", !.victim = 0])
       \/ ~Contains(cache, request[t].victim) /\ UNCHANGED cache /\ Caught(t)
    /\ UNCHANGED <<node, feedback, logs, listed, crossed, halved>>

\* ... and the vector is stored; a key that is there keeps its place.
Put(t) ==
    /\ At(t, "put")
    /\ cache' = IF Contains(cache, request[t].doc) THEN cache ELSE Append(cache, request[t].doc)
    /\ To(t, "items")
    /\ UNCHANGED <<node, feedback, logs, listed, crossed, halved>>

\* All documents are compared: the nearest ones are the context.
Ranked(t) ==
    /\ At(t, "items") /\ request[t].todo = {} /\ To(t, "generate")
    /\ UNCHANGED <<node, feedback, logs, listed, cache, crossed, halved>>

\* The provider writes the report, and it is saved.
Generate(t) ==
    /\ At(t, "generate") /\ Ends(t)
    /\ UNCHANGED <<node, feedback, logs, listed, cache, crossed, halved>>

\* generate_safety_report(): the person's alerts, without which there is no report; a node
\* of the flag alone has no person.
BeginSafetyReport(t, own) ==
    /\ Unused(t)
    /\ IF \E a \in own : node[a] \in {"open", "resolved"}
       THEN Goes(t, [Nothing EXCEPT !.at = "generate"])
       ELSE Ends(t)
    /\ UNCHANGED <<node, feedback, logs, listed, cache, crossed, halved>>

\* A call outside of the retrieval fails, and the request with it.
Fail(t) ==
    /\ request[t].at \in {"mark", "file", "alerts", "generate"}
    /\ Ends(t)
    /\ halved' = IF At(t, "file") THEN halved \cup {request[t].alert} ELSE halved
    /\ UNCHANGED <<node, feedback, logs, listed, cache, crossed>>

\* The worker restarts.
Restart ==
    /\ cache' = << >> /\ request' = [t \in Threads |-> Nothing]
    /\ halved' = halved \cup {request[t].alert : t \in {u \in Threads : At(u, "file")}}
    /\ UNCHANGED <<node, feedback, logs, listed, crossed>>

Proceed(t) ==
    \/ Mark(t) \/ FileFeedback(t)
    \/ ReadAlerts(t) \/ ReadCorpus(t) \/ EmbedQuery(t)
    \/ \E n \in 1 .. MaxFeedback : Item(t, n)
    \/ Embed(t) \/ Oldest(t) \/ Evict(t) \/ Put(t) \/ Ranked(t) \/ Generate(t)
    \/ Fail(t)

Begin(t) ==
    \/ \E a \in Alerts : BeginFeedback(t, a) \/ Delete(t, a)
    \/ \E p \in Pairs : BeginReport(t, p)
    \/ \E own \in SUBSET Alerts : BeginSafetyReport(t, own)
    \/ ListShifts(t)

Next ==
    \/ \E a \in Alerts : Raised(a)
    \/ \E p \in Pairs : Logged(p)
    \/ \E t \in Threads : Begin(t) \/ Proceed(t)
    \/ Restart

Spec == Init /\ [][Next]_vars
------------------------------------------------------------------------------
\* The dashboard's flag and the feedback collection, two databases without a sync layer,
\* agree: what has feedback is not open, and what is resolved has feedback, or a request is
\* about to save it, or one was broken off before it did (AlertService's docstring).
FlagAndFeedbackAgree ==
    \A a \in Alerts :
        /\ Contains(feedback, a) => node[a] # "open"
        /\ node[a] = "resolved" =>
              \/ Contains(feedback, a) \/ a \in halved
              \/ \E t \in Threads : At(t, "file") /\ request[t].alert = a

\* A deleted alert comes back, as a node of the flag alone, only through feedback that found
\* it before it was deleted and marks it after (mark_resolved: "an existing alert").
DeletedStaysDeleted ==
    \A a \in Alerts : node[a] = "residue" => a \in crossed

\* Threads that look at the size of the cache at the same time may each add to a full one,
\* but no more than one each: it does not grow without bound (_embed_cache's comment).
CacheIsBounded == Len(cache) < CacheMax + Cardinality(Threads)

\* A shift that was listed for a report is never found without logs
\* (list_reportable_shifts).
ListedHasLogs == listed \subseteq logs
===============================================================================
