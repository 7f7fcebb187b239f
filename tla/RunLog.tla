-------------------------------- MODULE RunLog --------------------------------
(****************************************************************************)
(* One run-log bundle (runlog/session.py, encoding.py): an append-only file *)
(* of span and event records, a meta file, and blobs for large payloads,    *)
(* judged by its own reader, validate_runlog (validation.py).  A thread's   *)
(* current span is a context variable: a scheduler job starts in a copy of  *)
(* its submitter's context, and the submitter waits for its jobs inside the *)
(* same span.  A write may fail at any point, even half way through a line, *)
(* and logging is disabled only a moment later; the process may die; the    *)
(* log must then not claim to be complete.                                  *)
(****************************************************************************)
EXTENDS Naturals, Sequences, FiniteSets

CONSTANTS
    Workers,        \* contexts that jobs may run in, beside the main thread's
    Payloads,       \* payload classes used: subset of {"small", "large", "secret"}
    Content,        \* config.content: "full" or "metadata"
    MaxRecords      \* bound on the records written before the run ends

VARIABLES
    records,        \* the lines of the file
    torn,           \* a line was cut short
    meta,           \* "none" | "running" | a final status
    blobs,          \* payloads stored
    context,        \* thread -> stack of its open spans, the last is current
    asked,          \* thread -> the type of the record it is about to write, or "none"
    waits,          \* thread -> the jobs it waits for
    writing,        \* the record whose turn under the lock has begun, or Nothing
    failing,        \* threads whose write failed, before they disable logging
    failed,         \* _failed: logging is disabled
    outcome,        \* _outcome
    session         \* "new" | "open" | "closing" | "closed" | "refused" | "dead"

logVars == <<records, torn, meta, blobs, context, asked, waits, writing, failing, failed, outcome, session>>

Main == 1
Thread == {Main} \cup Workers
Root == 1
Record(t, s, p, st, b) == [type |-> t, span |-> s, parent |-> p, status |-> st, blob |-> b]
Writing(t, r) == [by |-> t, line |-> r]
Nothing == Writing(0, Record("none", 0, 0, "", ""))

NextSpan == Len(records) + 1
Current(t) == context[t][Len(context[t])]
Left(stack) == [k \in 1..(Len(stack) - 1) |-> stack[k]]

\* _status_rank
Rank(status) == CASE status = "ok" -> 0 [] status = "inconclusive" -> 1
                  [] status = "cancelled" -> 2 [] OTHER -> 3

\* PayloadEncoder._encode: a sensitive key leaves a digest, a large value a
\* reference to a blob, or only its digest in metadata mode
BlobOf(payload) == IF payload = "large" /\ Content = "full" THEN payload ELSE ""

-----------------------------------------------------------------------------
LogInit ==
    /\ records = <<>> /\ torn = FALSE /\ meta = "none" /\ blobs = {}
    /\ context = [t \in Thread |-> <<>>]
    /\ asked = [t \in Thread |-> "none"]
    /\ waits = [t \in Thread |-> {}]
    /\ writing = Nothing /\ failing = {} /\ failed = FALSE /\ outcome = "ok" /\ session = "new"

\* RunLogSession.__enter__: meta and the root span, or nothing at all
EnterSession ==
    /\ session = "new"
    /\ meta' = "running"
    /\ records' = <<Record("start", Root, 0, "", "")>>
    /\ context' = [context EXCEPT ![Main] = <<Root>>]
    /\ session' = "open"
    /\ UNCHANGED <<asked, torn, blobs, waits, writing, failing, failed, outcome>>

\* A failure while entering removes the files again and is raised
EnterFails ==
    /\ session = "new"
    /\ session' = "refused"
    /\ UNCHANGED <<asked, records, torn, meta, blobs, context, waits, writing, failing, failed, outcome>>

\* A thread between two of its operations on the log; it may wait for jobs
Between(t) == context[t] # <<>> /\ asked[t] = "none" /\ writing.by # t /\ t \notin failing
Active(t) == Between(t) /\ waits[t] = {}
Room == Len(records) + Cardinality({t \in Thread : asked[t] # "none"}) < MaxRecords

\* RunLogSession.span and .event look at enabled, without the lock; Span.end,
\* called in whatever way the block of the span was left, does not look.  A job's
\* first span is its submitter's, which it does not end.
Ask(t, type) ==
    /\ session = "open" /\ Active(t)
    /\ IF type = "end" THEN Len(context[t]) > 1 ELSE ~failed /\ Room
    /\ asked' = [asked EXCEPT ![t] = type]
    /\ UNCHANGED <<records, torn, meta, blobs, context, waits, writing, failing, failed, outcome, session>>

\* The record a thread has asked for.  A span has the number of its record.
RecordFor(t, payload) ==
    CASE asked[t] = "start" -> Record("start", NextSpan, Current(t), "", BlobOf(payload))
      [] asked[t] = "event" -> Record("event", Current(t), 0, "", BlobOf(payload))
      [] OTHER -> Record("end", Current(t), context[t][Len(context[t]) - 1], "ok", BlobOf(payload))

\* The context after a record is written, or skipped
After(w) ==
    CASE w.line.type = "start" -> [context EXCEPT ![w.by] = Append(@, w.line.span)]
      [] w.line.type = "end" /\ w.line.span # Root -> [context EXCEPT ![w.by] = Left(@)]
      [] OTHER -> context

\* _write_record, once it has the lock: the attributes are made and encoded
TakeTurn(t, payload) ==
    /\ session = "open" /\ asked[t] # "none" /\ writing = Nothing /\ ~failed
    /\ asked' = [asked EXCEPT ![t] = "none"]
    /\ writing' = Writing(t, RecordFor(t, payload))
    /\ UNCHANGED <<records, torn, meta, blobs, context, waits, failing, failed, outcome, session>>

\* Logging was disabled meanwhile: the span is entered or left without a record
SkipRecord(t) ==
    /\ session = "open" /\ asked[t] # "none" /\ writing = Nothing /\ failed
    /\ asked' = [asked EXCEPT ![t] = "none"]
    /\ context' = After(Writing(t, RecordFor(t, "small")))
    /\ UNCHANGED <<records, torn, meta, blobs, waits, writing, failing, failed, outcome, session>>

\* mutant: a blob is stored after the record that refers to it
StoreBlobNever(r) == FALSE

\* _blob_reference: the blob is on disk before the record is formed
NeedsBlob(r) == r.blob # "" /\ r.blob \notin blobs

StoreBlob ==
    /\ session \in {"open", "closing"} /\ NeedsBlob(writing.line)
    /\ blobs' = blobs \cup {writing.line.blob}
    /\ UNCHANGED <<asked, records, torn, meta, context, waits, writing, failing, failed, outcome, session>>

\* The line is written and flushed
WriteLine ==
    /\ session \in {"open", "closing"} /\ writing # Nothing /\ ~NeedsBlob(writing.line)
    /\ records' = Append(records, writing.line)
    /\ context' = After(writing)
    /\ writing' = Nothing
    /\ UNCHANGED <<asked, torn, meta, blobs, waits, failing, failed, outcome, session>>

\* The write fails, with or without half a line on disk; the work of the thread
\* goes on, and other threads may write before it has disabled logging
WriteFails(half) ==
    /\ session \in {"open", "closing"} /\ writing # Nothing
    /\ failing' = failing \cup {writing.by}
    /\ torn' = (torn \/ half)
    /\ context' = After(writing)
    /\ writing' = Nothing
    /\ UNCHANGED <<asked, records, meta, blobs, waits, failed, outcome, session>>

\* _disable_after_failure takes the lock once more
Disable(t) ==
    /\ session \in {"open", "closing"} /\ t \in failing /\ writing = Nothing
    /\ failed' = TRUE
    /\ failing' = failing \ {t}
    /\ UNCHANGED <<asked, records, torn, meta, blobs, context, waits, writing, outcome, session>>

-----------------------------------------------------------------------------
(* Jobs: a job starts in a copy of the context of the thread inside         *)
(* jobs.run(), which returns when its last job has ended.                   *)

JobStarts(t, w) ==
    /\ session = "open" /\ Between(t) /\ context[w] = <<>>
    /\ context' = [context EXCEPT ![w] = <<Current(t)>>]
    /\ waits' = [waits EXCEPT ![t] = @ \cup {w}]
    /\ UNCHANGED <<asked, records, torn, meta, blobs, writing, failing, failed, outcome, session>>

JobEnds(t, w) ==
    /\ session = "open" /\ w \in waits[t]
    /\ Len(context[w]) = 1 /\ Active(w)
    /\ context' = [context EXCEPT ![w] = <<>>]
    /\ waits' = [waits EXCEPT ![t] = @ \ {w}]
    /\ UNCHANGED <<asked, records, torn, meta, blobs, writing, failing, failed, outcome, session>>

\* set_outcome: a worse status stays
SetOutcome(status) ==
    /\ session = "open" /\ Active(Main) /\ Len(context[Main]) = 1
    /\ Rank(status) > Rank(outcome)
    /\ outcome' = status
    /\ UNCHANGED <<asked, records, torn, meta, blobs, context, waits, writing, failing, failed, session>>

\* close: the root span ends unless logging was disabled
BeginClose(payload) ==
    /\ session = "open" /\ Active(Main) /\ Len(context[Main]) = 1 /\ writing = Nothing
    /\ session' = "closing"
    /\ writing' = IF failed THEN Nothing
                  ELSE Writing(Main, Record("end", Root, 0, outcome, BlobOf(payload)))
    /\ UNCHANGED <<asked, records, torn, meta, blobs, context, waits, failing, failed, outcome>>

\* mutant: the final meta does not look at the failure
FinalMetaAlways == outcome

FinalMeta == IF failed THEN "running" ELSE outcome

\* The final meta, written atomically
WriteMeta ==
    /\ session = "closing" /\ writing = Nothing /\ failing = {}
    /\ meta' = FinalMeta
    /\ session' = "closed"
    /\ UNCHANGED <<asked, records, torn, blobs, context, waits, writing, failing, failed, outcome>>

\* The meta cannot be written: the one of the start stays
MetaFails ==
    /\ session = "closing" /\ writing = Nothing /\ failing = {}
    /\ failed' = TRUE
    /\ session' = "closed"
    /\ UNCHANGED <<asked, records, torn, meta, blobs, context, waits, writing, failing, outcome>>

Dies ==
    /\ session \in {"open", "closing"}
    /\ session' = "dead"
    /\ torn' \in IF writing = Nothing THEN {torn} ELSE {torn, TRUE}
    /\ UNCHANGED <<asked, records, meta, blobs, context, waits, writing, failing, failed, outcome>>

LogNext ==
    \/ EnterSession \/ EnterFails \/ StoreBlob \/ WriteLine \/ WriteMeta \/ MetaFails \/ Dies
    \/ \E p \in Payloads : BeginClose(p)
    \/ \E half \in BOOLEAN : WriteFails(half)
    \/ \E status \in {"inconclusive", "error"} : SetOutcome(status)
    \/ \E t \in Thread :
          \/ \E type \in {"start", "event", "end"} : Ask(t, type)
          \/ \E p \in Payloads : TakeTurn(t, p)
          \/ SkipRecord(t) \/ Disable(t)
          \/ \E w \in Workers : JobStarts(t, w) \/ JobEnds(t, w)

LogDone == session \in {"closed", "refused", "dead"}
LogSpec == LogInit /\ [][LogNext \/ (LogDone /\ UNCHANGED logVars)]_logVars

-----------------------------------------------------------------------------
(* validate_runlog, the reader.  The trace is read line by line.            *)

StartedBefore(i) == {records[j].span : j \in {k \in 1..(i - 1) : records[k].type = "start"}}
EndedBefore(i) == {records[j].span : j \in {k \in 1..(i - 1) : records[k].type = "end"}}
OpenBefore(i) == StartedBefore(i) \ EndedBefore(i)

\* One line of the loop of validate_runlog, from the lines before it
LineValid(i) ==
    LET r == records[i]
        Earlier == {records[j] : j \in {k \in 1..(i - 1) : records[k].type = "start"}}
    IN  CASE r.type = "start" ->
               /\ r.span \notin StartedBefore(i)
               /\ IF r.parent = 0 THEN i = 1 ELSE r.parent \in OpenBefore(i)
          [] r.type = "end" ->
               /\ r.span \in OpenBefore(i)
               /\ \A s \in Earlier : s.parent = r.span => s.span \in EndedBefore(i)
               /\ \A s \in Earlier : s.span = r.span => s.parent = r.parent
          [] OTHER -> r.span \in OpenBefore(i)

\* The checks at the end of the file, of the meta and of the blobs
Validates ==
    LET n == Len(records)
    IN  /\ n # 0 /\ ~torn
        /\ \A i \in 1..n : LineValid(i)
        /\ OpenBefore(n + 1) = {}
        /\ records[1].parent = 0 /\ records[n].type = "end" /\ records[n].span = records[1].span
        /\ records[n].status = meta
        /\ \A i \in 1..n : records[i].blob # "" => records[i].blob \in blobs

\* RunLogSession and PayloadEncoder: a bundle whose meta claims completion is
\* accepted by validate_runlog, for any interleaving of threads, failures of
\* a write and death of the process; and even an unfinished bundle has every
\* blob its records refer to.
CompleteBundlesValidate ==
    /\ meta \notin {"none", "running"} => Validates
    /\ \A i \in DOMAIN records : records[i].blob # "" => records[i].blob \in blobs
=============================================================================
