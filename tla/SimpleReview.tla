---------------------------- MODULE SimpleReview ----------------------------
(***************************************************************************)
(* The file review of nodes/simple_llm_review: run_review over a set of    *)
(* files, the chunk loop of ReviewGraph.review, and the checkpoints that   *)
(* let an interrupted review continue (ReviewCheckpointSession over the    *)
(* SQLite file of cli/review_checkpoints.py).                              *)
(*                                                                         *)
(* Source text is a version number, 0 for a blank file.  The navigation    *)
(* tools read other places of the codebase; a read is a pair of a place    *)
(* and its version.  An answer is what it was computed from: the version   *)
(* of the file and the reads its tool calls really made.  A checkpoint     *)
(* record carries the evidence: the reads that observe() collected.        *)
(***************************************************************************)
EXTENDS Naturals, FiniteSets, Sequences

CONSTANTS Files,            \* the selected files
          FirstChunks,      \* chunks split_snippet makes of any file
          MaxChunks,        \* bound: chunks of a file after further splitting
          Places,           \* what the navigation tools read
          Tools,            \* the model tools: "none", "navigation" or "other"
          Curious,          \* the files for which the model calls tools
          Viewed,           \* files with a source view, checked for changes
          MaxObservations,  \* _MAX_CHECKPOINT_TOOL_OBSERVATIONS
          MaxEdits,         \* bound on changes, each of another source
          MaxRuns           \* bound on reviews started

VARIABLES
    content,   \* content[f]: the version of the file's text now
    tree,      \* tree[p]: the version of place p now
    disk,      \* the rows of the SQLite file
    phase,     \* where run_review is
    mode,      \* "files" (code, dir or file) or "patch"
    streaming, \* output is streamed: emit, and no checkpoint session
    records,   \* the session's _records
    loaded,    \* loaded_checkpoints
    work,      \* work[f]: the job of one file; since is the tree when it looked up
    answers,   \* reviews_by_path, and what was emitted: file -> computed from
    failures,  \* failures_by_path
    refused,   \* a ModelProviderConfigurationError ended jobs.run
    status,    \* the status of the ReviewRun
    writing,   \* the file whose job holds _write_lock, or "nobody"
    runs       \* reviews started

vars == <<content, tree, disk, phase, mode, streaming, records, loaded, work,
          answers, failures, refused, status, writing, runs>>
sources == <<content, tree>>
outcome == <<answers, failures, refused, status>>
session == <<records, writing>>

None == "none"
NoAnswer == [text |-> MaxEdits + 2, seen |-> {}]
NoRecord == [mode |-> None, file |-> None, text |-> 0, seen |-> {}, evidence |-> <<>>]
Idle == [at |-> "todo", text |-> 0, left |-> 0, seen |-> {}, evidence |-> <<>>,
         record |-> NoRecord, since |-> [p \in Places |-> 0]]
Over(how) == [Idle EXCEPT !.at = how]
Ended == {"done", "cached", "failed", "cancelled"}

\* navigation_evidence after invalidate(), [None]: an entry that is no read.
Invalid == <<<<None, 0>>>>

\* A checkpoint is kept only without tools or with the navigation tools alone.
Checkpointed == ~streaming /\ Tools # "other"

\* The record stored under the key of file f with this text.
RecordsOf(f, text) == {r \in records : r.mode = mode /\ r.file = f /\ r.text = text /\ Checkpointed}

Init ==
    /\ content \in [Files -> {0, 1}] /\ (\E f \in Files : content[f] # 0)
    /\ tree = [p \in Places |-> 0] /\ disk = {}
    /\ phase = "down" /\ mode = "files" /\ streaming = FALSE /\ records = {} /\ loaded = FALSE
    /\ work = [f \in Files |-> Idle]
    /\ answers = [f \in Files |-> NoAnswer] /\ failures = {} /\ refused = FALSE
    /\ status = None /\ writing = "nobody" /\ runs = 0

-----------------------------------------------------------------------------
(* The sources change, and the process dies, at any time.                    *)

Edits == Cardinality({p \in Places : tree[p] > 0}) + Cardinality({f \in Files : content[f] > 1})

EditFile(f) == /\ content[f] = 1 /\ Edits < MaxEdits
               /\ content' = [content EXCEPT ![f] = @ + 1]
               /\ UNCHANGED <<tree, disk, phase, mode, streaming, loaded, work, runs>>
               /\ UNCHANGED outcome /\ UNCHANGED session

EditTree(p) == /\ tree[p] = 0 /\ Edits < MaxEdits
               /\ tree' = [tree EXCEPT ![p] = 1]
               /\ UNCHANGED <<content, disk, phase, mode, streaming, loaded, work, runs>>
               /\ UNCHANGED outcome /\ UNCHANGED session

\* A crash of the last run bounded by MaxRuns has nobody to see it.
Crash == /\ phase \in {"cached", "review"} /\ runs < MaxRuns
         /\ phase' = "down" /\ writing' = "nobody" /\ records' = {}
         /\ mode' = "files" /\ streaming' = FALSE /\ loaded' = FALSE
         /\ work' = [f \in Files |-> Idle]
         /\ answers' = [f \in Files |-> NoAnswer] /\ failures' = {} /\ refused' = FALSE
         /\ UNCHANGED <<disk, status, runs>> /\ UNCHANGED sources

-----------------------------------------------------------------------------
(* run_review: the session reads the rows, unless they cannot be read.        *)

Begin(stream, m) ==
    /\ phase \in {"down", "returned"} /\ runs < MaxRuns
    /\ runs' = runs + 1 /\ phase' = "cached" /\ streaming' = stream /\ mode' = m
    /\ \/ records' = IF stream THEN {} ELSE disk
       \/ records' = {}
    /\ loaded' = (m = "files" /\ records' # {})
    /\ work' = [f \in Files |-> Idle]
    /\ answers' = [f \in Files |-> NoAnswer] /\ failures' = {} /\ refused' = FALSE
    /\ status' = None /\ writing' = "nobody"
    /\ UNCHANGED disk /\ UNCHANGED sources

\* load_cached: no record, a blank file, or an error turned into None.
NotCached(f) ==
    /\ phase = "cached" /\ loaded /\ work[f].at = "todo"
    /\ work' = [work EXCEPT ![f] = Over("missed")]
    /\ UNCHANGED <<disk, phase, mode, streaming, loaded, runs>>
    /\ UNCHANGED outcome /\ UNCHANGED sources /\ UNCHANGED session

BeginReview ==
    /\ phase = "cached" /\ (loaded => \A f \in Files : work[f].at \in {"cached", "missed"})
    /\ phase' = "review"
    /\ work' = [f \in Files |-> IF work[f].at = "cached" THEN work[f] ELSE Idle]
    /\ UNCHANGED <<disk, mode, streaming, loaded, runs>>
    /\ UNCHANGED outcome /\ UNCHANGED sources /\ UNCHANGED session

-----------------------------------------------------------------------------
(* The job of one file: _review_file_standard and ReviewGraph.review.         *)

\* A patch is reviewed file by file.
Turn(f) == mode = "patch" => \A g \in Files : work[g].at \in Ended \union {"todo"}

\* After a configuration error no job starts: the run is cancelled, or the loop
\* over the patch left.
Open(f) == phase = "review" /\ ~refused /\ work[f].at = "todo" /\ Turn(f)

\* Of a patch, entries are reviewed whose file is blank or new too.
HasText(f) == mode = "patch" \/ content[f] # 0

\* A file is looked up once: before the review if any records were loaded then,
\* else by the job that reviews it.
LooksUp(f) == work[f].at = "todo" /\ IF loaded THEN phase = "cached" ELSE Open(f)

\* The job reads the file and gets the record of what it read.
Lookup(f) ==
    /\ LooksUp(f) /\ HasText(f)
    /\ \E r \in RecordsOf(f, content[f]) :
        work' = [work EXCEPT ![f] =
                   [Idle EXCEPT !.at = "replay", !.text = content[f], !.record = r, !.since = tree]]
    /\ UNCHANGED <<disk, phase, mode, streaming, loaded, runs>>
    /\ UNCHANGED outcome /\ UNCHANGED sources /\ UNCHANGED session

\* checkpoint_evidence_valid: one more call of the record gives the same again.
Replay(f) ==
    LET evidence == work[f].record.evidence
        next == work[f].left + 1
    IN  /\ work[f].at = "replay" /\ next <= Len(evidence)
        /\ tree[evidence[next][1]] = evidence[next][2]
        /\ work' = [work EXCEPT ![f].left = next]
        /\ UNCHANGED <<disk, phase, mode, streaming, loaded, runs>>
        /\ UNCHANGED outcome /\ UNCHANGED sources /\ UNCHANGED session

\* A call gives something else, or fails: the file is a miss, and the job of a
\* review goes on with the text it has.
RejectRecord(f) ==
    /\ work[f].at = "replay" /\ work[f].left < Len(work[f].record.evidence)
    /\ work' = [work EXCEPT ![f] =
                  IF phase = "cached" THEN Over("missed")
                  ELSE [Idle EXCEPT !.at = "read", !.text = work[f].text, !.left = FirstChunks]]
    /\ UNCHANGED <<disk, phase, mode, streaming, loaded, runs>>
    /\ UNCHANGED outcome /\ UNCHANGED sources /\ UNCHANGED session

\* Mutant: evidence is not replayed.
ResumeUnchecked(f) ==
    /\ work[f].at = "replay"
    /\ answers' = [answers EXCEPT ![f] = [text |-> work[f].record.text, seen |-> work[f].record.seen]]
    /\ work' = [work EXCEPT ![f] = Over("cached")]
    /\ UNCHANGED <<disk, phase, mode, streaming, loaded, runs, failures, refused, status>>
    /\ UNCHANGED sources /\ UNCHANGED session

\* Every call gave the same: the answer of the record is returned.
Resume(f) ==
    /\ work[f].at = "replay" /\ work[f].left = Len(work[f].record.evidence)
    /\ answers' = [answers EXCEPT ![f] = [text |-> work[f].record.text, seen |-> work[f].record.seen]]
    /\ work' = [work EXCEPT ![f] = Over("cached")]
    /\ UNCHANGED <<disk, phase, mode, streaming, loaded, runs, failures, refused, status>>
    /\ UNCHANGED sources /\ UNCHANGED session

\* A blank file, or one no plugin knows, is skipped; of a patch, entries that
\* are removed, binary or ignored.
SkipFile(f) ==
    /\ Open(f) /\ (mode = "patch" \/ content[f] = 0)
    /\ work' = [work EXCEPT ![f] = Over("done")]
    /\ UNCHANGED <<disk, phase, mode, streaming, loaded, runs>>
    /\ UNCHANGED outcome /\ UNCHANGED sources /\ UNCHANGED session

ReadFile(f) ==
    /\ Open(f) /\ HasText(f) /\ (loaded \/ RecordsOf(f, content[f]) = {})
    /\ work' = [work EXCEPT ![f] =
                  [Idle EXCEPT !.at = "read", !.text = content[f], !.left = FirstChunks]]
    /\ UNCHANGED <<disk, phase, mode, streaming, loaded, runs>>
    /\ UNCHANGED outcome /\ UNCHANGED sources /\ UNCHANGED session

\* A file with a source view must still have the text its anchors are for.
Reviewable(f) == f \in Viewed /\ mode = "files" => work[f].text = content[f]

StartChunks(f) ==
    /\ work[f].at = "read" /\ Reviewable(f)
    /\ work' = [work EXCEPT ![f].at = "chunks"]
    /\ UNCHANGED <<disk, phase, mode, streaming, loaded, runs>>
    /\ UNCHANGED outcome /\ UNCHANGED sources /\ UNCHANGED session

\* A chunk that does not fit the model input is cut in two.
SplitChunk(f) ==
    /\ work[f].at = "chunks" /\ work[f].left \in 1..(MaxChunks - 1)
    /\ work' = [work EXCEPT ![f].left = @ + 1]
    /\ UNCHANGED <<disk, phase, mode, streaming, loaded, runs>>
    /\ UNCHANGED outcome /\ UNCHANGED sources /\ UNCHANGED session

\* Mutant: each chunk starts with the evidence the file started with.
ObserveAfresh(evidence, read, failed) ==
    IF evidence = Invalid \/ failed THEN Invalid ELSE <<read>>

\* observe() and invalidate(): what the evidence is after one more tool call.
Observe(evidence, read, failed) ==
    IF evidence = Invalid \/ failed \/ Len(evidence) >= MaxObservations
    THEN Invalid ELSE Append(evidence, read)

\* The model calls a tool while it reviews a chunk.  Once the evidence is given up
\* no call is recorded.
UseTool(f, p, failed) ==
    /\ work[f].at = "chunks" /\ work[f].left > 0 /\ f \in Curious /\ Tools = "navigation"
    /\ work[f].evidence # Invalid /\ (~failed => <<p, tree[p]>> \notin work[f].seen)
    /\ work' = [work EXCEPT ![f].seen = IF failed THEN @ ELSE @ \union {<<p, tree[p]>>},
                            ![f].evidence = Observe(@, <<p, tree[p]>>, failed)]
    /\ UNCHANGED <<disk, phase, mode, streaming, loaded, runs>>
    /\ UNCHANGED outcome /\ UNCHANGED sources /\ UNCHANGED session

\* One chunk is reviewed.  With a stream its findings are emitted at once.
ReviewChunk(f, findings) ==
    /\ work[f].at = "chunks" /\ work[f].left > 0
    /\ work' = [work EXCEPT ![f].left = @ - 1]
    /\ answers' = IF streaming /\ findings
                  THEN [answers EXCEPT ![f] = [text |-> work[f].text, seen |-> work[f].seen]]
                  ELSE answers
    /\ UNCHANGED <<disk, phase, mode, streaming, loaded, runs, failures, refused, status>>
    /\ UNCHANGED sources /\ UNCHANGED session

\* Mutant: a configuration error is raised before the failure is recorded.
FailFileUnrecorded(f, configuration) ==
    /\ \/ Open(f) /\ ~configuration
       \/ work[f].at = "read" /\ ~Reviewable(f) /\ ~configuration
       \/ work[f].at = "chunks" /\ work[f].left > 0
    /\ failures' = IF configuration THEN failures ELSE failures \union {f}
    /\ refused' = (refused \/ configuration)
    /\ work' = [work EXCEPT ![f] = Over("failed")]
    /\ UNCHANGED <<disk, phase, mode, streaming, loaded, runs, answers, status>>
    /\ UNCHANGED sources /\ UNCHANGED session

\* Any exception of the job, from reading the file on, but a cancellation makes the file a failure; a
\* configuration error also ends the whole run.
FailFile(f, configuration) ==
    /\ \/ Open(f) /\ ~configuration
       \/ work[f].at = "read" /\ ~Reviewable(f) /\ ~configuration
       \/ work[f].at = "chunks" /\ work[f].left > 0
    /\ failures' = failures \union {f}
    /\ refused' = (refused \/ configuration)
    /\ work' = [work EXCEPT ![f] = Over("failed")]
    /\ UNCHANGED <<disk, phase, mode, streaming, loaded, runs, answers, status>>
    /\ UNCHANGED sources /\ UNCHANGED session

\* The jobs of a cancelled run stop at their next cancellation checkpoint, or
\* before they start; CancelledError is not a failure of the file.
CancelFile(f) ==
    /\ phase = "review" /\ refused /\ work[f].at \in {"todo", "replay", "read", "chunks"}
    /\ work' = [work EXCEPT ![f] = Over("cancelled")]
    /\ UNCHANGED <<disk, phase, mode, streaming, loaded, runs>>
    /\ UNCHANGED outcome /\ UNCHANGED sources /\ UNCHANGED session

\* The answer is complete.  It is put if it has a key and usable evidence.
ToPut(f) == Checkpointed /\ work[f].evidence # Invalid
RecordOf(f) == [mode |-> mode, file |-> f, text |-> work[f].text,
                seen |-> work[f].seen, evidence |-> work[f].evidence]

EndChunks(f) ==
    /\ mode = "files" /\ work[f].at = "chunks" /\ work[f].left = 0
    /\ work' = [work EXCEPT ![f] = IF ToPut(f) THEN [@ EXCEPT !.at = "put"] ELSE Over("done")]
    /\ answers' = IF streaming THEN answers
                  ELSE [answers EXCEPT ![f] = [text |-> work[f].text, seen |-> work[f].seen]]
    /\ UNCHANGED <<disk, phase, mode, streaming, loaded, runs, failures, refused, status>>
    /\ UNCHANGED sources /\ UNCHANGED session

\* An entry of a patch: its summary, empty if the model fails, is part of the
\* record, and an entry without findings is emitted too.
EndEntry(f) ==
    /\ mode = "patch" /\ work[f].at = "chunks" /\ work[f].left = 0
    /\ work' = [work EXCEPT ![f] = IF ToPut(f) THEN [@ EXCEPT !.at = "put"] ELSE Over("done")]
    /\ answers' = [answers EXCEPT ![f] = [text |-> work[f].text, seen |-> work[f].seen]]
    /\ UNCHANGED <<disk, phase, mode, streaming, loaded, runs, failures, refused, status>>
    /\ UNCHANGED sources /\ UNCHANGED session

-----------------------------------------------------------------------------
(* ReviewCheckpointSession.put: the record is visible at once and delivered   *)
(* under _write_lock, one at a time.                                         *)

Stored(rows, r) == {s \in rows : <<s.mode, s.file, s.text>> # <<r.mode, r.file, r.text>>} \union {r}

PutRecord(f) ==
    /\ work[f].at = "put" /\ writing = "nobody"
    /\ records' = Stored(records, RecordOf(f)) /\ writing' = f
    /\ UNCHANGED <<disk, phase, mode, streaming, loaded, work, runs>>
    /\ UNCHANGED outcome /\ UNCHANGED sources

\* The callback commits the row, or logs or swallows its error.
DeliverRecord(f, saved) ==
    /\ writing = f
    /\ disk' = IF saved THEN Stored(disk, RecordOf(f)) ELSE disk
    /\ writing' = "nobody"
    /\ work' = [work EXCEPT ![f] = Over("done")]
    /\ UNCHANGED <<phase, mode, streaming, loaded, runs, records>>
    /\ UNCHANGED outcome /\ UNCHANGED sources

-----------------------------------------------------------------------------
(* _run_traditional_review: the status, and simple_llm_review's execute,     *)
(* which keeps what was streamed although every file failed.                 *)

\* completed_files counts the files skipped too; a patch has a result if it
\* has the answer of some file.
Completed == {f \in Files : /\ work[f].at \in {"done", "cached"}
                            /\ mode = "patch" => answers[f] # NoAnswer}
Streamed == streaming /\ \E f \in Files : answers[f] # NoAnswer

\* Mutant: findings streamed before every file failed are forgotten.
ReviewStatusOfFiles == IF failures = {} THEN "succeeded"
                       ELSE IF Completed # {} THEN "inconclusive" ELSE "failed"

ReviewStatus == CASE failures = {}                       -> "succeeded"
                  [] failures # {} /\ Completed # {}     -> "inconclusive"
                  [] failures # {} /\ Completed = {}     ->
                         IF Streamed THEN "inconclusive" ELSE "failed"

Return ==
    /\ phase = "review" /\ \A f \in Files : work[f].at \in Ended
    /\ phase' = "returned" /\ status' = ReviewStatus /\ records' = {}
    /\ UNCHANGED <<disk, mode, streaming, loaded, work, runs, answers, failures, refused, writing>>
    /\ UNCHANGED sources

Done == phase \in {"down", "returned"} /\ UNCHANGED vars

Next ==
    \/ \E f \in Files :
        \/ EditFile(f) \/ NotCached(f)
        \/ Lookup(f) \/ Replay(f) \/ RejectRecord(f) \/ Resume(f)
        \/ SkipFile(f) \/ ReadFile(f) \/ StartChunks(f) \/ SplitChunk(f)
        \/ \E b \in BOOLEAN : \/ \E p \in Places : UseTool(f, p, b)
                              \/ ReviewChunk(f, b) \/ FailFile(f, b) \/ DeliverRecord(f, b)
        \/ CancelFile(f) \/ EndChunks(f) \/ EndEntry(f) \/ PutRecord(f)
    \/ \E b \in BOOLEAN, m \in {"files", "patch"} : Begin(b, m)
    \/ \E p \in Places : EditTree(p)
    \/ Crash \/ BeginReview \/ Return \/ Done

Spec == Init /\ [][Next]_vars

-----------------------------------------------------------------------------
(* Properties *)

\* A result taken from a checkpoint, in this or a later process, is what a review
\* begun with the job that takes it could have been based on: the text of the file
\* as the job read it, and for the navigation tools nothing that the codebase had
\* ceased to show by then, whatever is edited while the record is looked up and
\* its calls are made again (_review_file_standard, checkpoint_evidence_valid).
ResumesCurrent ==
    \A f \in Files : (work[f].at # "cached" /\ work'[f].at = "cached") =>
        /\ answers'[f].text = work[f].text
        /\ \A r \in answers'[f].seen : r[2] \in work[f].since[r[1]]..tree[r[1]]
ResumedIsCurrent == [][ResumesCurrent]_vars

\* What the node reports is faithful to what became of every file: success means
\* that no file was left out, every other status names a failure, a file without an
\* answer that was neither blank nor cancelled is a failure, and streamed findings
\* always have a run with a result to belong to (FAILED has none).
StatusFaithful ==
    phase = "returned" =>
        /\ status = "succeeded" => \A f \in Files : work[f].at \in {"done", "cached"}
        /\ status # "succeeded" => failures # {}
        /\ \A f \in Files : work[f].at = "failed" => f \in failures
        /\ status = "failed" => \A f \in Files : answers[f] = NoAnswer
        /\ (refused \/ \E f \in Files : work[f].at = "cancelled") => status # "succeeded"
=============================================================================
