------------------------------- MODULE Triage -------------------------------
(***************************************************************************)
(* Triage of findings (TriageService, stages/triage/service.py) over a     *)
(* TriageStore (stages/triage/storage.py).  Jobs classify findings and     *)
(* append their decisions to the store's journal; the thread that called   *)
(* jobs.run() reports each completed job and takes a checkpoint, which     *)
(* publishes whatever is in the journal by then.  triage_file() works      *)
(* through a store in batches, triage_run() through the findings an        *)
(* earlier node left over.                                                 *)
(*                                                                         *)
(* jobs.run() appears as what JobScheduler establishes: at most Workers    *)
(* jobs at a time, completions reported one by one by its caller, and      *)
(* nothing running any more when it returns or raises.                     *)
(***************************************************************************)
EXTENDS Integers, FiniteSets, Sequences, Functions

CONSTANTS Count,      \* findings to triage, 1..Count
          BatchSize,  \* max(64, workers)
          Workers,    \* jobs of a run that may be active at once
          Earlier     \* findings earlier nodes have handled (triage_run)

Findings == 1..Count

VARIABLES
    mode,       \* "file" (triage_file) or "run" (triage_run)
    base,       \* processed when the call began
    phase,      \* where the calling thread is
    batch,      \* findings of the current batch
    offset,     \* findings of the batches before
    job,        \* [Findings -> where its job is]
    decision,   \* [Findings -> what the classifier said]
    outcomes,   \* findings in the dict of outcomes not yet reported
    journal,    \* findings annotated in the store, in order
    processed,  \* local count of findings handled
    handled,    \* their identities
    failure,    \* an exception is being raised
    attempted,  \* annotations in the journal at the latest checkpoint
    counted,    \* the count passed to the latest checkpoint
    published   \* annotations in the published file

calls == <<mode, base, batch, offset>>
work  == <<job, decision, outcomes, journal>>
saved == <<attempted, counted, published>>
vars  == <<calls, phase, work, processed, handled, failure, saved>>

Annotated == Range(journal)
Total == base + Count
FirstBatch(m) == IF m = "run" THEN Findings ELSE {}

Init ==
    /\ mode \in {"file", "run"}
    /\ base \in IF mode = "run" THEN {0, Earlier} ELSE {0}
    /\ phase = IF mode = "run" THEN "running" ELSE "between"
    /\ batch = FirstBatch(mode)
    /\ offset = 0
    /\ job = [i \in Findings |-> "pending"]
    /\ decision = [i \in Findings |-> "none"]
    /\ outcomes = {}
    /\ journal = <<>>
    /\ processed = base
    /\ handled = {}
    /\ failure = FALSE
    /\ attempted = {}
    /\ counted = base
    /\ published = {}

-----------------------------------------------------------------------------
(* The jobs. *)

InFlight == {i \in batch : job[i] \in {"classifying", "recording", "storing"}}

Goto(i, where) == job' = [job EXCEPT ![i] = where]

StartJob(i) ==
    /\ phase = "running"
    /\ i \in batch /\ job[i] = "pending"
    /\ Cardinality(InFlight) < Workers
    /\ Goto(i, "classifying")
    /\ UNCHANGED <<calls, phase, decision, outcomes, journal, processed, handled, failure, saved>>

(* A decision (the classifier's or the threat model's), no decision, an    *)
(* error, which is recorded as inconclusive, or a cancellation.            *)
Classify(i) ==
    /\ job[i] = "classifying"
    /\ \/ \E d \in {"decided", "error"} :
            /\ decision' = [decision EXCEPT ![i] = d]
            /\ Goto(i, "recording")
       \/ /\ decision' = [decision EXCEPT ![i] = "nothing"]
          /\ Goto(i, "storing")
       \/ Goto(i, "raised") /\ UNCHANGED decision
    /\ UNCHANGED <<calls, phase, outcomes, journal, processed, handled, failure, saved>>

(* TriageStore.annotate(): the journal may refuse the record. *)
Annotate(i) ==
    /\ job[i] = "recording"
    /\ \/ journal' = Append(journal, i) /\ Goto(i, "storing")
       \/ Goto(i, "raised") /\ UNCHANGED journal
    /\ UNCHANGED <<calls, phase, decision, outcomes, processed, handled, failure, saved>>

StoreOutcome(i) ==
    /\ job[i] = "storing"
    /\ outcomes' = outcomes \cup {i}
    /\ Goto(i, "done")
    /\ UNCHANGED <<calls, phase, decision, journal, processed, handled, failure, saved>>

-----------------------------------------------------------------------------
(* The calling thread: checkpoints. *)

(* The checkpoint callback is called with count n.  It publishes what is   *)
(* in the journal, unless it fails; an ordinary exception is swallowed     *)
(* (_invoke_callback), a cancellation raised.                              *)
Checkpoint(n, how) ==
    /\ attempted' = Annotated
    /\ counted' = n
    /\ \/ published' = Annotated
       \/ how # "ok" /\ UNCHANGED published

CheckpointResults == {"ok", "error", "cancelled"}

(* jobs.run() raises: nothing more is started. *)
RunFails ==
    /\ phase' = "draining"
    /\ failure' = TRUE
    /\ UNCHANGED <<calls, work, processed, handled>>

(* A finding without a decision is left as it is. *)
(* Mutant: it is handled like the others. *)
AnyHandled(i) == TRUE
Handled(i) == decision[i] # "nothing"

(* report_completion(): the finding is counted after its progress event    *)
(* and before its outcome is dropped.                                      *)
Report(i) ==
    /\ phase = "running"
    /\ i \in batch /\ job[i] = "done"
    /\ \/ RunFails /\ UNCHANGED saved                          \* a progress callback cancels
       \/ /\ ~Handled(i)
          /\ outcomes' = outcomes \ {i}
          /\ Goto(i, "reported")
          /\ UNCHANGED <<calls, phase, decision, journal, processed, handled, failure, saved>>
       \/ /\ Handled(i)
          /\ \E how \in CheckpointResults \ {"cancelled"} : Checkpoint(processed + 1, how)
          /\ processed' = processed + 1
          /\ outcomes' = outcomes \ {i}
          /\ handled' = handled \cup {i}
          /\ Goto(i, "reported")
          /\ UNCHANGED <<calls, phase, decision, journal, failure>>
       \/ /\ Handled(i)
          /\ Checkpoint(processed + 1, "cancelled")
          /\ RunFails

(* A job has raised, or the execution is cancelled. *)
Interrupted ==
    /\ phase = "running"
    /\ RunFails
    /\ UNCHANGED saved

(* jobs.run() raises only when its jobs have ended. *)
Drain ==
    /\ phase = "draining"
    /\ InFlight = {}
    /\ phase' = "leftovers"
    /\ UNCHANGED <<calls, work, processed, handled, failure, saved>>

AllReported ==
    /\ phase = "running"
    /\ \A i \in batch : job[i] = "reported"
    /\ phase' = "leftovers"
    /\ UNCHANGED <<calls, work, processed, handled, failure, saved>>

-----------------------------------------------------------------------------
(* The finally clause of _triage_findings_parallel(). *)

(* Outcomes nobody reported are counted without callbacks. *)
Leftovers ==
    /\ phase = "leftovers"
    /\ LET kept == {i \in outcomes : Handled(i)} IN
         /\ processed' = processed + Cardinality(kept)
         /\ handled' = handled \cup kept
    /\ phase' = "flush"
    /\ UNCHANGED <<calls, work, failure, saved>>

(* Mutant: only an incomplete run is flushed. *)
FlushIfIncomplete == mode = "run" /\ processed > base /\ processed < Total
FlushPartial == mode = "run" /\ processed > base /\ (failure \/ processed < Total)

(* Where the thread goes after the batch. *)
AfterBatch ==
    phase' = CASE mode = "file" /\ failure'  -> "closing"
               [] mode = "file" /\ ~failure' -> "between"
               [] mode = "run" /\ failure'   -> "raised"
               [] OTHER                      -> "publish"

Flush ==
    /\ phase = "flush"
    /\ \/ ~FlushPartial /\ UNCHANGED <<failure, saved>>
       \/ /\ FlushPartial
          /\ \E how \in CheckpointResults :
               /\ Checkpoint(processed, how)
               /\ failure' = (failure \/ how = "cancelled")
    /\ offset' = offset + Cardinality(batch)
    /\ AfterBatch
    /\ UNCHANGED <<mode, base, batch, work, processed, handled>>

-----------------------------------------------------------------------------
(* triage_file(): the batches, and its own finally clause. *)
NextBatch ==
    /\ phase = "between"
    /\ offset < Count
    /\ batch' = {i \in Findings : offset < i /\ i <= offset + BatchSize}
    /\ phase' = "running"
    /\ UNCHANGED <<mode, base, offset, work, processed, handled, failure, saved>>

(* Reading the next findings from the snapshot fails, or there are none. *)
LeaveBatches ==
    /\ phase = "between"
    /\ \/ offset < Count /\ failure' = TRUE
       \/ offset = Count /\ UNCHANGED failure
    /\ phase' = "closing"
    /\ UNCHANGED <<calls, work, processed, handled, saved>>

CloseFile ==
    /\ phase = "closing"
    /\ \/ /\ journal # <<>>
          /\ failure \/ Len(journal) < Total
          /\ \E how \in CheckpointResults :
               /\ Checkpoint(Len(journal), how)
               /\ phase' = IF failure \/ how = "cancelled" THEN "raised" ELSE "returned"
       \/ /\ journal = <<>> \/ (~failure /\ Len(journal) >= Total)
          /\ phase' = IF failure THEN "raised" ELSE "returned"
          /\ UNCHANGED saved
    /\ UNCHANGED <<calls, work, processed, handled, failure>>

(* triage_run(): the last publication, whose contents the node returns. *)
PublishRun ==
    /\ phase = "publish"
    /\ \/ published' = Annotated /\ phase' = "returned"
       \/ phase' = "raised" /\ UNCHANGED published
    /\ UNCHANGED <<calls, work, processed, handled, failure, attempted, counted>>

Ended ==
    /\ phase \in {"returned", "raised"}
    /\ UNCHANGED vars

Next ==
    \/ \E i \in Findings :
         StartJob(i) \/ Classify(i) \/ Annotate(i) \/ StoreOutcome(i) \/ Report(i)
    \/ Interrupted \/ Drain \/ AllReported \/ Leftovers \/ Flush
    \/ NextBatch \/ LeaveBatches \/ CloseFile \/ PublishRun
    \/ Ended

Spec == Init /\ [][Next]_vars

-----------------------------------------------------------------------------
(* However the call ends, the checkpoint callback was last called when     *)
(* every annotation was in the journal, and with their exact number: no    *)
(* completed decision is lost by a failure or a cancellation.              *)
CheckpointComplete ==
    phase \in {"returned", "raised"} /\ journal # <<>> =>
        /\ attempted = Annotated
        /\ counted = base + Len(journal)

(* When the call returns, each finding was annotated at most once (publish *)
(* refuses a journal with duplicates), the count is exact, the findings    *)
(* left over are the ones without annotation, and triage_run() returns     *)
(* what it published.                                                      *)
ReturnExact ==
    phase = "returned" =>
        /\ Len(journal) = Cardinality(Annotated)
        /\ processed = base + Len(journal)
        /\ handled = Annotated
        /\ Findings \ handled = {i \in Findings : decision[i] = "nothing"}
        /\ mode = "run" => published = Annotated
=============================================================================
