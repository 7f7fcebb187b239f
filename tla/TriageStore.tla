----------------------------- MODULE TriageStore -----------------------------
(***************************************************************************)
(* TriageStore (stages/triage/storage.py): a validated snapshot of the     *)
(* findings, a log of decisions that the jobs append to in any order, and  *)
(* publish(), which sorts the log and merges it with the snapshot in one   *)
(* pass over both, group by group.                                         *)
(*                                                                         *)
(* A document is a sequence of groups (runs of a SARIF file, files of a    *)
(* review), a group a sequence of findings, a finding whether it is        *)
(* already triaged.  A position is <<group, index>>.                       *)
(***************************************************************************)
EXTENDS Naturals, FiniteSets, Sequences, Functions

CONSTANTS Documents,     \* [kind, groups]: kind "review", "sarif" or "other"
          MaxPublishes   \* bound: publish() calls, checkpoints and the last one

VARIABLES
    document,   \* the snapshot
    state,      \* "opening", "open", "refused" or "closed"
    total,      \* _total
    remaining,  \* _remaining
    include,    \* include_triaged of this triage
    decisions,  \* the positions in decisions.jsonl, in the order of appending
    pass,       \* the publish() that holds _publication_lock
    target,     \* the published file: the positions annotated in it
    upTo,       \* how many decisions the published file had to have
    publishes   \* publish() calls

storeVars == <<document, state, total, remaining, include, decisions, pass, target, upTo, publishes>>

Positions == UNION {{<<g, i>> : i \in DOMAIN document.groups[g]} : g \in DOMAIN document.groups}
Triaged(pos) == document.groups[pos[1]][pos[2]]
Before(a, b) == a[1] < b[1] \/ (a[1] = b[1] /\ a[2] < b[2])

\* Positions in the order of the snapshot: each has as many before it as its place says.
Sorted(S) ==
    [k \in 1..Cardinality(S) |-> CHOOSE p \in S : Cardinality({q \in S : Before(q, p)}) = k - 1]

NoPass == [at |-> "idle", changes |-> <<>>, limit |-> 0, record |-> 0, written |-> {}]

StoreInit ==
    /\ document \in Documents /\ state = "opening" /\ total = 0 /\ remaining = 0
    /\ include \in BOOLEAN /\ decisions = <<>> /\ pass = NoPass
    /\ target = {} /\ upTo = 0 /\ publishes = 0

\* _validate, and for a review the normalisation of its ids.
OpenStore ==
    /\ state = "opening"
    /\ state' = IF document.kind = "other" THEN "refused" ELSE "open"
    /\ total' = Cardinality(Positions)
    /\ remaining' = Cardinality({pos \in Positions : ~Triaged(pos)})
    /\ UNCHANGED <<document, include, decisions, pass, target, upTo, publishes>>

\* findings(): what the triage goes through.
Yielded(pos) == include \/ ~Triaged(pos)

\* count(): the number the triage reports as its total.
Counted == IF include THEN total ELSE remaining

\* annotate(): each finding is decided once, by a job, while others publish.
AppendDecision(pos) ==
    /\ state = "open" /\ Yielded(pos) /\ pos \notin Range(decisions)
    /\ decisions' = Append(decisions, pos)
    /\ UNCHANGED <<document, state, total, remaining, include, pass, target, upTo, publishes>>

-----------------------------------------------------------------------------
(* publish() *)

\* Mutant: the log is merged in the order it was written.
ChangesUnsorted(log) == log

\* _changes: the flushed part of the log, which has a finding once, in the order of the
\* snapshot.
Changes(log) == Sorted(Range(log))

BeginPublish ==
    /\ state = "open" /\ pass.at = "idle" /\ publishes < MaxPublishes
    /\ pass' = [NoPass EXCEPT !.at = "merging", !.changes = Changes(decisions),
                              !.limit = Len(decisions)]
    /\ publishes' = publishes + 1
    /\ UNCHANGED <<document, state, total, remaining, include, decisions, target, upTo>>

\* The findings in the order of the snapshot.
Ordered == Sorted(Positions)

\* annotate(path, result) inside publish: the next change is either for this finding
\* or for a later one.
MergeRecord ==
    /\ pass.at = "merging" /\ pass.record < Len(Ordered)
    /\ LET pos == Ordered[pass.record + 1]
           meets == pass.changes # <<>> /\ Head(pass.changes) = pos
       IN pass' = [pass EXCEPT !.record = @ + 1,
                               !.changes = IF meets THEN Tail(@) ELSE @,
                               !.written = IF meets THEN @ \union {pos} ELSE @]
    /\ UNCHANGED <<document, state, total, remaining, include, decisions, target, upTo, publishes>>

\* The file is replaced when it is complete.
EndPublish ==
    /\ pass.at = "merging" /\ pass.record = Len(Ordered)
    /\ target' = pass.written /\ upTo' = pass.limit /\ pass' = NoPass
    /\ UNCHANGED <<document, state, total, remaining, include, decisions, publishes>>

\* An I/O error or a cancellation leaves the last published file.
PublishFails ==
    /\ pass.at = "merging" /\ pass' = NoPass
    /\ UNCHANGED <<document, state, total, remaining, include, decisions, target, upTo, publishes>>

CloseStore ==
    /\ state = "open" /\ pass.at = "idle" /\ state' = "closed"
    /\ UNCHANGED <<document, total, remaining, include, decisions, pass, target, upTo, publishes>>

StoreDone == state \in {"closed", "refused"} /\ UNCHANGED storeVars

StoreNext ==
    \/ OpenStore \/ BeginPublish \/ MergeRecord \/ EndPublish \/ PublishFails \/ CloseStore
    \/ (\E pos \in Positions : AppendDecision(pos)) \/ StoreDone

StoreSpec == StoreInit /\ [][StoreNext]_storeVars

-----------------------------------------------------------------------------
(* Property *)

\* A published file has the decision of every finding decided when its publication
\* began and of no other, in whatever order the jobs decided and although they go on
\* deciding, and the decided never exceed the total that is reported
\* (TriageStore.publish, _changes, count).
PublishedIsExact ==
    /\ target = {decisions[n] : n \in 1..upTo}
    /\ state = "open" => Len(decisions) <= Counted
=============================================================================
