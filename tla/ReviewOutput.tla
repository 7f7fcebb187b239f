----------------------------- MODULE ReviewOutput -----------------------------
(****************************************************************************)
(* The output of a run (engine/stages/output.py, stages/review/storage.py   *)
(* and the result nodes).  Reviewers append groups of findings to one       *)
(* journal: the jobs of a review in any order, the entries of a patch one   *)
(* after the other, or, when the review is not streamed, the deduplication  *)
(* node with the groups it collected.  The published document has a group   *)
(* for each file or patch entry; the triage stage reads its findings from   *)
(* that document, and the engine exports it.                                *)
(****************************************************************************)
EXTENDS Naturals, Sequences, FiniteSets, FiniteSetsExt, SequencesExt

CONSTANT Runs   \* [mode, files, jobs, triage]: "code" | "patch" | "collected", the
                \* files selected, the jobs [file, label, index, groups] and
                \* whether a triage stage follows

VARIABLES
    run,
    job,        \* job -> "todo" | "running" | "done" | "failed" | "skipped"
    left,       \* job -> groups still to be found
    journal,    \* records [order, part, label, findings, job]
    order,      \* file -> its place in the document
    parts,      \* place -> groups written at it
    starts,     \* file -> records of the journal before its own
    summaries,  \* [job, issues]: what each summary of a patch entry is about
    phase,      \* "review" | "publish" | "result" | "triage" | "exported" | "raised"
    document,   \* <<>> or <<groups>>, the file at the target
    decisions,  \* finding -> "none" | "valid" | "inconclusive" | "failed"
    outcome     \* what the engine returns

outputVars == <<run, job, left, journal, order, parts, starts, summaries, phase,
                document, decisions, outcome>>

Jobs == DOMAIN run.jobs
Finished == {"done", "failed", "skipped"}
Nothing == [status |-> "none", findings |-> {}]

-----------------------------------------------------------------------------
(* The journal.                                                             *)

\* mutant: the number of a part is not advanced
NextPartSame(place) == 0
NextPart(place) == IF place \in DOMAIN parts THEN parts[place] ELSE 0

\* append, under the lock: a file nobody announced goes to the end
AppendGroup(j, findings) ==
    LET f == run.jobs[j].file
        place == IF f \in DOMAIN order THEN order[f] ELSE Cardinality(DOMAIN order)
    IN  /\ order' = [g \in DOMAIN order \cup {f} |-> IF g = f THEN place ELSE order[g]]
        /\ starts' = [g \in DOMAIN starts \cup {f} |->
                         IF g \in DOMAIN starts THEN starts[g] ELSE Len(journal)]
        /\ journal' = Append(journal, [order |-> place, part |-> NextPart(place),
                                       label |-> run.jobs[j].label, findings |-> findings, job |-> j])
        /\ parts' = [p \in DOMAIN parts \cup {place} |->
                        IF p = place THEN NextPart(place) + 1 ELSE parts[p]]

\* mutant: an entry of a file that had one keeps where the first began
StartKept(f) == IF f \in DOMAIN starts THEN starts[f] ELSE Len(journal)
StartOf(f) == Len(journal)

\* begin_patch_entry
BeginPatchEntry(j) ==
    LET f == run.jobs[j].file
    IN  /\ order' = [g \in DOMAIN order \cup {f} |-> IF g = f THEN run.jobs[j].index ELSE order[g]]
        /\ starts' = [g \in DOMAIN starts \cup {f} |-> IF g = f THEN StartOf(f) ELSE starts[g]]

\* issues: what the journal has of a file since its entry began
Issues(f) ==
    FlattenSeq([i \in 1..(Len(journal) - starts[f]) |->
        IF run.jobs[journal[starts[f] + i].job].file = f
        THEN journal[starts[f] + i].findings ELSE <<>>])

\* records: one for each finding, one for a group without any
Records ==
    UNION {LET r == journal[i] IN
           IF r.findings = <<>>
           THEN {[position |-> <<r.order, r.part, 0>>, label |-> r.label, finding |-> 0]}
           ELSE {[position |-> <<r.order, r.part, k>>, label |-> r.label, finding |-> r.findings[k]] :
                    k \in DOMAIN r.findings} : i \in DOMAIN journal}

Before(p, q) ==
    \/ p[1] < q[1]
    \/ p[1] = q[1] /\ p[2] < q[2]
    \/ p[1] = q[1] /\ p[2] = q[2] /\ p[3] < q[3]

-----------------------------------------------------------------------------
OutputInit ==
    /\ run \in Runs
    /\ job = [j \in Jobs |-> "todo"]
    /\ left = [j \in Jobs |-> run.jobs[j].groups]
    /\ journal = <<>>
    /\ order = [f \in ToSet(run.files) |-> CHOOSE i \in 0..(Len(run.files) - 1) : run.files[i + 1] = f]
    /\ parts = <<>> /\ starts = <<>> /\ summaries = <<>>
    /\ phase = "review" /\ document = <<>> /\ decisions = <<>> /\ outcome = Nothing

\* The files of a review are jobs of their own; patch entries and collected
\* groups are taken in order
MayStart(j) == run.mode = "code" \/ \A i \in 1..(j - 1) : job[i] \in Finished

StartJob(j) ==
    /\ phase = "review" /\ job[j] = "todo" /\ MayStart(j)
    /\ job' = [job EXCEPT ![j] = "running"]
    /\ IF run.mode = "patch" THEN BeginPatchEntry(j) ELSE UNCHANGED <<order, starts>>
    /\ UNCHANGED <<run, left, journal, parts, summaries, phase, document, decisions, outcome>>

\* A chunk with findings, or a collected group
EmitGroup(j) ==
    /\ job[j] = "running" /\ left[j] # <<>>
    /\ AppendGroup(j, Head(left[j]))
    /\ left' = [left EXCEPT ![j] = Tail(@)]
    /\ UNCHANGED <<run, job, summaries, phase, document, decisions, outcome>>

\* An entry of a patch is summarised if it has issues, and ends with an empty
\* group
EndJob(j) ==
    /\ job[j] = "running" /\ left[j] = <<>>
    /\ job' = [job EXCEPT ![j] = "done"]
    /\ IF run.mode = "patch"
       THEN /\ summaries' = IF Issues(run.jobs[j].file) = <<>> THEN summaries
                            ELSE Append(summaries, [job |-> j, issues |-> Issues(run.jobs[j].file)])
            /\ AppendGroup(j, <<>>)
       ELSE UNCHANGED <<order, starts, journal, parts, summaries>>
    /\ UNCHANGED <<run, left, phase, document, decisions, outcome>>

\* The file cannot be reviewed; what it emitted stays
FailJob(j) ==
    /\ phase = "review" /\ run.mode # "collected"
    /\ job[j] = "running"
    /\ job' = [job EXCEPT ![j] = "failed"]
    /\ UNCHANGED <<run, left, journal, order, parts, starts, summaries, phase,
                   document, decisions, outcome>>

\* The provider is misconfigured: a patch review takes no further entry
StopPatch(j) ==
    /\ phase = "review" /\ run.mode = "patch" /\ job[j] = "running"
    /\ job' = [i \in Jobs |-> IF i = j THEN "failed" ELSE IF job[i] = "todo" THEN "skipped" ELSE job[i]]
    /\ UNCHANGED <<run, left, journal, order, parts, starts, summaries, phase,
                   document, decisions, outcome>>

Failures == \E j \in Jobs : job[j] = "failed"
Completed == \E j \in Jobs : job[j] = "done"
Count == FoldLeft(LAMBDA n, r : n + Len(r.findings), 0, journal)

\* mutant: what failed files left in the journal is no result
HasResultOfCompleted == Completed \/ ~Failures

\* run_review and the node: without a completed file there is a result only
\* if something was emitted
HasResult ==
    \/ Completed \/ ~Failures
    \/ IF run.mode = "patch" THEN journal # <<>> ELSE Count > 0

ReturnReview ==
    /\ phase = "review" /\ \A j \in Jobs : job[j] \in Finished
    /\ phase' = IF HasResult THEN "publish" ELSE "raised"
    /\ UNCHANGED <<run, job, left, journal, order, parts, starts, summaries,
                   document, decisions, outcome>>

-----------------------------------------------------------------------------
(* Publication.                                                             *)

\* normalize_finding_ids refuses a position met twice, and groups() two
\* labels at one place
Consistent ==
    \A r, s \in Records :
        /\ r.position = s.position => r = s
        /\ r.position[1] = s.position[1] => r.label = s.label

\* groupby over the records in the order of their positions
Groups ==
    LET places == SetToSortSeq({r.position[1] : r \in Records}, <)
        At(p) == SetToSortSeq({r \in Records : r.position[1] = p /\ r.finding # 0},
                              LAMBDA r, s : Before(r.position, s.position))
    IN  [i \in DOMAIN places |->
            [label |-> (CHOOSE r \in Records : r.position[1] = places[i]).label,
             findings |-> [k \in DOMAIN At(places[i]) |-> At(places[i])[k].finding]]]

\* publish: the file is replaced at once, or left alone
Publish ==
    /\ phase = "publish"
    /\ IF Consistent
       THEN document' = <<Groups>> /\ phase' = "result"
       ELSE UNCHANGED document /\ phase' = "raised"
    /\ UNCHANGED <<run, job, left, journal, order, parts, starts, summaries, decisions, outcome>>

FindingsOf(groups) == UNION {ToSet(groups[i].findings) : i \in DOMAIN groups}

\* The result node and export without a triage stage.  A file that failed
\* makes the engine raise, with the document in place.
ExportReview ==
    /\ phase = "result" /\ ~run.triage
    /\ outcome' = [status |-> IF Failures THEN "failure" ELSE "ok",
                   findings |-> FindingsOf(document[1])]
    /\ phase' = "exported"
    /\ UNCHANGED <<run, job, left, journal, order, parts, starts, summaries, document, decisions>>

-----------------------------------------------------------------------------
(* The triage stage on the document.                                        *)

OpenTriage ==
    /\ phase = "result" /\ run.triage
    /\ decisions' = [f \in FindingsOf(document[1]) |-> "none"]
    /\ phase' = "triage"
    /\ UNCHANGED <<run, job, left, journal, order, parts, starts, summaries, document, outcome>>

DecideFinding(f, decision) ==
    /\ phase = "triage" /\ decisions[f] = "none"
    /\ decisions' = [decisions EXCEPT ![f] = decision]
    /\ UNCHANGED <<run, job, left, journal, order, parts, starts, summaries, phase, document, outcome>>

Undecided == {f \in DOMAIN decisions : decisions[f] = "none"}

\* The triage result node inspects what was published; a classifier that
\* leaves findings unhandled makes the result inconclusive
FinishTriage ==
    /\ phase = "triage"
    /\ outcome' = [status |->
                      IF Failures \/ \E f \in DOMAIN decisions : decisions[f] = "failed" THEN "failure"
                      ELSE IF \E f \in DOMAIN decisions : decisions[f] \in {"none", "inconclusive"}
                      THEN "inconclusive" ELSE "ok",
                   findings |-> DOMAIN decisions]
    /\ phase' = "exported"
    /\ UNCHANGED <<run, job, left, journal, order, parts, starts, summaries, document, decisions>>

OutputNext ==
    \/ \E j \in Jobs : StartJob(j) \/ EmitGroup(j) \/ EndJob(j) \/ FailJob(j) \/ StopPatch(j)
    \/ ReturnReview \/ Publish \/ ExportReview \/ OpenTriage \/ FinishTriage
    \/ \E f \in DOMAIN decisions, d \in {"valid", "inconclusive", "failed"} : DecideFinding(f, d)

OutputDone == phase \in {"exported", "raised"}
OutputSpec == OutputInit /\ [][OutputNext \/ (OutputDone /\ UNCHANGED outputVars)]_outputVars

-----------------------------------------------------------------------------
(* What was emitted, job by job.                                            *)

Found(j) == FlattenSeq(SubSeq(run.jobs[j].groups, 1, Len(run.jobs[j].groups) - Len(left[j])))

\* The jobs that share a group of the document: those of a file, or a patch
\* entry by itself
Shared(j) == IF run.mode = "patch" THEN {j} ELSE {i \in Jobs : run.jobs[i].file = run.jobs[j].file}
Visible(j) == Found(j) # <<>> \/ (run.mode = "patch" /\ job[j] = "done")
Expected ==
    LET first == {j \in Jobs : /\ \E i \in Shared(j) : Visible(i)
                               /\ \A i \in Shared(j) : i >= j}
        heads == SetToSortSeq(first, <)
    IN  [n \in DOMAIN heads |-> FlattenSeq(LET all == SetToSortSeq(Shared(heads[n]), <)
                                           IN  [k \in DOMAIN all |-> Found(all[k])])]

\* ReviewOutput: however the jobs interleave and fail, the published document
\* has one group for each file (each entry, for a patch) that has something
\* to show, in the order of the files or entries, with every finding that was
\* emitted for it, once and in the order found; each summary is about the
\* issues of its own entry; a review that found something is published unless
\* two producers describe one file differently; and what the engine reports
\* is about exactly the findings of that document.
DocumentIsTheReview ==
    /\ document # <<>> => [n \in DOMAIN document[1] |-> document[1][n].findings] = Expected
    /\ \A n \in DOMAIN summaries : summaries[n].issues = Found(summaries[n].job)
    /\ phase = "raised" =>
          \/ \A j \in Jobs : Found(j) = <<>>
          \/ \E i, j \in Jobs : run.jobs[i].file = run.jobs[j].file /\ run.jobs[i].label # run.jobs[j].label
    /\ phase = "exported" => outcome.findings = UNION {ToSet(Found(j)) : j \in Jobs}

\* docs/execution-graph.md, of finding_dedup: "It combines those runs, removes
\* exact duplicates", so whatever the selected nodes found is published.
FoundIsPublished == phase = "raised" => \A j \in Jobs : Found(j) = <<>>
=============================================================================
