# A TLA+ model of Metis

Metis reviews source code with language models. A command (review, triage, ...)
executes a configured *graph* of *stages*; a stage is a set of *nodes* with typed
inputs and outputs; nodes call models, run static analysis and fan work out as
*jobs*. This project models the engine that makes those pieces run together (job
scheduler, handles, stage compiler and runner, execution service, model requests,
journal) and the pipeline it runs: the code graph and the reachability review, the
simple review with its checkpoints, deduplication and publication, triage, and the
services around them. TLC checks small instances; TLAPS proves the theorems of
section 4 for every value of the constants.

Paths below are relative to the repository; `concurrency.py`, `execution/…`,
`nodes/…`, `capabilities/…` and `stages/…` are under `src/metis/engine/`.

## 1. Inventory

| Component | State | Operations | Interacts with | What is hard |
|---|---|---|---|---|
| Job scheduler, `concurrency.py` | registered runs, cursor, pool and quota counters; per run its pending, active and completed jobs | `run`, `cancel`, `close`, dispatch, `_complete` | node threads, its own pool threads, `on_complete` callbacks that may call it again | callbacks under a lock, cancellation racing completion, quotas shared by runs, untimed waits |
| Job handles (`_NodeJobs`) | immutable: limit, quotas, event, parent events | `limit`, `with_cancellation`, `cancel`, `run` | derive each other; supply the scheduler's arguments | who is cancelled by whose failure |
| Stage compiler, `execution/compiler.py`, `graph.py` | the plan | `compile_stage` | the runner reads its sets | one wrong set skips or blocks nodes much later |
| Stage runner, `execution/runner.py` | pending, running, completed, failed nodes; outputs; status | `run_stage`, `_run_node`, `_skip_node` | node pool, scheduler, progress callbacks | snapshots of outputs, partial failure, three levels of cancellation |
| Execution service, `stages/service.py`, `core.py` | active executions, closed flags, pools | `execute_*`, `close`, `MetisEngine.close` | callers, node pool, scheduler, resources | admission against close, re-entry, interrupted and concurrent closes |
| Model requests, `llm_runner.py`, `model_tool_runner.py` | attempt counters, tool evidence | `invoke`, tool rounds | providers, cancellation | two retry budgets in one loop, backoff against cancellation |
| JSON journal and snapshots, `json_io.py` | queue, file, error and closed flags; snapshot copies; event stacks | `append`, `flush`, `close`, writer; `JsonSnapshot`, `events`, `write`, sort | review output, triage store | one condition for three kinds of waiters, a writer that dies, torn copies |
| Simple review and checkpoints, `nodes/simple_llm_review/`, `stages/review/checkpoints.py`, `cli/review_checkpoints.py` | work per file, chunks, evidence, records in SQLite | `run_review`, chunk loop, `put`, load | jobs, model, files that users edit, earlier runs | a resumed result must still be of the present sources; status after partial failure |
| Deduplication and ids, `nodes/finding_dedup/`, `sarif/writer.py` | journal of findings, accepted groups | scopes, batches, decisions, representatives, id repair | jobs, model | chains of duplicates over scopes and jobs, failed decisions, id collisions |
| Review output, `stages/review/storage.py`, `stages/output.py` | journal of groups, positions, summaries | `append_group`, patch entries, `publish`, read back, export | review nodes, triage | order of files, entries and parts over concurrent jobs |
| Triage, `stages/triage/`, `nodes/triage/` | outcomes, journal of decisions, evidence packs, cached workflows | `triage_file`, `triage_run`, `annotate`, `publish`, decide | jobs, journal, model, files that users edit | exactly-once accounting on failure; verdicts on text that was shown |
| Generated artifacts, `generated_artifacts.py` | registry and files | publication, lookup | other processes, users | file and registry committed at two moments |
| Code graph service and store, `nodes/codegraph/` | active builder, generation, SQLite revisions | `materialize`, `load`, retention | other threads and processes, users who edit | hash, build and hash again of changing files |
| C/C++ graph construction, `plugins/c_family/` | process pool, batches, graph | parse, merge, link, entry points | worker processes | dying workers, headers of two languages |
| Reachability review, `nodes/reachability/` | focus, packets, responses, contracts, findings | route, focus, cut, review, split, anchor, admit, paths | code graph, jobs, model | functions cut across packets, fixed points, lines that moved |
| Source maps and profiles, `source/`, `nodes/compilation_profile/` | LRU of maps; views per unit, snapshot | resolve an issue; load, preprocess, combine, serve | users who edit, compiler | stale maps, views of different versions |
| Capabilities and index, `capabilities/` | instances, closers, retriever cache, generation | require, close, get, reset, insert | engine close, backend that calls back | construction racing close, stale cache |
| Threat model and memory, `nodes/threat_model/`, `memory/` | records by namespace, fingerprints | build, reduce, split history, replace, read pages | other processes, users | fingerprint against reading, provenance of merged claims |
| Usage and run log, `usage/`, `runlog/` | counters, summaries; records, blobs, metadata | record, finalize, save; spans, close | all threads, dying process | reads at two moments, incomplete bundles |
| External stages, `external_stages/` | files of a run directory, child processes | run analysis and validation | the configured command | directories shared by runs, timeouts |
| Command line, `cli/entry.py`, `cli/output.py`, `cli/commands.py` | arguments of the session and of a command, planned files, destinations of streams, pending error, exit code | run the graph, run a review command, plan, save, finalize, close | engine, user's files | two plans of the files of one run, errors and interrupts after finished reports |
| Vector stores, providers, SARIF models, other plugins, configuration | – | – | – | adapters, parsing and rendering |

What makes the components correct is stated by the properties of section 3;
`PROJECT.json` lists every hazard at its line with the properties that would catch it.

## 2. Modules and how they correspond to the code

| Module | Models | Checked in |
|---|---|---|
| `JobScheduler`, `MCJobScheduler` | `JobScheduler` (`concurrency.py` 51–332) | `scheduler_quota`, `scheduler_live` |
| `JobHandles` | `_NodeJobs` as operators on handle records, and all derivations a program can make | `engine_services` |
| `StageRunner`, `MCStageRunner` | the sets `compile_stage` computes; `_topological_order`, `run_stage`, `_run_node` | `stage_runner` |
| `ExecutionService` | `ExecutionGraphService`, `MetisEngine.close` | `execution_service` |
| `ModelRequests` | `JsonPromptRunner.invoke`, `invoke_model_with_tools` | `model_requests` |
| `DurableLog`, `JsonJournal` | what a journal promises; `JsonJournal` (`json_io.py` 271–396) and its refinement mapping | `json_journal` |
| `FrontierReview`, `MCFrontierReview` | `IncrementalGraphReviewer`, `_build_file_grouped_node_chunks` | `frontier_review` |
| `SimpleReview` | `SimpleReviewService`, `ReviewGraph`, `ReviewCheckpointSession` and its SQLite file | `review_pipeline` |
| `FindingDedup`, `FindingIds` | `consolidate_records` and its node; `normalize_finding_ids` over the external sort | `analysis` |
| `ArtifactFiles` | `atomic_text_writer`, `generated_artifacts.py`, `JsonSnapshot.__init__` | `review_pipeline` |
| `ReviewOutput` | `ReviewOutput`, the result nodes, the engine's export | `analysis`, `split_review` |
| `Triage`, `TriageStore`, `TriageWorkflow` | `TriageService`; `TriageStore`; `TriageWorkflow` and its evidence | `review_pipeline` |
| `JsonEvents` | `JsonSnapshot.events`, `_walk`, `write` | `analysis` |
| `CommandLine` | `_run_cli`, `run_interactive_loop`, the planning and saving of `cli/output.py`, the review commands | `analysis` |
| `CodeGraphService` | `CodeGraphService`, `SQLiteCodeGraphStore`, annotations | `review_pipeline` |
| `CFamilyParse` | `parse_files_in_parallel`, `build_graph` | `review_pipeline` |
| `CFamilyLinking` | `_resolve_calls`, header visibility | `analysis` |
| `NullContracts` | `augment_function_contracts`, `_admitted_finding_ids`, null facts of `ast.py` | `analysis`, `null_contracts` |
| `ReachabilityScope` | routing, focus and paths | `analysis` |
| `PacketFindings` | validation and anchoring of a packet's findings | `review_pipeline` |
| `SourceAnchors`, `CompilationProfile` | source maps and their cache; compilation profiles | `analysis` |
| `Capabilities`, `IndexCapability` | `EngineCapabilities`; the index, its cache and mutations | `engine_services` |
| `ThreatModel` | the record store of the repository memory as operators; the threat model and its readers | `engine_services` |
| `Usage`, `RunLog`, `ExternalStages` | token accounting; run log bundles; external stages | `engine_services` |
| `MCReviewPipeline`, `MCAnalysis`, `MCEngineServices` | instances of the above | – |
| `JobSchedulerProofs`, `StageRunnerProofs`, `ExecutionServiceProofs`, `ModelRequestsProofs`, `JsonJournalProofs`, `FrontierReviewProofs`, `EngineServicesProofs`, `ReviewPipelineProofs` | theorems | – |

Operators whose comment begins with *Mutant* are deliberate mistakes; substituting one
for the definition it precedes makes TLC report a property violated. They are not part of
any specification.

**The three composite instances.** `MCReviewPipeline`, `MCAnalysis` and
`MCEngineServices` explore several components in one run, one component per behaviour: the
variable `component` is chosen in `Init` from the constant `Components`, the chosen
component's variables start in its own `Init` and take its own steps, and the variables of
all others are `"off"` and stay so. A property names the component it is about. `MCReviewPipeline` and
`MCEngineServices` hold the components whose properties are proved in section 4; `MCAnalysis` those
whose algorithms are recursive, or sort and fold sequences. Components
that meet (a review that appends through the journal, a stage that uses the scheduler) use
each other's contracts, named in the text below, rather than each other's state.

**JobScheduler.** Actors: one calling thread per element of `Runs`, the pool threads
(`TakeJob`, `StartJob`, `FinishJob`, `Complete`), whoever cancels (`SetEvent`,
`CancelScope`) and one closer. A critical section of `self._condition` is one action
with the guard `LockFree`; the dispatch loop alone is split into `DispatchScan` (loop
condition and cancellation scan) and `DispatchPick` (choice of a run and submission),
during which the lock is held (`dispatching # "no"`) and everything that needs no lock
interleaves. `jobs[r][j]` follows a job from `run.pending` through the executor's queue
and a thread to `_complete`; `run.active` is the set of states between. `cause[r]` is the
exception the call will raise, `waiting` the callers inside the untimed `wait_for`. The
0.1 s timed wait of the collector is a wake-up that may happen at any time. Results are
identified with the jobs they belong to. Left out: the pairs `_complete` appends to
`run.completed` of a cancelled run (nothing reads them), and interrupts anywhere but in
the collector's wait. A future cancelled by `_cancel_locked` re-enters the dispatcher at
the first such future; the model enters it after the last, with the lock held throughout.

**JobHandles.** A handle is a record; `RunArguments` is what
`_NodeJobs.run` passes on. New events and quotas are numbered by `made`. The
`ScopesAreNested` invariant (part of `HandlesSound`) is exactly the assumption `ScopesNested` that
`JobScheduler` makes about its constants, and `MCJobScheduler` derives its
constants from `JobHandles`, so the assumption is evaluated on handles built the way the
engine builds them.

**StageRunner.** A stage is the way each node uses each other node (seven
ways, see the module) and the producers of its outputs. The coordinator is the thread in
`run_stage`; `Visit` is one iteration of `for node in planned.nodes`. Values are not
modelled: `published` are the keys of `outputs`, `seen[n]` the keys of the copy the node
got. A node's result is one of ok, inconclusive, error and raised; failing validation
of inputs or outputs is an error of the node. `JobFails` is the node's own event set by a
failing job of an explicit handle: a handler that recovers from it and returns OK is
refused as cancelled, as the code does.

**ExecutionService.** Each stage has one node. `run_stage` and `jobs.run` appear as the
contracts the other modules establish: a stage returns or raises after its node has ended
(`ReturnIsFaithful`, `StageEnds`), and `jobs.run` is refused by a closed scheduler, cancelled
by the execution or by close, and drained on exit (`OutcomeFaithful`, `CallsEnd`). `genuine`
is a history variable: executions in which something other than the shutdown failed.
INCONCLUSIVE is not told apart from OK here. An interrupt of `close()` is modelled at the
points where it waits.

**ModelRequests.** One call of `JsonPromptRunner.invoke`: `phase` is where the loop over
attempts and the tool loop inside it are, `transportRetries` and `outputAttempts` the two
budgets, and the tool results are the number gathered, carried on and observed.
Cancellation may arrive before any step. The texts, rendering, counting of tokens and the
length of the backoff are left out; an answer is one of the ways it can turn out.

**JsonJournal.** Every call is an actor of its own, so that a queue entry is named after
its caller; `asleep` are the threads in the condition variable. `Notify` wakes any one of
them where CPython wakes the oldest. A failed write leaves any proper prefix of the batch in the file,
counted in whole records; the torn record behind it is beyond every boundary.
Its last section maps it to `DurableLog`: the log is what was accepted, its stable part the file,
a caller asleep or waiting a pending call. `DurableLog` states its liveness as a leads-to, so
that the refinement includes that every call ends.

**Triage.** The calling thread's `phase` follows `jobs.run`, the `finally` clauses and, for
a file, the batches; jobs annotate and store their outcome in two steps between which a
checkpoint may be taken. `jobs.run` appears as the contract of `JobScheduler`. A checkpoint callback
succeeds, fails with an error that is swallowed, or cancels. The journal is the sequence of
annotated findings and may refuse a record; `store.processed` is its length.

**FrontierReview.** Functions are numbers in the order of `_node_sort_key`, source is a set
of lines per function, a packet an index and the pieces of source it shows. The lines that
fit (`Budgets`), an overflow of a group or of a rendered chunk, and the model's answer
(`Kinds`, the failure kinds of `_review_packet`) are free choices. A body is cut as
`split_snippet` does, halved at a line until each part fits (`PartEnds`), and parts are packed
whole, each chunk taking the next ones as long as they fit together (`ChunkEnds`); size is counted in
lines where the code counts tokens. Halving of packets, numbering,
deduplication by content and the outcome per function are as in the code too. `jobs.run` is one step,
since a wave's packets are independent and it returns them all. Cached answers of a
checkpoint are answers like others. A raised error abandons the review and is left out.

**SimpleReview.** The text of a file is a version number, and so is each place that tools read;
an answer is what it was computed from. Jobs read a file and look it up in the checkpoints (`Lookup`),
make the tool calls of its record again one by one (`Replay`, `RejectRecord`) and only then return its
answer (`Resume`); or they cut the text into chunks, split a chunk whose prompt is too long, observe places through
tools, put records and deliver them. Users edit between any two of these steps, the process crashes
and a later one resumes from the SQLite file. Records are kept by mode, file and text; a file that
has a source view is read again before its chunks are reviewed, an entry of a patch is not.
`ResumesCurrent` says what such a replay can promise: the answer rests on the text the job
has read, and each result of a tool is one the codebase gave at some moment since the lookup. Places may
change after their own replay, and the answer returned is then not one of any single moment.

**FindingDedup, FindingIds.** Findings are positions in the journal with an identity, a file and
a function. Batches of a scope are decided by concurrent jobs; the model may accept any groups of a
packet, or fail. Ids are pairs, so that a generated one can equal an original; the external sort is
modelled with its chunks and merge width.

**ArtifactFiles.** The path names an inode of two blocks; publishers replace it between the two
statements of a registry transaction, die, or time out on the lock; users edit a block or put a file of
their own there; a reader copies the blocks one by one.

**ReviewOutput.** Jobs append groups of findings under the position their mode gives them (file order,
patch entry, collected group) and `publish` reads the flushed part. A label is what a node calls the
file; both review nodes appear with the labels they make.

**TriageStore, TriageWorkflow.** A document is groups of findings; decisions are journalled in any
order while publications merge what was flushed. In the workflow a file has three lines that users edit;
evidence is cut to a budget, tools observe lines, a decision cites ranges and is validated; workflows
are cached by model and navigation object.

**JsonEvents.** A document is a tree; the parser's events are derived from it (external), the stack
and the writer are as in the code. The reference rewrites the tree directly. `Trees` are the documents
and the values in them, to the depth `Depth`: the recursive definitions are functions on this set, so that
the instance the module is part of can carry theorems.

**CommandLine.** A path is a base and a format, a base a name and the number of the command that made
it up (0: the user did); `Aliases` are names a file system does not tell apart. The engine is represented
by what may become of each stage: an end with or without failures, an error with or without a published
report and validated outputs, an interrupt. A setup says whether a stage is the built-in one, which can
stream, one with a `result` node, or one whose result node has a name of its own (`private`), of which nothing is
planned: a graph of such stages alone runs without a plan, and its files are planned when it has run.
A session begins when its engine is built.

**CodeGraphService, CFamilyParse, CFamilyLinking.** The text of a file is the number of the edit that wrote it;
hashing and building read the files one by one. A build may fail in a provider, the store may be dropped by a schema change, two
callers wait for each other. Worker processes answer, answer nonsense, die or hang; the pool is stopped
from the thread that notices. Linking works on units of definitions and of calls, which are direct or through a
member, qualified or not, with scopes, guards and positions. `LinksRespectLanguages` is about the language of
the caller: what each language compiles of a header it reads, may call and may take the address of
(`Callable`, `Nameable`), and, for a plain call by name, all it may mean (`Bound`). Functions that
global initializers name are entry points.

**NullContracts.** A program is the syntax the rules look at; what C makes of it (`Run`, `Outcomes`)
is the reference. `ContractsAreExact` is about programs whose guards are comparisons with NULL;
`null_contracts` shows what happens otherwise (section 5).

**ReachabilityScope, PacketFindings, SourceAnchors, CompilationProfile.** Call graphs of up to four
functions; the discovery itself is any set of findings, since `FrontierReview` models it. Lines of source
are words; a file changes between validation and anchoring. The compiler's output is external: it prints
the lines of a unit's tree with the markers and directives the mapping must understand.

**Capabilities, IndexCapability.** Factories run under the re-entrant lock, so other threads wait, but
a factory may itself require other capabilities or close the engine; `close()` takes the closers under
the lock and calls them outside it. A backend call is a frame of a call stack, from which clients may be called back.

**ThreatModel.** The repository memory is a record of rows and index with its operations as operators; the
module has processes that build and a reader that reads page by page between
their transactions, and users who edit sources, perhaps back to a text they had: a fingerprint
then equals that of before, and `ReusedIsNotStale` allows the reuse. A claim is a kind (statement, type and disposition),
scopes and the sources it comes from; the record of a contract keeps what the
code keeps, the kinds of all claims and the compiled scope clauses, each with its first source. The policies a reader gets are compiled and applied to the path under
review.

**Usage, RunLog, ExternalStages.** Callbacks of two threads record between the two reads of a summary.
In the run log the main thread and its jobs, each in a copy of the span context of the thread that waits for
it, look at `enabled` without the lock (`Ask`), take their turn under it (`TakeTurn`), and
write blob and line; a write may fail, logging is disabled only later (`Disable`), and the process may
die at any step. Calls of external stages share run directories; a child writes, exits, hangs or is killed.

## 3. Runs

| Run | Instance | Size | Properties |
|---|---|---|---|
| `scheduler_quota` | two calls of 2 and 1 jobs through a node's explicit handle limited to one job, pool of 2 | 531k states | `Accounting`, `WithinLimits`, `WorkConserving` |
| `scheduler_live` | a call of 2 jobs whose callback may start a plain call, pool of 1 | 39k | `OutcomeFaithful`, `CallsEnd` |
| `stage_runner` | three nodes, 98 acyclic plans over the seven uses and a cyclic one | 577k | `InputsAreFinal`, `ReturnIsFaithful`, `StageEnds` |
| `execution_service` | two executions, two closers, one admitted at a time, one node thread | 98k | `LifeCycleSound`, `CallsEnd` |
| `model_requests` | two answers, two transport retries, two rounds of up to two tool calls | 375k | `ObservedIsEvidence`, `NothingIsExplained`, `CancellationWins` |
| `json_journal` | records of 1, 2 and 3 bytes, a buffer of 2, one flush, two closes | 40k | `ImplementsDurableLog`, `NoLostWakeup` |
| `frontier_review` | four functions in two files, one cut in parts, one without source, budgets 3 and 6 | 78k | `ReviewSound` |
| `review_pipeline` | eight components, see `MCReviewPipeline` | 2.99M | `ReviewStatusFaithful`, `ResumedIsCurrent`, `FilesAreSound`, `TriagePublishedExact`, `VerdictGrounded`, `TriageAccountsForAll`, `GraphOfItsSources`, `FilesAccounted`, `FindingsGrounded` |
| `analysis` | ten components, see `MCAnalysis` | 227k | `LinksAreLegal`, `ContractsAreExact`, `ScopeIsCovered`, `AnchorsAreSound`, `ProfileExact`, `FindingsRepresented`, `DocumentIsReview`, `JsonStreamExact`, `CommandsFaithful` |
| `engine_services` | seven components, see `MCEngineServices` | 1.21M | `CapabilitiesSound`, `ThreatContextSound`, `UsageWithinTotals`, `BundlesValidate`, `ExternalResultOwn`, `HandlesSound` |
| `null_contracts` | programs with tests that are not comparisons with NULL | violation | `WithdrawnImpossible` |
| `split_review` | the review output alone | violation | `CollectedIsPublished` |

Deadlock is checked in every run; `Terminated`, `Quiet`, `Done`, `Ended` and the `…Done` states of the
components are the only states in which a system may rest. Some invariants are conjunctions of named
parts: `OutcomeFaithful` (drained on exit, complete results, cancelled for a reason),
`ReturnIsFaithful` (status, only blocked nodes skipped, never stalls, drained), `LifeCycleSound`
(admission, resources, draining, genuine errors), `ReviewSound`, and several of the composite runs.

**Bounds.** `MaxJobs` = 2 and two runs: the shared quota is contended, a run has a
queued and a pending job at once, and one run is removed before and after the other. The pool of one
in `scheduler_live` makes the nested call compete with its caller's own jobs for the only thread. Three
nodes are the smallest stage with a chain, a fork and a join; the configuration order is the reverse of
the dependency order, so `_topological_order` has work to do. Two executions with room for one
give a waiter for admission; two closers give one that finds the engine closed, each interrupted at
most once. Two of each budget let a request fail in one way, then the other, and then succeed or run
out. The three records are below, at and above the buffer: one fits with another, one alone, one only
into an empty queue. A function of four lines between two of one line is, when three lines fit, cut into two
parts that share packets with its neighbours; the halves of both packets are rebuilt, so that a packet
appears twice in a wave. When six fit, the three functions share one packet.

In the composite runs actors that share state come in pairs or next to another kind: two files under review and
a user, two publishers, a reader and a user, two callers of the graph service, three parser processes, two users of the capabilities, two
processes that build the threat model and one that reads it, the main thread of a run log and two jobs, of one
submitter or one inside the other, five calls of external stages. Triage workflows and
packets have one thread each and a user who edits. An edit or two (`MaxFileEdits`, `MaxLineEdits`, `MaxChanges`) fall between any two
reads; for the simple review it is one (`MaxReviewEdits`), of a file or of either of the two places its tools read, so
that it can fall between two replayed calls. `MaxReviewRuns` = 2
is a run and its resumption. `FirstChunks` = 1 and `MaxChunks` = 2 let a chunk be split once. Batches of
two over three findings give a full and a partial batch; dedup packets of three over five findings overlap
in two scopes; four ids with a merge width of two make the sort merge twice. Three lines with an evidence
budget of four cut a window. Three worker processes have four folders, so that two share a batch. Paths are bounded by three
calls in graphs that have shorter and longer ones. `MaxDepth` = 3 lets a backend call back from a call
back; `MaxRecords` = 3 is the start of the root span and two more starts or events, which may be of
two jobs (the ends are not counted). `PageSize` = 1 lets a build come between any two records a reader
gets. `MaxCommands` = 2 lets
a command follow one whose files were made up. The documents, command lines, programs,
units, graphs, texts and databases are listed in the MC modules with what each is there for.

**Fairness.** In `JobScheduler`, callers and workers are strongly fair: they compete for
one lock that the timed waits of idle callers take and release for ever, so a thread's
next step is enabled again and again rather than continuously; Python's lock is handed to
every thread that keeps asking. The dispatch loop is weakly fair: its thread holds the
lock. Jobs and callbacks are assumed to end. No fairness is assumed of cancellation,
interrupts or `close()`. In `StageRunner` the coordinator and the pool threads are weakly
fair: handlers end, and a node never waits for another node. In `ExecutionService` a
handler is strongly fair to end: it may call `jobs.run` finitely often. Nobody has to
call `close()`. In `JsonJournal` the writer and every call that has begun are weakly fair;
nobody has to begin one. The composite runs check safety only.

**Refinement.** `ImplementsDurableLog` is `DurableLog!Spec` under the mapping at the end of `JsonJournal`: every
step of the queue, the writer and the condition variable is a step of the abstract log or changes
nothing of it, and a pending call ends.

## 4. Proofs

Every theorem holds for every value of the constants its assumption allows. The inductive
invariants below were checked by TLC on the instances of section 3 before they were proved.

**Job scheduler** (`JobSchedulerProofs`; any finite set of runs, any quotas, limits, job
lists and scopes allowed by `ConstantsTyped`; `CallsEndFaithfully` also uses `ScopesNested`,
which `HandlesAreSound` proves of the handles):

- `TypeCorrect`: `Spec => []TypeOK`. The one conjunct that needs thought is the range of
  `cursor`, which `_remove` reduces modulo the new length and `_dispatch_locked` advances.
- `AccountingExact`: `Spec => []Accounting`, inductive together with `TypeOK`. Every step does
  one of two things to the set of active futures (`CountingStep`): it removes a set of them
  (a completion, or the queued futures of cancelled runs; the empty set for most actions)
  and lowers every counter by the number removed, or it submits one job and raises the
  counters by one. `RemovalCounts` and `SubmitAdds` say what this does to the cardinalities.
- `LimitsRespected`: `Spec => []WithinLimits`. Not inductive: `DispatchPick` submits without
  testing the pool limit, which `DispatchScan` tested in the step before. `RoomAtPick` says that
  there is room whenever the loop is at the pick; it survives the steps between because they only
  remove futures. The per-run and quota limits follow from `Eligible` and, for the
  quotas, from `Accounting`: the guard reads `quota.active`, the theorem is about futures.
- `DispatchIsComplete`: `Spec => []WorkConserving`. A step that does not hold the lock through a
  dispatch never makes a job eligible or frees a thread (`FreeStepsKeepBusy`), and the loop ends
  only when its last scan found nothing. The sleepers need `SleepersWait` and `WaitsUncollected`:
  a drain that sleeps has active jobs, and whatever removes the last of them wakes everybody.
- `CallsEndFaithfully`: `Spec => []OutcomeFaithful`. The three parts need `OutcomeInv`: a run is
  in the list once and has futures only while it is there (`RegisteredOnce`); a caller that has
  drained gets no more jobs (`NothingLeft`); every finished job is in one place on its way to
  the results (`DeliveredOnce`), so that as many results as jobs means all of them; a call that
  is going to raise knows why, which of the causes is possible where (`RaisesForACause`,
  `CausesInOrder`); and every set event, cancelled run and cancelled job goes back to a request
  (`CancellationsTraced`). The last is where the nesting of scopes is needed: a run
  cancelled by the failure of another observes all that the other does.

**Stage runner** (`StageRunnerProofs`; any finite set of nodes, any stage):

- `SnapshotsAreFinal`: `Spec => []InputsAreFinal`, and `StageReturnsFaithfully`:
  `Spec => []ReturnIsFaithful`, from one invariant, `StageInv`. It relates the plan (each node after
  its dependencies, `PlanOrdered`), the five sets of `run_stage` and the futures (`BooksAgree`,
  `NothingLost`), and the place of the coordinator (`PhasesAgree`). That the coordinator
  never stalls is the interesting part: if nothing runs and nothing was submitted in a whole
  pass (`PassComplete`), the first pending node of the plan has all its dependencies
  completed, and so could have run. It is the least element of the pending positions, which
  is the one place where the well-foundedness of `<` on the naturals is used.

**Execution service** (`ExecutionServiceProofs`, any executions, closers and admission limit):
`LifeCycle`: `Spec => []LifeCycleSound`. `ClosingOrder` says what a `close()` has established at
each of its steps, `ReleasedOnce` that one call takes the resources, `ErrorsTraced` that an error
caused by the shutdown belongs to an execution that is already signalled.

**Model requests** (`ModelRequestsProofs`, every `RequestConstants`):

- `NothingExplained`: `Spec => []NothingIsExplained`. The strengthening says how the two counters
  add up to the number of attempts while the request may still try (`Trying`), so that the `range`
  of the loop never runs out before the `break` is reached (`LeftByBreak`), and that the two flags
  remember every limit and incomplete answer (`FlagsRemember`).
- `CancellationStops`: `Spec => CancellationWins`, an action property.
- `ObservationExact`: `Spec => []ObservedIsEvidence`. Tools are offered only while there is no
  evidence, so the attempt that hands its evidence over starts from an empty observation.

**Journal** (`JsonJournalProofs`, any callers, record sizes and buffer):

- `WakeupsNeverLost`: `Spec => []NoLostWakeup`. `flush()` wakes one thread only; the
  strengthening shows that the writer never sleeps beside a producer (`WriterSleepsAlone`), because
  an empty queue holds no bytes (`BytesQueued`) and has room for anything.
- `JournalRefinesLog`: `Spec => Log!Safety`, the refinement of `DurableLog` without its liveness.
  `JournalInv` says where accepted records are that are not in the file: in the batch being
  written, then in the queue (`RecordsInOrder`), until a write fails, after which the writer
  only leaves (`WriterPhases`); that the stop entry is behind all others (`StopIsLast`), so that
  a journal closed without an error has written everything; and that a flusher's event follows
  its data (`EventsAfterData`). Under it each action is one of the abstract log's or leaves it alone
  (`AppendIsLogStep` to `WriterIsLogStep`).

**Frontier review** (`FrontierReviewProofs`, any functions, files, lengths of source and budgets):
`ReviewIsSound`: `Spec => []ReviewSound`, from `FrontierInv`. *Coverage*: a line of a function that has not
failed is covered, or in a packet of the wave, or its function is still to be put into packets
(`Accounted`); what is covered is in a packet that was answered and not split (`CoveredByLeaves`,
`LeavesAnswered`), and indices are never reused (`IndicesUnique`), so that an answer belongs to one packet.
That cutting loses nothing is a fact about ranks: a piece is in the chunk numbered by the ends of chunks
before it, so the chunks partition the pieces wherever parts end (`ChunksAre`), and they are
numbered in order (`PacketsNumbered`); the halves of a packet's functions are those below and
above the middle rank, and both are smaller (`HalvesOf`). *Bound on the waves*: a packet of the n-th
wave has at most one function more than an n-th half of all (`Halved`), so a wave that is not the first
comes from a packet of two functions (`Turned`). The provers do not interpret `2 ^ n`; `PowerOfTwo` gets the
two equations that are needed from the number of subsets of `1..n`. The proof showed one
mistake in the model: the answers of no packet were a set rather than the empty function, which TLC cannot
tell from each other.

**Review pipeline** (`ReviewPipelineProofs`, for every value of the constants of `MCReviewPipeline` that
these components have). The constants of the eight components are parameters of the instance, with the
assumptions the proofs need, which only type them: numbers are naturals, no file, process or caller is called
nobody or the user, a line of source has a number, an answer has a status of the schema and cites pairs of numbers, a
batch is not empty; a document is groups of findings that are triaged or not (`StoreAssumption`), a file has a provider
(`ServiceAssumption`), a file to parse has a folder, a weight, a language and nodes (`ParseAssumption`), texts and reviews are sequences of lines and numbers (`PacketAssumption`).

- `ReviewStatusIsFaithful`: `Spec => []ReviewStatusFaithful`, and `CheckpointsAreCurrent`:
  `Spec => ResumedIsCurrent`, an action property, both from `SimpleInv`. Whatever the tools showed for an
  answer is in its evidence, or the evidence is marked invalid and then never put (`EvidenceSound`);
  so every record on disk or in memory, of this process or of one that crashed, says all it was
  computed from (`RecordsSound`). A job that replays a record has the record's text, and each call made so far gave
  a version the place had between the lookup and now (`ReplaySound`), whatever users edit meanwhile; at the
  end of the record that is true of everything its answer was computed from. What became of a
  job is in the failures or the refusal before the job ends (`FateRecorded`).
- `FilesSound`: `Spec => []FilesAreSound`, from `FilesInv`. Between the two statements of a publication
  anything can happen to the path, so the registered signature is not that of the present file; what
  holds is that time stamps only grow and that a user's write moves them (`Aged`), so a signature that
  still fits is of a file only publishers wrote (`Signed`). Two publishers exclude each other by the lock
  (`LockHeld`) and write to files of their own until the replacement (`OwnFiles`); a publication that died or
  failed under the lock leaves what it found (`Undisturbed`). Both are about runs in which no user wrote
  while a publication held the registry (`raced`), the exception the property makes. For the reader, the blocks copied so
  far are those of the version found, as long as its modification time is (`Copying`).
- `VerdictsAreGrounded`: `Spec => []VerdictGrounded`, from `WorkInv`. Every row of the evidence reads, up
  to trailing blanks and unless it was cut off, like a line that was shown in this invocation
  (`RowsShown`), through captures, packing to the budget and tool observations; a row that was
  cut off is never cited. A cached workflow whose navigation has the address of the live one is of the live
  one (`WorkflowSound`): an address is not reused while the cache holds its object.
- `TriageAccounts`: `Spec => []TriageAccountsForAll`, from `StageInv`. For every finding, its decision, its
  place in the journal, in the outcomes and in the count follow from the place of its job and the phase of
  the calling thread (`JobSound`, `Placed`), and `Complete` says which findings must have been
  reported by a phase when nothing failed; the batches before `offset` are among them. `Counted` relates
  the store's counter and the sizes of these sets, which is where a finding counted twice or
  annotated without being counted would show.
- `PublicationsAreExact`: `Spec => []TriagePublishedExact`, from `StoreInv`. While a publication goes through
  the snapshot, the changes still to come are the decisions it began with and has not written, each once and in
  the order of the snapshot (`Listed`), and no such decision is behind it (`Merging`): the first change is
  either for the finding at hand or for a later one, so one pass over both writes all. Jobs that decide
  meanwhile only lengthen the log.
- `GraphsAreOfTheirSources`: `Spec => []GraphOfItsSources`, from `ServiceInv`. A text never comes back, so a
  file read at two moments with the same result had that text at every moment between. Let v be the codebase when
  the first fingerprint was complete; every file is read for the graph and then for the second fingerprint
  after v (`ReadAround`), so when the two agree, the fingerprint is v and the graph is of it. A row that is
  reused was stored before this call hashed its first file (`RowsOlder`): its texts are no newer than any
  codebase of the call, and a fingerprint no older than one of them (`Printing`) that equals it is one of them.
- `FilesAreAccounted`: `Spec => []FilesAccounted`, from `ParseInv`. Every file that could be read is in exactly
  one batch, wherever its folder was put (`Distributed`, `Spread`): that the folders are balanced is not needed. A
  thread that is done has an outcome, so a joined run that was not cancelled gives a file the result of its own parse
  or the error of its own batch (`BatchesSettled`, `ResultOf`), and the merge has sorted exactly the files before the
  one it is at into processed and failed, with the nodes of the processed ones in the graph (`MergedUpTo`).
- `PacketFindingsAreGrounded`: `Spec => []FindingsGrounded`, from `PacketInv`. The second look at a review is as
  strict as the first, so a finding is grounded whatever the file became; that nothing is lost and that sinks
  and conditions are those that were validated holds as long as the accepted reviews are acceptable in the present
  text (`Accepted`). It needs that a snippet has one anchor, that the owner is the innermost function the
  graph has at its line, and that the call results are listed without gaps (`CallResults` by rank).

**Shared services** (`EngineServicesProofs`, for every value of the constants that `MCEngineServices`
passes to these components). A behaviour of the instance is one of one component, so each invariant
is under the condition that its component is the one chosen (`ComponentSteps`).

- `HandlesAreSound`: `Spec => []HandlesSound`, whatever a program derives from one scheduler.
  `HandlesInv` adds that every event made has a number up to `made`: a new event is
  observed by no earlier handle, which is why a plain run's failure reaches nobody else. This
  is what `CallsEndFaithfully` assumes as `ScopesNested`.
- `CapabilitiesAreSound`: `Spec => []CapabilitiesSound`, for any names, threads and depth of
  callbacks. *Capabilities* (`CapInv`): a closer of something constructed is either registered or in
  the hands of one closing thread, once (`ClosersTakenOnce`), and it has been called exactly when it
  is in neither place (`ClosedOrOwed`), also for what a factory returns after the engine was
  closed. *Index* (`IndexInv`): the lock is re-entrant, so only
  the stack of one thread is non-empty (`OneThread`), but that stack interleaves with itself through
  callbacks. The invariant says of every frame that the retrievers it has fetched are of the index the
  backend holds, or of an older generation than the current one, and so will not be published
  (`StackOk`); that the cache is current unless a reset is under way above it (`CacheOk`); and
  that `_active_mutations` is the number of mutating frames (`MutationsCounted`), so that a close that
  was put off happens once, at the outermost end (`ClosedAfterMutations`).
- `ExternalResultsAreOwn`: `Spec => []ExternalResultOwn`, for any calls on one directory. The
  exclusive creation of the request makes its creator the only one that writes or runs in the stage
  (`OutputsByOwner`), and what a call knows at each of its steps follows (`CallOk`);
  while decisions are applied, those still to come and those already in the results are together
  what the command's output holds, so none is lost when the validated file is written.
  `ExternalCallsTyped` is the one assumption: results are numbered, and the stages of a call are those of
  `run_analysis`, `run_validation` or `run_pipeline`, the only three that the service has.

Some operators are written for these proofs without recursion and without `SelectSeq` or a sort, of which the
provers know nothing, but by rank, the k-th element being the one with k up to it: the records of a queue
(`JsonJournal.Records`), the successful calls of a list (`ModelRequests.Succeeded`), decisions and findings in the
order of a document (`TriageStore.Sorted`) and call results (`PacketFindings.CallResults`).

Only model-checked: all liveness properties (`CallsEnd`, `StageEnds`, the `Ends` of `DurableLog`),
which, like ENABLED, are outside what the proof system can do. Of `engine_services`, `UsageWithinTotals`
(sums by folds), `BundlesValidate` and `ThreatContextSound` (claims merged, records sorted and paged
by folds), and all of `analysis`: `FindingsRepresented` (chains of merged findings, ids sorted by a
merge), `DocumentIsReview` (records sorted and concatenated), `JsonStreamExact` (recursion over documents),
`AnchorsAreSound` (normalised text built by folds) and `CommandsFaithful` (command lines scanned by
folds) need induction over data; reachability and linking (`ScopeIsCovered`, `LinksAreLegal`,
`ContractsAreExact`, `ProfileExact`) are recursive operators, and the backends that would be needed are not available in
a module that reaches one.

## 5. Where the code does something else

- **Null contracts** (`null_contracts`). `_return_exclusion_requirements`
  (`nodes/reachability/state.py` 254) turns the facts that hold where an early return is *not* taken
  into requirements that exclude it. For `if (p == NULL || n == 0) return NULL; return alloc();` it
  concludes that a call with a non-null `p` does not return NULL. The admission of findings relies on it
  to withdraw findings, although the function that asks says it returns "whether source-derived callsite
  facts prove a non-null result" (`state.py` 478). For guards that are comparisons with NULL only the
  contracts are exact (`ContractsAreExact`).
- **Two labels of one file** (`split_review`). The reachability review labels a file with
  `os.path.join(codebase_path, file)`, which is `./a.c` when a program that uses the library builds `MetisEngine`
  with a relative path, as its default `"."` is (`src/metis/engine/core.py` 85); the simple
  review uses the absolute path. The command line is not concerned: it makes the path absolute before
  it builds the engine (`cli/entry.py` 475). The output gives both the same position, and `publish` raises
  "Inconsistent review journal records" when both found something in the file, although `finding_dedup`
  "gathers every selected node output" (`docs/execution-graph.md` 239).

## 6. Plan

Done: all modules of section 2 and the theorems of section 4. Next:

1. Proofs: `BundlesValidate`, with stacks of spans that say who owns each.
2. Abstract specifications: a fair resource pool that `JobScheduler` implements; a one-shot stage
   contract that `StageRunner` implements and `ExecutionService` uses.
3. The remaining control: prompt evidence of the reachability review, patch parsing of the simple review,
   the fallback parser of `json_io.py`, type inference of the stage compiler.

## 7. Not modelled

Adapters of third-party services (providers, vector stores, embedding), parsing and
rendering (command-line arguments, exported formats, configuration, SARIF data models, prompts), syntax-tree extraction in the language
plugins, and the text of prompts and answers: these are input, output or data
transformation without control of their own. Within the modelled components: the type
checks of bindings and their inference from types, the configured stage graph's
validation at start-up, progress events and diagnostics, the canonical encoding of JSON values, hashing
(fingerprints are what is hashed), and the schemas of the SQLite files.
