----------------------------- MODULE CFamilyParse -----------------------------
(****************************************************************************)
(* Parsing the C and C++ files of a code graph.  parse_files_in_parallel    *)
(* groups the files by folder into batches and hands each batch to a        *)
(* process pool from a scheduler thread of its own; any failure stops the   *)
(* whole pool.  build_graph then merges the files in order.  A worker       *)
(* process may die, hang past the deadline, or return; cancellation may be  *)
(* requested at any time.                                                   *)
(****************************************************************************)
EXTENDS Naturals, Sequences, FiniteSets, Functions

CONSTANTS
    Sources,    \* the files in their order: [folder, weight, meta, language, header, dual,
                \* cppFails, readable, nodes]
    MaxWorkers  \* workers the scheduler grants

VARIABLES
    batches,    \* batch -> set of files
    answers,    \* file -> parse result, of files settled before the pool
    thread,     \* batch -> "start" | "waiting" | "stopping" | "done" | "cancelled"
    worker,     \* batch -> "none" | "running" | "ready" | "gone"
    outcome,    \* batch -> what its thread returned: "none" | "parsed" | "error"
    closed,     \* the pool_closed event
    lock,       \* shutdown_lock: the thread inside stop_pool, or 0 (the caller is -1)
    cancelled,  \* the run is cancelled
    stage,      \* "plan" | "run" | "join" | "merge" | "returned" | "raised"
    merged      \* [at, processed, failed, graph, functions]: the loop of build_graph

parseVars == <<batches, answers, thread, worker, outcome, closed, lock, cancelled, stage, merged>>

AllFiles == DOMAIN Sources
Batch == DOMAIN batches

-----------------------------------------------------------------------------
(* CFamilyTreeSitterExtractor.parse_file                                    *)

\* _reparse_header_as_cpp: only headers that C cannot read alone, or that
\* depend on the language; the C result stays when C++ cannot read it either
HeaderLanguage(s) ==
    CASE ~s.dual -> <<"c", FALSE>>
      [] s.dual /\ s.cppFails -> <<"c", TRUE>>
      [] OTHER -> <<"cpp", FALSE>>

ParseFile(f) ==
    LET s == Sources[f]
        language == IF s.language = "c" /\ s.header THEN HeaderLanguage(s) ELSE <<s.language, FALSE>>
    IN  IF ~s.meta \/ ~s.readable
        THEN [error |-> TRUE, language |-> "", warning |-> FALSE, nodes |-> {}]
        ELSE [error |-> FALSE, language |-> language[1], warning |-> language[2],
              nodes |-> IF language[1] = "cpp" /\ s.header /\ s.language = "c"
                        \* _restore_c_functions keeps the C view of shared code
                        THEN s.nodes \X {"c", "cpp"} ELSE s.nodes \X {language[1]}]

Errored == [error |-> TRUE, language |-> "", warning |-> FALSE, nodes |-> {}]

-----------------------------------------------------------------------------
(* parse_files_in_parallel                                                  *)

Folders == {Sources[f].folder : f \in {g \in AllFiles : Sources[g].meta}}
InFolders(D) == {f \in AllFiles : Sources[f].meta /\ Sources[f].folder \in D}

WeightOf[S \in SUBSET AllFiles] ==
    IF S = {} THEN 0
    ELSE LET f == CHOOSE g \in S : TRUE IN Sources[f].weight + WeightOf[S \ {f}]

\* mutant: a folder takes the place of those the batch had
FilesOfLast(batch, D, i) ==
    InFolders({d \in D : batch[d] = i /\ \A e \in D : batch[e] = i => e <= d})

\* The files that a batch has from the folders D
FilesOf(batch, D, i) == InFolders({d \in D : batch[d] = i})

Lighter(S, T) ==
    \/ WeightOf[S] < WeightOf[T]
    \/ WeightOf[S] = WeightOf[T] /\ Cardinality(S) < Cardinality(T)

\* Heaviest folder first, each to the lightest batch
Balanced(batch, count) ==
    LET Heavier(d, e) ==
            LET v == WeightOf[InFolders({d})]
                w == WeightOf[InFolders({e})]
            IN  v > w \/ (v = w /\ d < e)
    IN  \A d \in Folders :
            LET Held(i) == FilesOf(batch, {e \in Folders : Heavier(e, d)}, i)
            IN  \A i \in 1..count :
                    /\ ~Lighter(Held(i), Held(batch[d]))
                    /\ i < batch[d] => Lighter(Held(batch[d]), Held(i))

ParseInit ==
    /\ batches = <<>>
    /\ answers = <<>>
    /\ thread = <<>> /\ worker = <<>> /\ outcome = <<>>
    /\ closed = FALSE /\ lock = 0 /\ cancelled = FALSE
    /\ stage = "plan"
    /\ merged = [at |-> 1, processed |-> <<>>, failed |-> <<>>, graph |-> {}, functions |-> {}]

\* A file whose metadata cannot be read is settled with an error at once
Plan ==
    /\ stage = "plan"
    /\ Cardinality({Sources[f].folder : f \in AllFiles}) > 1
    /\ LET count == IF MaxWorkers < Cardinality(Folders) THEN MaxWorkers ELSE Cardinality(Folders)
       IN  \E batch \in [Folders -> 1..count] :
              /\ Balanced(batch, count)
              /\ batches' = [i \in Range(batch) |-> FilesOf(batch, Folders, i)]
    /\ thread' = [b \in DOMAIN batches' |-> "start"]
    /\ worker' = [b \in DOMAIN batches' |-> "none"]
    /\ outcome' = [b \in DOMAIN batches' |-> "none"]
    /\ answers' = [f \in {g \in AllFiles : ~Sources[g].meta} |-> Errored]
    /\ stage' = "run"
    /\ UNCHANGED <<closed, lock, cancelled, merged>>

\* Sequential parsing: the context grants no jobs, or one worker, or all files
\* are in one folder
ParseSequentially ==
    /\ stage = "plan"
    /\ answers' = [f \in AllFiles |-> ParseFile(f)]
    /\ stage' = "merge"
    /\ UNCHANGED <<batches, thread, worker, outcome, closed, lock, cancelled, merged>>

Running == stage = "run"

\* _parse_batch submits; a pool that was stopped refuses
Submit(b) ==
    /\ Running /\ thread[b] = "start"
    /\ IF closed
       THEN thread' = [thread EXCEPT ![b] = "stopping"] /\ outcome' = [outcome EXCEPT ![b] = "error"]
            /\ UNCHANGED worker
       ELSE thread' = [thread EXCEPT ![b] = "waiting"] /\ worker' = [worker EXCEPT ![b] = "running"]
            /\ UNCHANGED outcome
    /\ UNCHANGED <<batches, answers, closed, lock, cancelled, stage, merged>>

\* The worker process answers, dies (its answer never comes), or hangs
WorkerAnswers(b) ==
    /\ Running /\ worker[b] = "running"
    /\ worker' = [worker EXCEPT ![b] = "ready"]
    /\ UNCHANGED <<batches, answers, thread, outcome, closed, lock, cancelled, stage, merged>>

WorkerDies(b) ==
    /\ Running /\ worker[b] = "running"
    /\ worker' = [worker EXCEPT ![b] = "gone"]
    /\ UNCHANGED <<batches, answers, thread, outcome, closed, lock, cancelled, stage, merged>>

\* A poll finds the answer: it names exactly the batch's files, or is refused
Collect(b) ==
    /\ Running /\ thread[b] = "waiting" /\ worker[b] = "ready" /\ ~cancelled
    /\ thread' = [thread EXCEPT ![b] = "done"]
    /\ outcome' = [outcome EXCEPT ![b] = "parsed"]
    /\ UNCHANGED <<batches, answers, worker, closed, lock, cancelled, stage, merged>>

CollectInvalid(b) ==
    /\ Running /\ thread[b] = "waiting" /\ worker[b] = "ready" /\ ~cancelled
    /\ thread' = [thread EXCEPT ![b] = "stopping"]
    /\ outcome' = [outcome EXCEPT ![b] = "error"]
    /\ UNCHANGED <<batches, answers, worker, closed, lock, cancelled, stage, merged>>

\* A poll without an answer: the pool was stopped by another batch, or the
\* deadline has passed
GiveUp(b) ==
    /\ Running /\ thread[b] = "waiting" /\ worker[b] # "ready" /\ ~cancelled
    /\ thread' = [thread EXCEPT ![b] = "stopping"]
    /\ outcome' = [outcome EXCEPT ![b] = "error"]
    /\ UNCHANGED <<batches, answers, worker, closed, lock, cancelled, stage, merged>>

\* The checkpoint of a poll sees the cancellation: the pool is stopped first
Abandon(b) ==
    /\ Running /\ thread[b] \in {"start", "waiting"} /\ cancelled
    /\ thread' = [thread EXCEPT ![b] = "stopping"]
    /\ outcome' = [outcome EXCEPT ![b] = "none"]
    /\ UNCHANGED <<batches, answers, worker, closed, lock, cancelled, stage, merged>>

Cancel ==
    /\ stage \in {"run"} /\ ~cancelled
    /\ cancelled' = TRUE
    /\ UNCHANGED <<batches, answers, thread, worker, outcome, closed, lock, stage, merged>>

\* stop_pool: the first to enter sets the event, then terminates the workers
EnterStop(b) ==
    /\ Running /\ thread[b] = "stopping" /\ lock = 0
    /\ IF closed
       THEN /\ thread' = [thread EXCEPT ![b] = IF outcome[b] = "none" THEN "cancelled" ELSE "done"]
            /\ UNCHANGED <<lock, closed>>
       ELSE lock' = b /\ closed' = TRUE /\ UNCHANGED thread
    /\ UNCHANGED <<batches, answers, worker, outcome, cancelled, stage, merged>>

Terminate(b) ==
    /\ Running /\ lock = b
    /\ worker' = [c \in Batch |-> IF worker[c] = "running" THEN "gone" ELSE worker[c]]
    /\ lock' = 0
    /\ thread' = [thread EXCEPT ![b] = IF outcome[b] = "none" THEN "cancelled" ELSE "done"]
    /\ UNCHANGED <<batches, answers, outcome, closed, cancelled, stage, merged>>

\* jobs.run returns or raises when every batch is settled; the finally clause
\* stops the pool in either case.  A file no batch answers for fails in the merge
Join ==
    /\ Running
    /\ \A b \in Batch : thread[b] \in {"done", "cancelled"}
    /\ lock = 0
    /\ closed' = TRUE
    /\ worker' = [b \in Batch |-> IF worker[b] = "running" THEN "gone" ELSE worker[b]]
    /\ IF \E b \in Batch : thread[b] = "cancelled"
       THEN stage' = "raised" /\ UNCHANGED answers
       ELSE /\ stage' = "merge"
            /\ answers' = [f \in AllFiles |->
                 IF f \in DOMAIN answers THEN answers[f]
                 ELSE IF \E b \in Batch : f \in batches[b] /\ outcome[b] = "parsed"
                      THEN ParseFile(f) ELSE Errored]
    /\ UNCHANGED <<batches, thread, outcome, lock, cancelled, merged>>

-----------------------------------------------------------------------------
(* The merge loop of build_graph: CodeGraph.merge adds a file entirely or,  *)
(* when a node id exists already, not at all.                               *)

\* mutant: nodes are added before the clash is noticed
MergedEagerly(graph, nodes) == [graph |-> graph \cup nodes, clash |-> graph \cap nodes # {}]

Merged(graph, nodes) ==
    IF graph \cap nodes # {} THEN [graph |-> graph, clash |-> TRUE]
    ELSE [graph |-> graph \cup nodes, clash |-> FALSE]

MergeFile ==
    /\ stage = "merge" /\ merged.at <= Len(Sources)
    /\ LET f == merged.at
           parsed == answers[f]
           m == Merged(merged.graph, parsed.nodes)
       IN  IF ~parsed.error /\ ~m.clash
           THEN merged' = [at |-> merged.at + 1, processed |-> Append(merged.processed, f),
                           failed |-> merged.failed, graph |-> m.graph,
                           functions |-> merged.functions \cup parsed.nodes]
           ELSE merged' = [merged EXCEPT !.at = @ + 1, !.failed = Append(@, f),
                                         !.graph = IF parsed.error THEN @ ELSE m.graph]
    /\ UNCHANGED <<batches, answers, thread, worker, outcome, closed, lock, cancelled, stage>>

BuildReturns ==
    /\ stage = "merge" /\ merged.at > Len(Sources)
    /\ stage' = "returned"
    /\ UNCHANGED <<batches, answers, thread, worker, outcome, closed, lock, cancelled, merged>>

ParseNext ==
    \/ Plan \/ ParseSequentially \/ Cancel \/ Join \/ MergeFile \/ BuildReturns
    \/ \E b \in Batch :
          \/ Submit(b) \/ WorkerAnswers(b) \/ WorkerDies(b) \/ Collect(b)
          \/ CollectInvalid(b) \/ GiveUp(b) \/ Abandon(b) \/ EnterStop(b) \/ Terminate(b)

ParseDone == stage \in {"returned", "raised"}
ParseSpec == ParseInit /\ [][ParseNext \/ (ParseDone /\ UNCHANGED parseVars)]_parseVars

-----------------------------------------------------------------------------
\* build_graph and parse_files_in_parallel: when a graph is returned, each
\* file was processed or failed, exactly once, a file's result is that of its
\* own parse unless its own batch was lost, the graph and the functions to
\* link are exactly those of the processed files, and no worker process is
\* left running - whichever batches died, timed out or stopped the others.
EveryFileAccounted ==
    /\ ParseDone => \A b \in Batch : worker[b] # "running"
    /\ stage = "returned" =>
          LET kept == UNION {answers[f].nodes : f \in Range(merged.processed)}
              Lost(f) == \E b \in Batch : f \in batches[b] /\ outcome[b] = "error"
          IN  /\ Len(merged.processed) + Len(merged.failed) = Cardinality(AllFiles)
              /\ Range(merged.processed) \cup Range(merged.failed) = AllFiles
              /\ \A f \in AllFiles : answers[f] = IF Lost(f) THEN Errored ELSE ParseFile(f)
              /\ merged.graph = kept
              /\ merged.functions = kept
=============================================================================
