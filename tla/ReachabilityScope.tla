-------------------------- MODULE ReachabilityScope --------------------------
(****************************************************************************)
(* What a reachability review covers.  run_review splits the selected files *)
(* into those the code graph can answer for, those the simple review takes  *)
(* over, and those outside the codebase; the reachability service cuts the  *)
(* graph down to the part around the selected functions (file_focus.py,     *)
(* graph_utils.py), reviews it, keeps the findings that concern the         *)
(* selection, and gives each one a path from a source (finding_paths.py),   *)
(* searched breadth first over the reduced graph.  The discovery itself is  *)
(* FrontierReview; here it returns any findings and failures.               *)
(****************************************************************************)
EXTENDS Naturals, Sequences, FiniteSets, FiniteSetsExt, SequencesExt

CONSTANTS
    Graphs,     \* [nodes, file, calls, sources]: nodes are numbers, in sort order
    Requests,   \* [mode, files, outside, failed, unsupported, warned, simple]
    Denied,     \* files an authoritative threat-model policy puts out of scope
    MaxPath     \* options.max_path_length

VARIABLES
    graph, request,
    split,      \* [supported, fallback, outside]: sequences of files
    notes,      \* the diagnostics collected so far
    focus,      \* the nodes of the analysis graph
    found,      \* sequence of [node, path]: the findings, annotated one by one
    search,     \* the breadth-first search under way: [queue, parents, depths]
    runs,       \* the reviews made: sequence of [status, result]
    phase       \* where run_review is; "done" carries the status in runs

scopeVars == <<graph, request, split, notes, focus, found, search, runs, phase>>

Idle == [queue |-> <<>>, parents |-> <<>>, depths |-> <<>>]
Files(nodes) == {graph.file[n] : n \in nodes}
Seen(s) == Len(s.supported) + Len(s.fallback) + Len(s.outside)
Selected == {n \in graph.nodes : graph.file[n] \in Range(split.supported)}

-----------------------------------------------------------------------------
(* The reduced graph.                                                       *)

\* _build_reverse_edges over the nodes kept, in sort order
CallersIn(kept, n) == SetToSortSeq({c \in kept : <<c, n>> \in graph.calls}, <)

\* One direction of FileFocusBuilder.node_names_for_targets
Reached(targets, edges) ==
    LET Grow(S, i) == S \cup {e[2] : e \in {d \in edges : d[1] \in S}}
    IN  FoldLeft(Grow, targets, [i \in 1..Cardinality(graph.nodes) |-> i])

\* mutant: callers are followed one call deep only
FocusShallow(targets) ==
    targets \cup Reached(targets, graph.calls)
            \cup {e[1] : e \in {d \in graph.calls : d[2] \in targets}}

\* node_names_for_targets: everything that reaches a target or is reached by one
NodeNamesForTargets(targets) ==
    Reached(targets, graph.calls) \cup Reached(targets, {<<e[2], e[1]>> : e \in graph.calls})

\* _copy_graph_nodes keeps the calls between kept nodes, and says of a callsite
\* that its targets are complete only if none was cut
CallsIn(kept) == {e \in graph.calls : e[1] \in kept /\ e[2] \in kept}

-----------------------------------------------------------------------------
ScopeInit ==
    /\ graph \in Graphs
    /\ request \in Requests
    /\ split = [supported |-> <<>>, fallback |-> <<>>, outside |-> <<>>]
    /\ notes = {}
    /\ focus = {}
    /\ found = <<>>
    /\ search = Idle
    /\ runs = <<>>
    /\ phase = IF request.mode = "patch" THEN "patch" ELSE "scope"

\* A patch is not reviewed by reachability
PatchUnsupported ==
    /\ phase = "patch"
    /\ notes' = {"patch_unsupported"}
    /\ runs' = <<[status |-> "inconclusive", result |-> TRUE]>>
    /\ phase' = "done"
    /\ UNCHANGED <<graph, request, split, focus, found, search>>

\* mutant: a file whose graph could not be built still counts as supported
SupportedAlways(f) ==
    f \in Files(graph.nodes) /\ f \notin request.unsupported

Supported(f) ==
    /\ f \notin request.failed
    /\ f \in Files(graph.nodes)
    /\ f \notin request.unsupported

\* The loop over the selected files
Classify ==
    /\ phase = "scope"
    /\ Seen(split) < Len(request.files)
    /\ LET f == request.files[Seen(split) + 1]
           group == IF f \in request.outside THEN "outside"
                    ELSE IF Supported(f) THEN "supported" ELSE "fallback"
       IN  split' = [split EXCEPT ![group] = Append(@, f)]
    /\ UNCHANGED <<graph, request, notes, focus, found, search, runs, phase>>

\* Diagnostics of the scope; nothing supported means no reachability review
ScopeDone ==
    /\ phase = "scope"
    /\ Seen(split) = Len(request.files)
    /\ LET noted == {<<"provider_warning", f>> : f \in request.warned \cap Range(request.files)}
                    \cup (IF split.outside = <<>> THEN {} ELSE {<<"outside", f>> : f \in Range(split.outside)})
       IN  /\ notes' = noted
           /\ IF split.supported # <<>>
              THEN phase' = "focus" /\ UNCHANGED runs
              ELSE /\ phase' = "fallback"
                   /\ runs' = IF noted = {} THEN runs
                              ELSE Append(runs, [status |-> "inconclusive", result |-> TRUE])
    /\ UNCHANGED <<graph, request, split, focus, found, search>>

\* analyze_file and analyze_codebase: the focus on the selected functions
BuildFocus ==
    /\ phase = "focus"
    /\ focus' = NodeNamesForTargets(Selected)
    /\ phase' = "review"
    /\ UNCHANGED <<graph, request, split, notes, found, search, runs>>

\* participates_in_file: the finding's own function lies in a selected file
Participates(n) == graph.file[n] \in Range(split.supported)

\* _filter_authoritative_scope
InScope(n) == graph.file[n] \notin Denied

\* _review_findings: the discovery found something at some nodes of the focus
\* graph and failed at others; findings out of scope are dropped
Discovered(at, failed) ==
    /\ phase = "review"
    /\ found' = [i \in 1..Cardinality({n \in at : Participates(n) /\ InScope(n)}) |->
                   [node |-> SetToSortSeq({n \in at : Participates(n) /\ InScope(n)}, <)[i],
                    path |-> <<>>]]
    /\ notes' = notes \cup {<<"frontier_failure", graph.file[n]>> : n \in failed}
    /\ phase' = "annotate"
    /\ UNCHANGED <<graph, request, split, focus, search, runs>>

\* A RuntimeError of the analysis fails this review, not the fallback
AnalysisRaises ==
    /\ phase = "review"
    /\ notes' = notes \cup {<<"reachability_failed", f>> : f \in Range(split.supported)}
    /\ runs' = Append(runs, [status |-> "failed", result |-> FALSE])
    /\ phase' = "fallback"
    /\ UNCHANGED <<graph, request, split, focus, found, search>>

-----------------------------------------------------------------------------
(* FindingPathAnnotator, one finding after the other.                       *)

Unannotated == {i \in DOMAIN found : found[i].path = <<>>}
Current == Min(Unannotated)

\* The target is itself a source: the path is the target
SourceItself ==
    /\ phase = "annotate" /\ search = Idle /\ Unannotated # {}
    /\ found[Current].node \in graph.sources
    /\ found' = [found EXCEPT ![Current].path = <<found[Current].node>>]
    /\ UNCHANGED <<graph, request, split, notes, focus, search, runs, phase>>

StartSearch ==
    /\ phase = "annotate" /\ search = Idle /\ Unannotated # {}
    /\ LET t == found[Current].node
       IN  /\ t \notin graph.sources
           /\ search' = [queue |-> <<t>>, parents |-> (t :> 0), depths |-> (t :> 1)]
    /\ UNCHANGED <<graph, request, split, notes, focus, found, runs, phase>>

\* The path back along the parents
RECURSIVE Unwind(_, _)
Unwind(parents, n) == IF n = 0 THEN <<>> ELSE <<n>> \o Unwind(parents, parents[n])

\* One node of the queue: its callers, in order, up to the first source
Visit ==
    /\ phase = "annotate"
    /\ search.queue # <<>>
    /\ LET current == Head(search.queue)
           rest == Tail(search.queue)
           depth == search.depths[current]
           fresh == SelectSeq(CallersIn(focus, current),
                              LAMBDA c : c \notin DOMAIN search.parents)
           hits == SelectSeq(fresh, LAMBDA c : c \in graph.sources)
           parents == [c \in Range(fresh) |-> current] @@ search.parents
           depths == [c \in Range(fresh) |-> depth + 1] @@ search.depths
       IN  IF depth >= MaxPath
           THEN /\ search' = [search EXCEPT !.queue = rest]
                /\ UNCHANGED found
           ELSE IF hits # <<>>
           THEN /\ found' = [found EXCEPT ![Current].path = Unwind(parents, hits[1])]
                /\ search' = Idle
           ELSE /\ search' = [queue |-> rest \o fresh, parents |-> parents, depths |-> depths]
                /\ UNCHANGED found
    /\ UNCHANGED <<graph, request, split, notes, focus, runs, phase>>

\* No source within the bound: the finding keeps the path it had, marked here
\* by a path of the node zero
NoPath ==
    /\ phase = "annotate"
    /\ search # Idle /\ search.queue = <<>>
    /\ found' = [found EXCEPT ![Current].path = <<0>>]
    /\ search' = Idle
    /\ UNCHANGED <<graph, request, split, notes, focus, runs, phase>>

\* _run_reachability_review: any diagnostic makes the run inconclusive
ReachabilityDone ==
    /\ phase = "annotate" /\ search = Idle /\ Unannotated = {}
    /\ runs' = Append(runs, [status |-> IF notes = {} THEN "succeeded" ELSE "inconclusive",
                             result |-> TRUE])
    /\ phase' = "fallback"
    /\ UNCHANGED <<graph, request, split, notes, focus, found, search>>

\* The simple review takes the other files, unless it is a node of its own
Fallback(outcome) ==
    /\ phase = "fallback"
    /\ runs' = IF split.fallback # <<>> /\ request.simple THEN Append(runs, outcome) ELSE runs
    /\ phase' = "combine"
    /\ UNCHANGED <<graph, request, split, notes, focus, found, search>>

\* combine_review_runs
Combined(reviews) ==
    LET all == Range(reviews)
    IN  IF reviews = <<>> THEN IF split.fallback # <<>> THEN "succeeded" ELSE "inconclusive"
        ELSE IF \A r \in all : ~r.result
        THEN IF \E r \in all : r.status = "failed" THEN "failed" ELSE "inconclusive"
        ELSE IF \A r \in all : r.status = "succeeded" THEN "succeeded" ELSE "inconclusive"

Combine ==
    /\ phase = "combine"
    /\ phase' = "done"
    /\ runs' = <<[status |-> Combined(runs), result |-> \E r \in Range(runs) : r.result]>>
    /\ UNCHANGED <<graph, request, split, notes, focus, found, search>>

FallbackOutcomes == {[status |-> "succeeded", result |-> TRUE],
                     [status |-> "inconclusive", result |-> TRUE],
                     [status |-> "failed", result |-> FALSE]}

ScopeNext ==
    \/ PatchUnsupported \/ Classify \/ ScopeDone \/ BuildFocus
    \/ \E at \in SUBSET focus, failed \in SUBSET Selected : Discovered(at, failed)
    \/ AnalysisRaises \/ SourceItself \/ StartSearch \/ Visit \/ NoPath
    \/ ReachabilityDone
    \/ \E outcome \in FallbackOutcomes : Fallback(outcome)
    \/ Combine

ScopeEnd == phase = "done"
ScopeSpec == ScopeInit /\ [][ScopeNext \/ (ScopeEnd /\ UNCHANGED scopeVars)]_scopeVars

-----------------------------------------------------------------------------
\* All call paths from a source to n in the whole graph, without a repetition
SourcePaths(n) ==
    {p \in UNION {[1..k -> graph.nodes] : k \in 1..Cardinality(graph.nodes)} :
        /\ p[1] \in graph.sources
        /\ p[Len(p)] = n
        /\ \A i \in 1..(Len(p) - 1) : <<p[i], p[i + 1]>> \in graph.calls}

\* _best_source_path_to on the reduced graph: the path a finding is given is
\* a call path of the whole program from a source to the finding's function,
\* no other source path is shorter, and a finding goes without a path only
\* when every source path is longer than the bound.
PathsAreShortest ==
    \A i \in DOMAIN found :
        LET p == found[i].path
            all == SourcePaths(found[i].node)
        IN  CASE p = <<>> -> TRUE
              [] p = <<0>> -> \A q \in all : Len(q) > MaxPath
              [] OTHER -> p \in all /\ \A q \in all : Len(q) >= Len(p)

\* run_review: when it reports success, no selected file was left out - each
\* one was reviewed over a graph that has it, or went to the simple review -
\* and nothing was diagnosed about any of them.
SuccessCoversSelection ==
    phase = "done" /\ runs[1].status = "succeeded" =>
        /\ notes = {}
        /\ \A f \in Range(request.files) :
              \/ f \in Range(split.supported) /\ f \notin request.failed
              \/ f \in Range(split.fallback)
=============================================================================
