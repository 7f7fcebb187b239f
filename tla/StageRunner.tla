---------------------------- MODULE StageRunner -----------------------------
(***************************************************************************)
(* One stage: compile_stage orders its nodes, run_stage submits the ready  *)
(* ones to the node pool, collects their results, skips what a failure     *)
(* blocks, and ends with a status and outputs or raises                    *)
(* (execution/compiler.py, graph.py, runner.py).  The coordinator is the   *)
(* thread inside run_stage; every submitted node runs _run_node in a pool  *)
(* thread.  Cancellation arrives through the execution's event (outer),    *)
(* the stage's own event and the node's own event, which a failing job of  *)
(* the node sets.                                                          *)
(***************************************************************************)
EXTENDS Integers, FiniteSets, Sequences

CONSTANTS Nodes,      \* the configured nodes
          Rank,       \* [Nodes -> Nat]: their order in the configuration
          Stages      \* the stages to check: [use, producers] records

(* What compile_stage derives from the configured nodes of a stage and     *)
(* run_stage reads.                                                        *)
(*                                                                         *)
(* A stage is abstracted to the way each node uses each other node.        *)
(* use[c][p] is how node c depends on node p:                              *)
(*   "none"       not at all                                               *)
(*   "after"      depends_on only                                          *)
(*   "single"     an input bound to one output of p                        *)
(*   "optional"   the same, and the input's type allows None               *)
(*   "collection" p is one source of the node's collection input, which    *)
(*                needs at least one value                                 *)
(*   "any"        the same, but the input may be empty, or has a source    *)
(*                that is no node                                          *)
(*   "strict"     p is one source of a collection input that the           *)
(*                registration lists in required_when_bound                *)
Uses == {"none", "after", "single", "optional", "collection", "any", "strict"}

ASSUME StageConstants ==
    /\ IsFiniteSet(Nodes)
    /\ Rank \in [Nodes -> Nat]
    /\ \A m, n \in Nodes : Rank[m] = Rank[n] => m = n
    /\ Stages \subseteq [use : [Nodes -> [Nodes -> Uses]], producers : SUBSET Nodes]

(* dependencies: depends_on and every producer of a bound input. *)
Dependencies(use, c) == {p \in DOMAIN use : use[c][p] # "none"}

(* Mutant: a collection that must be complete does not require its parts. *)
RequiredWithoutStrict(use, c) ==
    {p \in DOMAIN use : use[c][p] \in {"after", "single"}}

(* required_dependencies *)
RequiredDependencies(use, c) ==
    {p \in DOMAIN use : use[c][p] \in {"after", "single", "strict"}}

(* The sources of the collection input that must not be empty: at least    *)
(* one of them must be available when _resolve_inputs runs.                *)
CollectionSources(use, c) == {p \in DOMAIN use : use[c][p] = "collection"}

(* tolerated_failures: a consumer that makes do with a partial collection. *)
Tolerated(use) ==
    {p \in DOMAIN use : \E c \in DOMAIN use : use[c][p] \in {"collection", "any"}}

(* Mutant: a tolerated producer is fatal nowhere. *)
FatalUnlessTolerated(use, producers, lost) == lost \ Tolerated(use)

(* fatal_failures *)
FatalFailures(use, producers, lost) ==
    (lost \ Tolerated(use)) \cup (lost \cap producers)

(* Mutant: a node may still wait for one other. *)
ReadyTooEarly(use, left) ==
    {n \in left : \A d, e \in Dependencies(use, n) \cap left : d = e}

(* The next round of _topological_order: the nodes none of whose           *)
(* dependencies is still to be placed.                                     *)
Ready(use, left) ==
    {n \in left : Dependencies(use, n) \cap left = {}}

VARIABLES
    stage,      \* the configured stage
    remaining,  \* nodes _topological_order has not placed
    layer,      \* nodes of the current round, not yet placed
    order,      \* planned.nodes
    phase,      \* where the coordinator is
    at,         \* position in the submission loop
    pending, running, completed, failed,   \* run_stage's sets
    published,  \* keys of `outputs`
    status,     \* ok | inconclusive | error
    batch,      \* `finished`, not yet handled
    failure,    \* the exception run_stage will raise
    task,       \* [Nodes -> state of the node's future]
    result,     \* [Nodes -> what the future holds]
    seen,       \* [Nodes -> keys of the outputs snapshot given to the node]
    outer,      \* the execution's event is set
    own,        \* the stage's event is set
    signalled   \* nodes whose own event is set

coordinator == <<phase, at, pending, running, completed, failed, published,
                 status, batch, failure>>
plan  == <<stage, remaining, layer, order>>
tasks == <<task, result, seen>>
vars  == <<plan, coordinator, tasks, outer, own, signalled>>

Deps(n)     == Dependencies(stage.use, n)
Required(n) == RequiredDependencies(stage.use, n)

StageCancelled   == own \/ outer
NodeCancelled(n) == n \in signalled \/ StageCancelled

(* future.done() *)
Done(n) == task[n] \in {"finished", "cancelled"}

Init ==
    /\ stage \in Stages
    /\ remaining = Nodes
    /\ layer = {}
    /\ order = <<>>
    /\ phase = "compile"
    /\ at = 1
    /\ pending = Nodes
    /\ running = {}
    /\ completed = {}
    /\ failed = {}
    /\ published = {}
    /\ status = "ok"
    /\ batch = {}
    /\ failure = "none"
    /\ task = [n \in Nodes |-> "none"]
    /\ result = [n \in Nodes |-> "none"]
    /\ seen = [n \in Nodes |-> {}]
    /\ outer = FALSE
    /\ own = FALSE
    /\ signalled = {}

-----------------------------------------------------------------------------
(* A round of _topological_order: the nodes that depend on none of the     *)
(* remaining ones, or the cycle error.                                     *)
Round ==
    /\ phase = "compile"
    /\ layer = {}
    /\ layer' = Ready(stage.use, remaining)
    /\ phase' = IF remaining = {} THEN "start" ELSE IF layer' = {} THEN "rejected" ELSE phase
    /\ UNCHANGED <<stage, remaining, order, at, pending, running, completed, failed,
                   published, status, batch, failure, tasks, outer, own, signalled>>

(* The nodes of a round join the plan in their configured order. *)
Place(n) ==
    /\ phase = "compile"
    /\ n \in layer
    /\ \A m \in layer : Rank[n] <= Rank[m]
    /\ order' = Append(order, n)
    /\ layer' = layer \ {n}
    /\ remaining' = remaining \ {n}
    /\ UNCHANGED <<stage, coordinator, tasks, outer, own, signalled>>

(* run_stage begins: the first check, and the start callback. *)
Start ==
    /\ phase = "start"
    /\ \/ /\ outer
          /\ phase' = "raised"
          /\ failure' = "cancelled"
       \/ /\ ~outer
          /\ \/ phase' = "loop" /\ UNCHANGED failure
             \/ phase' = "raised" /\ failure' = "raised"
    /\ UNCHANGED <<plan, at, pending, running, completed, failed, published, status,
                   batch, tasks, outer, own, signalled>>

(* while pending or running: the cancellation check, then the submissions. *)
Loop ==
    /\ phase = "loop"
    /\ \/ /\ pending \cup running = {}
          /\ phase' = "leave"
          /\ UNCHANGED <<at, failure>>
       \/ /\ pending \cup running # {}
          /\ StageCancelled
          /\ phase' = "cancel"
          /\ failure' = "cancelled"
          /\ UNCHANGED at
       \/ /\ pending \cup running # {}
          /\ ~StageCancelled
          /\ phase' = "submit"
          /\ at' = 1
          /\ UNCHANGED failure
    /\ UNCHANGED <<plan, pending, running, completed, failed, published, status, batch,
                   tasks, outer, own, signalled>>

(* Mutant: only the required dependencies are awaited. *)
RequiredReady(n) == n \in pending /\ Required(n) \subseteq completed

(* A pending node whose dependencies have all completed. *)
ReadyToRun(n) == n \in pending /\ Deps(n) \subseteq completed

(* A required dependency failed. *)
Blocked(n) == Required(n) \cap failed # {}

(* The body of `for node in planned.nodes`. *)
PassOver(n) ==
    /\ ~ReadyToRun(n)
    /\ UNCHANGED <<phase, pending, running, completed, failed, failure, task, seen>>

(* Mutant: a skipped node is not a failed one. *)
SkipWithoutFailing(n) ==
    /\ ReadyToRun(n)
    /\ Blocked(n)
    /\ pending' = pending \ {n}
    /\ completed' = completed \cup {n}
    /\ UNCHANGED <<phase, failure, failed, running, task, seen>>

(* _skip_node; its progress callback may raise. *)
Skip(n) ==
    /\ ReadyToRun(n)
    /\ Blocked(n)
    /\ pending' = pending \ {n}
    /\ \/ /\ failed' = failed \cup {n}
          /\ completed' = completed \cup {n}
          /\ UNCHANGED <<phase, failure>>
       \/ /\ phase' = "cancel"
          /\ failure' = "raised"
          /\ UNCHANGED <<failed, completed>>
    /\ UNCHANGED <<running, task, seen>>

(* The node goes to the pool with a copy of the outputs so far. *)
Submit(n) ==
    /\ ReadyToRun(n)
    /\ ~Blocked(n)
    /\ pending' = pending \ {n}
    /\ running' = running \cup {n}
    /\ task' = [task EXCEPT ![n] = "queued"]
    /\ seen' = [seen EXCEPT ![n] = published]
    /\ UNCHANGED <<phase, completed, failed, failure>>

Visit ==
    /\ phase = "submit"
    /\ at <= Len(order)
    /\ PassOver(order[at]) \/ Skip(order[at]) \/ Submit(order[at])
    /\ at' = at + 1
    /\ UNCHANGED <<plan, published, status, batch, result, outer, own, signalled>>

(* The pass is over: wait for the running nodes, leave, or fail the        *)
(* assertion that something is running while nodes are pending.            *)
Visited ==
    /\ phase = "submit"
    /\ at > Len(order)
    /\ phase' = IF running # {} THEN "wait" ELSE IF pending = {} THEN "leave" ELSE "cancel"
    /\ failure' = IF running = {} /\ pending # {} THEN "stalled" ELSE failure
    /\ UNCHANGED <<plan, at, pending, running, completed, failed, published, status,
                   batch, tasks, outer, own, signalled>>

(* wait(FIRST_COMPLETED, timeout=0.1): what is done by then, if anything. *)
Wait ==
    /\ phase = "wait"
    /\ batch' = {n \in running : Done(n)}
    /\ phase' = "collect"
    /\ UNCHANGED <<plan, at, pending, running, completed, failed, published, status,
                   failure, tasks, outer, own, signalled>>

(* future.result() of a finished node. *)
Collect(n) ==
    /\ phase = "collect"
    /\ n \in batch
    /\ batch' = batch \ {n}
    /\ running' = running \ {n}
    /\ \/ /\ result[n] = "raised"
          /\ phase' = "cancel"
          /\ failure' = "raised"
          /\ UNCHANGED <<completed, failed, published, status>>
       \/ /\ result[n] # "raised"
          /\ completed' = completed \cup {n}
          /\ failed' = IF result[n] = "error" THEN failed \cup {n} ELSE failed
          /\ published' = IF result[n] = "error" THEN published ELSE published \cup {n}
          /\ status' = IF result[n] = "inconclusive" /\ status = "ok"
                       THEN "inconclusive" ELSE status
          /\ UNCHANGED <<phase, failure>>
    /\ UNCHANGED <<plan, at, pending, tasks, outer, own, signalled>>

Collected ==
    /\ phase = "collect"
    /\ batch = {}
    /\ phase' = "loop"
    /\ UNCHANGED <<plan, at, pending, running, completed, failed, published, status,
                   batch, failure, tasks, outer, own, signalled>>

(* The check after the loop. *)
Leave ==
    /\ phase = "leave"
    /\ IF StageCancelled THEN phase' = "cancel" /\ failure' = "cancelled"
                         ELSE phase' = "drain" /\ UNCHANGED failure
    /\ UNCHANGED <<plan, at, pending, running, completed, failed, published, status,
                   batch, tasks, outer, own, signalled>>

(* Mutant: the futures are cancelled and forgotten. *)
CancelAndForget ==
    /\ phase = "cancel"
    /\ own' = TRUE
    /\ task' = [n \in Nodes |-> IF n \in running /\ task[n] = "queued"
                                THEN "cancelled" ELSE task[n]]
    /\ running' = {}
    /\ phase' = "drain"
    /\ UNCHANGED <<plan, at, pending, completed, failed, published, status, batch,
                   failure, result, seen, outer, signalled>>

(* finally, with a failure: the stage's event is set and the futures still *)
(* queued are cancelled.                                                   *)
Cancel ==
    /\ phase = "cancel"
    /\ own' = TRUE
    /\ task' = [n \in Nodes |-> IF n \in running /\ task[n] = "queued"
                                THEN "cancelled" ELSE task[n]]
    /\ phase' = "drain"
    /\ UNCHANGED <<plan, at, pending, running, completed, failed, published, status,
                   batch, failure, result, seen, outer, signalled>>

(* Mutant: nodes that were never submitted are waited for too. *)
DrainEveryNode ==
    /\ phase = "drain"
    /\ \A n \in Nodes : Done(n)
    /\ phase' = IF failure = "none" THEN "settle" ELSE "raised"
    /\ UNCHANGED <<plan, at, pending, running, completed, failed, published, status,
                   batch, failure, tasks, outer, own, signalled>>

(* Every submitted future is waited for before run_stage goes on. *)
Drain ==
    /\ phase = "drain"
    /\ \A n \in running : Done(n)
    /\ phase' = IF failure = "none" THEN "settle" ELSE "raised"
    /\ UNCHANGED <<plan, at, pending, running, completed, failed, published, status,
                   batch, failure, tasks, outer, own, signalled>>

(* The final status, the outputs, the end callback, and the last two       *)
(* cancellation checks.                                                    *)
Settle ==
    /\ phase = "settle"
    /\ \/ /\ phase' = "raised"
          /\ failure' = IF StageCancelled THEN "cancelled" ELSE "raised"
          /\ UNCHANGED status
       \/ /\ ~StageCancelled
          /\ phase' = "returned"
          /\ status' = IF failed = {} THEN status
                       ELSE IF FatalFailures(stage.use, stage.producers, failed) = {}
                            THEN "inconclusive" ELSE "error"
          /\ UNCHANGED failure
    /\ UNCHANGED <<plan, at, pending, running, completed, failed, published, batch,
                   tasks, outer, own, signalled>>

-----------------------------------------------------------------------------
(* Pool threads: _run_node. *)

(* _resolve_inputs: a bound single input is there (the runner has skipped  *)
(* the node otherwise), a collection that needs a value has a source.      *)
InputsResolve(n) ==
    /\ \A p \in Nodes : stage.use[n][p] = "single" => p \in seen[n]
    /\ LET sources == CollectionSources(stage.use, n)
       IN  sources # {} => sources \cap seen[n] # {}

(* The start callback may raise, a cancelled stage raises, unresolved      *)
(* inputs are an error of the node; otherwise the handler runs.            *)
StartNode(n) ==
    /\ task[n] = "queued"
    /\ \/ /\ task' = [task EXCEPT ![n] = "finished"]
          /\ result' = [result EXCEPT ![n] = "raised"]
       \/ /\ ~StageCancelled
          /\ ~InputsResolve(n)
          /\ task' = [task EXCEPT ![n] = "finished"]
          /\ result' = [result EXCEPT ![n] = "error"]
       \/ /\ ~StageCancelled
          /\ InputsResolve(n)
          /\ task' = [task EXCEPT ![n] = "running"]
          /\ UNCHANGED result
    /\ UNCHANGED <<plan, coordinator, seen, outer, own, signalled>>

(* A job of the node fails, which sets the node's own event. *)
JobFails(n) ==
    /\ task[n] = "running"
    /\ n \notin signalled
    /\ signalled' = signalled \cup {n}
    /\ UNCHANGED <<plan, coordinator, tasks, outer, own>>

(* The handler returns or raises.  CancelledError propagates; any other    *)
(* exception, and an invalid result, is an ERROR; a result other than      *)
(* ERROR is refused once the node is cancelled.                            *)
FinishNode(n) ==
    /\ task[n] = "running"
    /\ task' = [task EXCEPT ![n] = "finished"]
    /\ \E r \in {"ok", "inconclusive", "error", "raised"} :
          result' = [result EXCEPT ![n] =
             IF NodeCancelled(n) /\ r # "error" THEN "raised" ELSE r]
    /\ UNCHANGED <<plan, coordinator, seen, outer, own, signalled>>

(* The execution is cancelled. *)
CancelExecution ==
    /\ ~outer
    /\ outer' = TRUE
    /\ UNCHANGED <<plan, coordinator, tasks, own, signalled>>

Ended == phase \in {"rejected", "returned", "raised"} /\ UNCHANGED vars

Coordinator ==
    \/ Round \/ (\E n \in Nodes : Place(n)) \/ Start \/ Loop \/ Visit \/ Visited \/ Wait
    \/ (\E n \in Nodes : Collect(n)) \/ Collected
    \/ Leave \/ Cancel \/ Drain \/ Settle

PoolThread(n) == StartNode(n) \/ FinishNode(n)

Next ==
    \/ Coordinator
    \/ \E n \in Nodes : PoolThread(n) \/ JobFails(n)
    \/ CancelExecution
    \/ Ended

Spec == Init /\ [][Next]_vars

(* The coordinator runs, and every submitted node is given a thread and    *)
(* ends: handlers must terminate, and nodes never wait for other nodes.    *)
FairSpec ==
    /\ Spec
    /\ WF_vars(Coordinator)
    /\ \A n \in Nodes : WF_vars(PoolThread(n))

-----------------------------------------------------------------------------
Succeeded(n) == result[n] \in {"ok", "inconclusive"}

(* What a node is given does not depend on timing: from its submission on, *)
(* its snapshot holds the outputs of exactly those of its dependencies     *)
(* that succeed, and all its required ones are among them.                 *)
InputsAreFinal ==
    \A n \in Nodes : task[n] # "none" =>
        /\ seen[n] \cap Deps(n) = {d \in Deps(n) : Succeeded(d)}
        /\ Required(n) \subseteq seen[n]

(* A stage that returns without ERROR has published every output it is     *)
(* bound to (the next stage indexes them without a check); OK means that   *)
(* every node succeeded; and a failure that is not tolerated is an ERROR.  *)
ResultIsFaithful ==
    phase = "returned" =>
        /\ status # "error" => stage.producers \subseteq published
        /\ status = "ok" => \A n \in Nodes : result[n] = "ok"
        /\ (\E n \in Nodes : ~Succeeded(n) /\ n \notin Tolerated(stage.use))
              => status = "error"

(* A stage that returns has run every node except those with a failed      *)
(* required dependency: failures stop what needs them and nothing else.    *)
OnlyBlockedNodesSkipped ==
    phase = "returned" =>
        \A n \in Nodes : task[n] = "none" <=>
            \E d \in Required(n) : ~Succeeded(d)

(* run_stage returns or raises only when no node of the stage is in the    *)
(* pool any more.                                                          *)
StageDrained ==
    phase \in {"returned", "raised"} =>
        \A n \in Nodes : task[n] \in {"none", "finished", "cancelled"}

(* The assertion "Execution stage scheduler stalled" never fails. *)
NeverStalls == failure # "stalled"

(* run_stage returns what its nodes did, and nothing is left behind. *)
ReturnIsFaithful ==
    ResultIsFaithful /\ OnlyBlockedNodesSkipped /\ NeverStalls /\ StageDrained

(* A stage with an acyclic plan ends, whatever fails or is cancelled. *)
StageEnds == <>(phase \in {"rejected", "returned", "raised"})
=============================================================================
