-------------------------- MODULE ExecutionService --------------------------
(***************************************************************************)
(* The life of an engine (ExecutionGraphService, stages/service.py, and    *)
(* MetisEngine.close, core.py): callers execute graphs, the service admits *)
(* a limited number of them, each runs its stages in order on a shared     *)
(* pool of node threads, and close() refuses new calls, signals the        *)
(* admitted ones, drains them and releases the engine's resources.         *)
(*                                                                         *)
(* A stage is the contract StageRunner establishes for run_stage, with one *)
(* node: the node waits for a pool thread, its handler runs and may call   *)
(* jobs.run, and the stage returns or raises after the node has ended,     *)
(* raising if the execution is cancelled.  jobs.run is the contract of     *)
(* JobScheduler: refused once the scheduler is closed, cancelled by the    *)
(* execution's event or by the scheduler's close, and drained on exit.     *)
(*                                                                         *)
(* The condition variable's critical sections are single actions; waits on *)
(* it have no timeout, so a caller in `asleep` moves only after a          *)
(* notification.                                                           *)
(***************************************************************************)
EXTENDS Integers, FiniteSets

CONSTANTS Executions,     \* calls of execute_*()
          Closers,        \* calls of MetisEngine.close()
          MaxExecutions,  \* max_concurrent_executions
          MaxNodes,       \* max_active_nodes
          StageCount      \* stages of the graph

ASSUME ServiceConstants ==
    /\ IsFiniteSet(Executions)
    /\ IsFiniteSet(Closers)
    /\ Executions \cap Closers = {}
    /\ MaxExecutions \in Nat \ {0}
    /\ MaxNodes \in Nat \ {0}
    /\ StageCount \in Nat

VARIABLES
    pc,          \* [Executions \cup Closers -> where the caller is]
    stageNo,     \* [Executions -> stages completed]
    nodeResult,  \* [Executions -> how the node of the current stage ended]
    ending,      \* [Executions -> how the call will end, "none" while it runs]
    genuine,     \* history: executions in which a node or an input really failed
    active,      \* self._active_executions
    cancelled,   \* executions whose event is set
    closed,      \* self._closed of the service
    scheduler,   \* "open" | "closed": the job scheduler's _closed
    nodePool,    \* "open" | "shutdown"
    engineClosed,  \* MetisEngine._closed
    cleanups,    \* how often the resources were closed
    interrupted, \* closers interrupted while draining
    asleep       \* callers blocked in the condition variable

calls == <<pc, stageNo, nodeResult, ending, genuine>>
lifecycle == <<closed, scheduler, nodePool, engineClosed, cleanups, interrupted>>
vars == <<calls, active, cancelled, lifecycle, asleep>>

(* Node handlers that hold a pool thread. *)
Handlers == {e \in Executions : pc[e] \in {"handler", "jobs", "selfclose"}}

Init ==
    /\ pc = [p \in Executions \cup Closers |-> "idle"]
    /\ stageNo = [e \in Executions |-> 0]
    /\ nodeResult = [e \in Executions |-> "none"]
    /\ ending = [e \in Executions |-> "none"]
    /\ genuine = {}
    /\ active = {}
    /\ cancelled = {}
    /\ closed = FALSE
    /\ scheduler = "open"
    /\ nodePool = "open"
    /\ engineClosed = FALSE
    /\ cleanups = 0
    /\ interrupted = {}
    /\ asleep = {}

(* self._condition.notify_all() *)
(* Mutant: notify() wakes one waiter. *)
NotifyOne ==
    \/ asleep = {} /\ asleep' = {}
    \/ \E p \in asleep : asleep' = asleep \ {p}
NotifyAll == asleep' = {}

Goto(p, where) == pc' = [pc EXCEPT ![p] = where]

-----------------------------------------------------------------------------
(* A call of execute_*(). *)

(* Mutant: off by one. *)
RoomForOneMore == Cardinality(active) <= MaxExecutions
RoomToAdmit    == Cardinality(active) < MaxExecutions

(* _execution_scope on entry. *)
Admit(e) ==
    /\ pc[e] \in {"idle", "waiting"}
    /\ e \notin asleep
    /\ \/ /\ closed
          /\ Goto(e, "refused")
          /\ UNCHANGED <<active, asleep>>
       \/ /\ ~closed
          /\ RoomToAdmit
          /\ Goto(e, "ready")
          /\ active' = active \cup {e}
          /\ UNCHANGED asleep
       \/ /\ ~closed
          /\ ~RoomToAdmit
          /\ Goto(e, "waiting")
          /\ asleep' = asleep \cup {e}
          /\ UNCHANGED active
    /\ UNCHANGED <<stageNo, nodeResult, ending, genuine, cancelled, lifecycle>>

AllStagesRun(e)  == stageNo[e] >= StageCount

(* The top of the stage loop, _execute_configured_stage up to run_stage,   *)
(* and the exit of the loop.  Invalid stage inputs are an ERROR; building  *)
(* the triage request or the stage's context may raise.                    *)
BeginStage(e) ==
    /\ pc[e] = "ready"
    /\ \/ /\ e \in cancelled
          /\ Goto(e, "leaving")
          /\ ending' = [ending EXCEPT ![e] = "cancelled"]
          /\ UNCHANGED <<nodeResult, genuine>>
       \/ /\ e \notin cancelled
          /\ AllStagesRun(e)
          /\ Goto(e, "leaving")
          /\ ending' = [ending EXCEPT ![e] = "ok"]
          /\ UNCHANGED <<nodeResult, genuine>>
       \/ /\ e \notin cancelled
          /\ ~AllStagesRun(e)
          /\ Goto(e, "queued")
          /\ nodeResult' = [nodeResult EXCEPT ![e] = "none"]
          /\ UNCHANGED <<ending, genuine>>
       \/ /\ e \notin cancelled
          /\ ~AllStagesRun(e)
          /\ Goto(e, "callback")
          /\ nodeResult' = [nodeResult EXCEPT ![e] = "error"]
          /\ genuine' = genuine \cup {e}
          /\ UNCHANGED ending
       \/ /\ e \notin cancelled
          /\ ~AllStagesRun(e)
          /\ Goto(e, "leaving")
          /\ ending' = [ending EXCEPT ![e] = "raised"]
          /\ UNCHANGED <<nodeResult, genuine>>
    /\ UNCHANGED <<stageNo, active, cancelled, lifecycle, asleep>>

(* run_stage of a cancelled execution cancels a node still in the queue. *)
DropNode(e) ==
    /\ pc[e] = "queued"
    /\ e \in cancelled
    /\ Goto(e, "ended")
    /\ nodeResult' = [nodeResult EXCEPT ![e] = "raised"]
    /\ UNCHANGED <<stageNo, ending, genuine, active, cancelled, lifecycle, asleep>>

(* A pool thread takes the node; _run_node first checks for cancellation. *)
TakeNode(e) ==
    /\ pc[e] = "queued"
    /\ Cardinality(Handlers) < MaxNodes
    /\ \/ /\ e \in cancelled
          /\ Goto(e, "ended")
          /\ nodeResult' = [nodeResult EXCEPT ![e] = "raised"]
       \/ /\ e \notin cancelled
          /\ Goto(e, "handler")
          /\ UNCHANGED nodeResult
    /\ UNCHANGED <<stageNo, ending, genuine, active, cancelled, lifecycle, asleep>>

(* The handler returns or raises by itself; a success is refused once the  *)
(* execution is cancelled.                                                 *)
HandlerEnds(e) ==
    /\ pc[e] = "handler"
    /\ Goto(e, "ended")
    /\ \E r \in {"ok", "error"} :
          /\ nodeResult' = [nodeResult EXCEPT ![e] =
                IF r = "ok" /\ e \in cancelled THEN "raised" ELSE r]
          /\ genuine' = IF r = "error" THEN genuine \cup {e} ELSE genuine
    /\ UNCHANGED <<stageNo, ending, active, cancelled, lifecycle, asleep>>

(* The handler calls jobs.run: a closed scheduler raises RuntimeError,     *)
(* which is an error of the node, a set event CancelledError.              *)
CallJobs(e) ==
    /\ pc[e] = "handler"
    /\ \/ /\ scheduler = "closed"
          /\ Goto(e, "ended")
          /\ nodeResult' = [nodeResult EXCEPT ![e] = "error"]
       \/ /\ scheduler = "open"
          /\ e \in cancelled
          /\ Goto(e, "ended")
          /\ nodeResult' = [nodeResult EXCEPT ![e] = "raised"]
       \/ /\ scheduler = "open"
          /\ e \notin cancelled
          /\ Goto(e, "jobs")
          /\ UNCHANGED nodeResult
    /\ UNCHANGED <<stageNo, ending, genuine, active, cancelled, lifecycle, asleep>>

(* jobs.run returns to the handler, or raises through it.  A failed job    *)
(* sets the node's event: the handler reports an error, or recovers and is *)
(* refused as cancelled.                                                   *)
JobsEnd(e) ==
    /\ pc[e] = "jobs"
    /\ \/ /\ e \notin cancelled
          /\ scheduler = "open"
          /\ Goto(e, "handler")
          /\ UNCHANGED <<nodeResult, genuine>>
       \/ /\ Goto(e, "ended")
          /\ \E r \in {"error", "raised"} : nodeResult' = [nodeResult EXCEPT ![e] = r]
          /\ genuine' = genuine \cup {e}
       \/ /\ e \in cancelled \/ scheduler = "closed"
          /\ Goto(e, "ended")
          /\ nodeResult' = [nodeResult EXCEPT ![e] = "raised"]
          /\ UNCHANGED genuine
    /\ UNCHANGED <<stageNo, ending, active, cancelled, lifecycle, asleep>>

(* _check_reentry: the context of a handler carries its execution. *)
(* Mutant: nested calls are not recognised. *)
NeverReentrant(e) == e \notin active
Reentrant(e)      == e \in active

(* The handler executes another graph or closes its own engine: refused    *)
(* before it waits, an error of the node; it would wait for itself.        *)
Reenter(e) ==
    /\ pc[e] = "handler"
    /\ IF Reentrant(e)
       THEN /\ Goto(e, "ended")
            /\ nodeResult' = [nodeResult EXCEPT ![e] = "error"]
            /\ genuine' = genuine \cup {e}
       ELSE /\ Goto(e, "selfclose")
            /\ UNCHANGED <<nodeResult, genuine>>
    /\ UNCHANGED <<stageNo, ending, active, cancelled, lifecycle, asleep>>

(* The node has ended: run_stage returns its result, or raises (also when  *)
(* a progress callback does); a stage output that does not match its       *)
(* contract makes the stage an ERROR.                                      *)
StageEnds(e) ==
    /\ pc[e] = "ended"
    /\ \/ /\ e \in cancelled \/ nodeResult[e] = "raised"
          /\ Goto(e, "leaving")
          /\ ending' = [ending EXCEPT ![e] = "cancelled"]
          /\ UNCHANGED <<nodeResult, genuine>>
       \/ /\ e \notin cancelled
          /\ nodeResult[e] # "raised"
          /\ \/ /\ Goto(e, "leaving")
                /\ ending' = [ending EXCEPT ![e] = "raised"]
                /\ UNCHANGED <<nodeResult, genuine>>
             \/ /\ Goto(e, "callback")
                /\ UNCHANGED <<nodeResult, ending, genuine>>
             \/ /\ Goto(e, "callback")
                /\ nodeResult' = [nodeResult EXCEPT ![e] = "error"]
                /\ genuine' = genuine \cup {e}
                /\ UNCHANGED ending
    /\ UNCHANGED <<stageNo, active, cancelled, lifecycle, asleep>>

(* stage_completed_callback, which may raise; an ERROR stage is the last. *)
StageCompleted(e) ==
    /\ pc[e] = "callback"
    /\ \/ /\ Goto(e, "leaving")
          /\ ending' = [ending EXCEPT ![e] = "raised"]
          /\ UNCHANGED stageNo
       \/ /\ nodeResult[e] = "error"
          /\ Goto(e, "leaving")
          /\ ending' = [ending EXCEPT ![e] = "error"]
          /\ UNCHANGED stageNo
       \/ /\ nodeResult[e] = "ok"
          /\ Goto(e, "ready")
          /\ stageNo' = [stageNo EXCEPT ![e] = @ + 1]
          /\ UNCHANGED ending
    /\ UNCHANGED <<nodeResult, genuine, active, cancelled, lifecycle, asleep>>

(* _execution_scope on exit. *)
Leave(e) ==
    /\ pc[e] = "leaving"
    /\ Goto(e, "finished")
    /\ active' = active \ {e}
    /\ NotifyAll
    /\ UNCHANGED <<stageNo, nodeResult, ending, genuine, cancelled, lifecycle>>

-----------------------------------------------------------------------------
(* A call of MetisEngine.close(). *)

(* Mutant: the scheduler is closed before the executions are signalled. *)
CloseSchedulerFirst(c) ==
    /\ pc[c] = "idle"
    /\ Goto(c, "scheduler")
    /\ closed' = TRUE
    /\ scheduler' = "closed"
    /\ NotifyAll
    /\ UNCHANGED <<stageNo, nodeResult, ending, genuine, active, cancelled, nodePool,
                   engineClosed, cleanups, interrupted>>

(* The service refuses new work and signals every admitted execution. *)
CloseService(c) ==
    /\ pc[c] = "idle"
    /\ Goto(c, "scheduler")
    /\ closed' = TRUE
    /\ cancelled' = cancelled \cup active
    /\ NotifyAll
    /\ UNCHANGED <<stageNo, nodeResult, ending, genuine, active, scheduler, nodePool,
                   engineClosed, cleanups, interrupted>>

(* JobScheduler.close: no more jobs, every run cancelled ... *)
CloseScheduler(c) ==
    /\ pc[c] = "scheduler"
    /\ Goto(c, "joining")
    /\ scheduler' = "closed"
    /\ UNCHANGED <<stageNo, nodeResult, ending, genuine, active, cancelled, closed,
                   nodePool, engineClosed, cleanups, interrupted, asleep>>

(* ... and its threads joined. *)
SchedulerJoined(c) ==
    /\ pc[c] = "joining"
    /\ \A e \in Executions : pc[e] # "jobs"
    /\ Goto(c, "drain")
    /\ UNCHANGED <<stageNo, nodeResult, ending, genuine, active, cancelled, lifecycle,
                   asleep>>

(* Mutant: draining stops at the handlers. *)
NoHandlers == Handlers = {}
NoneActive == active = {}

(* wait_for(lambda: not self._active_executions) *)
DrainExecutions(c) ==
    /\ pc[c] = "drain"
    /\ c \notin asleep
    /\ \/ /\ NoneActive
          /\ Goto(c, "pool")
          /\ UNCHANGED asleep
       \/ /\ ~NoneActive
          /\ asleep' = asleep \cup {c}
          /\ UNCHANGED pc
    /\ UNCHANGED <<stageNo, nodeResult, ending, genuine, active, cancelled, lifecycle>>

(* An interrupt while draining: the loop starts over, the error is kept.   *)
(* Bound: once per closer.                                                 *)
InterruptClose(c) ==
    /\ pc[c] \in {"joining", "drain", "pool"}
    /\ c \notin interrupted
    /\ Goto(c, "scheduler")
    /\ interrupted' = interrupted \cup {c}
    /\ asleep' = asleep \ {c}
    /\ UNCHANGED <<stageNo, nodeResult, ending, genuine, active, cancelled, closed,
                   scheduler, nodePool, engineClosed, cleanups>>

ShutdownPool(c) ==
    /\ pc[c] = "pool"
    /\ Handlers = {}
    /\ nodePool' = "shutdown"
    /\ Goto(c, "engine")
    /\ UNCHANGED <<stageNo, nodeResult, ending, genuine, active, cancelled, closed,
                   scheduler, engineClosed, cleanups, interrupted, asleep>>

(* Mutant: the flag is not tested. *)
TakeResourcesTwice(c) ==
    /\ pc[c] = "engine"
    /\ Goto(c, "cleanup")
    /\ engineClosed' = TRUE
    /\ UNCHANGED <<stageNo, nodeResult, ending, genuine, active, cancelled, closed,
                   scheduler, nodePool, cleanups, interrupted, asleep>>

(* MetisEngine.close under _close_lock: the first closer takes the         *)
(* resources.                                                              *)
TakeResources(c) ==
    /\ pc[c] = "engine"
    /\ Goto(c, IF engineClosed THEN "finished" ELSE "cleanup")
    /\ engineClosed' = TRUE
    /\ UNCHANGED <<stageNo, nodeResult, ending, genuine, active, cancelled, closed,
                   scheduler, nodePool, cleanups, interrupted, asleep>>

(* The classifier's and the capabilities' close. *)
Cleanup(c) ==
    /\ pc[c] = "cleanup"
    /\ cleanups' = cleanups + 1
    /\ Goto(c, "finished")
    /\ UNCHANGED <<stageNo, nodeResult, ending, genuine, active, cancelled, closed,
                   scheduler, nodePool, engineClosed, interrupted, asleep>>

-----------------------------------------------------------------------------
Ended ==
    /\ \A e \in Executions : pc[e] \in {"finished", "refused"}
    /\ \A c \in Closers : pc[c] \in {"idle", "finished"}
    /\ UNCHANGED vars

Execution(e) ==
    \/ Admit(e) \/ BeginStage(e) \/ DropNode(e) \/ TakeNode(e)
    \/ HandlerEnds(e) \/ CallJobs(e) \/ JobsEnd(e) \/ Reenter(e)
    \/ StageEnds(e) \/ StageCompleted(e) \/ Leave(e)

Closing(c) ==
    \/ CloseScheduler(c) \/ SchedulerJoined(c) \/ DrainExecutions(c)
    \/ ShutdownPool(c) \/ TakeResources(c) \/ Cleanup(c)

Next ==
    \/ \E e \in Executions : Execution(e)
    \/ \E c \in Closers : CloseService(c) \/ Closing(c) \/ InterruptClose(c)
    \/ Ended

Spec == Init /\ [][Next]_vars

(* Threads run, and a handler calls jobs.run finitely often before it      *)
(* ends.  Nobody has to call close().                                      *)
FairSpec ==
    /\ Spec
    /\ \A e \in Executions : WF_vars(Execution(e)) /\ SF_vars(HandlerEnds(e))
    /\ \A c \in Closers : WF_vars(Closing(c))

-----------------------------------------------------------------------------
InService == {"ready", "queued", "handler", "jobs", "selfclose", "ended",
              "callback", "leaving"}
(* At most max_concurrent_executions calls are between admission and exit, *)
(* and the service's set is exactly those calls: one that leaked from it   *)
(* would hold its place, and close(), for ever.                            *)
AdmissionExact ==
    /\ active = {e \in Executions : pc[e] \in InService}
    /\ Cardinality(active) <= MaxExecutions

(* The engine's resources are closed at most once, and only when no        *)
(* execution can use them any more, whichever close() call gets there and  *)
(* however often it was interrupted.                                       *)
ResourcesOutliveWork ==
    /\ cleanups <= 1
    /\ cleanups > 0 \/ nodePool = "shutdown" => active = {} /\ Handlers = {}

(* "Concurrent close callers all wait for execution draining." *)
CloseWaitsForAll == \A c \in Closers : pc[c] = "finished" => active = {}

(* An ERROR result reports a failure of the graph, never the shutdown: a   *)
(* node whose jobs are refused by a closed scheduler belongs to an         *)
(* execution that is already signalled, and ends as cancelled.             *)
ErrorsAreGenuine == \A e \in Executions : ending[e] = "error" => e \in genuine

(* The engine's life cycle: admission, draining, cleanup, and results that *)
(* a shutdown does not falsify.                                            *)
LifeCycleSound == AdmissionExact /\ ResourcesOutliveWork /\ CloseWaitsForAll /\ ErrorsAreGenuine

(* Every call of execute_*() and of close() ends. *)
CallsEnd ==
    /\ \A e \in Executions : pc[e] # "idle" ~> pc[e] \in {"finished", "refused"}
    /\ \A c \in Closers : pc[c] # "idle" ~> pc[c] = "finished"
=============================================================================
