----------------------- MODULE ExecutionServiceProofs -----------------------
(***************************************************************************)
(* LifeCycleSound for any number of executions, close() calls, stages and  *)
(* any limits.  It is not inductive: that the resources outlive the work   *)
(* rests on the order of close() (no admission after `closed`, every       *)
(* admitted execution signalled in the same critical section, the drain    *)
(* before the pool, the pool before the engine), and that a shutdown is    *)
(* never reported as an ERROR on the scheduler being closed only after     *)
(* the executions have been signalled.                                     *)
(***************************************************************************)
EXTENDS ExecutionService, FiniteSetTheorems, TLAPS

ExecutionPhases == InService \cup {"idle", "waiting", "refused", "finished"}
CloserPhases == {"idle", "scheduler", "joining", "drain", "pool", "engine",
                 "cleanup", "finished"}

Typed ==
    /\ DOMAIN pc = Executions \cup Closers
    /\ \A e \in Executions : pc[e] \in ExecutionPhases
    /\ \A c \in Closers : pc[c] \in CloserPhases
    /\ nodeResult \in [Executions -> {"none", "ok", "error", "raised"}]
    /\ ending \in [Executions -> {"none", "ok", "error", "cancelled", "raised"}]
    /\ cleanups \in Nat

(* What a close() call has established when it is at each of its steps. *)
ClosingOrder ==
    /\ \A c \in Closers : pc[c] # "idle" => closed
    /\ scheduler = "closed" => closed
    /\ closed => active \subseteq cancelled
    /\ \A c \in Closers :
          pc[c] \in {"pool", "engine", "cleanup", "finished"} => active = {}
    /\ nodePool = "shutdown" \/ engineClosed => closed /\ active = {}

(* One close() call takes the resources, and releases them once. *)
ReleasedOnce ==
    /\ \A c \in Closers : pc[c] = "cleanup" =>
          engineClosed /\ cleanups = 0 /\ \A d \in Closers : pc[d] = "cleanup" => d = c
    /\ cleanups <= 1
    /\ cleanups > 0 => engineClosed

(* An error the shutdown has caused belongs to a signalled execution,      *)
(* whose stage then raises instead of returning it.                        *)
ErrorsTraced ==
    \A e \in Executions :
        /\ pc[e] = "ended" /\ nodeResult[e] = "error" => e \in genuine \cup cancelled
        /\ pc[e] = "callback" /\ nodeResult[e] = "error" => e \in genuine
        /\ ending[e] = "error" => e \in genuine

LifeCycleInv == Typed /\ AdmissionExact /\ ClosingOrder /\ ReleasedOnce /\ ErrorsTraced
-----------------------------------------------------------------------------
LEMMA TypedStep ==
    ASSUME Typed, [Next]_vars
    PROVE  Typed'
<1> USE ServiceConstants DEF Typed, ExecutionPhases, CloserPhases, InService, Goto
<1>1. ASSUME NEW e \in Executions, Admit(e) \/ BeginStage(e) \/ DropNode(e) \/ TakeNode(e)
      PROVE  Typed'
  BY <1>1 DEF Admit, BeginStage, DropNode, TakeNode, lifecycle
<1>2. ASSUME NEW e \in Executions, HandlerEnds(e) \/ CallJobs(e) \/ JobsEnd(e) \/ Reenter(e)
      PROVE  Typed'
  BY <1>2 DEF HandlerEnds, CallJobs, JobsEnd, Reenter, lifecycle
<1>3. ASSUME NEW e \in Executions, StageEnds(e) \/ StageCompleted(e) \/ Leave(e)
      PROVE  Typed'
  BY <1>3 DEF StageEnds, StageCompleted, Leave, lifecycle
<1>4. ASSUME NEW c \in Closers, CloseService(c) \/ Closing(c) \/ InterruptClose(c)
      PROVE  Typed'
  BY <1>4 DEF CloseService, Closing, CloseScheduler, SchedulerJoined, DrainExecutions,
              ShutdownPool, TakeResources, Cleanup, InterruptClose, lifecycle
<1>5. ASSUME Ended \/ UNCHANGED vars PROVE Typed'
  BY <1>5 DEF Ended, vars, calls, lifecycle
<1> QED
  BY <1>1, <1>2, <1>3, <1>4, <1>5 DEF Next, Execution

(* A step of an execution that neither admits it nor lets it go moves it   *)
(* inside the service and leaves the life cycle of the engine alone.       *)
WorksInside(e) ==
    /\ pc[e] \in InService
    /\ pc' = [pc EXCEPT ![e] = pc'[e]]
    /\ pc'[e] \in InService
    /\ UNCHANGED <<active, cancelled, lifecycle>>

LEMMA InsideSteps ==
    ASSUME Typed, NEW e \in Executions, Execution(e), ~Admit(e), ~Leave(e)
    PROVE  WorksInside(e)
<1> USE DEF Typed, Goto, InService, WorksInside
<1>1. CASE BeginStage(e)
  BY <1>1 DEF BeginStage
<1>2. CASE DropNode(e) \/ TakeNode(e) \/ HandlerEnds(e)
  BY <1>2 DEF DropNode, TakeNode, HandlerEnds
<1>3. CASE CallJobs(e) \/ JobsEnd(e) \/ Reenter(e)
  BY <1>3 DEF CallJobs, JobsEnd, Reenter
<1>4. CASE StageEnds(e) \/ StageCompleted(e)
  BY <1>4 DEF StageEnds, StageCompleted
<1> QED
  BY <1>1, <1>2, <1>3, <1>4 DEF Execution

(* A step of a close() call moves no execution. *)
LEMMA ClosersMoveThemselves ==
    ASSUME Typed, NEW c \in Closers, CloseService(c) \/ Closing(c) \/ InterruptClose(c)
    PROVE  /\ \A p \in Executions \cup Closers : p # c => pc'[p] = pc[p]
           /\ \A e \in Executions : pc'[e] = pc[e]
           /\ UNCHANGED <<active, nodeResult, ending, genuine>>
<1>1. /\ \A p \in Executions \cup Closers : p # c => pc'[p] = pc[p]
      /\ UNCHANGED <<active, nodeResult, ending, genuine>>
  BY DEF Typed, CloseService, Closing, CloseScheduler, SchedulerJoined, DrainExecutions,
         ShutdownPool, TakeResources, Cleanup, InterruptClose, Goto
<1> QED
  BY <1>1, ServiceConstants

LEMMA AdmissionStep ==
    ASSUME Typed, AdmissionExact, [Next]_vars
    PROVE  AdmissionExact'
<1>1. IsFiniteSet(active) /\ Cardinality(active) \in Nat
  BY FS_Subset, FS_CardinalityType, ServiceConstants DEF AdmissionExact
<1>2. ASSUME NEW e \in Executions, Admit(e) PROVE AdmissionExact'
  <2>1. CASE UNCHANGED active
    BY <1>2, <2>1 DEF Admit, Goto, AdmissionExact, InService, Typed
  <2>2. CASE RoomToAdmit /\ Goto(e, "ready") /\ active' = active \cup {e}
    <3>1. active' = {f \in Executions : pc'[f] \in InService}
      BY <2>2 DEF Goto, AdmissionExact, InService, Typed
    <3>2. Cardinality(active') <= MaxExecutions
      <4>1. e \notin active
        BY <1>2 DEF Admit, AdmissionExact, InService
      <4>2. Cardinality(active \cup {e}) = Cardinality(active) + 1
        BY <1>1, <4>1, FS_AddElement
      <4> QED
        BY <1>1, <2>2, <4>2, ServiceConstants DEF RoomToAdmit
    <3> QED
      BY <3>1, <3>2 DEF AdmissionExact, InService
  <2> QED
    BY <1>2, <2>1, <2>2 DEF Admit
<1>3. ASSUME NEW e \in Executions, Leave(e) PROVE AdmissionExact'
  <2>1. active' = {f \in Executions : pc'[f] \in InService}
    BY <1>3 DEF Leave, Goto, AdmissionExact, InService, Typed
  <2>2. active' \subseteq active
    BY <1>3 DEF Leave
  <2>3. Cardinality(active') <= Cardinality(active) /\ Cardinality(active') \in Nat
    BY <1>1, <2>2, FS_Subset, FS_CardinalityType
  <2> QED
    BY <1>1, <2>1, <2>3, ServiceConstants DEF AdmissionExact, InService
<1>4. ASSUME NEW e \in Executions, WorksInside(e) PROVE AdmissionExact'
  BY <1>4 DEF WorksInside, AdmissionExact, InService, Typed
<1>5. ASSUME NEW c \in Closers, CloseService(c) \/ Closing(c) \/ InterruptClose(c)
      PROVE  AdmissionExact'
  BY <1>5, ClosersMoveThemselves DEF AdmissionExact, InService
<1>6. ASSUME Ended \/ UNCHANGED vars PROVE AdmissionExact'
  BY <1>6 DEF Ended, vars, calls, AdmissionExact, InService
<1> QED
  BY <1>2, <1>3, <1>4, <1>5, <1>6, InsideSteps DEF Next, Execution

(* No step opens a closed service, and none admits to one. *)
LEMMA ClosingOrderStep ==
    ASSUME Typed, AdmissionExact, ClosingOrder, [Next]_vars
    PROVE  ClosingOrder'
<1> USE ServiceConstants DEF ClosingOrder
<1>1. ASSUME NEW e \in Executions, Admit(e) PROVE ClosingOrder'
  <2>1. \A c \in Closers : pc'[c] = pc[c]
    BY <1>1 DEF Admit, Goto, Typed
  <2>2. active' = active \/ ~closed
    BY <1>1 DEF Admit
  <2>3. UNCHANGED <<cancelled, closed, scheduler, nodePool, engineClosed>>
    BY <1>1 DEF Admit, lifecycle
  <2> QED
    BY <2>1, <2>2, <2>3
<1>2. ASSUME NEW e \in Executions, Leave(e) PROVE ClosingOrder'
  <2>1. \A c \in Closers : pc'[c] = pc[c]
    BY <1>2 DEF Leave, Goto, Typed
  <2>2. active' \subseteq active
    BY <1>2 DEF Leave
  <2>3. UNCHANGED <<cancelled, closed, scheduler, nodePool, engineClosed>>
    BY <1>2 DEF Leave, lifecycle
  <2> QED
    BY <2>1, <2>2, <2>3
<1>3. ASSUME NEW e \in Executions, WorksInside(e) PROVE ClosingOrder'
  <2>1. \A c \in Closers : pc'[c] = pc[c]
    BY <1>3 DEF WorksInside, Typed
  <2> QED
    BY <1>3, <2>1 DEF WorksInside, lifecycle
<1>4. ASSUME NEW c \in Closers, CloseService(c) PROVE ClosingOrder'
  <2>1. \A d \in Closers : d # c => pc'[d] = pc[d]
    BY <1>4, ClosersMoveThemselves
  <2>2. closed' /\ cancelled' = cancelled \cup active /\ pc'[c] = "scheduler"
    BY <1>4 DEF CloseService, Goto, Typed
  <2>3. UNCHANGED <<active, scheduler, nodePool, engineClosed>>
    BY <1>4 DEF CloseService
  <2> QED
    BY <2>1, <2>2, <2>3
<1>5. ASSUME NEW c \in Closers, Closing(c) \/ InterruptClose(c) PROVE ClosingOrder'
  <2>1. \A d \in Closers : d # c => pc'[d] = pc[d]
    BY <1>5, ClosersMoveThemselves
  <2>2. closed /\ pc[c] # "idle" /\ UNCHANGED <<closed, active, cancelled>>
    BY <1>5 DEF Closing, CloseScheduler, SchedulerJoined, DrainExecutions,
         ShutdownPool, TakeResources, Cleanup, InterruptClose, lifecycle
  <2>3. pc'[c] \in {"pool", "engine", "cleanup", "finished"} => active = {}
    BY <1>5 DEF Closing, CloseScheduler, SchedulerJoined, DrainExecutions, NoneActive,
         ShutdownPool, TakeResources, Cleanup, InterruptClose, Goto, Typed
  <2>4. nodePool' = nodePool \/ active = {}
    BY <1>5 DEF Closing, CloseScheduler, SchedulerJoined, DrainExecutions,
         ShutdownPool, TakeResources, Cleanup, InterruptClose, lifecycle
  <2>5. engineClosed' = engineClosed \/ active = {}
    BY <1>5 DEF Closing, CloseScheduler, SchedulerJoined, DrainExecutions,
         ShutdownPool, TakeResources, Cleanup, InterruptClose, lifecycle
  <2> QED
    BY <2>1, <2>2, <2>3, <2>4, <2>5
<1>6. ASSUME Ended \/ UNCHANGED vars PROVE ClosingOrder'
  BY <1>6 DEF Ended, vars, calls, lifecycle
<1> QED
  BY <1>1, <1>2, <1>3, <1>4, <1>5, <1>6, InsideSteps DEF Next, Execution

(* Only the close() call that sets engineClosed goes on to the cleanup. *)
LEMMA ReleasedOnceStep ==
    ASSUME Typed, ReleasedOnce, [Next]_vars
    PROVE  ReleasedOnce'
<1> USE ServiceConstants DEF ReleasedOnce
<1>1. ASSUME NEW e \in Executions, Execution(e) PROVE ReleasedOnce'
  <2>1. UNCHANGED lifecycle
    BY <1>1, InsideSteps DEF Admit, Leave, WorksInside
  <2>2. \A c \in Closers : pc'[c] = pc[c]
    BY <1>1, InsideSteps DEF Admit, Leave, WorksInside, Goto, Typed
  <2> QED
    BY <2>1, <2>2 DEF lifecycle
<1>2. ASSUME NEW c \in Closers, TakeResources(c) PROVE ReleasedOnce'
  <2>1. \A d \in Closers : d # c => pc'[d] = pc[d]
    BY <1>2, ClosersMoveThemselves DEF Closing
  <2>2. engineClosed' /\ cleanups' = cleanups
    BY <1>2 DEF TakeResources
  <2>3. pc'[c] = "cleanup" => ~engineClosed
    BY <1>2 DEF TakeResources, Goto, Typed
  <2> QED
    BY <2>1, <2>2, <2>3 DEF Typed
<1>3. ASSUME NEW c \in Closers, Cleanup(c) PROVE ReleasedOnce'
  <2>1. \A d \in Closers : d # c => pc'[d] = pc[d]
    BY <1>3, ClosersMoveThemselves DEF Closing
  <2>2. engineClosed /\ engineClosed' = engineClosed /\ cleanups' = 1 /\ pc'[c] = "finished"
    BY <1>3 DEF Cleanup, Goto, Typed
  <2>3. \A d \in Closers : pc'[d] # "cleanup"
    BY <1>3, <2>1, <2>2 DEF Cleanup
  <2> QED
    BY <2>2, <2>3
<1>4. ASSUME NEW c \in Closers, CloseService(c) \/ Closing(c) \/ InterruptClose(c),
             ~TakeResources(c), ~Cleanup(c)
      PROVE  ReleasedOnce'
  <2>1. \A d \in Closers : d # c => pc'[d] = pc[d]
    BY <1>4, ClosersMoveThemselves
  <2>2. pc'[c] # "cleanup" /\ UNCHANGED <<engineClosed, cleanups>>
    BY <1>4 DEF CloseService, Closing, CloseScheduler, SchedulerJoined, DrainExecutions,
         ShutdownPool, InterruptClose, lifecycle, Goto, Typed
  <2> QED
    BY <2>1, <2>2
<1>5. ASSUME Ended \/ UNCHANGED vars PROVE ReleasedOnce'
  BY <1>5 DEF Ended, vars, calls, lifecycle
<1> QED
  BY <1>1, <1>2, <1>3, <1>4, <1>5 DEF Next, Closing

(* A handler the closed scheduler refuses has been signalled before. *)
LEMMA RefusedIsSignalled ==
    ASSUME AdmissionExact, ClosingOrder, NEW e \in Executions,
           pc[e] \in InService, scheduler = "closed"
    PROVE  e \in cancelled
BY DEF AdmissionExact, ClosingOrder

LEMMA ErrorsTracedStep ==
    ASSUME Typed, AdmissionExact, ClosingOrder, ErrorsTraced, [Next]_vars
    PROVE  ErrorsTraced'
<1> USE ServiceConstants DEF ErrorsTraced, Typed
<1>1. ASSUME NEW e \in Executions, Admit(e) \/ BeginStage(e) \/ DropNode(e) \/ TakeNode(e)
      PROVE  ErrorsTraced'
  BY <1>1 DEF Admit, BeginStage, DropNode, TakeNode, Goto
<1>2. ASSUME NEW e \in Executions, HandlerEnds(e) \/ JobsEnd(e) \/ Reenter(e)
      PROVE  ErrorsTraced'
  BY <1>2 DEF HandlerEnds, JobsEnd, Reenter, Goto
<1>3. ASSUME NEW e \in Executions, CallJobs(e) PROVE ErrorsTraced'
  <2>1. scheduler = "closed" => e \in cancelled
    BY <1>3, RefusedIsSignalled DEF CallJobs, InService
  <2> QED
    BY <1>3, <2>1 DEF CallJobs, Goto
<1>4. ASSUME NEW e \in Executions, StageEnds(e) PROVE ErrorsTraced'
  BY <1>4 DEF StageEnds, Goto
<1>5. ASSUME NEW e \in Executions, StageCompleted(e) \/ Leave(e) PROVE ErrorsTraced'
  BY <1>5 DEF StageCompleted, Leave, Goto
<1>6. ASSUME NEW c \in Closers, CloseService(c) \/ Closing(c) \/ InterruptClose(c)
      PROVE  ErrorsTraced'
  <2>1. cancelled \subseteq cancelled'
    BY <1>6 DEF CloseService, Closing, CloseScheduler, SchedulerJoined, DrainExecutions,
         ShutdownPool, TakeResources, Cleanup, InterruptClose
  <2>2. /\ \A e \in Executions : pc'[e] = pc[e]
        /\ UNCHANGED <<nodeResult, ending, genuine>>
    BY <1>6, ClosersMoveThemselves
  <2> QED
    BY <2>1, <2>2
<1>7. ASSUME Ended \/ UNCHANGED vars PROVE ErrorsTraced'
  BY <1>7 DEF Ended, vars, calls
<1> QED
  BY <1>1, <1>2, <1>3, <1>4, <1>5, <1>6, <1>7 DEF Next, Execution

-----------------------------------------------------------------------------
LEMMA LifeCycleInit == Init => LifeCycleInv
<1> SUFFICES ASSUME Init PROVE LifeCycleInv
  OBVIOUS
<1>1. Typed
  BY DEF Init, Typed, ExecutionPhases, CloserPhases
<1>2. AdmissionExact
  <2>1. Cardinality({}) = 0
    BY FS_EmptySet
  <2> QED
    BY <2>1, ServiceConstants DEF Init, AdmissionExact, InService
<1>3. ClosingOrder
  BY DEF Init, ClosingOrder
<1>4. ReleasedOnce
  BY DEF Init, ReleasedOnce
<1>5. ErrorsTraced
  BY DEF Init, ErrorsTraced
<1> QED
  BY <1>1, <1>2, <1>3, <1>4, <1>5 DEF LifeCycleInv

(* For any number of executions and close() calls, however they interleave *)
(* and are interrupted: ExecutionGraphService admits exactly the calls in  *)
(* service and no more than its limit, MetisEngine.close releases the      *)
(* resources at most once and after the last execution has left, every     *)
(* close() that returns has waited for all of them, and no shutdown is     *)
(* reported as an ERROR result.                                            *)
THEOREM LifeCycle == Spec => []LifeCycleSound
<1>1. LifeCycleInv /\ [Next]_vars => LifeCycleInv'
  BY TypedStep, AdmissionStep, ClosingOrderStep, ReleasedOnceStep, ErrorsTracedStep
     DEF LifeCycleInv
<1>2. LifeCycleInv => LifeCycleSound
  <2> SUFFICES ASSUME LifeCycleInv PROVE LifeCycleSound
    OBVIOUS
  <2>1. ResourcesOutliveWork
    <3>1. Handlers \subseteq active
      BY DEF LifeCycleInv, AdmissionExact, Handlers, InService
    <3>2. cleanups <= 1
      BY DEF LifeCycleInv, ReleasedOnce
    <3>3. cleanups > 0 \/ nodePool = "shutdown" => active = {}
      BY DEF LifeCycleInv, ReleasedOnce, ClosingOrder
    <3> QED
      BY <3>1, <3>2, <3>3 DEF ResourcesOutliveWork
  <2>2. CloseWaitsForAll
    BY DEF LifeCycleInv, ClosingOrder, CloseWaitsForAll
  <2>3. ErrorsAreGenuine
    BY DEF LifeCycleInv, ErrorsTraced, ErrorsAreGenuine
  <2> QED
    BY <2>1, <2>2, <2>3 DEF LifeCycleInv, LifeCycleSound
<1> QED
  BY <1>1, <1>2, LifeCycleInit, PTL DEF Spec
=============================================================================
