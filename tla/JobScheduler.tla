---------------------------- MODULE JobScheduler ----------------------------
(***************************************************************************)
(* The shared job scheduler of the engine (JobScheduler, concurrency.py):  *)
(* threads call run() with a list of jobs, a dispatcher hands the jobs of  *)
(* all live runs to one thread pool under a pool limit, per-run limits and *)
(* quotas shared between runs, and each calling thread collects its        *)
(* results.  Runs are cancelled through events, by a failing job or        *)
(* callback, by an interrupt, or by close().                               *)
(*                                                                         *)
(* One lock (self._condition) guards the shared state.  A critical section *)
(* is one action, except _dispatch_locked, whose loop iterations are       *)
(* separate steps: `dispatching` is "no" exactly when the lock is free, so *)
(* every action that takes the lock has the guard LockFree, and what needs *)
(* no lock (workers starting and finishing, events being set, completion   *)
(* callbacks) interleaves with the loop.                                   *)
(***************************************************************************)
EXTENDS Integers, FiniteSets, Sequences

CONSTANTS
    Runs,            \* the calls of run(), one _JobRun each
    Events,          \* cancellation events
    External,        \* the events code outside the scheduler can set
    Quotas,          \* the _JobQuota objects
    MaxWorkers,      \* size of the thread pool
    MaxJobs,         \* bound: the longest job list
    Total,           \* [Runs -> 0..MaxJobs]: len(jobs)
    Own,             \* [Runs -> Events]: the event the run sets when cancelled
    Parents,         \* [Runs -> SUBSET Events]: events it also observes
    QuotasOf,        \* [Runs -> SUBSET Quotas]
    QuotaLimit,      \* [Quotas -> positive]
    MaxConcurrency,  \* [Runs -> positive]
    Outer,           \* [Runs -> Runs \cup {NoRun}]: run whose on_complete calls it
    NoRun

Jobs == 1..MaxJobs

(* The events a run reacts to. *)
Scope(r) == {Own[r]} \cup Parents[r]

ASSUME ConstantsTyped ==
    /\ IsFiniteSet(Runs)
    /\ External \subseteq Events
    /\ MaxWorkers \in Nat \ {0}
    /\ MaxJobs \in Nat
    /\ NoRun \notin Runs
    /\ Total \in [Runs -> 0..MaxJobs]
    /\ Own \in [Runs -> Events]
    /\ Parents \in [Runs -> SUBSET Events]
    /\ QuotasOf \in [Runs -> SUBSET Quotas]
    /\ QuotaLimit \in [Quotas -> Nat \ {0}]
    /\ MaxConcurrency \in [Runs -> Nat \ {0}]
    /\ Outer \in [Runs -> Runs \cup {NoRun}]

(* with_cancellation() appends the handle's event to the parents of the    *)
(* derived handle, so whoever observes a run's own event observes all the  *)
(* events the run itself observes.                                         *)
ASSUME ScopesNested ==
    \A r, s \in Runs : Own[r] \in Scope(s) => Scope(r) \subseteq Scope(s)

VARIABLES
    pc,             \* [Runs -> phase of the calling thread inside run()]
    runs,           \* self._runs
    cursor,         \* self._cursor
    closed,         \* self._closed
    closer,         \* where close() is: "open", "joining", "closed"
    dispatching,    \* "no" | "scan" | "pick": the lock and the dispatch loop
    jobs,           \* [Runs -> [Jobs -> job state]]
    outcome,        \* [Runs -> [Jobs -> what the job's future holds]]
    activeWorkers,  \* self._active_workers
    quotaActive,    \* [Quotas -> Int]: quota.active
    completed,      \* [Runs -> Seq(Jobs)]: run.completed
    batch,          \* [Runs -> Seq(Jobs)]: results the collector took
    collecting,     \* [Runs -> BOOLEAN]
    cancelled,      \* [Runs -> BOOLEAN]
    cause,          \* [Runs -> why the call raises, "none" if it does not]
    results,        \* [Runs -> Seq(Jobs)]: jobs whose results were appended
    events,         \* the events that are set
    signalled,      \* history: the events set from outside the scheduler
    waiting         \* callers blocked in an untimed wait on the condition

shared  == <<runs, cursor, closed>>
account == <<jobs, activeWorkers, quotaActive>>
queues  == <<completed, batch, collecting>>
vars == <<pc, shared, closer, dispatching, account, outcome, queues, cancelled,
          cause, results, events, signalled, waiting>>

Phases == {"idle", "checked", "wait", "collect", "callback", "fail",
           "drain", "remove", "done"}
JobStates == {"pending", "queued", "taken", "running", "finished", "done",
              "discarded"}
Outcomes  == {"none", "ok", "error", "cancelled"}
Causes    == {"none", "worker", "callback", "interrupt", "submit",
              "closed", "cancelled"}

(* The run's job list; entries of Jobs beyond it stay "discarded". *)
JobsOf(r) == 1..Total[r]

(* run.active: futures submitted and not yet handed to _complete. *)
IsActive(r, j)   == jobs[r][j] \in {"queued", "taken", "running", "finished"}
Active(r)        == {j \in Jobs : IsActive(r, j)}
ActiveJobs       == {p \in Runs \X Jobs : IsActive(p[1], p[2])}
QuotaJobs(q)     == {p \in ActiveJobs : q \in QuotasOf[p[1]]}
Pending(r)       == {j \in Jobs : jobs[r][j] = "pending"}
Queued(C)        == {p \in C \X Jobs : jobs[p[1]][p[2]] = "queued"}
Registered       == {runs[i] : i \in 1..Len(runs)}

(* _is_cancelled *)
IsCancelled(r) == Scope(r) \cap events # {}
Stopped(r)     == cancelled[r] \/ IsCancelled(r)

LockFree == dispatching = "no"

(* self._condition.notify_all() *)
(* Mutant: the notification is forgotten. *)
NotifyNobody == waiting' = waiting
NotifyAll    == waiting' = {}

Init ==
    /\ pc = [r \in Runs |-> "idle"]
    /\ runs = <<>>
    /\ cursor = 0
    /\ closed = FALSE
    /\ closer = "open"
    /\ dispatching = "no"
    /\ jobs = [r \in Runs |->
                  [j \in Jobs |-> IF j <= Total[r] THEN "pending" ELSE "discarded"]]
    /\ outcome = [r \in Runs |-> [j \in Jobs |-> "none"]]
    /\ activeWorkers = 0
    /\ quotaActive = [q \in Quotas |-> 0]
    /\ completed = [r \in Runs |-> <<>>]
    /\ batch = [r \in Runs |-> <<>>]
    /\ collecting = [r \in Runs |-> FALSE]
    /\ cancelled = [r \in Runs |-> FALSE]
    /\ cause = [r \in Runs |-> "none"]
    /\ results = [r \in Runs |-> <<>>]
    /\ events = {}
    /\ signalled = {}
    /\ waiting = {}

-----------------------------------------------------------------------------
(* Cancelling a run sets its own event, never those of its parents. *)
(* Mutant: the parents' events are set too. *)
SetWholeScope(r) == Scope(r)
EventsSetBy(r)   == {Own[r]}

(* _cancel_locked for each run of C: the run's own event is set, its       *)
(* pending jobs are discarded, and each future still in the executor's     *)
(* queue is cancelled, which runs _complete for it at once.  The pairs     *)
(* _complete appends to run.completed are left out: nothing reads          *)
(* run.completed of a cancelled run.                                       *)
CancelLocked(C) ==
    LET hit == {r \in C : ~cancelled[r]}
    IN  /\ cancelled' = [r \in Runs |-> cancelled[r] \/ r \in hit]
        /\ events' = events \cup UNION {EventsSetBy(r) : r \in hit}
        /\ jobs' = [r \in Runs |-> [j \in Jobs |->
                       CASE r \in hit /\ jobs[r][j] = "pending" -> "discarded"
                         [] r \in hit /\ jobs[r][j] = "queued" -> "done"
                         [] OTHER -> jobs[r][j]]]
        /\ activeWorkers' = activeWorkers - Cardinality(Queued(hit))
        /\ quotaActive' = [q \in Quotas |-> quotaActive[q] -
              Cardinality({p \in Queued(hit) : q \in QuotasOf[p[1]]})]
        /\ IF hit = {} THEN UNCHANGED waiting ELSE NotifyAll

(* A future cancelled outside the dispatch loop re-enters the dispatcher.  *)
(* The code enters it at the first such future, the model after the last:  *)
(* the lock is held throughout, and the loop hands out the same slots.     *)
CancelAndDispatch(C) ==
    /\ CancelLocked(C)
    /\ dispatching' = IF Queued({r \in C : ~cancelled[r]}) = {} THEN "no" ELSE "scan"

-----------------------------------------------------------------------------
(* The calling thread of run r. *)

(* The checks before a run is built: a closed scheduler or a set event     *)
(* raises, an empty job list returns.                                      *)
Enter(r) ==
    /\ pc[r] = "idle"
    /\ Outer[r] # NoRun => pc[Outer[r]] = "callback"
    /\ LockFree
    /\ LET refused == IF closed THEN "closed"
                      ELSE IF IsCancelled(r) THEN "cancelled" ELSE "none"
       IN  /\ cause' = [cause EXCEPT ![r] = refused]
           /\ pc' = [pc EXCEPT ![r] = IF refused # "none" \/ Total[r] = 0
                                      THEN "done" ELSE "checked"]
    /\ UNCHANGED <<shared, closer, dispatching, account, outcome, queues,
                   cancelled, results, events, signalled, waiting>>

(* _register: the checks again, under the lock, then the run joins the     *)
(* list and the cursor points at it.                                       *)
Register(r) ==
    /\ pc[r] = "checked"
    /\ LockFree
    /\ \/ /\ closed \/ IsCancelled(r)
          /\ pc' = [pc EXCEPT ![r] = "fail"]
          /\ cause' = [cause EXCEPT ![r] = IF closed THEN "closed" ELSE "cancelled"]
          /\ UNCHANGED <<runs, cursor, dispatching>>
       \/ /\ ~closed
          /\ ~IsCancelled(r)
          /\ pc' = [pc EXCEPT ![r] = "wait"]
          /\ runs' = Append(runs, r)
          /\ cursor' = Len(runs)
          /\ dispatching' = "scan"
          /\ UNCHANGED cause
    /\ UNCHANGED <<closed, closer, account, outcome, queues, cancelled, results,
                   events, signalled, waiting>>

(* The collector wakes (a notification or the 0.1 s timeout) and takes     *)
(* what has completed, possibly nothing.                                   *)
WakeCollect(r) ==
    /\ pc[r] = "wait"
    /\ LockFree
    /\ ~Stopped(r)
    /\ batch' = [batch EXCEPT ![r] = completed[r]]
    /\ completed' = [completed EXCEPT ![r] = <<>>]
    /\ collecting' = [collecting EXCEPT ![r] = completed[r] # <<>>]
    /\ pc' = [pc EXCEPT ![r] = "collect"]
    /\ UNCHANGED <<shared, closer, dispatching, account, outcome, cancelled,
                   cause, results, events, signalled, waiting>>

(* It wakes and finds the run cancelled. *)
WakeCancelled(r) ==
    /\ pc[r] = "wait"
    /\ LockFree
    /\ Stopped(r)
    /\ CancelAndDispatch({r})
    /\ completed' = [completed EXCEPT ![r] = <<>>]
    /\ collecting' = [collecting EXCEPT ![r] = FALSE]
    /\ cause' = [cause EXCEPT ![r] = IF cause[r] = "submit" THEN @ ELSE "cancelled"]
    /\ pc' = [pc EXCEPT ![r] = "drain"]
    /\ UNCHANGED <<shared, closer, outcome, batch, results, signalled>>

(* future.result() of the next completed job: a value or its exception. *)
CollectOne(r) ==
    /\ pc[r] = "collect"
    /\ batch[r] # <<>>
    /\ LET j == Head(batch[r])
       IN  \/ /\ outcome[r][j] = "ok"
              /\ results' = [results EXCEPT ![r] = Append(@, j)]
              /\ pc' = [pc EXCEPT ![r] = "callback"]
              /\ UNCHANGED cause
           \/ /\ outcome[r][j] # "ok"
              /\ pc' = [pc EXCEPT ![r] = "fail"]
              /\ cause' = [cause EXCEPT ![r] = IF outcome[r][j] = "error"
                                              THEN "worker" ELSE "cancelled"]
              /\ UNCHANGED results
    /\ batch' = [batch EXCEPT ![r] = Tail(@)]
    /\ UNCHANGED <<shared, closer, dispatching, account, outcome, completed,
                   collecting, cancelled, events, signalled, waiting>>

(* on_complete returns or raises once the runs it called have ended; a     *)
(* cancelled run stops here.                                               *)
Callback(r) ==
    /\ pc[r] = "callback"
    /\ \A s \in Runs : Outer[s] = r => pc[s] \in {"idle", "done"}
    /\ \E raised \in BOOLEAN :
          LET why == IF raised THEN "callback"
                     ELSE IF Stopped(r) THEN "cancelled" ELSE "none"
          IN  /\ cause' = [cause EXCEPT ![r] = IF why = "none" THEN @ ELSE why]
              /\ pc' = [pc EXCEPT ![r] = IF why = "none" THEN "collect" ELSE "fail"]
    /\ UNCHANGED <<shared, closer, dispatching, account, outcome, queues,
                   cancelled, results, events, signalled, waiting>>

(* completed_count has reached run.total. *)
(* Mutant: done as soon as everything has been dispatched. *)
NothingPending(r) == Pending(r) = {}
AllCollected(r)   == Len(results[r]) >= Total[r]

(* Mutant: no dispatch after the batch. *)
CollectEndWithoutDispatch(r) ==
    /\ pc[r] = "collect"
    /\ batch[r] = <<>>
    /\ LockFree
    /\ collecting' = [collecting EXCEPT ![r] = FALSE]
    /\ pc' = [pc EXCEPT ![r] = IF AllCollected(r) THEN "remove" ELSE "wait"]
    /\ UNCHANGED <<shared, closer, dispatching, account, outcome, completed, batch,
                   cancelled, cause, results, events, signalled, waiting>>

(* The batch is consumed: backpressure ends and the dispatcher runs. *)
CollectEnd(r) ==
    /\ pc[r] = "collect"
    /\ batch[r] = <<>>
    /\ LockFree
    /\ collecting' = [collecting EXCEPT ![r] = FALSE]
    /\ dispatching' = "scan"
    /\ pc' = [pc EXCEPT ![r] = IF AllCollected(r) THEN "remove" ELSE "wait"]
    /\ UNCHANGED <<shared, closer, account, outcome, completed, batch, cancelled,
                   cause, results, events, signalled, waiting>>

(* A KeyboardInterrupt delivered while the caller waits for results. *)
Interrupt(r) ==
    /\ pc[r] = "wait"
    /\ pc' = [pc EXCEPT ![r] = "fail"]
    /\ cause' = [cause EXCEPT ![r] = "interrupt"]
    /\ UNCHANGED <<shared, closer, dispatching, account, outcome, queues,
                   cancelled, results, events, signalled, waiting>>

(* except BaseException: cancel the run, then wait for its active jobs. *)
FailCancel(r) ==
    /\ pc[r] = "fail"
    /\ LockFree
    /\ CancelAndDispatch({r})
    /\ pc' = [pc EXCEPT ![r] = "drain"]
    /\ UNCHANGED <<shared, closer, outcome, queues, cause, results, signalled>>

(* wait_for(lambda: not run.active), without a timeout. *)
(* Mutant: running jobs are not waited for. *)
NothingQueued(r) == Queued({r}) = {}
Drained(r)       == Active(r) = {}

Drain(r) ==
    /\ pc[r] = "drain"
    /\ r \notin waiting
    /\ LockFree
    /\ \/ /\ Drained(r)
          /\ pc' = [pc EXCEPT ![r] = "remove"]
          /\ UNCHANGED waiting
       \/ /\ ~Drained(r)
          /\ waiting' = waiting \cup {r}
          /\ UNCHANGED pc
    /\ UNCHANGED <<shared, closer, dispatching, account, outcome, queues,
                   cancelled, cause, results, events, signalled>>

(* The cursor keeps pointing at the same run when the run at position i    *)
(* goes.                                                                   *)
CursorWithout(i) ==
    IF Len(runs) = 1 THEN 0
    ELSE (IF i - 1 < cursor THEN cursor - 1 ELSE cursor) % (Len(runs) - 1)

(* _remove *)
Remove(r) ==
    /\ pc[r] = "remove"
    /\ LockFree
    /\ pc' = [pc EXCEPT ![r] = "done"]
    /\ \/ /\ r \notin Registered
          /\ UNCHANGED <<runs, cursor, dispatching>>
       \/ \E i \in 1..Len(runs) :
             /\ runs[i] = r
             /\ runs' = SubSeq(runs, 1, i - 1) \o SubSeq(runs, i + 1, Len(runs))
             /\ cursor' = CursorWithout(i)
             /\ dispatching' = "scan"
    /\ UNCHANGED <<closed, closer, account, outcome, queues, cancelled, cause,
                   results, events, signalled, waiting>>

-----------------------------------------------------------------------------
(* The dispatch loop, run by whichever thread holds the lock. *)

PoolHasRoom == activeWorkers < MaxWorkers

(* The loop condition, and the cancellation scan of _next_run_locked.      *)
(* Cancelling a run sets only its own event, and by ScopesNested whoever   *)
(* observes that event is itself in the scan, so the order is immaterial.  *)
DispatchScan ==
    /\ dispatching = "scan"
    /\ \/ /\ closed \/ ~PoolHasRoom
          /\ dispatching' = "no"
          /\ UNCHANGED <<account, cancelled, events, waiting>>
       \/ /\ ~closed
          /\ PoolHasRoom
          /\ CancelLocked({r \in Registered : IsCancelled(r)})
          /\ dispatching' = "pick"
    /\ UNCHANGED <<pc, shared, closer, outcome, queues, cause, results, signalled>>

(* Mutant: the quotas are not consulted. *)
EligibleWithoutQuotas(r) ==
    /\ ~cancelled[r] /\ Pending(r) # {} /\ completed[r] = <<>> /\ ~collecting[r]
    /\ Cardinality(Active(r)) < MaxConcurrency[r]

Eligible(r) ==
    /\ ~cancelled[r]
    /\ Pending(r) # {}
    /\ completed[r] = <<>>
    /\ ~collecting[r]
    /\ Cardinality(Active(r)) < MaxConcurrency[r]
    /\ \A q \in QuotasOf[r] : quotaActive[q] < QuotaLimit[q]

EligibleIndex == {i \in 1..Len(runs) : Eligible(runs[i])}

(* Fewer active jobs first, then the distance from the rotating cursor. *)
Before(i, k) ==
    LET load(n) == Cardinality(Active(runs[n]))
        turn(n) == (n - 1 - cursor) % Len(runs)
    IN  load(i) < load(k) \/ (load(i) = load(k) /\ turn(i) <= turn(k))

(* The run _next_run_locked returns stands at position i. *)
NextRun(i) == \A k \in EligibleIndex : Before(i, k)

(* run.pending.popleft(): jobs leave the list in order. *)
NextJob(r, j) == j \in Pending(r) /\ \A k \in Pending(r) : j <= k

(* A job returns or raises; one that observes cancellation may raise it. *)
PossibleOutcomes(r) ==
    {"ok", "error"} \cup (IF Stopped(r) THEN {"cancelled"} ELSE {})

(* Mutant: quota.active is not incremented. *)
SubmitUncounted(r, j) ==
    /\ jobs' = [jobs EXCEPT ![r][j] = "queued"]
    /\ activeWorkers' = activeWorkers + 1
    /\ UNCHANGED <<quotaActive, outcome, completed, cancelled, cause, events, waiting>>

(* submit() and the bookkeeping of one dispatched job. *)
Submit(r, j) ==
    /\ jobs' = [jobs EXCEPT ![r][j] = "queued"]
    /\ activeWorkers' = activeWorkers + 1
    /\ quotaActive' = [q \in Quotas |->
          quotaActive[q] + (IF q \in QuotasOf[r] THEN 1 ELSE 0)]
    /\ UNCHANGED <<outcome, completed, cancelled, cause, events, waiting>>

(* The job ended before add_done_callback, which then runs _complete       *)
(* inside the loop: the counters go up and down again.                     *)
SubmitFinished(r, j) ==
    /\ \E o \in PossibleOutcomes(r) : outcome' = [outcome EXCEPT ![r][j] = o]
    /\ jobs' = [jobs EXCEPT ![r][j] = "done"]
    /\ completed' = [completed EXCEPT ![r] = Append(@, j)]
    /\ NotifyAll
    /\ UNCHANGED <<activeWorkers, quotaActive, cancelled, cause, events>>

(* submit() raises: the run keeps the error and is cancelled. *)
SubmitFails(r) ==
    /\ cause' = [cause EXCEPT ![r] = IF @ = "none" THEN "submit" ELSE @]
    /\ CancelLocked({r})
    /\ UNCHANGED <<outcome, completed>>

DispatchPick ==
    /\ dispatching = "pick"
    /\ \/ /\ EligibleIndex = {}
          /\ dispatching' = "no"
          /\ UNCHANGED <<cursor, account, outcome, completed, cancelled, cause,
                         events, waiting>>
       \/ /\ dispatching' = "scan"
          /\ \E i \in EligibleIndex :
                /\ NextRun(i)
                /\ cursor' = i % Len(runs)
                /\ \/ \E j \in Jobs : NextJob(runs[i], j) /\ Submit(runs[i], j)
                   \/ \E j \in Jobs : NextJob(runs[i], j) /\ SubmitFinished(runs[i], j)
                   \/ SubmitFails(runs[i])
    /\ UNCHANGED <<pc, runs, closed, closer, batch, collecting, results, signalled>>

-----------------------------------------------------------------------------
(* Pool threads. *)

(* A pool thread takes the future off the executor's queue: from here on   *)
(* future.cancel() has no effect on it.                                    *)
TakeJob(r, j) ==
    /\ jobs[r][j] = "queued"
    /\ jobs' = [jobs EXCEPT ![r][j] = "taken"]
    /\ UNCHANGED <<pc, shared, closer, dispatching, activeWorkers, quotaActive,
                   outcome, queues, cancelled, cause, results, events, signalled,
                   waiting>>

(* invoke_worker: the checkpoint before the job's own code. *)
StartJob(r, j) ==
    /\ jobs[r][j] = "taken"
    /\ jobs' = [jobs EXCEPT ![r][j] = IF Stopped(r) THEN "finished" ELSE "running"]
    /\ outcome' = [outcome EXCEPT ![r][j] = IF Stopped(r) THEN "cancelled" ELSE @]
    /\ UNCHANGED <<pc, shared, closer, dispatching, activeWorkers, quotaActive,
                   queues, cancelled, cause, results, events, signalled, waiting>>

(* The job's own code ends. *)
FinishJob(r, j) ==
    /\ jobs[r][j] = "running"
    /\ jobs' = [jobs EXCEPT ![r][j] = "finished"]
    /\ \E o \in PossibleOutcomes(r) : outcome' = [outcome EXCEPT ![r][j] = o]
    /\ UNCHANGED <<pc, shared, closer, dispatching, activeWorkers, quotaActive,
                   queues, cancelled, cause, results, events, signalled, waiting>>

(* _complete, the future's done callback. *)
Complete(r, j) ==
    /\ jobs[r][j] = "finished"
    /\ LockFree
    /\ jobs' = [jobs EXCEPT ![r][j] = "done"]
    /\ activeWorkers' = activeWorkers - 1
    /\ quotaActive' = [q \in Quotas |->
          quotaActive[q] - (IF q \in QuotasOf[r] THEN 1 ELSE 0)]
    /\ completed' = IF cancelled[r] THEN completed
                    ELSE [completed EXCEPT ![r] = Append(@, j)]
    /\ dispatching' = "scan"
    /\ NotifyAll
    /\ UNCHANGED <<pc, shared, closer, outcome, batch, collecting, cancelled,
                   cause, results, events, signalled>>

-----------------------------------------------------------------------------
(* Cancellation from outside and shutdown. *)

(* Event.set(), by _NodeJobs.cancel() or by whoever owns the event. *)
SetEvent(e) ==
    /\ e \notin events
    /\ events' = events \cup {e}
    /\ signalled' = signalled \cup {e}
    /\ UNCHANGED <<pc, shared, closer, dispatching, account, outcome, queues,
                   cancelled, cause, results, waiting>>

(* JobScheduler.cancel after its event is set. *)
CancelScope(e) ==
    /\ e \in events
    /\ LockFree
    /\ \E r \in Registered : e \in Scope(r) /\ ~cancelled[r]
    /\ CancelAndDispatch({r \in Registered : e \in Scope(r)})
    /\ UNCHANGED <<pc, shared, closer, outcome, queues, cause, results, signalled>>

(* close(): no new work, every run cancelled, then the executor's shutdown *)
(* joins the pool threads.                                                 *)
CloseBegin ==
    /\ closer = "open"
    /\ LockFree
    /\ closed' = TRUE
    /\ closer' = "joining"
    /\ CancelAndDispatch(Registered)
    /\ UNCHANGED <<pc, runs, cursor, outcome, queues, cause, results, signalled>>

CloseEnd ==
    /\ closer = "joining"
    /\ ActiveJobs = {}
    /\ closer' = "closed"
    /\ UNCHANGED <<pc, shared, dispatching, account, outcome, queues, cancelled,
                   cause, results, events, signalled, waiting>>

-----------------------------------------------------------------------------
(* All calls have ended and close(), if called, has returned. *)
Terminated ==
    /\ \A r \in Runs : pc[r] = "done" \/ (pc[r] = "idle" /\ Outer[r] # NoRun)
    /\ LockFree
    /\ closer # "joining"
    /\ UNCHANGED vars

Caller(r) ==
    \/ Enter(r) \/ Register(r) \/ WakeCollect(r) \/ WakeCancelled(r)
    \/ CollectOne(r) \/ Callback(r) \/ CollectEnd(r) \/ FailCancel(r)
    \/ Drain(r) \/ Remove(r)

Worker(r, j) == TakeJob(r, j) \/ StartJob(r, j) \/ FinishJob(r, j) \/ Complete(r, j)

Next ==
    \/ \E r \in Runs : Caller(r) \/ Interrupt(r)
    \/ \E r \in Runs, j \in Jobs : Worker(r, j)
    \/ DispatchScan
    \/ DispatchPick
    \/ \E e \in External : SetEvent(e) \/ CancelScope(e)
    \/ CloseBegin
    \/ CloseEnd
    \/ Terminated

Spec == Init /\ [][Next]_vars

(* Jobs and callbacks end, threads run, and the scheduler's lock is handed *)
(* to every thread that keeps asking for it: the timed waits of idle       *)
(* callers take and release it for ever, so weak fairness is not enough.   *)
(* Nobody has to set an event, interrupt a caller or call close().         *)
Fairness ==
    /\ \A r \in Runs : SF_vars(Caller(r))
    /\ \A r \in Runs, j \in Jobs : SF_vars(Worker(r, j))
    /\ WF_vars(DispatchScan)
    /\ WF_vars(DispatchPick)
    /\ WF_vars(CloseEnd)

FairSpec == Spec /\ Fairness

-----------------------------------------------------------------------------
(* The state keeps its shape; self._cursor always names a registered run   *)
(* when there is one, also after a run before or at it is removed.         *)
TypeOK ==
    /\ pc \in [Runs -> Phases]
    /\ runs \in Seq(Runs)
    /\ cursor \in Nat /\ cursor <= Len(runs) /\ (runs # <<>> => cursor < Len(runs))
    /\ closed \in BOOLEAN
    /\ closer \in {"open", "joining", "closed"}
    /\ dispatching \in {"no", "scan", "pick"}
    /\ jobs \in [Runs -> [Jobs -> JobStates]]
    /\ outcome \in [Runs -> [Jobs -> Outcomes]]
    /\ activeWorkers \in Int
    /\ quotaActive \in [Quotas -> Int]
    /\ completed \in [Runs -> Seq(Jobs)]
    /\ batch \in [Runs -> Seq(Jobs)]
    /\ collecting \in [Runs -> BOOLEAN]
    /\ cancelled \in [Runs -> BOOLEAN]
    /\ cause \in [Runs -> Causes]
    /\ results \in [Runs -> Seq(Jobs)]
    /\ events \subseteq Events
    /\ signalled \subseteq Events
    /\ waiting \subseteq Runs

(* The counters the dispatcher trusts are exact whatever the order of      *)
(* completions, cancellations of queued futures and failed submissions:    *)
(* _active_workers counts the futures in run.active of all runs, each      *)
(* quota.active those of the runs that hold the quota.                     *)
Accounting ==
    /\ activeWorkers = Cardinality(ActiveJobs)
    /\ \A q \in Quotas : quotaActive[q] = Cardinality(QuotaJobs(q))

(* No more than max_workers jobs are in the pool, no more than the limit   *)
(* of a quota hold it, however many runs share it, and no run exceeds its  *)
(* own max_concurrency.                                                    *)
WithinLimits ==
    /\ Cardinality(ActiveJobs) <= MaxWorkers
    /\ \A q \in Quotas : Cardinality(QuotaJobs(q)) <= QuotaLimit[q]
    /\ \A r \in Runs : Cardinality(Active(r)) <= MaxConcurrency[r]

(* run() returns or raises only when none of its jobs is in the pool and   *)
(* the dispatcher no longer knows the run, also when its job, callback or  *)
(* wait was interrupted (_NodeJobs.run: "drains active work before         *)
(* returning or raising").                                                 *)
DrainedOnExit ==
    \A r \in Runs : pc[r] = "done" => Active(r) = {} /\ r \notin Registered

(* A call that returns normally hands back the result of each of its jobs  *)
(* exactly once, and all of them succeeded.                                *)
ReturnedComplete ==
    \A r \in Runs :
        pc[r] = "done" /\ cause[r] = "none" =>
            /\ Len(results[r]) = Total[r]
            /\ \A j \in JobsOf(r) :
                  outcome[r][j] = "ok" /\ \E i \in 1..Total[r] : results[r][i] = j

(* A run fails for its own reasons: an exception of a job or of the        *)
(* callback, an interrupt, a failed submission, or a closed scheduler.     *)
OwnFailure(r) ==
    cause[r] \in {"worker", "callback", "interrupt", "submit", "closed"}

(* A run is cancelled only on request: close(), an event of its scope set  *)
(* from outside, or the failure of a run whose event is in its scope.  The *)
(* failure of any other run of the scheduler leaves it alone.              *)
CancelledForAReason ==
    \A r \in Runs : cancelled[r] =>
        \/ closed
        \/ Scope(r) \cap signalled # {}
        \/ \E s \in Runs : Own[s] \in Scope(r) /\ OwnFailure(s)

(* A call ends as it must: drained; with all its results, or for a reason. *)
OutcomeFaithful == DrainedOnExit /\ ReturnedComplete /\ CancelledForAReason

(* Nobody is idle or asleep with something to do.  Whenever the lock is    *)
(* free, the pool is full or no job could be dispatched (every change that *)
(* makes a job eligible is followed by a dispatch in the same critical     *)
(* section), and no drain sleeps in its untimed wait once the jobs it      *)
(* waits for are gone (a notification missed there is never repeated).     *)
WorkConserving ==
    LockFree =>
        /\ ~closed /\ PoolHasRoom => EligibleIndex = {}
        /\ \A r \in waiting : Active(r) # {}

(* Every call of run() that passed its first checks ends, and close()      *)
(* returns with every call it found in progress ended.                     *)
CallsEnd ==
    /\ \A r \in Runs : pc[r] = "checked" ~> pc[r] = "done"
    /\ closed ~> closer = "closed" /\ \A r \in Runs : pc[r] \in {"idle", "done"}
=============================================================================
