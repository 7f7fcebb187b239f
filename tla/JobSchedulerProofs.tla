------------------------- MODULE JobSchedulerProofs -------------------------
(***************************************************************************)
(* Proofs about JobScheduler, for every number of runs, jobs, workers and  *)
(* quotas and every nesting of scopes that the handles can produce.        *)
(***************************************************************************)
EXTENDS JobScheduler, FiniteSetTheorems, SequenceTheorems, TLAPS

-----------------------------------------------------------------------------
(* Facts about the operators. *)

(* _remove shortens the list of runs by one. *)
LEMMA RemoveAt ==
    ASSUME NEW S, NEW s \in Seq(S), NEW i \in 1..Len(s)
    PROVE  /\ SubSeq(s, 1, i - 1) \o SubSeq(s, i + 1, Len(s)) \in Seq(S)
           /\ Len(SubSeq(s, 1, i - 1) \o SubSeq(s, i + 1, Len(s))) = Len(s) - 1
<1> DEFINE before == SubSeq(s, 1, i - 1)
          after  == SubSeq(s, i + 1, Len(s))
<1>1. before \in Seq(S) /\ Len(before) = i - 1
    OBVIOUS
<1>2. after \in Seq(S) /\ Len(after) = Len(s) - i
    OBVIOUS
<1>3. before \o after \in Seq(S) /\ Len(before \o after) = Len(s) - 1
  <2>1. i \in Int /\ Len(s) \in Int
    OBVIOUS
  <2> HIDE DEF before, after
  <2>2. before \o after \in Seq(S) /\ Len(before \o after) = Len(before) + Len(after)
    BY <1>1, <1>2
  <2>3. QED
    BY <1>1, <1>2, <2>1, <2>2
<1>4. QED
    BY <1>3, Zenon

(* Every member of a sequence of runs is a run. *)
LEMMA RegisteredAreRuns ==
    ASSUME runs \in Seq(Runs)
    PROVE  Registered \in SUBSET Runs /\ \A i \in 1..Len(runs) : runs[i] \in Runs
<1>1. \A i \in 1..Len(runs) : runs[i] \in Runs
    OBVIOUS
<1>2. QED
    BY <1>1 DEF Registered

(* The remainder is a position of a list of n elements. *)
LEMMA Remainder ==
    ASSUME NEW i \in Nat, NEW n \in Nat \ {0}
    PROVE  i % n \in Nat /\ i % n < n
OBVIOUS

(* There are finitely many jobs. *)
LEMMA FiniteJobs ==
    /\ IsFiniteSet(Runs \X Jobs)
    /\ \A P \in SUBSET (Runs \X Jobs) : IsFiniteSet(P) /\ Cardinality(P) \in Nat
<1>1. IsFiniteSet(Jobs)
    BY FS_Interval, ConstantsTyped DEF Jobs
<1>2. IsFiniteSet(Runs \X Jobs)
    BY <1>1, FS_Product, ConstantsTyped
<1>3. QED
    BY <1>2, FS_Subset, FS_CardinalityType

(* What _cancel_locked leaves behind is well typed. *)
LEMMA CancelLockedType ==
    ASSUME TypeOK, NEW C \in SUBSET Runs, CancelLocked(C)
    PROVE  /\ cancelled' \in [Runs -> BOOLEAN]
           /\ events' \subseteq Events
           /\ jobs' \in [Runs -> [Jobs -> JobStates]]
           /\ activeWorkers' \in Int
           /\ quotaActive' \in [Quotas -> Int]
           /\ waiting' \subseteq Runs
<1> DEFINE hit == {r \in C : ~cancelled[r]}
<1>1. Queued(hit) \in SUBSET (Runs \X Jobs)
    BY DEF Queued
<1>2. \A P \in SUBSET Queued(hit) : Cardinality(P) \in Nat
    BY <1>1, FiniteJobs
<1>3. cancelled' \in [Runs -> BOOLEAN] /\ waiting' \subseteq Runs
    BY DEF CancelLocked, TypeOK, NotifyAll
<1>4. events' \subseteq Events
    BY ConstantsTyped DEF CancelLocked, EventsSetBy, TypeOK
<1>5. jobs' \in [Runs -> [Jobs -> JobStates]]
    BY DEF CancelLocked, TypeOK, JobStates
<1>6. activeWorkers' \in Int
  <2>1. activeWorkers' = activeWorkers - Cardinality(Queued(hit))
    BY DEF CancelLocked
  <2>2. Cardinality(Queued(hit)) \in Nat
    BY <1>2
  <2>3. activeWorkers \in Int
    BY DEF TypeOK
  <2>4. QED
    BY <2>1, <2>2, <2>3
<1>7. quotaActive' \in [Quotas -> Int]
  <2> DEFINE held(q) == {p \in Queued(hit) : q \in QuotasOf[p[1]]}
  <2>1. \A q \in Quotas : Cardinality(held(q)) \in Nat
    <3>1. \A q \in Quotas : held(q) \in SUBSET Queued(hit)
      OBVIOUS
    <3>2. QED
      BY <1>2, <3>1
  <2>2. quotaActive' = [q \in Quotas |-> quotaActive[q] - Cardinality(held(q))]
    BY DEF CancelLocked
  <2>3. quotaActive \in [Quotas -> Int]
    BY DEF TypeOK
  <2> HIDE DEF held
  <2>4. QED
    BY <2>1, <2>2, <2>3
<1>8. QED
    BY <1>3, <1>4, <1>5, <1>6, <1>7

-----------------------------------------------------------------------------
(* Every step keeps the type invariant; the cursor stays inside the list   *)
(* of registered runs.                                                     *)
LEMMA TypeStep == TypeOK /\ [Next]_vars => TypeOK'
<1> SUFFICES ASSUME TypeOK, [Next]_vars PROVE TypeOK'
    OBVIOUS
<1> USE ConstantsTyped DEF Phases, Outcomes, Causes, Jobs, JobStates
<1>1. ASSUME NEW r \in Runs, Enter(r) PROVE TypeOK'
    BY <1>1 DEF TypeOK, Enter, shared, account, queues
<1>2. ASSUME NEW r \in Runs, Register(r) PROVE TypeOK'
  <2>1. CASE UNCHANGED <<runs, cursor, dispatching>>
    BY <1>2, <2>1 DEF TypeOK, Register, account, queues
  <2>2. CASE runs' = Append(runs, r) /\ cursor' = Len(runs) /\ dispatching' = "scan" /\ UNCHANGED cause
    <3>1. runs' \in Seq(Runs)
      BY <2>2 DEF TypeOK
    <3>2. cursor' \in Nat /\ cursor' <= Len(runs') /\ (runs' # <<>> => cursor' < Len(runs'))
      <4>1. Len(runs) \in Nat /\ Len(runs') = Len(runs) + 1
        BY <2>2 DEF TypeOK
      <4>2. QED
        BY <2>2, <4>1
    <3>3. QED
      BY <1>2, <2>2, <3>1, <3>2 DEF TypeOK, Register, account, queues
  <2>3. QED
    BY <1>2, <2>1, <2>2 DEF Register
<1>3. ASSUME NEW r \in Runs, WakeCollect(r) PROVE TypeOK'
    BY <1>3 DEF TypeOK, WakeCollect, shared, account, queues
<1>4. ASSUME NEW r \in Runs, WakeCancelled(r) PROVE TypeOK'
  <2>1. CancelLocked({r})
    BY <1>4 DEF WakeCancelled, CancelAndDispatch
  <2>2. QED
    BY <1>4, <2>1, CancelLockedType
       DEF TypeOK, WakeCancelled, CancelAndDispatch, shared, account, queues
<1>5. ASSUME NEW r \in Runs, CollectOne(r) PROVE TypeOK'
  <2> DEFINE j == Head(batch[r])
  <2>1. batch[r] \in Seq(Jobs) /\ batch[r] # <<>> /\ results[r] \in Seq(Jobs)
    BY <1>5 DEF TypeOK, CollectOne
  <2>2. j \in Jobs /\ Tail(batch[r]) \in Seq(Jobs) /\ Append(results[r], j) \in Seq(Jobs)
    <3> HIDE DEF Jobs
    <3>1. j \in Jobs /\ Tail(batch[r]) \in Seq(Jobs)
      BY <2>1
    <3> HIDE DEF j
    <3>2. QED
      BY <2>1, <3>1
  <2>3. batch' \in [Runs -> Seq(Jobs)]
    BY <1>5, <2>2 DEF TypeOK, CollectOne
  <2>4. results' \in [Runs -> Seq(Jobs)]
    <3>1. results' = [results EXCEPT ![r] = Append(@, j)] \/ results' = results
      BY <1>5 DEF CollectOne
    <3> HIDE DEF j, Jobs
    <3>2. QED
      BY <2>2, <3>1 DEF TypeOK
  <2>5. pc' \in [Runs -> Phases] /\ cause' \in [Runs -> Causes]
    BY <1>5 DEF TypeOK, CollectOne
  <2>6. QED
    BY <1>5, <2>3, <2>4, <2>5 DEF TypeOK, CollectOne, shared, account
<1>6. ASSUME NEW r \in Runs, Callback(r) PROVE TypeOK'
    BY <1>6 DEF TypeOK, Callback, shared, account, queues
<1>7. ASSUME NEW r \in Runs, CollectEnd(r) PROVE TypeOK'
    BY <1>7 DEF TypeOK, CollectEnd, shared, account, queues
<1>8. ASSUME NEW r \in Runs, Interrupt(r) PROVE TypeOK'
    BY <1>8 DEF TypeOK, Interrupt, shared, account, queues
<1>9. ASSUME NEW r \in Runs, FailCancel(r) PROVE TypeOK'
  <2>1. CancelLocked({r})
    BY <1>9 DEF FailCancel, CancelAndDispatch
  <2>2. QED
    BY <1>9, <2>1, CancelLockedType
       DEF TypeOK, FailCancel, CancelAndDispatch, shared, account, queues
<1>10. ASSUME NEW r \in Runs, Drain(r) PROVE TypeOK'
    BY <1>10 DEF TypeOK, Drain, shared, account, queues
<1>11. ASSUME NEW r \in Runs, Remove(r) PROVE TypeOK'
  <2>1. CASE UNCHANGED <<runs, cursor, dispatching>>
    BY <1>11, <2>1 DEF TypeOK, Remove, account, queues
  <2>2. ASSUME NEW i \in 1..Len(runs),
               runs' = SubSeq(runs, 1, i - 1) \o SubSeq(runs, i + 1, Len(runs)),
               cursor' = CursorWithout(i),
               dispatching' = "scan"
        PROVE  TypeOK'
    <3>1. runs \in Seq(Runs) /\ Len(runs) \in Nat /\ cursor \in Nat /\ cursor < Len(runs)
      BY DEF TypeOK
    <3>2. runs' \in Seq(Runs) /\ Len(runs') = Len(runs) - 1
      BY <2>2, <3>1, RemoveAt
    <3> DEFINE c == IF i - 1 < cursor THEN cursor - 1 ELSE cursor
    <3>3. c \in Nat
      BY <3>1
    <3>4. CASE Len(runs) = 1
      <4>1. cursor' = 0 /\ Len(runs') = 0 /\ runs' = <<>>
        BY <2>2, <3>1, <3>2, <3>4 DEF CursorWithout
      <4>2. cursor' \in Nat /\ cursor' <= Len(runs') /\ (runs' # <<>> => cursor' < Len(runs'))
        BY <4>1
      <4>3. QED
        BY <1>11, <2>2, <3>2, <4>2 DEF TypeOK, Remove, account, queues
    <3>5. CASE Len(runs) # 1
      <4>1. Len(runs) - 1 \in Nat \ {0} /\ cursor' = c % (Len(runs) - 1)
        BY <2>2, <3>1, <3>5 DEF CursorWithout
      <4> HIDE DEF c
      <4>2. cursor' \in Nat /\ cursor' < Len(runs')
        BY <3>2, <3>3, <4>1, Remainder
      <4>3. cursor' <= Len(runs')
        BY <3>2, <4>1, <4>2
      <4>4. QED
        BY <1>11, <2>2, <3>2, <4>2, <4>3 DEF TypeOK, Remove, account, queues
    <3>6. QED
      BY <3>4, <3>5
  <2>3. QED
    BY <1>11, <2>1, <2>2 DEF Remove
<1>12. ASSUME NEW r \in Runs, NEW j \in Jobs, Worker(r, j) PROVE TypeOK'
  <2>1. CASE TakeJob(r, j)
    BY <2>1 DEF TypeOK, TakeJob, shared, queues
  <2>2. CASE StartJob(r, j)
    BY <2>2 DEF TypeOK, StartJob, shared, queues
  <2>3. CASE FinishJob(r, j)
    <3>1. outcome' \in [Runs -> [Jobs -> Outcomes]]
      BY <2>3 DEF TypeOK, FinishJob, PossibleOutcomes
    <3>2. QED
      BY <2>3, <3>1 DEF TypeOK, FinishJob, shared, queues
  <2>4. CASE Complete(r, j)
    <3>1. completed' \in [Runs -> Seq(Jobs)]
      BY <2>4 DEF TypeOK, Complete
    <3>2. activeWorkers' \in Int /\ quotaActive' \in [Quotas -> Int]
      BY <2>4 DEF TypeOK, Complete
    <3>3. QED
      BY <2>4, <3>1, <3>2 DEF TypeOK, Complete, NotifyAll, shared
  <2>5. QED
    BY <1>12, <2>1, <2>2, <2>3, <2>4 DEF Worker
<1>13. CASE DispatchScan
  <2>1. CASE UNCHANGED <<account, cancelled, events, waiting>>
    BY <1>13, <2>1 DEF TypeOK, DispatchScan, shared, account, queues
  <2>2. CASE CancelLocked({r \in Registered : IsCancelled(r)})
    <3>1. {r \in Registered : IsCancelled(r)} \in SUBSET Runs
      BY RegisteredAreRuns DEF TypeOK
    <3>2. QED
      BY <1>13, <2>2, <3>1, CancelLockedType DEF TypeOK, DispatchScan, shared, account, queues
  <2>3. QED
    BY <1>13, <2>1, <2>2 DEF DispatchScan
<1>14. CASE DispatchPick
  <2>1. CASE UNCHANGED <<cursor, account, outcome, completed, cancelled, cause, events, waiting>>
    BY <1>14, <2>1 DEF TypeOK, DispatchPick, account
  <2>2. ASSUME NEW i \in EligibleIndex,
               cursor' = i % Len(runs),
               dispatching' = "scan",
               \/ \E j \in Jobs : Submit(runs[i], j)
               \/ \E j \in Jobs : SubmitFinished(runs[i], j)
               \/ SubmitFails(runs[i])
        PROVE  TypeOK'
    <3>1. i \in 1..Len(runs) /\ Len(runs) \in Nat \ {0}
      BY DEF EligibleIndex, TypeOK
    <3>2. runs[i] \in Runs
      BY <3>1, RegisteredAreRuns DEF TypeOK
    <3>3. cursor' \in Nat /\ cursor' <= Len(runs) /\ cursor' < Len(runs)
      BY <2>2, <3>1, Remainder
    <3>4. ASSUME NEW j \in Jobs, Submit(runs[i], j) PROVE TypeOK'
      <4>1. activeWorkers' \in Int /\ quotaActive' \in [Quotas -> Int]
        BY <3>4 DEF TypeOK, Submit
      <4>2. jobs' \in [Runs -> [Jobs -> JobStates]]
        BY <3>2, <3>4 DEF TypeOK, Submit
      <4>3. QED
        BY <1>14, <2>2, <3>3, <3>4, <4>1, <4>2 DEF TypeOK, DispatchPick, Submit
    <3>5. ASSUME NEW j \in Jobs, SubmitFinished(runs[i], j) PROVE TypeOK'
      <4>1. completed' \in [Runs -> Seq(Jobs)]
        <5> DEFINE r == runs[i]
        <5>1. completed' = [completed EXCEPT ![r] = Append(@, j)]
          BY <3>5 DEF SubmitFinished
        <5> HIDE DEF r, Jobs
        <5>2. QED
          BY <3>2, <5>1 DEF TypeOK, r
      <4>2. jobs' \in [Runs -> [Jobs -> JobStates]]
        BY <3>2, <3>5 DEF TypeOK, SubmitFinished
      <4>4. outcome' \in [Runs -> [Jobs -> Outcomes]]
        <5>1. PICK o \in Outcomes : outcome' = [outcome EXCEPT ![runs[i]][j] = o]
          BY <3>5 DEF SubmitFinished, PossibleOutcomes
        <5>2. QED
          BY <3>2, <5>1 DEF TypeOK
      <4>3. QED
        BY <1>14, <2>2, <3>3, <3>5, <4>1, <4>2, <4>4
           DEF TypeOK, DispatchPick, SubmitFinished, NotifyAll
    <3>6. ASSUME SubmitFails(runs[i]) PROVE TypeOK'
      <4>1. CancelLocked({runs[i]}) /\ {runs[i]} \in SUBSET Runs
        BY <3>2, <3>6 DEF SubmitFails
      <4>2. cause' \in [Runs -> Causes]
        BY <3>2, <3>6 DEF TypeOK, SubmitFails
      <4>3. QED
        BY <1>14, <2>2, <3>3, <3>6, <4>1, <4>2, CancelLockedType
           DEF TypeOK, DispatchPick, SubmitFails
    <3>7. QED
      BY <2>2, <3>4, <3>5, <3>6
  <2>3. QED
    BY <1>14, <2>1, <2>2 DEF DispatchPick
<1>15. ASSUME NEW e \in External, SetEvent(e) PROVE TypeOK'
    BY <1>15 DEF TypeOK, SetEvent, shared, account, queues
<1>16. ASSUME NEW e \in External, CancelScope(e) PROVE TypeOK'
  <2>1. {r \in Registered : e \in Scope(r)} \in SUBSET Runs
    BY RegisteredAreRuns DEF TypeOK
  <2>2. QED
    BY <1>16, <2>1, CancelLockedType
       DEF TypeOK, CancelScope, CancelAndDispatch, shared, account, queues
<1>17. CASE CloseBegin
  <2>1. Registered \in SUBSET Runs
    BY RegisteredAreRuns DEF TypeOK
  <2>2. QED
    BY <1>17, <2>1, CancelLockedType DEF TypeOK, CloseBegin, CancelAndDispatch, queues
<1>18. CASE CloseEnd
    BY <1>18 DEF TypeOK, CloseEnd, shared, account, queues
<1>19. CASE UNCHANGED vars
    BY <1>19 DEF TypeOK, vars, shared, account, queues
<1>20. QED
    BY <1>1, <1>2, <1>3, <1>4, <1>5, <1>6, <1>7, <1>8, <1>9, <1>10, <1>11, <1>12, <1>13,
       <1>14, <1>15, <1>16, <1>17, <1>18, <1>19 DEF Next, Caller, Terminated

(* The initial state is well typed. *)
LEMMA InitTyped == Init => TypeOK
<1> SUFFICES ASSUME Init PROVE TypeOK
  OBVIOUS
<1>1. runs \in Seq(Runs) /\ Len(runs) = 0 /\ runs = <<>>
  BY DEF Init
<1>2. jobs \in [Runs -> [Jobs -> JobStates]] /\ outcome \in [Runs -> [Jobs -> Outcomes]]
  BY DEF Init, JobStates, Outcomes
<1>3. <<>> \in Seq(Jobs)
  OBVIOUS
<1>4. completed \in [Runs -> Seq(Jobs)] /\ batch \in [Runs -> Seq(Jobs)]
        /\ results \in [Runs -> Seq(Jobs)]
  BY <1>3 DEF Init
<1>5. cursor \in Nat /\ cursor <= Len(runs) /\ (runs # <<>> => cursor < Len(runs))
  BY <1>1 DEF Init
<1>6. /\ pc \in [Runs -> Phases] /\ cause \in [Runs -> Causes]
      /\ collecting \in [Runs -> BOOLEAN] /\ cancelled \in [Runs -> BOOLEAN]
      /\ activeWorkers \in Int /\ quotaActive \in [Quotas -> Int]
  BY DEF Init, Phases, Causes
<1>7. /\ closed \in BOOLEAN
      /\ closer \in {"open", "joining", "closed"}
      /\ dispatching \in {"no", "scan", "pick"}
      /\ events \subseteq Events /\ signalled \subseteq Events /\ waiting \subseteq Runs
  BY DEF Init
<1>8. QED
  BY <1>1, <1>2, <1>4, <1>5, <1>6, <1>7 DEF TypeOK

(* The state of the scheduler is well typed, and its cursor is a position  *)
(* of the list of runs, in every reachable state.                          *)
THEOREM TypeCorrect == Spec => []TypeOK
BY InitTyped, TypeStep, PTL DEF Spec

-----------------------------------------------------------------------------
(* The counters.  A step either takes a set B of futures out of the pool   *)
(* or submits one job.                                                     *)

Holding(q, P) == {p \in P : q \in QuotasOf[p[1]]}

Removes(B) ==
    /\ B \subseteq ActiveJobs
    /\ ActiveJobs' = ActiveJobs \ B
    /\ activeWorkers' = activeWorkers - Cardinality(B)
    /\ \A q \in Quotas : quotaActive'[q] = quotaActive[q] - Cardinality(Holding(q, B))

Submits(i, j) ==
    /\ dispatching = "pick"
    /\ j \in Pending(runs[i])
    /\ Submit(runs[i], j)

(* A step that changes neither the pool nor the counters removes nothing. *)
LEMMA RemovesNothing ==
    ASSUME TypeOK, ActiveJobs' = ActiveJobs, UNCHANGED <<activeWorkers, quotaActive>>
    PROVE  Removes({})
<1>1. Cardinality({}) = 0 /\ \A q \in Quotas : Holding(q, {}) = {}
    BY FS_EmptySet DEF Holding
<1>2. activeWorkers' = activeWorkers - 0 /\ \A q \in Quotas : quotaActive'[q] = quotaActive[q] - 0
    BY DEF TypeOK
<1>3. QED
    BY <1>1, <1>2 DEF Removes

(* Such is every step that leaves the jobs and the counters alone. *)
LEMMA AccountUntouched ==
    ASSUME TypeOK, UNCHANGED account
    PROVE  Removes({})
<1>1. ActiveJobs' = ActiveJobs
    BY DEF account, ActiveJobs, IsActive
<1>2. QED
    BY <1>1, RemovesNothing DEF account

(* _cancel_locked takes the futures out that are still queued. *)
LEMMA CancelLockedRemoves ==
    ASSUME TypeOK, NEW C \in SUBSET Runs, CancelLocked(C)
    PROVE  \E B : Removes(B)
<1> DEFINE hit == {r \in C : ~cancelled[r]}
<1>1. Queued(hit) \subseteq ActiveJobs
    BY DEF Queued, ActiveJobs, IsActive
<1>2. \A r \in Runs, j \in Jobs : IsActive(r, j)' <=> IsActive(r, j) /\ <<r, j>> \notin Queued(hit)
  <2>1. jobs' = [r \in Runs |-> [j \in Jobs |->
                    CASE r \in hit /\ jobs[r][j] = "pending" -> "discarded"
                      [] r \in hit /\ jobs[r][j] = "queued" -> "done"
                      [] OTHER -> jobs[r][j]]]
    BY DEF CancelLocked
  <2>2. QED
    BY <2>1 DEF IsActive, Queued
<1>3. ActiveJobs' = ActiveJobs \ Queued(hit)
    BY <1>2 DEF ActiveJobs
<1>4. activeWorkers' = activeWorkers - Cardinality(Queued(hit))
    BY DEF CancelLocked
<1>5. \A q \in Quotas : quotaActive'[q] = quotaActive[q] - Cardinality(Holding(q, Queued(hit)))
    BY DEF CancelLocked, Holding
<1> HIDE DEF hit
<1>6. Removes(Queued(hit))
    BY <1>1, <1>3, <1>4, <1>5 DEF Removes
<1>7. QED
    BY <1>6

(* The effect of a worker's step. *)
LEMMA WorkerRemoves ==
    ASSUME TypeOK, NEW r \in Runs, NEW j \in Jobs, Worker(r, j)
    PROVE  \E B : Removes(B)
<1> USE DEF JobStates
<1>1. CASE TakeJob(r, j) \/ StartJob(r, j) \/ FinishJob(r, j)
  <2>1. \A s \in Runs, k \in Jobs : IsActive(s, k)' <=> IsActive(s, k)
    BY <1>1 DEF TypeOK, TakeJob, StartJob, FinishJob, IsActive
  <2>2. ActiveJobs' = ActiveJobs
    BY <2>1 DEF ActiveJobs
  <2>3. UNCHANGED <<activeWorkers, quotaActive>>
    BY <1>1 DEF TakeJob, StartJob, FinishJob
  <2>4. QED
    BY <2>2, <2>3, RemovesNothing
<1>2. CASE Complete(r, j)
  <2> DEFINE B == {<<r, j>>}
  <2>1. \A s \in Runs, k \in Jobs :
           IsActive(s, k)' <=> IsActive(s, k) /\ <<s, k>> # <<r, j>>
    BY <1>2 DEF TypeOK, Complete, IsActive
  <2>2. IsActive(r, j)
    BY <1>2 DEF Complete, IsActive
  <2>3. B \subseteq ActiveJobs /\ ActiveJobs' = ActiveJobs \ B
    BY <2>1, <2>2 DEF ActiveJobs
  <2>4. Cardinality(B) = 1 /\ Cardinality({}) = 0
    BY FS_Singleton, FS_EmptySet
  <2>5. activeWorkers' = activeWorkers - Cardinality(B)
    BY <1>2, <2>4 DEF Complete
  <2>6. ASSUME NEW q \in Quotas
        PROVE  quotaActive'[q] = quotaActive[q] - Cardinality(Holding(q, B))
    <3>1. Holding(q, B) = IF q \in QuotasOf[r] THEN B ELSE {}
      BY DEF Holding
    <3>2. quotaActive'[q] = quotaActive[q] - (IF q \in QuotasOf[r] THEN 1 ELSE 0)
      BY <1>2 DEF Complete
    <3>3. QED
      BY <2>4, <3>1, <3>2
  <2>7. QED
    BY <2>3, <2>5, <2>6 DEF Removes
<1>3. QED
    BY <1>1, <1>2 DEF Worker

(* Every step removes futures from the pool or submits a job. *)
LEMMA CountingStep ==
    ASSUME TypeOK, [Next]_vars
    PROVE  (\E B : Removes(B)) \/ \E i \in EligibleIndex, j \in Jobs : Submits(i, j)
<1>1. ASSUME NEW r \in Runs, Caller(r) PROVE \E B : Removes(B)
  <2>1. CASE \E C \in SUBSET Runs : CancelLocked(C)
    BY <2>1, CancelLockedRemoves
  <2>2. CASE UNCHANGED account
    BY <2>2, AccountUntouched
  <2>3. {r} \in SUBSET Runs
    OBVIOUS
  <2>4. WakeCancelled(r) \/ FailCancel(r) => CancelLocked({r})
    BY DEF WakeCancelled, FailCancel, CancelAndDispatch
  <2>5. Caller(r) /\ ~WakeCancelled(r) /\ ~FailCancel(r) => UNCHANGED account
    BY DEF Caller, Enter, Register, WakeCollect, CollectOne, Callback, CollectEnd, Drain, Remove
  <2>6. QED
    BY <1>1, <2>1, <2>2, <2>3, <2>4, <2>5
<1>2. ASSUME NEW r \in Runs, NEW j \in Jobs, Worker(r, j) PROVE \E B : Removes(B)
    BY <1>2, WorkerRemoves
<1>3. CASE DispatchScan
  <2>1. {r \in Registered : IsCancelled(r)} \in SUBSET Runs
    BY RegisteredAreRuns DEF TypeOK
  <2>2. UNCHANGED account \/ CancelLocked({r \in Registered : IsCancelled(r)})
    BY <1>3 DEF DispatchScan, account
  <2>3. QED
    BY <2>1, <2>2, AccountUntouched, CancelLockedRemoves
<1>4. CASE DispatchPick
  <2>1. ASSUME NEW i \in EligibleIndex, NEW j \in Jobs,
               NextJob(runs[i], j), Submit(runs[i], j)
        PROVE  Submits(i, j)
    BY <1>4, <2>1 DEF Submits, NextJob, DispatchPick
  <2>2. ASSUME NEW i \in EligibleIndex, NEW j \in Jobs,
               NextJob(runs[i], j), SubmitFinished(runs[i], j)
        PROVE  \E B : Removes(B)
    <3>1. runs[i] \in Runs
      BY RegisteredAreRuns DEF TypeOK, EligibleIndex
    <3> DEFINE r == runs[i]
    <3>2. jobs[r][j] = "pending" /\ jobs' = [jobs EXCEPT ![r][j] = "done"]
      BY <2>2 DEF NextJob, Pending, SubmitFinished
    <3> HIDE DEF r
    <3>3. \A s \in Runs, k \in Jobs : IsActive(s, k)' <=> IsActive(s, k)
      BY <3>1, <3>2 DEF TypeOK, IsActive, r
    <3>4. ActiveJobs' = ActiveJobs
      BY <3>3 DEF ActiveJobs
    <3>5. QED
      BY <2>2, <3>4, RemovesNothing DEF SubmitFinished
  <2>3. ASSUME NEW i \in EligibleIndex, SubmitFails(runs[i]) PROVE \E B : Removes(B)
    <3>1. {runs[i]} \in SUBSET Runs
      BY RegisteredAreRuns DEF TypeOK, EligibleIndex
    <3>2. QED
      BY <2>3, <3>1, CancelLockedRemoves DEF SubmitFails
  <2>4. CASE UNCHANGED account
    BY <2>4, AccountUntouched
  <2>5. QED
    BY <1>4, <2>1, <2>2, <2>3, <2>4 DEF DispatchPick, account
<1>5. ASSUME NEW e \in External, SetEvent(e) \/ CancelScope(e) PROVE \E B : Removes(B)
  <2>1. {r \in Registered : e \in Scope(r)} \in SUBSET Runs
    BY RegisteredAreRuns DEF TypeOK
  <2>2. UNCHANGED account \/ CancelLocked({r \in Registered : e \in Scope(r)})
    BY <1>5 DEF SetEvent, CancelScope, CancelAndDispatch
  <2>3. QED
    BY <2>1, <2>2, AccountUntouched, CancelLockedRemoves
<1>6. CASE CloseBegin
  <2>1. Registered \in SUBSET Runs
    BY RegisteredAreRuns DEF TypeOK
  <2>2. QED
    BY <1>6, <2>1, CancelLockedRemoves DEF CloseBegin, CancelAndDispatch
<1>7. ASSUME NEW r \in Runs, Interrupt(r) PROVE \E B : Removes(B)
    BY <1>7, AccountUntouched DEF Interrupt
<1>8. CASE CloseEnd \/ UNCHANGED vars
  <2>1. UNCHANGED account
    BY <1>8 DEF CloseEnd, vars
  <2>2. QED
    BY <2>1, AccountUntouched
<1>9. QED
    BY <1>1, <1>2, <1>3, <1>4, <1>5, <1>6, <1>7, <1>8 DEF Next, Terminated

(* The jobs a submission adds to the pool. *)
LEMMA SubmitAdds ==
    ASSUME TypeOK, NEW i \in EligibleIndex, NEW j \in Jobs, Submits(i, j)
    PROVE  /\ runs[i] \in Runs
           /\ Eligible(runs[i])
           /\ <<runs[i], j>> \notin ActiveJobs
           /\ ActiveJobs' = ActiveJobs \cup {<<runs[i], j>>}
           /\ activeWorkers' = activeWorkers + 1
           /\ quotaActive' = [q \in Quotas |->
                 quotaActive[q] + (IF q \in QuotasOf[runs[i]] THEN 1 ELSE 0)]
<1> DEFINE r == runs[i]
<1>1. r \in Runs /\ Eligible(r)
    BY RegisteredAreRuns DEF TypeOK, EligibleIndex
<1>2. /\ jobs[r][j] = "pending"
      /\ jobs' = [jobs EXCEPT ![r][j] = "queued"]
      /\ activeWorkers' = activeWorkers + 1
      /\ quotaActive' = [q \in Quotas |-> quotaActive[q] + (IF q \in QuotasOf[r] THEN 1 ELSE 0)]
    BY DEF Submits, Submit, Pending
<1> HIDE DEF r
<1>3. \A s \in Runs, k \in Jobs : IsActive(s, k)' <=> IsActive(s, k) \/ <<s, k>> = <<r, j>>
    BY <1>1, <1>2 DEF TypeOK, IsActive
<1>4. ~IsActive(r, j)
    BY <1>2 DEF IsActive
<1>5. <<r, j>> \notin ActiveJobs /\ ActiveJobs' = ActiveJobs \cup {<<r, j>>}
    BY <1>1, <1>3, <1>4 DEF ActiveJobs
<1>6. QED
    BY <1>1, <1>2, <1>5 DEF r

(* Sets of jobs in the pool and the parts of them that hold a quota. *)
LEMMA PoolIsFinite ==
    /\ IsFiniteSet(ActiveJobs) /\ Cardinality(ActiveJobs) \in Nat
    /\ \A q : /\ IsFiniteSet(Holding(q, ActiveJobs))
              /\ Cardinality(Holding(q, ActiveJobs)) \in Nat
              /\ QuotaJobs(q) = Holding(q, ActiveJobs)
<1>1. ActiveJobs \in SUBSET (Runs \X Jobs)
    BY DEF ActiveJobs
<1>2. \A q : Holding(q, ActiveJobs) \in SUBSET (Runs \X Jobs)
    BY <1>1 DEF Holding
<1>3. QED
    BY <1>1, <1>2, FiniteJobs DEF QuotaJobs, Holding

(* Removing the futures of B lowers each count by what B contributes. *)
LEMMA RemovalCounts ==
    ASSUME NEW B, Removes(B)
    PROVE  /\ Cardinality(ActiveJobs') = Cardinality(ActiveJobs) - Cardinality(B)
           /\ \A q : Cardinality(Holding(q, ActiveJobs')) =
                 Cardinality(Holding(q, ActiveJobs)) - Cardinality(Holding(q, B))
<1>1. ActiveJobs \cap B = B /\ ActiveJobs' = ActiveJobs \ B
    BY DEF Removes
<1>2. ASSUME NEW q
      PROVE  /\ Holding(q, ActiveJobs') = Holding(q, ActiveJobs) \ Holding(q, B)
             /\ Holding(q, ActiveJobs) \cap Holding(q, B) = Holding(q, B)
    BY <1>1 DEF Holding
<1>3. Cardinality(ActiveJobs') = Cardinality(ActiveJobs) - Cardinality(B)
  <2>1. Cardinality(ActiveJobs \ B) = Cardinality(ActiveJobs) - Cardinality(ActiveJobs \cap B)
    BY PoolIsFinite, FS_Difference
  <2>2. QED
    BY <1>1, <2>1
<1>4. ASSUME NEW q
      PROVE  Cardinality(Holding(q, ActiveJobs')) =
                 Cardinality(Holding(q, ActiveJobs)) - Cardinality(Holding(q, B))
  <2>1. IsFiniteSet(Holding(q, ActiveJobs))
    BY PoolIsFinite
  <2>2. Cardinality(Holding(q, ActiveJobs) \ Holding(q, B)) = Cardinality(Holding(q, ActiveJobs))
            - Cardinality(Holding(q, ActiveJobs) \cap Holding(q, B))
    BY <2>1, FS_Difference
  <2>3. QED
    BY <1>2, <2>2
<1>5. QED
    BY <1>3, <1>4

(* Every step keeps the counters exact. *)
LEMMA AccountingStep == TypeOK /\ Accounting /\ [Next]_vars => Accounting'
<1> SUFFICES ASSUME TypeOK, Accounting, [Next]_vars PROVE Accounting'
    OBVIOUS
<1>1. /\ activeWorkers = Cardinality(ActiveJobs)
      /\ \A q \in Quotas : quotaActive[q] = Cardinality(Holding(q, ActiveJobs))
    BY PoolIsFinite DEF Accounting
<1>2. SUFFICES /\ activeWorkers' = Cardinality(ActiveJobs')
               /\ \A q \in Quotas : quotaActive'[q] = Cardinality(Holding(q, ActiveJobs'))
    BY DEF Accounting, QuotaJobs, Holding
<1>3. ASSUME NEW B, Removes(B)
      PROVE  /\ activeWorkers' = Cardinality(ActiveJobs')
             /\ \A q \in Quotas : quotaActive'[q] = Cardinality(Holding(q, ActiveJobs'))
    BY <1>1, <1>3, RemovalCounts DEF Removes
<1>4. ASSUME NEW i \in EligibleIndex, NEW j \in Jobs, Submits(i, j)
      PROVE  /\ activeWorkers' = Cardinality(ActiveJobs')
             /\ \A q \in Quotas : quotaActive'[q] = Cardinality(Holding(q, ActiveJobs'))
  <2> DEFINE p == <<runs[i], j>>
  <2>1. p \notin ActiveJobs /\ ActiveJobs' = ActiveJobs \cup {p}
    BY <1>4, SubmitAdds
  <2>2. Cardinality(ActiveJobs') = Cardinality(ActiveJobs) + 1
    BY <2>1, PoolIsFinite, FS_AddElement
  <2>3. activeWorkers' = Cardinality(ActiveJobs')
    BY <1>1, <1>4, <2>2, SubmitAdds
  <2>4. ASSUME NEW q \in Quotas
        PROVE  quotaActive'[q] = Cardinality(Holding(q, ActiveJobs'))
    <3>1. quotaActive'[q] = quotaActive[q] + (IF q \in QuotasOf[runs[i]] THEN 1 ELSE 0)
      BY <1>4, SubmitAdds
    <3>2. CASE q \in QuotasOf[runs[i]]
      <4>1. p \notin Holding(q, ActiveJobs)
              /\ Holding(q, ActiveJobs') = Holding(q, ActiveJobs) \cup {p}
        BY <2>1, <3>2 DEF Holding
      <4>2. Cardinality(Holding(q, ActiveJobs')) = Cardinality(Holding(q, ActiveJobs)) + 1
        BY <4>1, PoolIsFinite, FS_AddElement
      <4>3. QED
        BY <1>1, <3>1, <3>2, <4>2
    <3>3. CASE q \notin QuotasOf[runs[i]]
      <4>1. Holding(q, ActiveJobs') = Holding(q, ActiveJobs)
        BY <2>1, <3>3 DEF Holding
      <4>2. Cardinality(Holding(q, ActiveJobs)) \in Nat
        BY PoolIsFinite
      <4>3. QED
        BY <1>1, <3>1, <3>3, <4>1, <4>2
    <3>4. QED
      BY <3>2, <3>3
  <2>5. QED
    BY <2>3, <2>4
<1>5. QED
    BY <1>3, <1>4, CountingStep

(* Before the first run the pool is empty and the counters are zero. *)
LEMMA InitAccounting == Init => Accounting
<1> SUFFICES ASSUME Init PROVE Accounting
  OBVIOUS
<1>1. ActiveJobs = {}
  BY DEF Init, ActiveJobs, IsActive
<1>2. \A q \in Quotas : QuotaJobs(q) = {}
  BY <1>1 DEF QuotaJobs
<1>3. QED
  BY <1>1, <1>2, FS_EmptySet DEF Init, Accounting

(* The counters the dispatcher decides on are exact: _active_workers is    *)
(* the number of futures in the pool and each quota.active the number of   *)
(* those whose run holds the quota, whatever completes, fails or is        *)
(* cancelled in whatever order.                                            *)
THEOREM AccountingExact == Spec => []Accounting
BY InitAccounting, TypeCorrect, AccountingStep, PTL DEF Spec

-----------------------------------------------------------------------------
(* The limits.  Between the scan and the pick of the dispatch loop the     *)
(* pool keeps the room the loop condition saw.                             *)
RoomAtPick == dispatching = "pick" => activeWorkers < MaxWorkers

LimitsInv == TypeOK /\ Accounting /\ WithinLimits /\ RoomAtPick

(* The active jobs of one run are a finite part of the job list. *)
LEMMA ActiveIsFinite ==
    \A r \in Runs : IsFiniteSet(Active(r)) /\ Cardinality(Active(r)) \in Nat
<1>1. IsFiniteSet(Jobs) /\ \A r \in Runs : Active(r) \in SUBSET Jobs
    BY FS_Interval, ConstantsTyped DEF Jobs, Active
<1>2. QED
    BY <1>1, FS_Subset, FS_CardinalityType

(* Fewer jobs in the pool never break a limit. *)
LEMMA RemovalWithinLimits ==
    ASSUME WithinLimits, NEW B, Removes(B)
    PROVE  WithinLimits'
<1>1. ActiveJobs' \subseteq ActiveJobs
    BY DEF Removes
<1>2. Cardinality(ActiveJobs') <= Cardinality(ActiveJobs) /\ Cardinality(ActiveJobs') \in Nat
    BY <1>1, PoolIsFinite, FS_Subset, FS_CardinalityType
<1>3. ASSUME NEW q \in Quotas
      PROVE  Cardinality(Holding(q, ActiveJobs')) <= QuotaLimit[q]
  <2>1. Holding(q, ActiveJobs') \in SUBSET Holding(q, ActiveJobs)
    BY <1>1 DEF Holding
  <2>2. IsFiniteSet(Holding(q, ActiveJobs))
    BY PoolIsFinite
  <2>3. /\ Cardinality(Holding(q, ActiveJobs')) <= Cardinality(Holding(q, ActiveJobs))
        /\ Cardinality(Holding(q, ActiveJobs')) \in Nat
        /\ Cardinality(Holding(q, ActiveJobs)) \in Nat
    BY <2>1, <2>2, FS_Subset, FS_CardinalityType
  <2>4. Cardinality(Holding(q, ActiveJobs)) <= QuotaLimit[q] /\ QuotaLimit[q] \in Nat
    BY PoolIsFinite, ConstantsTyped DEF WithinLimits
  <2>5. QED
    BY <2>3, <2>4
<1>4. ASSUME NEW r \in Runs
      PROVE  Cardinality(Active(r)') <= MaxConcurrency[r]
  <2>1. Active(r)' \in SUBSET Active(r)
    <3>1. \A j \in Jobs : IsActive(r, j)' <=> <<r, j>> \in ActiveJobs'
      BY DEF ActiveJobs
    <3>2. \A j \in Jobs : IsActive(r, j) <=> <<r, j>> \in ActiveJobs
      BY DEF ActiveJobs
    <3>3. QED
      BY <1>1, <3>1, <3>2 DEF Active
  <2>2. /\ Cardinality(Active(r)') <= Cardinality(Active(r))
        /\ Cardinality(Active(r)') \in Nat
        /\ Cardinality(Active(r)) \in Nat
    BY <2>1, ActiveIsFinite, FS_Subset, FS_CardinalityType
  <2>3. Cardinality(Active(r)) <= MaxConcurrency[r] /\ MaxConcurrency[r] \in Nat
    BY ConstantsTyped DEF WithinLimits
  <2>4. QED
    BY <2>2, <2>3
<1>5. Cardinality(ActiveJobs') <= MaxWorkers
    BY <1>2, PoolIsFinite, ConstantsTyped DEF WithinLimits
<1>6. QED
    BY <1>3, <1>4, <1>5 DEF WithinLimits, QuotaJobs, Holding

(* A submission is made only where every limit leaves room for it. *)
LEMMA SubmitWithinLimits ==
    ASSUME LimitsInv, NEW i \in EligibleIndex, NEW j \in Jobs, Submits(i, j)
    PROVE  WithinLimits'
<1> DEFINE s == runs[i]
           p == <<s, j>>
<1>1. /\ s \in Runs
      /\ Eligible(s)
      /\ p \notin ActiveJobs
      /\ ActiveJobs' = ActiveJobs \cup {p}
    BY SubmitAdds DEF LimitsInv
<1>2. Cardinality(ActiveJobs') <= MaxWorkers
  <2>1. Cardinality(ActiveJobs') = Cardinality(ActiveJobs) + 1
    BY <1>1, PoolIsFinite, FS_AddElement
  <2>2. Cardinality(ActiveJobs) < MaxWorkers
    BY DEF LimitsInv, RoomAtPick, Accounting, Submits
  <2>3. QED
    BY <2>1, <2>2, PoolIsFinite, ConstantsTyped
<1>3. ASSUME NEW q \in Quotas
      PROVE  Cardinality(Holding(q, ActiveJobs')) <= QuotaLimit[q]
  <2>1. /\ IsFiniteSet(Holding(q, ActiveJobs)) /\ Cardinality(Holding(q, ActiveJobs)) \in Nat
        /\ quotaActive[q] = Cardinality(Holding(q, ActiveJobs))
        /\ Cardinality(Holding(q, ActiveJobs)) <= QuotaLimit[q]
        /\ QuotaLimit[q] \in Nat
    BY PoolIsFinite, ConstantsTyped DEF LimitsInv, WithinLimits, Accounting
  <2>2. CASE q \in QuotasOf[s]
    <3>1. quotaActive[q] < QuotaLimit[q]
      BY <1>1, <2>2 DEF Eligible
    <3>2. p \notin Holding(q, ActiveJobs)
            /\ Holding(q, ActiveJobs') = Holding(q, ActiveJobs) \cup {p}
      BY <1>1, <2>2 DEF Holding
    <3>3. Cardinality(Holding(q, ActiveJobs')) = Cardinality(Holding(q, ActiveJobs)) + 1
      BY <2>1, <3>2, FS_AddElement
    <3>4. QED
      BY <2>1, <3>1, <3>3
  <2>3. CASE q \notin QuotasOf[s]
    <3>1. Holding(q, ActiveJobs') = Holding(q, ActiveJobs)
      BY <1>1, <2>3 DEF Holding
    <3>2. QED
      BY <2>1, <3>1
  <2>4. QED
    BY <2>2, <2>3
<1>4. ASSUME NEW r \in Runs
      PROVE  Cardinality(Active(r)') <= MaxConcurrency[r]
  <2>1. /\ IsFiniteSet(Active(r)) /\ Cardinality(Active(r)) \in Nat
        /\ Cardinality(Active(r)) <= MaxConcurrency[r] /\ MaxConcurrency[r] \in Nat
    BY ActiveIsFinite, ConstantsTyped DEF LimitsInv, WithinLimits
  <2>2. \A k \in Jobs : IsActive(r, k)' <=> <<r, k>> \in ActiveJobs'
    BY DEF ActiveJobs
  <2>3. \A k \in Jobs : IsActive(r, k) <=> <<r, k>> \in ActiveJobs
    BY DEF ActiveJobs
  <2>4. CASE r = s
    <3>1. Active(r)' = Active(r) \cup {j} /\ j \notin Active(r)
      BY <1>1, <2>2, <2>3, <2>4 DEF Active
    <3>2. Cardinality(Active(r)') = Cardinality(Active(r)) + 1
      BY <2>1, <3>1, FS_AddElement
    <3>3. Cardinality(Active(r)) < MaxConcurrency[r]
      BY <1>1, <2>4 DEF Eligible
    <3>4. QED
      BY <2>1, <3>2, <3>3
  <2>5. CASE r # s
    <3>1. Active(r)' = Active(r)
      BY <1>1, <2>2, <2>3, <2>5 DEF Active
    <3>2. QED
      BY <2>1, <3>1
  <2>6. QED
    BY <2>4, <2>5
<1>5. QED
    BY <1>2, <1>3, <1>4 DEF WithinLimits, QuotaJobs, Holding

(* Only the scan leads to the pick, and it saw room. *)
LEMMA RoomAtPickStep == TypeOK /\ RoomAtPick /\ [Next]_vars => RoomAtPick'
<1> SUFFICES ASSUME TypeOK, RoomAtPick, [Next]_vars, dispatching' = "pick"
             PROVE  (activeWorkers < MaxWorkers)'
    BY DEF RoomAtPick
<1>1. CASE dispatching = "pick" /\ UNCHANGED activeWorkers
    BY <1>1 DEF RoomAtPick
<1>2. CASE DispatchScan
  <2>1. {r \in Registered : IsCancelled(r)} \in SUBSET Runs
    BY RegisteredAreRuns DEF TypeOK
  <2>2. CancelLocked({r \in Registered : IsCancelled(r)}) /\ activeWorkers < MaxWorkers
    BY <1>2 DEF DispatchScan, PoolHasRoom
  <2>3. PICK B : Removes(B)
    BY <2>1, <2>2, CancelLockedRemoves
  <2>4. activeWorkers' = activeWorkers - Cardinality(B) /\ Cardinality(B) \in Nat
    BY <2>3, PoolIsFinite, FS_Subset, FS_CardinalityType DEF Removes
  <2>5. QED
    BY <2>2, <2>4, ConstantsTyped DEF TypeOK
<1>3. DispatchScan \/ (dispatching = "pick" /\ UNCHANGED activeWorkers)
  <2>1. ASSUME NEW r \in Runs, Caller(r) \/ Interrupt(r)
        PROVE  dispatching = "pick" /\ UNCHANGED activeWorkers
    BY <2>1 DEF Caller, Enter, Register, WakeCollect, WakeCancelled, CollectOne, Callback,
                CollectEnd, FailCancel, Drain, Remove, Interrupt, CancelAndDispatch, LockFree,
                account, shared, queues
  <2>2. ASSUME NEW r \in Runs, NEW j \in Jobs, Worker(r, j)
        PROVE  dispatching = "pick" /\ UNCHANGED activeWorkers
    BY <2>2 DEF Worker, TakeJob, StartJob, FinishJob, Complete
  <2>3. ASSUME NEW e \in External, SetEvent(e) \/ CancelScope(e)
        PROVE  dispatching = "pick" /\ UNCHANGED activeWorkers
    BY <2>3 DEF SetEvent, CancelScope, CancelAndDispatch, account
  <2>4. CASE DispatchPick
    BY <2>4 DEF DispatchPick, account
  <2>5. CASE CloseBegin \/ CloseEnd \/ UNCHANGED vars
    BY <2>5 DEF CloseBegin, CloseEnd, CancelAndDispatch, vars, account
  <2>6. QED
    BY <2>1, <2>2, <2>3, <2>4, <2>5 DEF Next, Terminated
<1>4. QED
    BY <1>1, <1>2, <1>3

(* The pool, every quota however many runs share it, and every run stay    *)
(* within their limits.                                                    *)
THEOREM LimitsRespected == Spec => []WithinLimits
<1>1. Init => LimitsInv
  <2> SUFFICES ASSUME Init PROVE LimitsInv
    OBVIOUS
  <2>1. TypeOK /\ Accounting
    BY InitTyped, InitAccounting
  <2>2. ActiveJobs = {} /\ \A q \in Quotas : QuotaJobs(q) = {}
    BY DEF Init, ActiveJobs, IsActive, QuotaJobs
  <2>3. \A r \in Runs : Active(r) = {}
    BY DEF Init, Active, IsActive
  <2>4. WithinLimits
    <3>1. Cardinality({}) = 0
      BY FS_EmptySet
    <3>2. /\ 0 <= MaxWorkers
          /\ \A q \in Quotas : 0 <= QuotaLimit[q]
          /\ \A r \in Runs : 0 <= MaxConcurrency[r]
      BY ConstantsTyped
    <3>3. QED
      BY <2>2, <2>3, <3>1, <3>2 DEF WithinLimits
  <2>5. QED
    BY <2>1, <2>4 DEF LimitsInv, RoomAtPick, Init
<1>2. LimitsInv /\ [Next]_vars => LimitsInv'
  <2> SUFFICES ASSUME LimitsInv, [Next]_vars PROVE LimitsInv'
    OBVIOUS
  <2>1. TypeOK' /\ Accounting' /\ RoomAtPick'
    BY TypeStep, AccountingStep, RoomAtPickStep DEF LimitsInv
  <2>2. WithinLimits'
    BY CountingStep, RemovalWithinLimits, SubmitWithinLimits DEF LimitsInv
  <2>3. QED
    BY <2>1, <2>2 DEF LimitsInv
<1>3. LimitsInv => WithinLimits
    BY DEF LimitsInv
<1>4. QED
    BY <1>1, <1>2, <1>3, PTL DEF Spec

-----------------------------------------------------------------------------
(* Work conservation.  _cancel_locked only takes work away, and it wakes   *)
(* the sleepers whenever it changes anything.                              *)
LEMMA CancelLockedEffect ==
    ASSUME TypeOK, NEW C \in SUBSET Runs, CancelLocked(C)
    PROVE  /\ \A r \in Runs : Active(r)' \subseteq Active(r)
           /\ \A r \in Runs : Pending(r)' \subseteq Pending(r)
           /\ \A r \in C : cancelled'[r]
           /\ \A r \in Runs : cancelled[r] => cancelled'[r]
           /\ \A r \in Runs : cancelled'[r] => cancelled[r] \/ r \in C
           /\ \A r \in Runs : r \notin C => jobs'[r] = jobs[r]
           /\ waiting' = {} \/ (waiting' = waiting /\ jobs' = jobs)
<1> DEFINE hit == {r \in C : ~cancelled[r]}
<1>1. /\ cancelled' = [r \in Runs |-> cancelled[r] \/ r \in hit]
      /\ jobs' = [r \in Runs |-> [j \in Jobs |->
                    CASE r \in hit /\ jobs[r][j] = "pending" -> "discarded"
                      [] r \in hit /\ jobs[r][j] = "queued" -> "done"
                      [] OTHER -> jobs[r][j]]]
      /\ IF hit = {} THEN UNCHANGED waiting ELSE NotifyAll
  BY DEF CancelLocked
<1> HIDE DEF hit
<1>2. \A r \in Runs, j \in Jobs :
         /\ jobs'[r][j] = jobs[r][j] \/ jobs'[r][j] \in {"discarded", "done"}
         /\ r \notin hit => jobs'[r][j] = jobs[r][j]
  BY <1>1
<1>3. \A r \in Runs : Active(r)' \subseteq Active(r) /\ Pending(r)' \subseteq Pending(r)
  BY <1>2 DEF Active, IsActive, Pending
<1>4. /\ \A r \in C : cancelled'[r]
      /\ \A r \in Runs : cancelled[r] => cancelled'[r]
      /\ \A r \in Runs : cancelled'[r] => cancelled[r] \/ r \in C
  BY <1>1 DEF hit
<1>5. \A r \in Runs : r \notin hit => jobs'[r] = jobs[r]
  <2> TAKE r \in Runs
  <2>1. DOMAIN jobs[r] = Jobs /\ jobs'[r] = [j \in Jobs |-> jobs'[r][j]]
    BY <1>1 DEF TypeOK
  <2>2. jobs[r] = [j \in Jobs |-> jobs[r][j]]
    BY DEF TypeOK
  <2> QED
    BY <1>2, <2>1, <2>2
<1>6. hit = {} => jobs' = jobs
  <2>1. jobs = [r \in Runs |-> jobs[r]] /\ jobs' = [r \in Runs |-> jobs'[r]]
    BY <1>1 DEF TypeOK
  <2> QED
    BY <1>5, <2>1
<1>7. \A r \in Runs : r \notin C => jobs'[r] = jobs[r]
  BY <1>5 DEF hit
<1> QED
  BY <1>1, <1>3, <1>4, <1>6, <1>7 DEF NotifyAll

(* A sleeper in its drain has a job to wait for, also while the lock is    *)
(* held.                                                                   *)
SleepersWait == \A r \in waiting : Active(r) # {}

LEMMA SleepersStep ==
    ASSUME TypeOK, SleepersWait, [Next]_vars
    PROVE  SleepersWait'
<1> USE DEF SleepersWait
<1>1. ASSUME NEW C \in SUBSET Runs, CancelLocked(C) PROVE SleepersWait'
  BY <1>1, CancelLockedEffect DEF Active, IsActive
<1>2. ASSUME waiting' = {} PROVE SleepersWait'
  BY <1>2
<1>3. ASSUME UNCHANGED <<jobs, waiting>> PROVE SleepersWait'
  BY <1>3 DEF Active, IsActive
<1>4. ASSUME NEW r \in Runs, Caller(r) \/ Interrupt(r) PROVE SleepersWait'
  <2>1. CASE WakeCancelled(r) \/ FailCancel(r)
    BY <1>1, <2>1 DEF WakeCancelled, FailCancel, CancelAndDispatch
  <2>2. CASE Drain(r)
    BY <2>2 DEF Drain, Drained, account, Active, IsActive
  <2>3. CASE Enter(r) \/ Register(r) \/ WakeCollect(r) \/ CollectOne(r) \/ Callback(r)
             \/ CollectEnd(r) \/ Remove(r) \/ Interrupt(r)
    BY <1>3, <2>3 DEF Enter, Register, WakeCollect, CollectOne, Callback, CollectEnd,
                      Remove, Interrupt, account
  <2> QED
    BY <1>4, <2>1, <2>2, <2>3 DEF Caller
<1>5. ASSUME NEW r \in Runs, NEW j \in Jobs, Worker(r, j) PROVE SleepersWait'
  <2>1. CASE Complete(r, j)
    BY <1>2, <2>1 DEF Complete, NotifyAll
  <2>2. CASE TakeJob(r, j) \/ StartJob(r, j) \/ FinishJob(r, j)
    <3>1. \A s \in Runs, k \in Jobs : IsActive(s, k)' <=> IsActive(s, k)
      BY <2>2 DEF TypeOK, TakeJob, StartJob, FinishJob, IsActive, JobStates
    <3>2. \A s \in Runs : Active(s)' = Active(s)
      BY <3>1 DEF Active
    <3>3. waiting' = waiting /\ waiting \subseteq Runs
      BY <2>2 DEF TakeJob, StartJob, FinishJob, TypeOK
    <3> QED
      BY <3>2, <3>3
  <2> QED
    BY <1>5, <2>1, <2>2 DEF Worker
<1>6. CASE DispatchScan
  <2>1. {r \in Registered : IsCancelled(r)} \in SUBSET Runs
    BY RegisteredAreRuns DEF TypeOK
  <2> QED
    BY <1>1, <1>3, <1>6, <2>1 DEF DispatchScan, account
<1>7. CASE DispatchPick
  <2>1. ASSUME NEW i \in EligibleIndex, NEW j \in Jobs, Submit(runs[i], j)
        PROVE  SleepersWait'
    <3>1. runs[i] \in Runs
      BY RegisteredAreRuns DEF TypeOK, EligibleIndex
    <3>2. \A s \in Runs, k \in Jobs : IsActive(s, k) => IsActive(s, k)'
      BY <2>1, <3>1 DEF TypeOK, Submit, IsActive, JobStates
    <3>3. \A s \in Runs : Active(s) \subseteq Active(s)'
      BY <3>2 DEF Active
    <3>4. waiting' = waiting /\ waiting \subseteq Runs
      BY <2>1 DEF Submit, TypeOK
    <3> QED
      BY <3>3, <3>4
  <2>2. ASSUME NEW i \in EligibleIndex, SubmitFails(runs[i]) PROVE SleepersWait'
    <3>1. {runs[i]} \in SUBSET Runs
      BY RegisteredAreRuns DEF TypeOK, EligibleIndex
    <3> QED
      BY <1>1, <2>2, <3>1 DEF SubmitFails
  <2>3. ASSUME NEW i \in EligibleIndex, NEW j \in Jobs, SubmitFinished(runs[i], j)
        PROVE  SleepersWait'
    BY <1>2, <2>3 DEF SubmitFinished, NotifyAll
  <2> QED
    BY <1>3, <1>7, <2>1, <2>2, <2>3 DEF DispatchPick, account
<1>8. ASSUME NEW e \in External, SetEvent(e) \/ CancelScope(e) PROVE SleepersWait'
  <2>1. {r \in Registered : e \in Scope(r)} \in SUBSET Runs
    BY RegisteredAreRuns DEF TypeOK
  <2> QED
    BY <1>1, <1>3, <1>8, <2>1 DEF SetEvent, CancelScope, CancelAndDispatch, account
<1>9. CASE CloseBegin
  <2>1. Registered \in SUBSET Runs
    BY RegisteredAreRuns DEF TypeOK
  <2> QED
    BY <1>1, <1>9, <2>1 DEF CloseBegin, CancelAndDispatch
<1>10. CASE CloseEnd \/ Terminated \/ UNCHANGED vars
  BY <1>3, <1>10 DEF CloseEnd, Terminated, vars, account
<1> QED
  BY <1>4, <1>5, <1>6, <1>7, <1>8, <1>9, <1>10 DEF Next

(* Backpressure is over when the caller waits again. *)
WaitsUncollected ==
    \A r \in Runs : pc[r] \in {"idle", "checked", "wait"} => ~collecting[r]

LEMMA WaitsUncollectedStep ==
    ASSUME TypeOK, WaitsUncollected, [Next]_vars
    PROVE  WaitsUncollected'
<1> USE DEF WaitsUncollected
<1>1. ASSUME NEW r \in Runs, Enter(r) \/ Register(r) \/ WakeCollect(r) \/ WakeCancelled(r)
      PROVE  WaitsUncollected'
  BY <1>1 DEF Enter, Register, WakeCollect, WakeCancelled, queues, TypeOK
<1>2. ASSUME NEW r \in Runs, CollectOne(r) \/ Callback(r) \/ CollectEnd(r) \/ Interrupt(r)
      PROVE  WaitsUncollected'
  BY <1>2 DEF CollectOne, Callback, CollectEnd, Interrupt, queues, TypeOK
<1>3. ASSUME NEW r \in Runs, FailCancel(r) \/ Drain(r) \/ Remove(r)
      PROVE  WaitsUncollected'
  BY <1>3 DEF FailCancel, Drain, Remove, queues, TypeOK
<1>4. ASSUME UNCHANGED <<pc, collecting>> PROVE WaitsUncollected'
  BY <1>4
<1>5. ASSUME NEW r \in Runs, NEW j \in Jobs, Worker(r, j) PROVE WaitsUncollected'
  BY <1>4, <1>5 DEF Worker, TakeJob, StartJob, FinishJob, Complete, queues
<1>6. CASE DispatchScan \/ DispatchPick \/ CloseBegin \/ CloseEnd
  BY <1>4, <1>6 DEF DispatchScan, DispatchPick, CloseBegin, CloseEnd, queues
<1>7. ASSUME NEW e \in External, SetEvent(e) \/ CancelScope(e) PROVE WaitsUncollected'
  BY <1>4, <1>7 DEF SetEvent, CancelScope, queues
<1>8. CASE Terminated \/ UNCHANGED vars
  BY <1>4, <1>8 DEF Terminated, vars, queues
<1> QED
  BY <1>1, <1>2, <1>3, <1>5, <1>6, <1>7, <1>8 DEF Next, Caller

(* What makes no run eligible that was not. *)
LEMMA NoNewlyEligible ==
    ASSUME NEW r \in Runs, Eligible(r)',
           cancelled[r] => cancelled'[r],
           Pending(r)' \subseteq Pending(r),
           Active(r)' = Active(r),
           completed'[r] = <<>> /\ ~collecting'[r] => completed[r] = <<>> /\ ~collecting[r],
           quotaActive' = quotaActive
    PROVE  Eligible(r)
<1>1. Cardinality(Active(r)') = Cardinality(Active(r))
  OBVIOUS
<1> QED
  BY <1>1 DEF Eligible

(* A cancellation that removes no future frees no slot. *)
LEMMA CancelWithoutFutures ==
    ASSUME TypeOK, NEW C \in SUBSET Runs, CancelAndDispatch(C), dispatching' = "no"
    PROVE  /\ activeWorkers' = activeWorkers
           /\ quotaActive' = quotaActive
           /\ \A r \in Runs : Active(r)' = Active(r)
<1> DEFINE hit == {r \in C : ~cancelled[r]}
<1>1. Queued(hit) = {} /\ CancelLocked(C)
  BY DEF CancelAndDispatch
<1>2. Cardinality({}) = 0
  BY FS_EmptySet
<1>3. activeWorkers' = activeWorkers - Cardinality(Queued(hit))
  BY <1>1 DEF CancelLocked
<1>4. activeWorkers' = activeWorkers
  <2> HIDE DEF hit
  <2> QED
    BY <1>1, <1>2, <1>3 DEF TypeOK
<1>5. quotaActive' = [q \in Quotas |-> quotaActive[q] -
         Cardinality({p \in Queued(hit) : q \in QuotasOf[p[1]]})]
  BY <1>1 DEF CancelLocked
<1>6. \A q : Cardinality({p \in Queued(hit) : q \in QuotasOf[p[1]]}) = 0
  <2> HIDE DEF hit
  <2> TAKE q
  <2>1. {p \in Queued(hit) : q \in QuotasOf[p[1]]} = {}
    BY <1>1
  <2> QED
    BY <1>2, <2>1
<1>7. quotaActive' = quotaActive
  <2> HIDE DEF hit
  <2>1. \A q \in Quotas : quotaActive[q] \in Int /\ quotaActive[q] - 0 = quotaActive[q]
    BY DEF TypeOK
  <2>2. \A q \in Quotas : quotaActive'[q] = quotaActive[q]
    BY <1>5, <1>6, <2>1
  <2>3. quotaActive = [q \in Quotas |-> quotaActive[q]]
    BY DEF TypeOK
  <2>4. quotaActive' = [q \in Quotas |-> quotaActive'[q]]
    BY <1>5
  <2> QED
    BY <2>2, <2>3, <2>4
<1>8. \A r \in Runs, j \in Jobs : IsActive(r, j)' <=> IsActive(r, j)
  <2>1. jobs' = [r \in Runs |-> [j \in Jobs |->
                    CASE r \in hit /\ jobs[r][j] = "pending" -> "discarded"
                      [] r \in hit /\ jobs[r][j] = "queued" -> "done"
                      [] OTHER -> jobs[r][j]]]
    BY <1>1 DEF CancelLocked
  <2>2. \A r \in hit, j \in Jobs : jobs[r][j] # "queued"
    <3> SUFFICES ASSUME NEW r \in hit, NEW j \in Jobs, jobs[r][j] = "queued" PROVE FALSE
      OBVIOUS
    <3>1. <<r, j>> \in Queued(hit)
      BY DEF Queued
    <3> QED
      BY <1>1, <3>1
  <2> HIDE DEF hit
  <2> QED
    BY <2>1, <2>2 DEF IsActive
<1> QED
  BY <1>4, <1>7, <1>8 DEF Active

(* A step that leaves the lock free makes no job eligible and frees no     *)
(* place in the pool, unless it closes the scheduler.                      *)
KeepsBusy ==
    /\ runs' = runs
    /\ activeWorkers' = activeWorkers
    /\ closed' = closed \/ closed'
    /\ \A r \in Runs : Eligible(r)' => Eligible(r)

LEMMA BusyUntouched ==
    ASSUME UNCHANGED <<shared, account, completed, collecting, cancelled>>
    PROVE  KeepsBusy
BY DEF KeepsBusy, shared, account, Eligible, Pending, Active, IsActive

LEMMA CancelKeepsBusy ==
    ASSUME TypeOK, NEW C \in SUBSET Runs, CancelAndDispatch(C), dispatching' = "no",
           runs' = runs, closed' = closed \/ closed',
           \A r \in Runs \ C : completed'[r] = completed[r] /\ collecting'[r] = collecting[r]
    PROVE  KeepsBusy
<1>1. /\ activeWorkers' = activeWorkers
      /\ quotaActive' = quotaActive
      /\ \A r \in Runs : Active(r)' = Active(r)
  BY CancelWithoutFutures
<1>2. /\ \A r \in C : cancelled'[r]
      /\ \A r \in Runs : cancelled[r] => cancelled'[r]
      /\ \A r \in Runs : Pending(r)' \subseteq Pending(r)
  BY CancelLockedEffect DEF CancelAndDispatch
<1>3. ASSUME NEW r \in Runs, Eligible(r)' PROVE Eligible(r)
  <2>1. r \notin C
    BY <1>2, <1>3 DEF Eligible
  <2> QED
    BY <1>1, <1>2, <1>3, <2>1, NoNewlyEligible
<1> QED
  BY <1>1, <1>3 DEF KeepsBusy

LEMMA FreeStepsKeepBusy ==
    ASSUME TypeOK, WaitsUncollected, [Next]_vars, dispatching = "no", dispatching' = "no"
    PROVE  KeepsBusy
<1>1. ASSUME NEW r \in Runs, Caller(r) \/ Interrupt(r) PROVE KeepsBusy
  <2>1. CASE WakeCollect(r)
    <3>1. ASSUME NEW s \in Runs, Eligible(s)' PROVE Eligible(s)
      <4>1. /\ UNCHANGED <<jobs, cancelled, quotaActive>>
            /\ completed' = [completed EXCEPT ![r] = <<>>]
            /\ collecting' = [collecting EXCEPT ![r] = completed[r] # <<>>]
            /\ ~collecting[r]
        BY <2>1 DEF WakeCollect, account, WaitsUncollected
      <4>2. Pending(s)' = Pending(s) /\ Active(s)' = Active(s)
        BY <4>1 DEF Pending, Active, IsActive
      <4>3. completed'[s] = <<>> /\ ~collecting'[s] => completed[s] = <<>> /\ ~collecting[s]
        BY <4>1 DEF TypeOK
      <4> QED
        BY <3>1, <4>1, <4>2, <4>3, NoNewlyEligible
    <3> QED
      BY <2>1, <3>1 DEF WakeCollect, KeepsBusy, shared, account
  <2>2. CASE WakeCancelled(r) \/ FailCancel(r)
    <3>1. CancelAndDispatch({r}) /\ {r} \in SUBSET Runs /\ UNCHANGED <<runs, closed>>
      BY <2>2 DEF WakeCancelled, FailCancel, shared
    <3>2. \A s \in Runs \ {r} : completed'[s] = completed[s] /\ collecting'[s] = collecting[s]
      BY <2>2 DEF WakeCancelled, FailCancel, queues, TypeOK
    <3> QED
      BY <3>1, <3>2, CancelKeepsBusy
  <2>3. CASE Enter(r) \/ CollectOne(r) \/ Callback(r) \/ Drain(r) \/ Interrupt(r)
    BY <2>3, BusyUntouched DEF Enter, CollectOne, Callback, Drain, Interrupt, queues
  <2>4. CASE Register(r) \/ Remove(r)
    BY <2>4, BusyUntouched DEF Register, Remove, queues, shared
  <2>5. ~CollectEnd(r)
    BY DEF CollectEnd
  <2> QED
    BY <1>1, <2>1, <2>2, <2>3, <2>4, <2>5 DEF Caller
<1>2. ASSUME NEW r \in Runs, NEW j \in Jobs, Worker(r, j) PROVE KeepsBusy
  <2>1. TakeJob(r, j) \/ StartJob(r, j) \/ FinishJob(r, j)
    BY <1>2 DEF Worker, Complete
  <2>2. UNCHANGED <<runs, closed, activeWorkers, quotaActive, completed, collecting, cancelled>>
    BY <2>1 DEF TakeJob, StartJob, FinishJob, shared, queues
  <2>3. \A s \in Runs, k \in Jobs : /\ IsActive(s, k)' <=> IsActive(s, k)
                                    /\ jobs'[s][k] = "pending" => jobs[s][k] = "pending"
    BY <2>1 DEF TypeOK, TakeJob, StartJob, FinishJob, IsActive, JobStates
  <2>4. \A s \in Runs : Active(s)' = Active(s) /\ Pending(s)' \subseteq Pending(s)
    BY <2>3 DEF Active, Pending
  <2>5. \A s \in Runs : Eligible(s)' => Eligible(s)
    BY <2>2, <2>4, NoNewlyEligible
  <2> QED
    BY <2>2, <2>5 DEF KeepsBusy
<1>3. ~DispatchScan /\ ~DispatchPick
  BY DEF DispatchScan, DispatchPick
<1>4. ASSUME NEW e \in External, SetEvent(e) \/ CancelScope(e) PROVE KeepsBusy
  <2>1. {r \in Registered : e \in Scope(r)} \in SUBSET Runs
    BY RegisteredAreRuns DEF TypeOK
  <2>2. CASE SetEvent(e)
    BY <2>2, BusyUntouched DEF SetEvent, queues
  <2>3. CASE CancelScope(e)
    BY <2>1, <2>3, CancelKeepsBusy DEF CancelScope, shared, queues
  <2> QED
    BY <1>4, <2>2, <2>3
<1>5. CASE CloseBegin
  <2>1. Registered \in SUBSET Runs
    BY RegisteredAreRuns DEF TypeOK
  <2> QED
    BY <1>5, <2>1, CancelKeepsBusy DEF CloseBegin, queues
<1>6. CASE CloseEnd \/ Terminated \/ UNCHANGED vars
  BY <1>6, BusyUntouched DEF CloseEnd, Terminated, vars, queues
<1> QED
  BY <1>1, <1>2, <1>3, <1>4, <1>5, <1>6 DEF Next

ConservingInv == TypeOK /\ SleepersWait /\ WaitsUncollected /\ WorkConserving

LEMMA WorkConservingStep ==
    ASSUME ConservingInv, [Next]_vars, SleepersWait'
    PROVE  WorkConserving'
<1> SUFFICES ASSUME dispatching' = "no", ~closed', PoolHasRoom'
             PROVE  EligibleIndex' = {}
  BY DEF WorkConserving, SleepersWait, LockFree
<1>1. CASE dispatching = "no"
  <2>1. KeepsBusy
    BY <1>1, FreeStepsKeepBusy DEF ConservingInv
  <2>2. ~closed /\ PoolHasRoom
    BY <2>1 DEF KeepsBusy, PoolHasRoom
  <2>3. EligibleIndex = {}
    BY <1>1, <2>2 DEF ConservingInv, WorkConserving, LockFree
  <2>4. \A i \in 1..Len(runs) : runs[i] \in Runs
    BY RegisteredAreRuns DEF ConservingInv, TypeOK
  <2>5. EligibleIndex' = {i \in 1..Len(runs) : Eligible(runs[i])'}
    BY <2>1 DEF KeepsBusy, EligibleIndex, Eligible, Pending, Active, IsActive
  <2>6. \A i \in 1..Len(runs) : Eligible(runs[i])' => Eligible(runs[i])
    BY <2>1, <2>4 DEF KeepsBusy
  <2> QED
    BY <2>3, <2>5, <2>6 DEF EligibleIndex
<1>2. CASE dispatching # "no"
  <2>1. \A r \in Runs : ~CollectEnd(r) /\ ~Register(r) /\ ~Remove(r)
    BY <1>2 DEF CollectEnd, Register, Remove, LockFree
  <2>2. DispatchScan \/ DispatchPick
    BY <1>2 DEF Next, Caller, Enter, Register, WakeCollect, WakeCancelled, CollectOne,
         Callback, CollectEnd, Interrupt, FailCancel, Drain, Remove, Worker, TakeJob,
         StartJob, FinishJob, Complete, SetEvent, CancelScope, CloseBegin, CloseEnd,
         Terminated, LockFree, vars
  <2>3. ~DispatchScan
    BY DEF DispatchScan, PoolHasRoom, shared, account
  <2>4. EligibleIndex = {} /\ UNCHANGED <<runs, jobs, quotaActive, completed, collecting, cancelled>>
    BY <2>2, <2>3 DEF DispatchPick, account
  <2> QED
    BY <2>4 DEF EligibleIndex, Eligible, Pending, Active, IsActive
<1> QED
  BY <1>1, <1>2

(* For any number of runs, jobs, quotas and workers: when the scheduler's  *)
(* lock is free, no job could be dispatched (each change that makes one    *)
(* eligible ends in _dispatch_locked), and no drain sleeps through the end *)
(* of the jobs it waits for.                                               *)
THEOREM DispatchIsComplete == Spec => []WorkConserving
<1>1. Init => ConservingInv
  BY InitTyped DEF Init, ConservingInv, SleepersWait, WaitsUncollected, WorkConserving,
                   EligibleIndex
<1>2. ConservingInv /\ [Next]_vars => ConservingInv'
  BY TypeStep, SleepersStep, WaitsUncollectedStep, WorkConservingStep DEF ConservingInv
<1>3. ConservingInv => WorkConserving
  BY DEF ConservingInv
<1> QED
  BY <1>1, <1>2, <1>3, PTL DEF Spec

-----------------------------------------------------------------------------
(* How calls end. *)

(* A run is in the list once, from its registration to its removal, and    *)
(* has jobs in the pool only while it is in the list.                      *)
RegisteredOnce ==
    /\ \A i, k \in 1..Len(runs) : runs[i] = runs[k] => i = k
    /\ \A r \in Runs : pc[r] \in {"idle", "checked", "done"} => r \notin Registered
    /\ \A r \in Runs : Active(r) # {} => r \in Registered

(* A caller that has drained, or collected everything, gets no more jobs. *)
NothingLeft ==
    \A r \in Runs :
        /\ pc[r] = "drain" => cancelled[r]
        /\ pc[r] = "remove" => Active(r) = {} /\ (cancelled[r] \/ Pending(r) = {})

Elements(s) == {s[i] : i \in 1..Len(s)}
Distinct(s) == \A i, k \in 1..Len(s) : s[i] = s[k] => i = k

(* The completed jobs of a run are distinct jobs of its list, and each is  *)
(* in one place: completed, taken by the collector, or in the results.     *)
Delivered(r) ==
    /\ \A j \in Jobs : j > Total[r] => jobs[r][j] = "discarded"
    /\ Distinct(completed[r]) /\ Distinct(batch[r]) /\ Distinct(results[r])
    /\ Elements(completed[r]) \cap Elements(batch[r]) = {}
    /\ Elements(completed[r]) \cap Elements(results[r]) = {}
    /\ Elements(batch[r]) \cap Elements(results[r]) = {}
    /\ \A j \in Elements(completed[r]) \cup Elements(batch[r]) :
          jobs[r][j] = "done" /\ outcome[r][j] # "none"
    /\ \A j \in Elements(results[r]) : jobs[r][j] = "done" /\ outcome[r][j] = "ok"
    /\ \A j \in Jobs : jobs[r][j] = "finished" => outcome[r][j] # "none"

DeliveredOnce == \A r \in Runs : Delivered(r)

(* A call that is going to raise knows why; one that is not has collected  *)
(* everything.                                                             *)
RaisesForACause ==
    \A r \in Runs :
        /\ pc[r] \in {"fail", "drain"} => cause[r] # "none"
        /\ pc[r] \in {"remove", "done"} /\ cause[r] = "none" => AllCollected(r)

(* The causes a caller can have at each place. *)
CausesInOrder ==
    \A r \in Runs :
        /\ pc[r] \in {"idle", "checked"} => cause[r] = "none"
        /\ pc[r] \in {"wait", "collect", "callback"} => cause[r] \in {"none", "submit"}
        /\ pc[r] = "callback" \/ (pc[r] = "collect" /\ batch[r] # <<>>)
              => collecting[r] /\ cause[r] = "none"
        /\ cause[r] = "submit" => cancelled[r]

Reason(r) ==
    \/ closed
    \/ Scope(r) \cap signalled # {}
    \/ \E s \in Runs : Own[s] \in Scope(r) /\ OwnFailure(s)

(* Every set event, cancellation and outcome goes back to a request. *)
CancellationsTraced ==
    /\ \A e \in events : e \in signalled \/ \E s \in Runs : Own[s] = e /\ cancelled[s]
    /\ \A r \in Runs : cancelled[r] \/ cause[r] = "cancelled" => Reason(r)
    /\ \A r \in Runs, j \in Jobs : outcome[r][j] = "cancelled" => Reason(r)

OutcomeInv ==
    /\ TypeOK /\ RegisteredOnce /\ NothingLeft /\ DeliveredOnce /\ RaisesForACause
    /\ CausesInOrder /\ CancellationsTraced

LEMMA DistinctEmpty == Distinct(<<>>) /\ Elements(<<>>) = {}
BY DEF Distinct, Elements

LEMMA DistinctAppend ==
    ASSUME NEW S, NEW s \in Seq(S), NEW x \in S, Distinct(s), x \notin Elements(s)
    PROVE  /\ Distinct(Append(s, x))
           /\ Elements(Append(s, x)) = Elements(s) \cup {x}
<1> DEFINE t == Append(s, x)
<1>1. /\ Len(s) \in Nat /\ Len(t) = Len(s) + 1
      /\ \A i \in 1..Len(s) : t[i] = s[i]
      /\ t[Len(s) + 1] = x
  OBVIOUS
<1> HIDE DEF t
<1>2. Distinct(t)
  <2> SUFFICES ASSUME NEW i \in 1..Len(t), NEW k \in 1..Len(t), t[i] = t[k] PROVE i = k
    BY DEF Distinct
  <2>1. i \in 1..Len(s) \/ i = Len(s) + 1
    BY <1>1
  <2>2. k \in 1..Len(s) \/ k = Len(s) + 1
    BY <1>1
  <2>3. \A n \in 1..Len(s) : s[n] # x
    BY DEF Elements
  <2> QED
    BY <1>1, <2>1, <2>2, <2>3 DEF Distinct
<1>3. Elements(t) = Elements(s) \cup {x}
  <2>1. 1..Len(t) = 1..Len(s) \cup {Len(s) + 1}
    BY <1>1
  <2> QED
    BY <1>1, <2>1 DEF Elements
<1> QED
  BY <1>2, <1>3 DEF t

LEMMA DistinctTail ==
    ASSUME NEW S, NEW s \in Seq(S), s # <<>>, Distinct(s)
    PROVE  /\ Head(s) \in Elements(s)
           /\ Distinct(Tail(s))
           /\ Elements(Tail(s)) = Elements(s) \ {Head(s)}
<1> DEFINE t == Tail(s)
<1>1. /\ Len(s) \in Nat \ {0} /\ Len(t) = Len(s) - 1
      /\ \A i \in 1..Len(t) : t[i] = s[i + 1]
      /\ Head(s) = s[1]
  OBVIOUS
<1> HIDE DEF t
<1>2. Head(s) \in Elements(s)
  BY <1>1 DEF Elements
<1>3. Distinct(t)
  <2> SUFFICES ASSUME NEW i \in 1..Len(t), NEW k \in 1..Len(t), t[i] = t[k] PROVE i = k
    BY DEF Distinct
  <2>1. i + 1 \in 1..Len(s) /\ k + 1 \in 1..Len(s) /\ s[i + 1] = s[k + 1]
    BY <1>1
  <2>2. i + 1 = k + 1
    BY <2>1 DEF Distinct
  <2> QED
    BY <2>2
<1>4. Elements(t) = Elements(s) \ {Head(s)}
  <2>1. ASSUME NEW x \in Elements(t) PROVE x \in Elements(s) /\ x # Head(s)
    <3>1. PICK i \in 1..Len(t) : x = t[i]
      BY DEF Elements
    <3>2. i + 1 \in 1..Len(s) /\ 1 \in 1..Len(s) /\ i + 1 # 1 /\ x = s[i + 1]
      BY <1>1, <3>1
    <3> QED
      BY <1>1, <3>2 DEF Elements, Distinct
  <2>2. ASSUME NEW x \in Elements(s), x # Head(s) PROVE x \in Elements(t)
    <3>1. PICK i \in 1..Len(s) : x = s[i]
      BY DEF Elements
    <3>2. i - 1 \in 1..Len(t) /\ (i - 1) + 1 = i
      BY <1>1, <2>2, <3>1
    <3>3. x = t[i - 1]
      BY <1>1, <3>1, <3>2
    <3> QED
      BY <3>2, <3>3 DEF Elements
  <2> QED
    BY <2>1, <2>2
<1> QED
  BY <1>2, <1>3, <1>4 DEF t

(* Distinct members of 1..n: at most n, and all of them if there are n. *)
LEMMA DistinctFills ==
    ASSUME NEW S, NEW s \in Seq(S), NEW n \in Nat, Distinct(s), Elements(s) \subseteq 1..n
    PROVE  Len(s) <= n /\ (Len(s) >= n => Elements(s) = 1..n)
<1>1. Len(s) \in Nat /\ s \in [1..Len(s) -> 1..n]
  <2>1. Len(s) \in Nat /\ DOMAIN s = 1..Len(s) /\ s = [i \in 1..Len(s) |-> s[i]]
    OBVIOUS
  <2> QED
    BY <2>1 DEF Elements
<1>2. s \in Injection(1..Len(s), 1..n)
  BY <1>1 DEF Distinct, Injection, IsInjective
<1>3. /\ IsFiniteSet(1..n) /\ Cardinality(1..n) = n
      /\ Cardinality(1..Len(s)) = Len(s)
  <2>1. IsFiniteSet(1..n) /\ Cardinality(1..n) = IF 1 > n THEN 0 ELSE n - 1 + 1
    BY FS_Interval
  <2>2. Cardinality(1..Len(s)) = IF 1 > Len(s) THEN 0 ELSE Len(s) - 1 + 1
    BY <1>1, FS_Interval
  <2> QED
    BY <1>1, <2>1, <2>2
<1>4. /\ Cardinality(1..Len(s)) <= Cardinality(1..n)
      /\ Cardinality(1..Len(s)) = Cardinality(1..n) => s \in Surjection(1..Len(s), 1..n)
  BY <1>2, <1>3, FS_Injection
<1>5. Len(s) <= n
  BY <1>1, <1>3, <1>4
<1>6. ASSUME Len(s) >= n PROVE Elements(s) = 1..n
  <2>1. s \in Surjection(1..Len(s), 1..n)
    BY <1>1, <1>3, <1>4, <1>5, <1>6
  <2> QED
    BY <2>1 DEF Surjection, Elements
<1> QED
  BY <1>5, <1>6

(* The callers' steps that go through _cancel_locked, and all such steps.  *)
LEMMA CancellingSteps ==
    ASSUME TypeOK,
           \/ \E r \in Runs : WakeCancelled(r) \/ FailCancel(r)
           \/ DispatchScan /\ ~UNCHANGED account
           \/ \E i \in EligibleIndex : DispatchPick /\ SubmitFails(runs[i])
           \/ \E e \in External : CancelScope(e)
           \/ CloseBegin
    PROVE  \E C \in SUBSET Runs : CancelLocked(C)
<1>1. /\ Registered \in SUBSET Runs
      /\ \A i \in EligibleIndex : {runs[i]} \in SUBSET Runs
      /\ \A r \in Runs : {r} \in SUBSET Runs
      /\ {r \in Registered : IsCancelled(r)} \in SUBSET Runs
      /\ \A e \in External : {r \in Registered : e \in Scope(r)} \in SUBSET Runs
  BY RegisteredAreRuns DEF TypeOK, EligibleIndex
<1> QED
  BY <1>1 DEF WakeCancelled, FailCancel, DispatchScan, SubmitFails, CancelScope, CloseBegin,
              CancelAndDispatch

(* What a step may do to the jobs of a run: they only leave the pool,      *)
(* unless the dispatcher submits one.                                      *)
PoolShrinks == \A r \in Runs : Active(r)' \subseteq Active(r) /\ Pending(r)' \subseteq Pending(r)

Dispatches(i, j) ==
    /\ DispatchPick
    /\ i \in EligibleIndex
    /\ NextJob(runs[i], j)
    /\ Submit(runs[i], j) \/ SubmitFinished(runs[i], j)

LEMMA PoolSteps ==
    ASSUME TypeOK, [Next]_vars
    PROVE  PoolShrinks \/ \E i \in EligibleIndex, j \in Jobs : Dispatches(i, j)
<1>1. ASSUME UNCHANGED jobs PROVE PoolShrinks
  BY <1>1 DEF PoolShrinks, Active, Pending, IsActive
<1>2. ASSUME NEW C \in SUBSET Runs, CancelLocked(C) PROVE PoolShrinks
  BY <1>2, CancelLockedEffect DEF PoolShrinks
<1>3. ASSUME NEW r \in Runs, Caller(r) \/ Interrupt(r) PROVE PoolShrinks
  <2>1. CASE WakeCancelled(r) \/ FailCancel(r)
    BY <1>2, <2>1, CancellingSteps
  <2>2. CASE ~(WakeCancelled(r) \/ FailCancel(r))
    BY <1>1, <1>3, <2>2 DEF Caller, Enter, Register, WakeCollect, CollectOne, Callback,
         CollectEnd, Drain, Remove, Interrupt, account
  <2> QED
    BY <2>1, <2>2
<1>4. ASSUME NEW r \in Runs, NEW j \in Jobs, Worker(r, j) PROVE PoolShrinks
  <2>1. \A s \in Runs, k \in Jobs : /\ IsActive(s, k)' => IsActive(s, k)
                                    /\ jobs'[s][k] = "pending" => jobs[s][k] = "pending"
    <3>1. PICK x \in {"taken", "finished", "running", "done"} :
              IsActive(r, j) /\ jobs' = [jobs EXCEPT ![r][j] = x]
      BY <1>4 DEF Worker, TakeJob, StartJob, FinishJob, Complete, IsActive
    <3> QED
      BY <3>1 DEF TypeOK, IsActive, JobStates
  <2> QED
    BY <2>1 DEF PoolShrinks, Active, Pending
<1>5. CASE DispatchScan
  BY <1>1, <1>2, <1>5, CancellingSteps DEF account
<1>6. CASE DispatchPick
  <2>1. CASE \E i \in EligibleIndex : SubmitFails(runs[i])
    BY <1>2, <1>6, <2>1, CancellingSteps
  <2> QED
    BY <1>1, <1>6, <2>1 DEF DispatchPick, Dispatches, account
<1>7. ASSUME NEW e \in External, SetEvent(e) \/ CancelScope(e) PROVE PoolShrinks
  BY <1>1, <1>2, <1>7, CancellingSteps DEF SetEvent, account
<1>8. CASE CloseBegin
  BY <1>2, <1>8, CancellingSteps
<1>9. CASE CloseEnd \/ Terminated \/ UNCHANGED vars
  BY <1>1, <1>9 DEF CloseEnd, Terminated, vars, account
<1> QED
  BY <1>3, <1>4, <1>5, <1>6, <1>7, <1>8, <1>9 DEF Next

(* A dispatch touches the jobs of one registered run that is eligible. *)
LEMMA DispatchEffect ==
    ASSUME TypeOK, NEW i \in EligibleIndex, NEW j \in Jobs, Dispatches(i, j)
    PROVE  /\ runs[i] \in Registered /\ runs[i] \in Runs /\ Eligible(runs[i])
           /\ jobs[runs[i]][j] = "pending"
           /\ \A r \in Runs : r # runs[i] => Active(r)' = Active(r) /\ Pending(r)' = Pending(r)
           /\ UNCHANGED <<pc, runs, closed, cancelled, cause, signalled, events, batch, results>>
<1>1. runs[i] \in Registered /\ runs[i] \in Runs /\ Eligible(runs[i])
  BY RegisteredAreRuns DEF TypeOK, EligibleIndex, Registered
<1>2. jobs[runs[i]][j] = "pending"
  BY DEF Dispatches, NextJob, Pending
<1>3. UNCHANGED <<pc, runs, closed, cancelled, cause, signalled, events, batch, results>>
  BY DEF Dispatches, DispatchPick, Submit, SubmitFinished
<1>4. \A r \in Runs, k \in Jobs : r # runs[i] => jobs'[r][k] = jobs[r][k]
  BY <1>1 DEF Dispatches, Submit, SubmitFinished, TypeOK
<1>5. \A r \in Runs : r # runs[i] => Active(r)' = Active(r) /\ Pending(r)' = Pending(r)
  BY <1>4 DEF Active, IsActive, Pending
<1> QED
  BY <1>1, <1>2, <1>3, <1>5

(* _remove takes out one run and keeps the others. *)
LEMMA DistinctRemoveAt ==
    ASSUME NEW S, NEW s \in Seq(S), NEW i \in 1..Len(s), Distinct(s)
    PROVE  /\ Distinct(SubSeq(s, 1, i - 1) \o SubSeq(s, i + 1, Len(s)))
           /\ Elements(SubSeq(s, 1, i - 1) \o SubSeq(s, i + 1, Len(s))) = Elements(s) \ {s[i]}
<1> DEFINE before == SubSeq(s, 1, i - 1)
           after  == SubSeq(s, i + 1, Len(s))
           t == before \o after
           at(k) == IF k < i THEN k ELSE k + 1
<1>0. Len(s) \in Nat /\ i \in Nat /\ 1 <= i /\ i <= Len(s)
  OBVIOUS
<1>1. /\ before \in Seq(S) /\ Len(before) = i - 1 /\ \A k \in 1..(i - 1) : before[k] = s[k]
      /\ after \in Seq(S) /\ Len(after) = Len(s) - i
      /\ \A k \in 1..(Len(s) - i) : after[k] = s[i + k]
  OBVIOUS
<1> HIDE DEF before, after
<1>2. /\ Len(t) = Len(s) - 1
      /\ \A k \in 1..(Len(s) - 1) : t[k] = IF k <= i - 1 THEN before[k] ELSE after[k - (i - 1)]
  <2>1. /\ Len(t) = Len(before) + Len(after)
        /\ \A k \in 1..(Len(before) + Len(after)) :
              t[k] = IF k <= Len(before) THEN before[k] ELSE after[k - Len(before)]
    BY <1>1, ConcatProperties DEF t
  <2>2. Len(before) + Len(after) = Len(s) - 1
    BY <1>0, <1>1
  <2> QED
    BY <1>1, <2>1, <2>2
<1> HIDE DEF t
<1>3. \A k \in 1..(Len(s) - 1) : t[k] = s[at(k)] /\ at(k) \in 1..Len(s) /\ at(k) # i
  <2> TAKE k \in 1..(Len(s) - 1)
  <2>1. CASE k < i
    BY <1>0, <1>1, <1>2, <2>1
  <2>2. CASE ~(k < i)
    <3>1. k - (i - 1) \in 1..(Len(s) - i) /\ i + (k - (i - 1)) = k + 1
      BY <1>0, <2>2
    <3>2. t[k] = s[k + 1]
      BY <1>0, <1>1, <1>2, <2>2, <3>1
    <3> QED
      BY <1>0, <2>2, <3>2
  <2> QED
    BY <2>1, <2>2
<1>4. Distinct(t)
  <2> SUFFICES ASSUME NEW k \in 1..Len(t), NEW m \in 1..Len(t), t[k] = t[m] PROVE k = m
    BY DEF Distinct
  <2>1. k \in 1..(Len(s) - 1) /\ m \in 1..(Len(s) - 1)
    BY <1>2
  <2>2. at(k) = at(m)
    BY <1>3, <2>1 DEF Distinct
  <2> QED
    BY <1>0, <2>1, <2>2
<1>5. Elements(t) = Elements(s) \ {s[i]}
  <2>1. ASSUME NEW x \in Elements(t) PROVE x \in Elements(s) /\ x # s[i]
    <3>1. PICK k \in 1..(Len(s) - 1) : x = t[k]
      BY <1>2 DEF Elements
    <3>2. x = s[at(k)] /\ at(k) \in 1..Len(s) /\ at(k) # i
      BY <1>3, <3>1
    <3> HIDE DEF at
    <3> QED
      BY <3>2 DEF Elements, Distinct
  <2>2. ASSUME NEW x \in Elements(s), x # s[i] PROVE x \in Elements(t)
    <3>1. PICK k \in 1..Len(s) : x = s[k] /\ k # i
      BY <2>2 DEF Elements
    <3>2. PICK m \in 1..(Len(s) - 1) : at(m) = k
      <4>1. CASE k < i
        BY <1>0, <3>1, <4>1
      <4>2. CASE k > i
        <5>1. k - 1 \in 1..(Len(s) - 1) /\ at(k - 1) = k
          BY <1>0, <3>1, <4>2
        <5> QED
          BY <5>1
      <4> QED
        BY <1>0, <3>1, <4>1, <4>2
    <3>3. x = t[m]
      BY <1>3, <3>1, <3>2
    <3> QED
      BY <1>2, <3>3 DEF Elements
  <2> QED
    BY <2>1, <2>2
<1> QED
  BY <1>4, <1>5 DEF t, before, after

(* How the list of runs changes. *)
LEMMA RegistrationSteps ==
    ASSUME TypeOK, RegisteredOnce, [Next]_vars
    PROVE  \/ runs' = runs
           \/ \E r \in Runs : /\ pc[r] = "checked" /\ pc' = [pc EXCEPT ![r] = "wait"]
                              /\ Distinct(runs') /\ Registered' = Registered \cup {r}
           \/ \E r \in Runs : /\ pc[r] = "remove" /\ pc' = [pc EXCEPT ![r] = "done"]
                              /\ Distinct(runs') /\ Registered' = Registered \ {r}
<1>1. Distinct(runs) /\ Registered = Elements(runs)
  BY DEF RegisteredOnce, Distinct, Registered, Elements
<1>2. ASSUME NEW r \in Runs, Register(r), runs' # runs
      PROVE  /\ pc[r] = "checked" /\ pc' = [pc EXCEPT ![r] = "wait"]
             /\ Distinct(runs') /\ Registered' = Registered \cup {r}
  <2>1. pc[r] = "checked" /\ pc' = [pc EXCEPT ![r] = "wait"] /\ runs' = Append(runs, r)
    BY <1>2 DEF Register
  <2>2. r \notin Elements(runs)
    BY <1>1, <2>1 DEF RegisteredOnce
  <2>3. Distinct(Append(runs, r)) /\ Elements(Append(runs, r)) = Elements(runs) \cup {r}
    BY <1>1, <2>2, DistinctAppend DEF TypeOK
  <2> QED
    BY <1>1, <2>1, <2>3 DEF Registered, Elements
<1>3. ASSUME NEW r \in Runs, Remove(r), runs' # runs
      PROVE  /\ pc[r] = "remove" /\ pc' = [pc EXCEPT ![r] = "done"]
             /\ Distinct(runs') /\ Registered' = Registered \ {r}
  <2>1. pc[r] = "remove" /\ pc' = [pc EXCEPT ![r] = "done"]
    BY <1>3 DEF Remove
  <2>2. PICK i \in 1..Len(runs) :
           runs[i] = r /\ runs' = SubSeq(runs, 1, i - 1) \o SubSeq(runs, i + 1, Len(runs))
    BY <1>3 DEF Remove
  <2>3. Distinct(runs') /\ Elements(runs') = Elements(runs) \ {r}
    BY <1>1, <2>2, DistinctRemoveAt DEF TypeOK
  <2> QED
    BY <1>1, <2>1, <2>3 DEF Registered, Elements
<1>4. runs' # runs => \E r \in Runs : Register(r) \/ Remove(r)
  BY DEF Next, Caller, Enter, WakeCollect, WakeCancelled, CollectOne, Callback, CollectEnd,
         Interrupt, FailCancel, Drain, Worker, TakeJob, StartJob, FinishJob, Complete,
         DispatchScan, DispatchPick, SetEvent, CancelScope, CloseBegin, CloseEnd, Terminated,
         shared, vars
<1> QED
  BY <1>2, <1>3, <1>4

(* Only its own steps move a caller. *)
LEMMA CallerMoves ==
    ASSUME TypeOK, [Next]_vars, NEW r \in Runs, pc'[r] # pc[r]
    PROVE  Caller(r) \/ Interrupt(r)
<1>1. ASSUME NEW s \in Runs, Caller(s) \/ Interrupt(s),
             pc' = [pc EXCEPT ![s] = pc'[s]]
      PROVE  r = s
  BY <1>1 DEF TypeOK
<1>2. ASSUME NEW s \in Runs, Caller(s) \/ Interrupt(s)
      PROVE  pc' = [pc EXCEPT ![s] = pc'[s]]
  BY <1>2 DEF TypeOK, Caller, Enter, Register, WakeCollect, WakeCancelled, CollectOne,
       Callback, CollectEnd, Interrupt, FailCancel, Drain, Remove
<1>3. pc' = pc \/ \E s \in Runs : Caller(s) \/ Interrupt(s)
  BY DEF Next, Worker, TakeJob, StartJob, FinishJob, Complete, DispatchScan, DispatchPick,
         SetEvent, CancelScope, CloseBegin, CloseEnd, Terminated, vars
<1> QED
  BY <1>1, <1>2, <1>3

(* Where a caller can go in one step. *)
LEMMA CallerSteps ==
    ASSUME TypeOK, [Next]_vars, NEW r \in Runs, pc'[r] # pc[r]
    PROVE  \/ pc[r] = "idle" /\ pc'[r] \in {"checked", "done"}
           \/ pc[r] = "checked" /\ pc'[r] \in {"wait", "fail"}
           \/ pc[r] = "wait" /\ pc'[r] \in {"collect", "drain", "fail"}
           \/ pc[r] \in {"collect", "callback"}
                /\ pc'[r] \in {"callback", "collect", "fail", "wait", "remove"}
           \/ pc[r] = "fail" /\ pc'[r] = "drain"
           \/ pc[r] = "drain" /\ pc'[r] = "remove"
           \/ pc[r] = "remove" /\ pc'[r] = "done"
<1>1. CASE Enter(r) \/ Register(r) \/ WakeCollect(r) \/ WakeCancelled(r) \/ Interrupt(r)
  BY <1>1 DEF TypeOK, Enter, Register, WakeCollect, WakeCancelled, Interrupt
<1>2. CASE CollectOne(r) \/ Callback(r) \/ CollectEnd(r)
  BY <1>2 DEF TypeOK, CollectOne, Callback, CollectEnd
<1>3. CASE FailCancel(r) \/ Drain(r) \/ Remove(r)
  BY <1>3 DEF TypeOK, FailCancel, Drain, Remove
<1> QED
  BY <1>1, <1>2, <1>3, CallerMoves DEF Caller

LEMMA RegisteredOnceStep ==
    ASSUME TypeOK, RegisteredOnce, NothingLeft, [Next]_vars
    PROVE  RegisteredOnce'
<1>1. Distinct(runs')
  <2>1. Distinct(runs)
    BY DEF RegisteredOnce, Distinct
  <2> QED
    BY <2>1, RegistrationSteps
<1>2. ASSUME NEW r \in Runs, pc'[r] \in {"idle", "checked", "done"}
      PROVE  r \notin Registered'
  <2>1. CASE runs' = runs
    <3>1. Registered' = Registered
      BY <2>1 DEF Registered
    <3>2. CASE pc'[r] = pc[r]
      BY <1>2, <3>1, <3>2 DEF RegisteredOnce
    <3>3. CASE pc'[r] # pc[r] /\ pc[r] = "idle"
      BY <3>1, <3>3 DEF RegisteredOnce
    <3>4. CASE pc'[r] # pc[r] /\ pc[r] # "idle"
      <4>1. pc[r] = "remove" /\ pc'[r] = "done"
        BY <1>2, <3>4, CallerSteps
      <4>2. \A s \in Runs : Remove(s) => pc' = [pc EXCEPT ![s] = "done"]
        BY DEF Remove
      <4>3. \E s \in Runs : Remove(s)
        BY <4>1 DEF TypeOK, Next, Caller, Enter, Register, WakeCollect, WakeCancelled,
             CollectOne, Callback, CollectEnd, Interrupt, FailCancel, Drain, Worker, TakeJob,
             StartJob, FinishJob, Complete, DispatchScan, DispatchPick, SetEvent, CancelScope,
             CloseBegin, CloseEnd, Terminated, vars
      <4>4. Remove(r)
        BY <4>1, <4>2, <4>3 DEF TypeOK
      <4>5. ASSUME r \in Registered PROVE FALSE
        <5>1. PICK i \in 1..Len(runs) :
                 runs' = SubSeq(runs, 1, i - 1) \o SubSeq(runs, i + 1, Len(runs))
          BY <4>4, <4>5 DEF Remove
        <5>2. runs \in Seq(Runs) /\ Len(runs) \in Nat
          BY DEF TypeOK
        <5>3. Len(SubSeq(runs, 1, i - 1) \o SubSeq(runs, i + 1, Len(runs))) = Len(runs) - 1
          BY <5>2, RemoveAt
        <5>4. Len(runs) = Len(runs) - 1
          BY <2>1, <5>1, <5>3, Zenon
        <5> QED
          BY <5>2, <5>4
      <4> QED
        BY <3>1, <4>5
    <3> QED
      BY <3>2, <3>3, <3>4
  <2>2. ASSUME NEW s \in Runs, pc[s] = "checked", pc' = [pc EXCEPT ![s] = "wait"],
               Registered' = Registered \cup {s}
        PROVE  r \notin Registered'
    <3>1. r # s
      BY <1>2, <2>2 DEF TypeOK
    <3>2. pc'[r] = pc[r]
      BY <2>2, <3>1 DEF TypeOK
    <3> QED
      BY <1>2, <2>2, <3>1, <3>2 DEF RegisteredOnce
  <2>3. ASSUME NEW s \in Runs, pc' = [pc EXCEPT ![s] = "done"],
               Registered' = Registered \ {s}
        PROVE  r \notin Registered'
    <3>1. CASE r # s
      <4>1. pc'[r] = pc[r]
        BY <2>3, <3>1 DEF TypeOK
      <4> QED
        BY <1>2, <2>3, <4>1 DEF RegisteredOnce
    <3> QED
      BY <2>3, <3>1
  <2> QED
    BY <2>1, <2>2, <2>3, RegistrationSteps
<1>3. ASSUME NEW r \in Runs, Active(r)' # {} PROVE r \in Registered'
  <2>1. r \in Registered
    <3>1. CASE PoolShrinks
      BY <1>3, <3>1 DEF PoolShrinks, RegisteredOnce
    <3>2. ASSUME NEW i \in EligibleIndex, NEW j \in Jobs, Dispatches(i, j)
          PROVE  r \in Registered
      BY <1>3, <3>2, DispatchEffect DEF RegisteredOnce
    <3> QED
      BY <3>1, <3>2, PoolSteps
  <2>2. ASSUME NEW s \in Runs, pc[s] = "remove", Registered' = Registered \ {s}
        PROVE  r # s
    <3>1. Active(s) = {} /\ (cancelled[s] \/ Pending(s) = {})
      BY <2>2 DEF NothingLeft
    <3>2. CASE PoolShrinks
      BY <1>3, <3>1, <3>2 DEF PoolShrinks
    <3>3. ASSUME NEW i \in EligibleIndex, NEW j \in Jobs, Dispatches(i, j)
          PROVE  r # s
      <4>1. s # runs[i]
        BY <3>1, <3>3, DispatchEffect DEF Eligible
      <4> QED
        BY <1>3, <3>1, <3>3, <4>1, DispatchEffect
    <3> QED
      BY <3>2, <3>3, PoolSteps
  <2>3. runs' = runs => Registered' = Registered
    BY DEF Registered
  <2> QED
    BY <2>1, <2>2, <2>3, RegistrationSteps
<1> QED
  BY <1>1, <1>2, <1>3 DEF RegisteredOnce, Distinct

(* When as many results are there as jobs, every job is done. *)
LEMMA AllDelivered ==
    ASSUME TypeOK, NEW r \in Runs, Delivered(r)
    PROVE  /\ Len(results[r]) <= Total[r]
           /\ AllCollected(r) => /\ Elements(results[r]) = JobsOf(r)
                                 /\ Active(r) = {} /\ Pending(r) = {}
<1>1. Total[r] \in Nat /\ Total[r] <= MaxJobs /\ MaxJobs \in Nat /\ results[r] \in Seq(Jobs)
  BY ConstantsTyped DEF TypeOK
<1>2. Elements(results[r]) \subseteq 1..Total[r]
  <2> SUFFICES ASSUME NEW j \in Elements(results[r]) PROVE j \in 1..Total[r]
    OBVIOUS
  <2>1. j \in Jobs
    BY <1>1 DEF Elements
  <2>2. jobs[r][j] = "done"
    BY DEF Delivered
  <2>3. ~(j > Total[r])
    BY <2>1, <2>2 DEF Delivered
  <2> QED
    BY <1>1, <2>1, <2>3 DEF Jobs
<1>3. Len(results[r]) <= Total[r] /\ (Len(results[r]) >= Total[r] => Elements(results[r]) = 1..Total[r])
  BY <1>1, <1>2, DistinctFills DEF Delivered
<1>4. ASSUME AllCollected(r) PROVE Active(r) = {} /\ Pending(r) = {}
  <2>1. Elements(results[r]) = 1..Total[r]
    BY <1>3, <1>4 DEF AllCollected
  <2>2. \A j \in Jobs : jobs[r][j] \in {"done", "discarded"}
    <3> TAKE j \in Jobs
    <3>1. CASE j > Total[r]
      BY <3>1 DEF Delivered
    <3>2. CASE ~(j > Total[r])
      <4>1. j \in Elements(results[r])
        BY <1>1, <2>1, <3>2 DEF Jobs
      <4> QED
        BY <4>1 DEF Delivered
    <3> QED
      BY <3>1, <3>2
  <2> QED
    BY <2>2 DEF Active, IsActive, Pending
<1> QED
  BY <1>3, <1>4 DEF AllCollected, JobsOf

LEMMA CancelledStays ==
    ASSUME TypeOK, [Next]_vars
    PROVE  \A r \in Runs : cancelled[r] => cancelled'[r]
<1>1. ASSUME NEW C \in SUBSET Runs, CancelLocked(C)
      PROVE  \A r \in Runs : cancelled[r] => cancelled'[r]
  BY <1>1, CancelLockedEffect
<1>2. \/ UNCHANGED cancelled
      \/ \E r \in Runs : WakeCancelled(r) \/ FailCancel(r)
      \/ DispatchScan /\ \E C \in SUBSET Runs : CancelLocked(C)
      \/ \E i \in EligibleIndex : DispatchPick /\ SubmitFails(runs[i])
      \/ \E e \in External : CancelScope(e)
      \/ CloseBegin
  <2>1. {r \in Registered : IsCancelled(r)} \in SUBSET Runs
    BY RegisteredAreRuns DEF TypeOK
  <2> QED
    BY <2>1 DEF Next, Caller, Enter, Register, WakeCollect, CollectOne, Callback, CollectEnd,
         Interrupt, Drain, Remove, Worker, TakeJob, StartJob, FinishJob, Complete,
         DispatchScan, DispatchPick, Submit, SubmitFinished, SetEvent, CloseEnd, Terminated,
         vars
<1>3. CASE \E C \in SUBSET Runs : CancelLocked(C)
  BY <1>1, <1>3
<1> QED
  BY <1>2, <1>3, CancellingSteps

LEMMA NothingLeftStep ==
    ASSUME TypeOK, NothingLeft, DeliveredOnce, [Next]_vars
    PROVE  NothingLeft'
<1> SUFFICES ASSUME NEW r \in Runs
             PROVE  /\ pc'[r] = "drain" => cancelled'[r]
                    /\ pc'[r] = "remove" =>
                          Active(r)' = {} /\ (cancelled'[r] \/ Pending(r)' = {})
  BY DEF NothingLeft
<1>1. ASSUME pc'[r] = "drain" PROVE cancelled'[r]
  <2>1. CASE pc[r] = "drain"
    BY <2>1, CancelledStays DEF NothingLeft
  <2>2. CASE pc[r] # "drain"
    <3>1. \E s \in Runs : WakeCancelled(s) \/ FailCancel(s)
      BY <1>1, <2>2 DEF TypeOK, Next, Caller, Enter, Register, WakeCollect, CollectOne,
           Callback, CollectEnd, Interrupt, Drain, Remove, Worker, TakeJob, StartJob,
           FinishJob, Complete, DispatchScan, DispatchPick, SetEvent, CancelScope,
           CloseBegin, CloseEnd, Terminated, vars
    <3>2. WakeCancelled(r) \/ FailCancel(r)
      BY <1>1, <2>2, <3>1 DEF TypeOK, WakeCancelled, FailCancel
    <3>3. CancelLocked({r}) /\ {r} \in SUBSET Runs
      BY <3>2 DEF WakeCancelled, FailCancel, CancelAndDispatch
    <3> QED
      BY <3>3, CancelLockedEffect
  <2> QED
    BY <2>1, <2>2
<1>2. ASSUME pc'[r] = "remove"
      PROVE  Active(r)' = {} /\ (cancelled'[r] \/ Pending(r)' = {})
  <2>1. Active(r) = {} /\ (cancelled[r] \/ Pending(r) = {})
    <3>1. CASE pc[r] = "remove"
      BY <3>1 DEF NothingLeft
    <3>2. CASE pc[r] # "remove"
      <4>1. \E s \in Runs : CollectEnd(s) \/ Drain(s)
        BY <1>2, <3>2 DEF TypeOK, Next, Caller, Enter, Register, WakeCollect, WakeCancelled,
             CollectOne, Callback, FailCancel, Interrupt, Remove, Worker, TakeJob, StartJob,
             FinishJob, Complete, DispatchScan, DispatchPick, SetEvent, CancelScope,
             CloseBegin, CloseEnd, Terminated, vars
      <4>2. CASE Drain(r)
        BY <1>2, <3>2, <4>2 DEF TypeOK, Drain, Drained, NothingLeft
      <4>3. CASE CollectEnd(r)
        <5>1. AllCollected(r)
          BY <1>2, <4>3 DEF TypeOK, CollectEnd
        <5> QED
          BY <5>1, AllDelivered DEF DeliveredOnce
      <4>4. CollectEnd(r) \/ Drain(r)
        BY <1>2, <3>2, <4>1 DEF TypeOK, CollectEnd, Drain
      <4> QED
        BY <4>2, <4>3, <4>4
    <3> QED
      BY <3>1, <3>2
  <2>2. CASE PoolShrinks
    BY <2>1, <2>2, CancelledStays DEF PoolShrinks
  <2>3. ASSUME NEW i \in EligibleIndex, NEW j \in Jobs, Dispatches(i, j)
        PROVE  Active(r)' = {} /\ (cancelled'[r] \/ Pending(r)' = {})
    <3>1. r # runs[i]
      BY <2>1, <2>3, DispatchEffect DEF Eligible
    <3> QED
      BY <2>1, <2>3, <3>1, DispatchEffect
  <2> QED
    BY <2>2, <2>3, PoolSteps
<1> QED
  BY <1>1, <1>2

-----------------------------------------------------------------------------
(* Delivery.  A step that leaves the finished jobs and the lists of a run  *)
(* alone, or drops its completed list, keeps what has been delivered.      *)
LEMMA DeliveredKept ==
    ASSUME NEW r \in Runs, Delivered(r),
           completed'[r] = completed[r] \/ completed'[r] = <<>>,
           batch'[r] = batch[r], results'[r] = results[r],
           \A j \in Jobs : jobs[r][j] \in {"done", "discarded"} =>
               jobs'[r][j] = jobs[r][j] /\ outcome'[r][j] = outcome[r][j],
           \A j \in Jobs : jobs'[r][j] = "finished" => outcome'[r][j] # "none",
           completed[r] \in Seq(Jobs), batch[r] \in Seq(Jobs), results[r] \in Seq(Jobs)
    PROVE  Delivered(r)'
<1>1. /\ Elements(completed[r]) \subseteq Jobs
      /\ Elements(batch[r]) \subseteq Jobs
      /\ Elements(results[r]) \subseteq Jobs
  BY DEF Elements
<1>2. Elements(completed'[r]) \subseteq Elements(completed[r]) /\ Distinct(completed'[r])
  BY DistinctEmpty DEF Delivered
<1>3. /\ Elements(batch'[r]) = Elements(batch[r]) /\ Distinct(batch'[r])
      /\ Elements(results'[r]) = Elements(results[r]) /\ Distinct(results'[r])
  BY DEF Delivered
<1>4. \A j \in Jobs : j > Total[r] => jobs'[r][j] = "discarded"
  BY DEF Delivered
<1>5. \A j \in Elements(completed'[r]) \cup Elements(batch'[r]) :
         jobs'[r][j] = "done" /\ outcome'[r][j] # "none"
  BY <1>1, <1>2, <1>3 DEF Delivered
<1>6. \A j \in Elements(results'[r]) : jobs'[r][j] = "done" /\ outcome'[r][j] = "ok"
  BY <1>1, <1>3 DEF Delivered
<1>7. /\ Elements(completed'[r]) \cap Elements(batch'[r]) = {}
      /\ Elements(completed'[r]) \cap Elements(results'[r]) = {}
      /\ Elements(batch'[r]) \cap Elements(results'[r]) = {}
  BY <1>2, <1>3 DEF Delivered
<1> QED
  BY <1>2, <1>3, <1>4, <1>5, <1>6, <1>7 DEF Delivered, Elements, Distinct

(* Two steps hand a job over: _complete, also inside submit(), and the     *)
(* collector.                                                              *)
LEMMA HandedToCompleted ==
    ASSUME TypeOK, NEW r \in Runs, NEW j \in Jobs, Delivered(r), j <= Total[r],
           jobs[r][j] # "done", jobs'[r][j] = "done", outcome'[r][j] # "none",
           completed'[r] = Append(completed[r], j),
           batch'[r] = batch[r], results'[r] = results[r],
           \A k \in Jobs : k # j => jobs'[r][k] = jobs[r][k] /\ outcome'[r][k] = outcome[r][k]
    PROVE  Delivered(r)'
<1>1. completed[r] \in Seq(Jobs) /\ batch[r] \in Seq(Jobs) /\ results[r] \in Seq(Jobs)
  BY DEF TypeOK
<1>2. /\ Elements(completed[r]) \subseteq Jobs
      /\ Elements(batch[r]) \subseteq Jobs
      /\ Elements(results[r]) \subseteq Jobs
  BY <1>1 DEF Elements
<1>3. j \notin Elements(completed[r]) /\ j \notin Elements(batch[r]) /\ j \notin Elements(results[r])
  BY DEF Delivered
<1>4. Elements(completed'[r]) = Elements(completed[r]) \cup {j} /\ Distinct(completed'[r])
  BY <1>1, <1>3, DistinctAppend DEF Delivered
<1>5. /\ Elements(batch'[r]) = Elements(batch[r]) /\ Distinct(batch'[r])
      /\ Elements(results'[r]) = Elements(results[r]) /\ Distinct(results'[r])
  BY DEF Delivered
<1>6. \A k \in Elements(completed'[r]) \cup Elements(batch'[r]) :
         jobs'[r][k] = "done" /\ outcome'[r][k] # "none"
  BY <1>2, <1>3, <1>4, <1>5 DEF Delivered
<1>7. \A k \in Elements(results'[r]) : jobs'[r][k] = "done" /\ outcome'[r][k] = "ok"
  BY <1>2, <1>3, <1>5 DEF Delivered
<1>8. /\ Elements(completed'[r]) \cap Elements(batch'[r]) = {}
      /\ Elements(completed'[r]) \cap Elements(results'[r]) = {}
      /\ Elements(batch'[r]) \cap Elements(results'[r]) = {}
  BY <1>3, <1>4, <1>5 DEF Delivered
<1>9. \A k \in Jobs : k > Total[r] => jobs'[r][k] = "discarded"
  <2>1. j \in Int /\ Total[r] \in Int
    BY ConstantsTyped DEF Jobs
  <2> QED
    BY <2>1 DEF Delivered
<1>10. \A k \in Jobs : jobs'[r][k] = "finished" => outcome'[r][k] # "none"
  BY DEF Delivered
<1> QED
  BY <1>4, <1>5, <1>6, <1>7, <1>8, <1>9, <1>10 DEF Delivered, Elements, Distinct

LEMMA HandedToResults ==
    ASSUME TypeOK, NEW r \in Runs, Delivered(r), batch[r] # <<>>,
           completed'[r] = completed[r], batch'[r] = Tail(batch[r]),
           \/ results'[r] = results[r]
           \/ /\ outcome[r][Head(batch[r])] = "ok"
              /\ results'[r] = Append(results[r], Head(batch[r])),
           jobs'[r] = jobs[r], outcome'[r] = outcome[r]
    PROVE  Delivered(r)'
<1> DEFINE j == Head(batch[r])
<1>1. completed[r] \in Seq(Jobs) /\ batch[r] \in Seq(Jobs) /\ results[r] \in Seq(Jobs)
  BY DEF TypeOK
<1>2. /\ j \in Elements(batch[r]) /\ Distinct(batch'[r])
      /\ Elements(batch'[r]) = Elements(batch[r]) \ {j}
  BY <1>1, DistinctTail DEF Delivered
<1>3. j \notin Elements(completed[r]) /\ j \notin Elements(results[r]) /\ j \in Jobs
  BY <1>1, <1>2 DEF Delivered
<1>4. /\ Distinct(results'[r])
      /\ \/ Elements(results'[r]) = Elements(results[r])
         \/ Elements(results'[r]) = Elements(results[r]) \cup {j} /\ outcome[r][j] = "ok"
  <2>1. CASE results'[r] = results[r]
    BY <2>1 DEF Delivered
  <2>2. CASE outcome[r][j] = "ok" /\ results'[r] = Append(results[r], j)
    BY <1>1, <1>3, <2>2, DistinctAppend DEF Delivered
  <2> QED
    BY <2>1, <2>2
<1>5. Elements(completed'[r]) = Elements(completed[r]) /\ Distinct(completed'[r])
  BY DEF Delivered
<1> HIDE DEF j
<1>6. \A k \in Elements(completed'[r]) \cup Elements(batch'[r]) :
         jobs'[r][k] = "done" /\ outcome'[r][k] # "none"
  BY <1>2, <1>5 DEF Delivered
<1>7. \A k \in Elements(results'[r]) : jobs'[r][k] = "done" /\ outcome'[r][k] = "ok"
  BY <1>2, <1>4 DEF Delivered
<1>8. /\ Elements(completed'[r]) \cap Elements(batch'[r]) = {}
      /\ Elements(completed'[r]) \cap Elements(results'[r]) = {}
      /\ Elements(batch'[r]) \cap Elements(results'[r]) = {}
  BY <1>2, <1>3, <1>4, <1>5 DEF Delivered
<1>9. /\ \A k \in Jobs : k > Total[r] => jobs'[r][k] = "discarded"
      /\ \A k \in Jobs : jobs'[r][k] = "finished" => outcome'[r][k] # "none"
  BY DEF Delivered
<1> QED
  BY <1>2, <1>4, <1>5, <1>6, <1>7, <1>8, <1>9 DEF Delivered, Elements, Distinct

LEMMA DeliveredStep ==
    ASSUME TypeOK, DeliveredOnce, [Next]_vars
    PROVE  DeliveredOnce'
<1> SUFFICES ASSUME NEW s \in Runs PROVE Delivered(s)'
  BY DEF DeliveredOnce
<1>1. Delivered(s)
  BY DEF DeliveredOnce
<1>2. completed[s] \in Seq(Jobs) /\ batch[s] \in Seq(Jobs) /\ results[s] \in Seq(Jobs)
  BY DEF TypeOK
<1>3. ASSUME UNCHANGED <<jobs, outcome, completed, batch, results>> PROVE Delivered(s)'
  BY <1>1, <1>2, <1>3, DeliveredKept DEF Delivered
<1>4. ASSUME NEW C \in SUBSET Runs, CancelLocked(C), UNCHANGED <<outcome, batch, results>>,
             completed'[s] = completed[s] \/ completed'[s] = <<>>
      PROVE  Delivered(s)'
  <2>1. \A j \in Jobs : \/ jobs'[s][j] = jobs[s][j]
                        \/ /\ jobs[s][j] \in {"pending", "queued"}
                           /\ jobs'[s][j] \in {"discarded", "done"}
    <3> DEFINE hit == {r \in C : ~cancelled[r]}
    <3>1. jobs' = [r \in Runs |-> [j \in Jobs |->
                    CASE r \in hit /\ jobs[r][j] = "pending" -> "discarded"
                      [] r \in hit /\ jobs[r][j] = "queued" -> "done"
                      [] OTHER -> jobs[r][j]]]
      BY <1>4 DEF CancelLocked
    <3> HIDE DEF hit
    <3> QED
      BY <3>1
  <2>2. \A j \in Jobs : jobs[s][j] \in {"done", "discarded"} =>
               jobs'[s][j] = jobs[s][j] /\ outcome'[s][j] = outcome[s][j]
    BY <1>4, <2>1
  <2>3. \A j \in Jobs : jobs'[s][j] = "finished" => outcome'[s][j] # "none"
    BY <1>1, <1>4, <2>1 DEF Delivered
  <2> QED
    BY <1>1, <1>2, <1>4, <2>2, <2>3, DeliveredKept
<1>5. ASSUME NEW r \in Runs, WakeCollect(r) PROVE Delivered(s)'
  <2>1. UNCHANGED <<jobs, outcome, results>>
    BY <1>5 DEF WakeCollect, account
  <2>2. CASE s # r
    <3>1. completed'[s] = completed[s] /\ batch'[s] = batch[s]
      BY <1>5, <2>2 DEF WakeCollect, TypeOK
    <3> QED
      BY <1>1, <1>2, <2>1, <3>1, DeliveredKept DEF Delivered
  <2>3. CASE s = r
    <3>1. completed'[s] = <<>> /\ batch'[s] = completed[s]
      BY <1>5, <2>3 DEF WakeCollect, TypeOK
    <3>2. /\ Elements(completed'[s]) = {} /\ Distinct(completed'[s])
          /\ Elements(batch'[s]) = Elements(completed[s]) /\ Distinct(batch'[s])
          /\ Elements(results'[s]) = Elements(results[s]) /\ Distinct(results'[s])
      BY <1>1, <2>1, <3>1, DistinctEmpty DEF Delivered
    <3>3. \A k \in Elements(completed'[s]) \cup Elements(batch'[s]) :
             jobs'[s][k] = "done" /\ outcome'[s][k] # "none"
      BY <1>1, <2>1, <3>2 DEF Delivered
    <3>4. \A k \in Elements(results'[s]) : jobs'[s][k] = "done" /\ outcome'[s][k] = "ok"
      BY <1>1, <2>1, <3>2 DEF Delivered
    <3>5. /\ Elements(completed'[s]) \cap Elements(batch'[s]) = {}
          /\ Elements(completed'[s]) \cap Elements(results'[s]) = {}
          /\ Elements(batch'[s]) \cap Elements(results'[s]) = {}
      BY <1>1, <3>2 DEF Delivered
    <3>6. /\ \A k \in Jobs : k > Total[s] => jobs'[s][k] = "discarded"
          /\ \A k \in Jobs : jobs'[s][k] = "finished" => outcome'[s][k] # "none"
      BY <1>1, <2>1 DEF Delivered
    <3> QED
      BY <3>2, <3>3, <3>4, <3>5, <3>6 DEF Delivered, Elements, Distinct
  <2> QED
    BY <2>2, <2>3
<1>6. ASSUME NEW r \in Runs, CollectOne(r) PROVE Delivered(s)'
  <2>1. UNCHANGED <<jobs, outcome, completed>>
    BY <1>6 DEF CollectOne, account
  <2>2. CASE s # r
    <3>1. batch'[s] = batch[s] /\ results'[s] = results[s]
      BY <1>6, <2>2 DEF CollectOne, TypeOK
    <3> QED
      BY <1>1, <1>2, <2>1, <3>1, DeliveredKept DEF Delivered
  <2>3. CASE s = r
    <3>1. batch[s] # <<>> /\ batch'[s] = Tail(batch[s])
      BY <1>6, <2>3 DEF CollectOne, TypeOK
    <3>2. \/ results'[s] = results[s]
          \/ /\ outcome[s][Head(batch[s])] = "ok"
             /\ results'[s] = Append(results[s], Head(batch[s]))
      BY <1>6, <2>3 DEF CollectOne, TypeOK
    <3> QED
      BY <1>1, <2>1, <3>1, <3>2, HandedToResults
  <2> QED
    BY <2>2, <2>3
<1>7. ASSUME NEW r \in Runs, WakeCancelled(r) \/ FailCancel(r) PROVE Delivered(s)'
  <2>1. CancelLocked({r}) /\ {r} \in SUBSET Runs /\ UNCHANGED <<outcome, batch, results>>
    BY <1>7 DEF WakeCancelled, FailCancel, CancelAndDispatch, queues
  <2>2. completed'[s] = completed[s] \/ completed'[s] = <<>>
    BY <1>7 DEF WakeCancelled, FailCancel, queues, TypeOK
  <2> QED
    BY <1>4, <2>1, <2>2
<1>8. ASSUME NEW r \in Runs, Caller(r) \/ Interrupt(r),
             ~WakeCollect(r), ~CollectOne(r), ~WakeCancelled(r), ~FailCancel(r)
      PROVE  Delivered(s)'
  BY <1>3, <1>8 DEF Caller, Enter, Register, Callback, CollectEnd, Drain, Remove, Interrupt,
                    account, queues
<1>9. ASSUME NEW r \in Runs, NEW j \in Jobs, TakeJob(r, j) \/ StartJob(r, j) \/ FinishJob(r, j)
      PROVE  Delivered(s)'
  <2>1. UNCHANGED <<completed, batch, results>>
    BY <1>9 DEF TakeJob, StartJob, FinishJob, queues
  <2>2. \A k \in Jobs : jobs[s][k] \in {"done", "discarded"} =>
               jobs'[s][k] = jobs[s][k] /\ outcome'[s][k] = outcome[s][k]
    BY <1>9 DEF TakeJob, StartJob, FinishJob, TypeOK
  <2>3. \A k \in Jobs : jobs'[s][k] = "finished" => outcome'[s][k] # "none"
    <3>1. \A k \in Jobs : s # r \/ k # j =>
               jobs'[s][k] = jobs[s][k] /\ outcome'[s][k] = outcome[s][k]
      <4>1. CASE TakeJob(r, j)
        BY <4>1 DEF TakeJob, TypeOK
      <4>2. CASE StartJob(r, j)
        BY <4>2 DEF StartJob, TypeOK
      <4>3. CASE FinishJob(r, j)
        BY <4>3 DEF FinishJob, TypeOK
      <4> QED
        BY <1>9, <4>1, <4>2, <4>3
    <3>2. jobs'[r][j] = "finished" => outcome'[r][j] # "none"
      <4>1. CASE TakeJob(r, j)
        BY <4>1 DEF TakeJob, TypeOK
      <4>2. CASE StartJob(r, j)
        BY <4>2 DEF StartJob, TypeOK
      <4>3. CASE FinishJob(r, j)
        <5>1. PICK o \in PossibleOutcomes(r) : outcome' = [outcome EXCEPT ![r][j] = o]
          BY <4>3 DEF FinishJob
        <5>2. o # "none"
          BY DEF PossibleOutcomes
        <5>3. outcome'[r][j] = o
          BY <5>1 DEF TypeOK
        <5> QED
          BY <5>2, <5>3
      <4> QED
        BY <1>9, <4>1, <4>2, <4>3
    <3> QED
      BY <1>1, <3>1, <3>2 DEF Delivered
  <2> QED
    BY <1>1, <1>2, <2>1, <2>2, <2>3, DeliveredKept
<1>10. ASSUME NEW r \in Runs, NEW j \in Jobs, Complete(r, j) PROVE Delivered(s)'
  <2>1. UNCHANGED <<outcome, batch, results>> /\ jobs[r][j] = "finished"
    BY <1>10 DEF Complete
  <2>2. \A k \in Jobs : s # r \/ k # j => jobs'[s][k] = jobs[s][k]
    BY <1>10 DEF Complete, TypeOK
  <2>3. jobs'[r][j] = "done"
    BY <1>10 DEF Complete, TypeOK
  <2>4. CASE s # r \/ cancelled[r]
    <3>1. completed'[s] = completed[s]
      BY <1>10, <2>4 DEF Complete, TypeOK
    <3>2. \A k \in Jobs : jobs[s][k] \in {"done", "discarded"} => jobs'[s][k] = jobs[s][k]
      BY <2>1, <2>2
    <3>3. \A k \in Jobs : jobs'[s][k] = "finished" => jobs[s][k] = "finished"
      BY <2>1, <2>2, <2>3
    <3>4. \A k \in Jobs : jobs'[s][k] = "finished" => outcome'[s][k] # "none"
      BY <1>1, <2>1, <3>3 DEF Delivered
    <3> QED
      BY <1>1, <1>2, <2>1, <3>1, <3>2, <3>4, DeliveredKept
  <2>5. CASE s = r /\ ~cancelled[r]
    <3>1. completed'[r] = Append(completed[r], j)
      BY <1>10, <2>5 DEF Complete, TypeOK
    <3>2. j <= Total[r] /\ outcome[r][j] # "none"
      <4>1. j \in Int /\ Total[r] \in Int
        BY ConstantsTyped DEF Jobs
      <4> QED
        BY <1>1, <2>1, <2>5, <4>1 DEF Delivered
    <3> QED
      BY <1>1, <2>1, <2>2, <2>3, <2>5, <3>1, <3>2, HandedToCompleted
  <2> QED
    BY <2>4, <2>5
<1>11. CASE DispatchScan
  <2>1. {r \in Registered : IsCancelled(r)} \in SUBSET Runs
    BY RegisteredAreRuns DEF TypeOK
  <2> QED
    BY <1>3, <1>4, <1>11, <2>1 DEF DispatchScan, account, queues
<1>12. CASE DispatchPick
  <2>1. \A i \in EligibleIndex : runs[i] \in Runs
    BY RegisteredAreRuns DEF TypeOK, EligibleIndex
  <2>2. ASSUME NEW i \in EligibleIndex, SubmitFails(runs[i]) PROVE Delivered(s)'
    <3>1. {runs[i]} \in SUBSET Runs
      BY <2>1
    <3> QED
      BY <1>4, <1>12, <2>2, <3>1 DEF DispatchPick, SubmitFails
  <2>3. ASSUME NEW i \in EligibleIndex, NEW j \in Jobs, NextJob(runs[i], j), Submit(runs[i], j)
        PROVE  Delivered(s)'
    <3>1. UNCHANGED <<outcome, completed, batch, results>>
      BY <1>12, <2>3 DEF DispatchPick, Submit
    <3>2. /\ \A k \in Jobs : jobs[s][k] \in {"done", "discarded"} => jobs'[s][k] = jobs[s][k]
          /\ \A k \in Jobs : jobs'[s][k] = "finished" => jobs[s][k] = "finished"
      BY <2>1, <2>3 DEF Submit, NextJob, Pending, TypeOK
    <3>3. \A k \in Jobs : jobs'[s][k] = "finished" => outcome'[s][k] # "none"
      BY <1>1, <3>1, <3>2 DEF Delivered
    <3> QED
      BY <1>1, <1>2, <3>1, <3>2, <3>3, DeliveredKept
  <2>4. ASSUME NEW i \in EligibleIndex, NEW j \in Jobs, NextJob(runs[i], j),
               SubmitFinished(runs[i], j)
        PROVE  Delivered(s)'
    <3> DEFINE r == runs[i]
    <3>1. r \in Runs /\ jobs[r][j] = "pending"
      BY <2>1, <2>4 DEF NextJob, Pending
    <3>2. UNCHANGED <<batch, results>>
      BY <1>12 DEF DispatchPick
    <3>3. PICK o \in {"ok", "error", "cancelled"} : outcome' = [outcome EXCEPT ![r][j] = o]
      BY <2>4 DEF SubmitFinished, PossibleOutcomes
    <3>4. /\ jobs' = [jobs EXCEPT ![r][j] = "done"]
          /\ completed' = [completed EXCEPT ![r] = Append(@, j)]
      BY <2>4 DEF SubmitFinished
    <3> HIDE DEF r
    <3>5. CASE s # r
      <4>1. jobs'[s] = jobs[s] /\ outcome'[s] = outcome[s] /\ completed'[s] = completed[s]
        BY <3>1, <3>3, <3>4, <3>5 DEF TypeOK
      <4> QED
        BY <1>1, <1>2, <3>2, <4>1, DeliveredKept DEF Delivered
    <3>6. CASE s = r
      <4>1. jobs'[r][j] = "done" /\ outcome'[r][j] # "none" /\ completed'[r] = Append(completed[r], j)
        BY <3>1, <3>3, <3>4 DEF TypeOK
      <4>2. \A k \in Jobs : k # j => jobs'[r][k] = jobs[r][k] /\ outcome'[r][k] = outcome[r][k]
        BY <3>1, <3>3, <3>4 DEF TypeOK
      <4>3. j <= Total[r]
        <5>1. j \in Int /\ Total[r] \in Int
          BY <3>1, ConstantsTyped DEF Jobs
        <5> QED
          BY <1>1, <3>1, <3>6, <5>1 DEF Delivered
      <4> QED
        BY <1>1, <3>1, <3>2, <3>6, <4>1, <4>2, <4>3, HandedToCompleted
    <3> QED
      BY <3>5, <3>6
  <2> QED
    BY <1>3, <1>12, <2>2, <2>3, <2>4 DEF DispatchPick, account
<1>13. ASSUME NEW e \in External, SetEvent(e) \/ CancelScope(e) PROVE Delivered(s)'
  <2>1. {r \in Registered : e \in Scope(r)} \in SUBSET Runs
    BY RegisteredAreRuns DEF TypeOK
  <2> QED
    BY <1>3, <1>4, <1>13, <2>1 DEF SetEvent, CancelScope, CancelAndDispatch, account, queues
<1>14. CASE CloseBegin
  <2>1. Registered \in SUBSET Runs
    BY RegisteredAreRuns DEF TypeOK
  <2> QED
    BY <1>4, <1>14, <2>1 DEF CloseBegin, CancelAndDispatch, queues
<1>15. CASE CloseEnd \/ Terminated \/ UNCHANGED vars
  BY <1>3, <1>15 DEF CloseEnd, Terminated, vars, account, queues
<1> QED
  BY <1>5, <1>6, <1>7, <1>8, <1>9, <1>10, <1>11, <1>12, <1>13, <1>14, <1>15 DEF Next, Caller, Worker

-----------------------------------------------------------------------------
(* Why calls end. *)

(* What belongs to a caller changes in its own steps only, but for the     *)
(* error of a failed submission, which the dispatcher stores.              *)
LEMMA CallerLocal ==
    ASSUME TypeOK, [Next]_vars, NEW s \in Runs, ~Caller(s), ~Interrupt(s)
    PROVE  /\ pc'[s] = pc[s] /\ batch'[s] = batch[s] /\ collecting'[s] = collecting[s]
           /\ results'[s] = results[s]
           /\ \/ cause'[s] = cause[s]
              \/ DispatchPick /\ \E i \in EligibleIndex : runs[i] = s /\ SubmitFails(s)
<1>1. ASSUME NEW r \in Runs, Caller(r) \/ Interrupt(r)
      PROVE  /\ pc'[s] = pc[s] /\ batch'[s] = batch[s] /\ collecting'[s] = collecting[s]
             /\ results'[s] = results[s] /\ cause'[s] = cause[s]
  <2>1. r # s
    BY <1>1
  <2> QED
    BY <1>1, <2>1 DEF TypeOK, Caller, Enter, Register, WakeCollect, WakeCancelled, CollectOne,
         Callback, CollectEnd, Interrupt, FailCancel, Drain, Remove, queues
<1>2. CASE DispatchPick
  <2>1. ASSUME NEW i \in EligibleIndex, SubmitFails(runs[i]), runs[i] # s
        PROVE  cause'[s] = cause[s]
    BY <2>1 DEF SubmitFails, TypeOK
  <2>2. cause' = cause \/ \E i \in EligibleIndex : SubmitFails(runs[i])
    BY <1>2 DEF DispatchPick, Submit, SubmitFinished
  <2> QED
    BY <1>2, <2>1, <2>2 DEF DispatchPick
<1>3. ASSUME ~DispatchPick, ~(\E r \in Runs : Caller(r) \/ Interrupt(r))
      PROVE  UNCHANGED <<pc, batch, collecting, results, cause>>
  BY <1>3 DEF Next, Worker, TakeJob, StartJob, FinishJob, Complete, DispatchScan, SetEvent,
       CancelScope, CloseBegin, CloseEnd, Terminated, vars, queues
<1> QED
  BY <1>1, <1>2, <1>3

LEMMA RaisesForACauseStep ==
    ASSUME TypeOK, RaisesForACause, CausesInOrder, [Next]_vars
    PROVE  RaisesForACause'
<1> SUFFICES ASSUME NEW r \in Runs
             PROVE  /\ pc'[r] \in {"fail", "drain"} => cause'[r] # "none"
                    /\ pc'[r] \in {"remove", "done"} /\ cause'[r] = "none" =>
                          AllCollected(r)'
  BY DEF RaisesForACause
<1>1. results[r] \in Seq(Jobs) /\ Total[r] \in Nat
  BY ConstantsTyped DEF TypeOK
<1>2. CASE ~Caller(r) /\ ~Interrupt(r)
  <2>1. pc'[r] = pc[r] /\ results'[r] = results[r]
    BY <1>2, CallerLocal
  <2>2. cause'[r] = "none" => cause[r] = "none"
    <3>1. ASSUME NEW i \in EligibleIndex, runs[i] = r, SubmitFails(r) PROVE cause'[r] # "none"
      BY <3>1 DEF SubmitFails, TypeOK
    <3> QED
      BY <1>2, <3>1, CallerLocal
  <2> QED
    BY <2>1, <2>2 DEF RaisesForACause, AllCollected
<1>3. CASE Enter(r)
  <2>1. cause'[r] = "none" /\ pc'[r] = "done" => Total[r] = 0
    BY <1>3 DEF Enter, TypeOK
  <2>2. pc'[r] \in {"checked", "done"} /\ results' = results
    BY <1>3 DEF Enter, TypeOK
  <2> QED
    BY <1>1, <2>1, <2>2 DEF AllCollected
<1>4. CASE Register(r) \/ WakeCollect(r) \/ WakeCancelled(r) \/ Interrupt(r)
  BY <1>4 DEF Register, WakeCollect, WakeCancelled, Interrupt, TypeOK
<1>5. CASE CollectOne(r) \/ Callback(r)
  BY <1>5 DEF CollectOne, Callback, TypeOK
<1>6. CASE CollectEnd(r)
  BY <1>6 DEF CollectEnd, AllCollected, TypeOK
<1>7. CASE FailCancel(r) \/ Drain(r) \/ Remove(r)
  BY <1>7 DEF FailCancel, Drain, Remove, RaisesForACause, AllCollected, TypeOK
<1> QED
  BY <1>2, <1>3, <1>4, <1>5, <1>6, <1>7 DEF Caller

LEMMA CausesInOrderStep ==
    ASSUME TypeOK, RegisteredOnce, CausesInOrder, [Next]_vars
    PROVE  CausesInOrder'
<1> SUFFICES ASSUME NEW r \in Runs
             PROVE  /\ pc'[r] \in {"idle", "checked"} => cause'[r] = "none"
                    /\ pc'[r] \in {"wait", "collect", "callback"} => cause'[r] \in {"none", "submit"}
                    /\ pc'[r] = "callback" \/ (pc'[r] = "collect" /\ batch'[r] # <<>>)
                          => collecting'[r] /\ cause'[r] = "none"
                    /\ cause'[r] = "submit" => cancelled'[r]
  BY DEF CausesInOrder
<1>0. cancelled[r] => cancelled'[r]
  BY CancelledStays
<1>1. CASE ~Caller(r) /\ ~Interrupt(r)
  <2>1. pc'[r] = pc[r] /\ batch'[r] = batch[r] /\ collecting'[r] = collecting[r]
    BY <1>1, CallerLocal
  <2>2. CASE cause'[r] = cause[r]
    BY <1>0, <2>1, <2>2 DEF CausesInOrder
  <2>3. ASSUME NEW i \in EligibleIndex, runs[i] = r, SubmitFails(r)
        PROVE  /\ cause'[r] = IF cause[r] = "none" THEN "submit" ELSE cause[r]
               /\ cancelled'[r] /\ ~collecting[r] /\ r \in Registered
    <3>1. CancelLocked({r}) /\ {r} \in SUBSET Runs
      BY <2>3 DEF SubmitFails
    <3>2. cancelled'[r]
      BY <3>1, CancelLockedEffect
    <3> QED
      BY <2>3, <3>2 DEF SubmitFails, EligibleIndex, Eligible, Registered, TypeOK
  <2>4. pc[r] \notin {"idle", "checked"} \/ r \notin Registered
    BY DEF RegisteredOnce
  <2> QED
    BY <1>0, <1>1, <2>1, <2>2, <2>3, <2>4, CallerLocal DEF CausesInOrder
<1>2. CASE Enter(r)
  BY <1>2 DEF Enter, TypeOK
<1>3. CASE Register(r)
  BY <1>3 DEF Register, CausesInOrder, TypeOK
<1>4. CASE WakeCollect(r)
  <2>1. cause[r] = "none" /\ cause' = cause /\ pc'[r] = "collect"
    BY <1>4 DEF WakeCollect, Stopped, CausesInOrder, TypeOK
  <2>2. batch'[r] # <<>> => collecting'[r]
    BY <1>4 DEF WakeCollect, TypeOK
  <2> QED
    BY <2>1, <2>2
<1>5. CASE WakeCancelled(r)
  BY <1>0, <1>5 DEF WakeCancelled, CausesInOrder, TypeOK
<1>6. CASE CollectOne(r)
  <2>1. collecting[r] /\ cause[r] = "none" /\ collecting' = collecting
    BY <1>6 DEF CollectOne, CausesInOrder
  <2> QED
    BY <1>6, <2>1 DEF CollectOne, TypeOK
<1>7. CASE Callback(r)
  BY <1>7 DEF Callback, CausesInOrder, TypeOK, queues
<1>8. CASE CollectEnd(r) \/ Interrupt(r) \/ FailCancel(r) \/ Drain(r) \/ Remove(r)
  BY <1>0, <1>8 DEF CollectEnd, Interrupt, FailCancel, Drain, Remove, CausesInOrder, TypeOK
<1> QED
  BY <1>1, <1>2, <1>3, <1>4, <1>5, <1>6, <1>7, <1>8 DEF Caller

(* A run that observes a set event was asked to stop: whoever set it, a    *)
(* request reached it, and by ScopesNested it reached this run too.        *)
LEMMA StoppedHasReason ==
    ASSUME CancellationsTraced, NEW r \in Runs, Stopped(r)
    PROVE  Reason(r)
<1>1. CASE cancelled[r]
  BY <1>1 DEF CancellationsTraced
<1>2. CASE IsCancelled(r)
  <2>1. PICK e \in events : e \in Scope(r)
    BY <1>2 DEF IsCancelled
  <2>2. CASE e \in signalled
    BY <2>1, <2>2 DEF Reason
  <2>3. ASSUME NEW s \in Runs, Own[s] = e, cancelled[s] PROVE Reason(r)
    <3>1. Reason(s)
      BY <2>3 DEF CancellationsTraced
    <3>2. Scope(s) \subseteq Scope(r)
      BY <2>1, <2>3, ScopesNested
    <3> QED
      BY <3>1, <3>2 DEF Reason
  <2> QED
    BY <2>1, <2>2, <2>3 DEF CancellationsTraced
<1> QED
  BY <1>1, <1>2 DEF Stopped

(* A failure is not forgotten. *)
LEMMA FailureStays ==
    ASSUME TypeOK, CausesInOrder, [Next]_vars, NEW r \in Runs, OwnFailure(r)
    PROVE  OwnFailure(r)'
<1>0. cause[r] \in {"worker", "callback", "interrupt", "submit", "closed"}
  BY DEF OwnFailure
<1>1. CASE ~Caller(r) /\ ~Interrupt(r)
  <2>1. ASSUME SubmitFails(r) PROVE cause'[r] = cause[r]
    BY <1>0, <2>1 DEF SubmitFails, TypeOK
  <2>2. cause'[r] = cause[r]
    BY <1>1, <2>1, CallerLocal
  <2> QED
    BY <2>2 DEF OwnFailure
<1>2. ~Enter(r) /\ ~Register(r) /\ ~Callback(r)
  BY <1>0 DEF Enter, Register, Callback, CausesInOrder
<1>3. ~CollectOne(r)
  BY <1>0 DEF CollectOne, CausesInOrder
<1>4. CASE WakeCancelled(r)
  BY <1>0, <1>4 DEF WakeCancelled, CausesInOrder, OwnFailure, TypeOK
<1>5. CASE Interrupt(r)
  BY <1>5 DEF Interrupt, OwnFailure, TypeOK
<1>6. CASE WakeCollect(r) \/ CollectEnd(r) \/ FailCancel(r) \/ Drain(r) \/ Remove(r)
  BY <1>6 DEF WakeCollect, CollectEnd, FailCancel, Drain, Remove, OwnFailure
<1> QED
  BY <1>1, <1>2, <1>3, <1>4, <1>5, <1>6 DEF Caller

LEMMA RequestsStay ==
    ASSUME TypeOK, [Next]_vars
    PROVE  (closed => closed') /\ signalled \subseteq signalled'
<1>1. ~CloseBegin => closed' = closed
  BY DEF Next, Caller, Enter, Register, WakeCollect, WakeCancelled, CollectOne, Callback,
       CollectEnd, Interrupt, FailCancel, Drain, Remove, Worker, TakeJob, StartJob, FinishJob,
       Complete, DispatchScan, DispatchPick, SetEvent, CancelScope, CloseEnd, Terminated,
       shared, vars
<1>2. CloseBegin => closed'
  BY DEF CloseBegin
<1>3. signalled' = signalled \/ \E e \in External : SetEvent(e)
  BY DEF Next, Caller, Enter, Register, WakeCollect, WakeCancelled, CollectOne, Callback,
       CollectEnd, Interrupt, FailCancel, Drain, Remove, Worker, TakeJob, StartJob, FinishJob,
       Complete, DispatchScan, DispatchPick, CancelScope, CloseBegin, CloseEnd, Terminated, vars
<1> QED
  BY <1>1, <1>2, <1>3 DEF SetEvent

LEMMA ReasonStays ==
    ASSUME TypeOK, CausesInOrder, [Next]_vars, NEW r \in Runs, Reason(r)
    PROVE  Reason(r)'
<1>1. CASE closed
  BY <1>1, RequestsStay DEF Reason
<1>2. CASE Scope(r) \cap signalled # {}
  BY <1>2, RequestsStay DEF Reason, Scope
<1>3. ASSUME NEW s \in Runs, Own[s] \in Scope(r), OwnFailure(s) PROVE Reason(r)'
  BY <1>3, FailureStays DEF Reason, Scope
<1> QED
  BY <1>1, <1>2, <1>3 DEF Reason

(* The runs a step cancels are the ones of C, and each has a reason. *)
CancelsFor(C) == CancelLocked(C) /\ \A r \in C : Reason(r)'

LEMMA CancelledWithReason ==
    ASSUME TypeOK, RaisesForACause, CausesInOrder, CancellationsTraced, [Next]_vars
    PROVE  \/ UNCHANGED <<cancelled, events>>
           \/ \E C \in SUBSET Runs : CancelsFor(C)
           \/ /\ UNCHANGED cancelled
              /\ \E e \in Events : events' = events \cup {e} /\ e \in signalled'
<1>1. \A r \in Runs : Stopped(r) => Reason(r)'
  BY StoppedHasReason, ReasonStays
<1>2. \A r \in Runs : cause[r] = "cancelled" => Reason(r)'
  BY ReasonStays DEF CancellationsTraced
<1>3. \A r \in Runs : OwnFailure(r)' => Reason(r)'
  BY DEF Reason, Scope
<1>4. \A r \in Runs : cause[r] # "none" => Reason(r)'
  <2> SUFFICES ASSUME NEW r \in Runs, cause[r] # "none" PROVE Reason(r)'
    OBVIOUS
  <2>1. cause[r] = "cancelled" \/ OwnFailure(r)
    BY DEF TypeOK, Causes, OwnFailure
  <2> QED
    BY <1>2, <1>3, <2>1, FailureStays
<1>5. ASSUME NEW r \in Runs, WakeCancelled(r) \/ FailCancel(r)
      PROVE  \E C \in SUBSET Runs : CancelsFor(C)
  <2>1. CancelLocked({r}) /\ {r} \in SUBSET Runs
    BY <1>5 DEF WakeCancelled, FailCancel, CancelAndDispatch
  <2>2. Reason(r)'
    <3>1. CASE WakeCancelled(r)
      BY <1>1, <3>1 DEF WakeCancelled
    <3>2. CASE FailCancel(r)
      BY <1>4, <3>2 DEF FailCancel, RaisesForACause
    <3> QED
      BY <1>5, <3>1, <3>2
  <2> QED
    BY <2>1, <2>2 DEF CancelsFor
<1>6. ASSUME DispatchScan, ~UNCHANGED <<cancelled, events>>
      PROVE  \E C \in SUBSET Runs : CancelsFor(C)
  <2> DEFINE C == {r \in Registered : IsCancelled(r)}
  <2>1. CancelLocked(C)
    BY <1>6 DEF DispatchScan
  <2>2. C \in SUBSET Runs
    BY RegisteredAreRuns DEF TypeOK
  <2>3. \A r \in C : Reason(r)'
    BY <1>1, <2>2 DEF Stopped
  <2> HIDE DEF C
  <2> QED
    BY <2>1, <2>2, <2>3 DEF CancelsFor
<1>7. ASSUME NEW i \in EligibleIndex, SubmitFails(runs[i])
      PROVE  \E C \in SUBSET Runs : CancelsFor(C)
  <2>1. runs[i] \in Runs /\ CancelLocked({runs[i]})
    BY <1>7, RegisteredAreRuns DEF TypeOK, EligibleIndex, SubmitFails
  <2>2. \A r \in {runs[i]} : Reason(r)'
    <3>1. PICK x \in Runs : x = runs[i]
      BY <2>1
    <3> QED
      BY <1>3, <1>4, <1>7, <3>1 DEF SubmitFails, OwnFailure, TypeOK
  <2> QED
    BY <2>1, <2>2 DEF CancelsFor
<1>8. CASE DispatchPick
  BY <1>7, <1>8 DEF DispatchPick, Submit, SubmitFinished
<1>9. ASSUME NEW e \in External, CancelScope(e) PROVE \E C \in SUBSET Runs : CancelsFor(C)
  <2> DEFINE C == {r \in Registered : e \in Scope(r)}
  <2>1. CancelLocked(C) /\ e \in events
    BY <1>9 DEF CancelScope, CancelAndDispatch
  <2>2. C \in SUBSET Runs
    BY RegisteredAreRuns DEF TypeOK
  <2>3. \A r \in C : Reason(r)'
    BY <1>1, <2>1, <2>2 DEF Stopped, IsCancelled
  <2> HIDE DEF C
  <2> QED
    BY <2>1, <2>2, <2>3 DEF CancelsFor
<1>10. ASSUME CloseBegin PROVE \E C \in SUBSET Runs : CancelsFor(C)
  <2>1. CancelLocked(Registered) /\ closed'
    BY <1>10 DEF CloseBegin, CancelAndDispatch
  <2>2. Registered \in SUBSET Runs
    BY RegisteredAreRuns DEF TypeOK
  <2>3. \A r \in Registered : Reason(r)'
    BY <2>1 DEF Reason
  <2> QED
    BY <2>1, <2>2, <2>3 DEF CancelsFor
<1>11. ASSUME NEW e \in External, SetEvent(e)
       PROVE  /\ UNCHANGED cancelled
              /\ \E f \in Events : events' = events \cup {f} /\ f \in signalled'
  BY <1>11, ConstantsTyped DEF SetEvent
<1>12. ASSUME NEW r \in Runs, Caller(r) \/ Interrupt(r), ~WakeCancelled(r), ~FailCancel(r)
       PROVE  UNCHANGED <<cancelled, events>>
  BY <1>12 DEF Caller, Enter, Register, WakeCollect, CollectOne, Callback, CollectEnd, Drain,
               Remove, Interrupt
<1>13. ASSUME (\E r \in Runs, j \in Jobs : Worker(r, j)) \/ CloseEnd \/ Terminated \/ UNCHANGED vars
       PROVE  UNCHANGED <<cancelled, events>>
  BY <1>13 DEF Worker, TakeJob, StartJob, FinishJob, Complete, CloseEnd, Terminated, vars
<1> QED
  BY <1>5, <1>6, <1>8, <1>9, <1>10, <1>11, <1>12, <1>13 DEF Next

LEMMA CancellationsTracedStep ==
    ASSUME TypeOK, DeliveredOnce, RaisesForACause, CausesInOrder, CancellationsTraced,
           [Next]_vars
    PROVE  CancellationsTraced'
<1>1. \A r \in Runs : Reason(r) => Reason(r)'
  BY ReasonStays
<1>2. \A r \in Runs : Stopped(r) => Reason(r)'
  BY <1>1, StoppedHasReason
<1>3. /\ \A e \in events' : e \in signalled' \/ \E s \in Runs : Own[s] = e /\ cancelled'[s]
      /\ \A r \in Runs : cancelled'[r] => Reason(r)'
  <2>1. \A e \in events : e \in signalled' \/ \E s \in Runs : Own[s] = e /\ cancelled'[s]
    BY RequestsStay, CancelledStays DEF CancellationsTraced
  <2>2. \A r \in Runs : cancelled[r] => Reason(r)'
    BY <1>1 DEF CancellationsTraced
  <2>3. ASSUME NEW C \in SUBSET Runs, CancelsFor(C)
        PROVE  /\ \A e \in events' : e \in events \/ \E s \in Runs : Own[s] = e /\ cancelled'[s]
               /\ \A r \in Runs : cancelled'[r] => cancelled[r] \/ r \in C
    <3> DEFINE hit == {r \in C : ~cancelled[r]}
    <3>1. /\ cancelled' = [r \in Runs |-> cancelled[r] \/ r \in hit]
          /\ events' = events \cup UNION {{Own[r]} : r \in hit}
      BY <2>3 DEF CancelsFor, CancelLocked, EventsSetBy
    <3>2. \A r \in hit : cancelled'[r] /\ r \in Runs
      BY <3>1
    <3> QED
      BY <3>1, <3>2
  <2> QED
    BY <2>1, <2>2, <2>3, CancelledWithReason DEF CancelsFor
<1>4. ASSUME NEW r \in Runs, cause'[r] = "cancelled" PROVE Reason(r)'
  <2>1. CASE cause[r] = "cancelled"
    BY <1>1, <2>1 DEF CancellationsTraced
  <2>2. CASE cause[r] # "cancelled"
    <3>1. ASSUME SubmitFails(r) PROVE FALSE
      BY <1>4, <2>2, <3>1 DEF SubmitFails, TypeOK
    <3>2. Caller(r) \/ Interrupt(r)
      BY <1>4, <2>2, <3>1, CallerLocal
    <3>3. CASE CollectOne(r)
      <4>1. Head(batch[r]) \in Elements(batch[r]) /\ Head(batch[r]) \in Jobs
        BY <3>3 DEF CollectOne, Elements, TypeOK
      <4>2. outcome[r][Head(batch[r])] # "none"
        BY <4>1 DEF DeliveredOnce, Delivered
      <4>3. outcome[r][Head(batch[r])] \notin {"ok", "error"}
        BY <1>4, <2>2, <3>3 DEF CollectOne, TypeOK
      <4>4. outcome[r][Head(batch[r])] = "cancelled"
        BY <4>1, <4>2, <4>3 DEF TypeOK, Outcomes
      <4> QED
        BY <1>1, <4>1, <4>4 DEF CancellationsTraced
    <3>4. CASE Enter(r) \/ Register(r)
      <4>1. IsCancelled(r)
        BY <1>4, <2>2, <3>4 DEF Enter, Register, TypeOK
      <4> QED
        BY <1>2, <4>1 DEF Stopped
    <3>5. CASE WakeCancelled(r) \/ Callback(r)
      <4>1. Stopped(r)
        BY <1>4, <2>2, <3>5 DEF WakeCancelled, Callback, TypeOK
      <4> QED
        BY <1>2, <4>1
    <3>6. ~(WakeCollect(r) \/ CollectEnd(r) \/ FailCancel(r) \/ Drain(r) \/ Remove(r) \/ Interrupt(r))
      BY <1>4, <2>2 DEF WakeCollect, CollectEnd, FailCancel, Drain, Remove, Interrupt, TypeOK
    <3> QED
      BY <3>2, <3>3, <3>4, <3>5, <3>6 DEF Caller
  <2> QED
    BY <2>1, <2>2
<1>5. ASSUME NEW r \in Runs, NEW j \in Jobs, outcome'[r][j] = "cancelled" PROVE Reason(r)'
  <2>1. CASE outcome[r][j] = "cancelled"
    BY <1>1, <2>1 DEF CancellationsTraced
  <2>2. CASE outcome[r][j] # "cancelled"
    <3>1. ASSUME NEW s \in Runs, NEW k \in Jobs, NEW o \in {"ok", "error", "cancelled"},
                 o \in PossibleOutcomes(s) \/ Stopped(s),
                 outcome' = [outcome EXCEPT ![s][k] = o]
          PROVE  Reason(r)'
      <4>1. s = r /\ o = "cancelled"
        BY <1>5, <2>2, <3>1 DEF TypeOK
      <4>2. Stopped(r)
        BY <3>1, <4>1 DEF PossibleOutcomes
      <4> QED
        BY <1>2, <4>2
    <3>2. ASSUME NEW s \in Runs, NEW k \in Jobs, StartJob(s, k) PROVE Reason(r)'
      <4>1. CASE Stopped(s)
        BY <3>1, <3>2, <4>1 DEF StartJob
      <4>2. CASE ~Stopped(s)
        BY <1>5, <2>2, <3>2, <4>2 DEF StartJob, TypeOK
      <4> QED
        BY <4>1, <4>2
    <3>3. ASSUME NEW s \in Runs, NEW k \in Jobs, FinishJob(s, k) PROVE Reason(r)'
      <4>1. PICK o \in PossibleOutcomes(s) : outcome' = [outcome EXCEPT ![s][k] = o]
        BY <3>3 DEF FinishJob
      <4> QED
        BY <3>1, <4>1 DEF PossibleOutcomes
    <3>4. ASSUME NEW i \in EligibleIndex, NEW k \in Jobs, SubmitFinished(runs[i], k)
          PROVE  Reason(r)'
      <4>1. runs[i] \in Runs
        BY RegisteredAreRuns DEF TypeOK, EligibleIndex
      <4>2. PICK o \in PossibleOutcomes(runs[i]) : outcome' = [outcome EXCEPT ![runs[i]][k] = o]
        BY <3>4 DEF SubmitFinished
      <4> QED
        BY <3>1, <4>1, <4>2 DEF PossibleOutcomes
    <3>5. outcome' # outcome
      BY <1>5, <2>2
    <3>6. \/ \E s \in Runs, k \in Jobs : StartJob(s, k) \/ FinishJob(s, k)
          \/ \E i \in EligibleIndex, k \in Jobs : SubmitFinished(runs[i], k)
      BY <3>5 DEF Next, Caller, Enter, Register, WakeCollect, WakeCancelled, CollectOne, Callback,
           CollectEnd, Interrupt, FailCancel, Drain, Remove, Worker, TakeJob, Complete,
           DispatchScan, DispatchPick, Submit, SubmitFails, SetEvent, CancelScope, CloseBegin,
           CloseEnd, Terminated, vars
    <3> QED
      BY <3>2, <3>3, <3>4, <3>6
  <2> QED
    BY <2>1, <2>2
<1> QED
  BY <1>3, <1>4, <1>5 DEF CancellationsTraced

LEMMA InitOutcome == Init => OutcomeInv
<1> SUFFICES ASSUME Init PROVE OutcomeInv
  OBVIOUS
<1>1. TypeOK
  BY InitTyped
<1>2. \A r \in Runs, j \in Jobs : jobs[r][j] \in {"pending", "discarded"}
  BY DEF Init
<1>3. RegisteredOnce /\ NothingLeft
  BY <1>2 DEF Init, RegisteredOnce, NothingLeft, Registered, Active, IsActive
<1>4. DeliveredOnce
  <2> SUFFICES ASSUME NEW r \in Runs PROVE Delivered(r)
    BY DEF DeliveredOnce
  <2>1. completed[r] = <<>> /\ batch[r] = <<>> /\ results[r] = <<>>
    BY DEF Init
  <2>2. \A j \in Jobs : j > Total[r] => jobs[r][j] = "discarded"
    <3> SUFFICES ASSUME NEW j \in Jobs, j > Total[r] PROVE ~(j <= Total[r])
      BY DEF Init
    <3>1. j \in Int /\ Total[r] \in Int
      BY ConstantsTyped DEF Jobs
    <3> QED
      BY <3>1
  <2> QED
    BY <1>2, <2>1, <2>2, DistinctEmpty DEF Delivered
<1>5. RaisesForACause /\ CausesInOrder
  BY DEF Init, RaisesForACause, CausesInOrder
<1>6. CancellationsTraced
  BY DEF Init, CancellationsTraced
<1> QED
  BY <1>1, <1>3, <1>4, <1>5, <1>6 DEF OutcomeInv

LEMMA OutcomeInvImplies == OutcomeInv => OutcomeFaithful
<1> SUFFICES ASSUME OutcomeInv PROVE OutcomeFaithful
  OBVIOUS
<1>1. DrainedOnExit
  BY DEF OutcomeInv, DrainedOnExit, RegisteredOnce
<1>2. ReturnedComplete
  <2> SUFFICES ASSUME NEW r \in Runs, pc[r] = "done", cause[r] = "none"
               PROVE  /\ Len(results[r]) = Total[r]
                      /\ \A j \in JobsOf(r) :
                            outcome[r][j] = "ok" /\ \E i \in 1..Total[r] : results[r][i] = j
    BY DEF ReturnedComplete
  <2>1. AllCollected(r) /\ Delivered(r) /\ TypeOK
    BY DEF OutcomeInv, RaisesForACause, DeliveredOnce
  <2>2. Len(results[r]) <= Total[r] /\ Elements(results[r]) = JobsOf(r)
    BY <2>1, AllDelivered
  <2>3. Len(results[r]) = Total[r]
    <3>1. Len(results[r]) \in Int /\ Total[r] \in Int
      BY <2>1, ConstantsTyped DEF TypeOK
    <3> QED
      BY <2>1, <2>2, <3>1 DEF AllCollected
  <2>4. ASSUME NEW j \in JobsOf(r)
        PROVE  outcome[r][j] = "ok" /\ \E i \in 1..Total[r] : results[r][i] = j
    <3>1. j \in Elements(results[r])
      BY <2>2
    <3> QED
      BY <2>1, <2>3, <3>1 DEF Delivered, Elements
  <2> QED
    BY <2>3, <2>4
<1>3. CancelledForAReason
  BY DEF OutcomeInv, CancellationsTraced, Reason, CancelledForAReason
<1> QED
  BY <1>1, <1>2, <1>3 DEF OutcomeFaithful

(* For any runs, scopes and job lists: when a call of run() ends, none of  *)
(* its jobs is in the pool; if it returns, every job succeeded and its     *)
(* result is handed back exactly once; and no run is cancelled unless      *)
(* close() was called, or an event of its scope was set from outside or by *)
(* a run that failed.                                                      *)
THEOREM CallsEndFaithfully == Spec => []OutcomeFaithful
<1>1. OutcomeInv /\ [Next]_vars => OutcomeInv'
  BY TypeStep, RegisteredOnceStep, NothingLeftStep, DeliveredStep, RaisesForACauseStep,
     CausesInOrderStep, CancellationsTracedStep DEF OutcomeInv
<1> QED
  BY <1>1, InitOutcome, OutcomeInvImplies, PTL DEF Spec
=============================================================================
