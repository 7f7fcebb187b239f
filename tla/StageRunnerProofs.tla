------------------------- MODULE StageRunnerProofs --------------------------
(***************************************************************************)
(* What a node is given does not depend on timing, and a stage returns     *)
(* what its nodes did: proofs for every set of nodes and every stage.      *)
(***************************************************************************)
EXTENDS StageRunner, TLAPS, NaturalsInduction, WellFoundedInduction

Phases == {"compile", "start", "rejected", "loop", "submit", "wait", "collect", "leave",
           "cancel", "drain", "settle", "returned", "raised"}

(* The state keeps its shape. *)
Typed ==
    /\ stage \in [use : [Nodes -> [Nodes -> Uses]], producers : SUBSET Nodes]
    /\ remaining \subseteq Nodes /\ layer \subseteq remaining
    /\ order \in Seq(Nodes)
    /\ phase \in Phases
    /\ at \in Nat \ {0}
    /\ pending \subseteq Nodes /\ running \subseteq Nodes /\ completed \subseteq Nodes
    /\ failed \subseteq Nodes /\ published \subseteq Nodes
    /\ batch \subseteq running
    /\ status \in {"ok", "inconclusive", "error"}
    /\ failure \in {"none", "cancelled", "raised", "stalled"}
    /\ task \in [Nodes -> {"none", "queued", "running", "finished", "cancelled"}]
    /\ result \in [Nodes -> {"none", "ok", "inconclusive", "error", "raised"}]
    /\ seen \in [Nodes -> SUBSET Nodes]

Placed == {order[k] : k \in 1..Len(order)}

(* The plan lists every node once its dependencies are listed. *)
PlanOrdered ==
    /\ \A n \in layer : Deps(n) \cap remaining = {}
    /\ remaining = Nodes \ Placed
    /\ \A i \in 1..Len(order) : \A d \in Deps(order[i]) : \E k \in 1..(i - 1) : order[k] = d
    /\ phase \notin {"compile", "rejected"} => remaining = {}

(* A node is in one of run_stage's sets, and its future agrees with it. *)
BooksAgree ==
    /\ pending \cap running = {} /\ pending \cap completed = {} /\ running \cap completed = {}
    /\ published = {n \in completed : Succeeded(n)}
    /\ failed = {n \in completed : ~Succeeded(n)}
    /\ \A n \in pending : task[n] = "none"
    /\ \A n \in running : task[n] # "none"
    /\ \A n \in completed : task[n] \in {"none", "finished"}
    /\ \A n \in Nodes : task[n] \in {"queued", "running"} => n \in running
    /\ \A n \in Nodes : result[n] # "none" <=> task[n] = "finished"

(* Without a failure no node is lost and no future is cancelled. *)
NothingLost ==
    failure = "none" => /\ Nodes = pending \cup running \cup completed
                        /\ \A n \in Nodes : task[n] # "cancelled"

(* What the coordinator knows at each place. *)
PhasesAgree ==
    /\ phase \notin {"cancel", "drain", "raised"} => failure = "none"
    /\ phase \in {"cancel", "raised"} => failure # "none"
    /\ phase \in {"compile", "start", "rejected"} => running = {}
    /\ phase = "collect" => \A n \in batch : Done(n)
    /\ phase \in {"leave", "settle", "returned"} \/ (phase = "drain" /\ failure = "none")
          => pending \cup running = {}
    /\ phase = "raised" => \A n \in running : Done(n)
    /\ phase # "returned" =>
          /\ status # "error"
          /\ status = "ok" => \A n \in completed : result[n] # "inconclusive"

(* The submission pass leaves behind no node that could run. *)
PassComplete ==
    phase = "submit" => \A k \in 1..Len(order) : k < at => ~ReadyToRun(order[k])

(* What a node was given when it was submitted. *)
InputsTaken ==
    /\ \A n \in Nodes : task[n] # "none" => Deps(n) \subseteq completed
    /\ InputsAreFinal

SkippedAreBlocked == \A n \in completed : task[n] = "none" => Blocked(n)

StageInv ==
    /\ Typed /\ PlanOrdered /\ BooksAgree /\ NothingLost /\ PhasesAgree /\ PassComplete
    /\ InputsTaken /\ SkippedAreBlocked /\ NeverStalls /\ ResultIsFaithful

-----------------------------------------------------------------------------
books == <<stage, pending, running, completed, failed, published, task, result, seen>>

(* The steps that touch run_stage's sets or the futures. *)
LEMMA StageSteps ==
    ASSUME [Next]_vars
    PROVE  \/ UNCHANGED books
           \/ Visit /\ (Skip(order[at]) \/ Submit(order[at]))
           \/ \E n \in Nodes : Collect(n)
           \/ Cancel
           \/ \E n \in Nodes : StartNode(n) \/ FinishNode(n)
BY DEF Next, Coordinator, Round, Place, Start, Loop, Visit, PassOver, Visited, Wait, Collected,
       Leave, Drain, Settle, PoolThread, JobFails, CancelExecution, Ended, books, plan,
       coordinator, tasks, vars

LEMMA DepsTyped ==
    ASSUME Typed, NEW n \in Nodes
    PROVE  /\ Deps(n) \subseteq Nodes /\ Required(n) \subseteq Deps(n)
           /\ DOMAIN stage.use = Nodes
BY DEF Typed, Deps, Required, Dependencies, RequiredDependencies

(* The plan's positions hold nodes. *)
LEMMA VisitsANode ==
    ASSUME Typed, Visit
    PROVE  order[at] \in Nodes /\ at \in 1..Len(order) /\ phase = "submit"
BY DEF Typed, Visit

LEMMA TypedStep == Typed /\ [Next]_vars => Typed'
<1> SUFFICES ASSUME Typed, [Next]_vars PROVE Typed'
  OBVIOUS
<1> USE DEF Typed
<1>1. CASE Round
  <2>1. layer' \subseteq remaining
    BY <1>1 DEF Round, Ready
  <2>2. phase' \in Phases
    BY <1>1 DEF Round, Phases
  <2> QED
    BY <1>1, <2>1, <2>2 DEF Round, tasks
<1>2. ASSUME NEW n \in Nodes, Place(n) PROVE Typed'
  BY <1>2 DEF Place, coordinator, tasks
<1>3. CASE Start \/ Loop \/ Visited \/ Collected \/ Leave \/ Drain
  BY <1>3 DEF Start, Loop, Visited, Collected, Leave, Drain, plan, tasks, Phases
<1>4. CASE Wait
  BY <1>4 DEF Wait, plan, tasks, Phases
<1>5. CASE Settle
  BY <1>5 DEF Settle, plan, tasks, Phases
<1>6. CASE Visit
  <2>1. order[at] \in Nodes
    BY <1>6, VisitsANode
  <2>2. UNCHANGED <<plan, published, status, batch, result>> /\ at' = at + 1
    BY <1>6 DEF Visit
  <2>3. CASE PassOver(order[at])
    BY <2>2, <2>3 DEF PassOver, plan
  <2>4. CASE Skip(order[at])
    BY <2>1, <2>2, <2>4 DEF Skip, plan, Phases
  <2>5. CASE Submit(order[at])
    BY <2>1, <2>2, <2>5 DEF Submit, plan
  <2> QED
    BY <1>6, <2>3, <2>4, <2>5 DEF Visit
<1>7. ASSUME NEW n \in Nodes, Collect(n) PROVE Typed'
  BY <1>7 DEF Collect, plan, tasks, Phases
<1>8. CASE Cancel
  BY <1>8 DEF Cancel, plan, Phases
<1>9. ASSUME NEW n \in Nodes, StartNode(n) \/ FinishNode(n) PROVE Typed'
  <2>1. UNCHANGED <<plan, coordinator, seen>>
    BY <1>9 DEF StartNode, FinishNode
  <2>2. \/ task' = [task EXCEPT ![n] = "running"] /\ result' = result
        \/ /\ task' = [task EXCEPT ![n] = "finished"]
           /\ \E r \in {"ok", "inconclusive", "error", "raised"} : result' = [result EXCEPT ![n] = r]
    BY <1>9 DEF StartNode, FinishNode
  <2>3. task' \in [Nodes -> {"none", "queued", "running", "finished", "cancelled"}]
    BY <2>2
  <2>4. result' \in [Nodes -> {"none", "ok", "inconclusive", "error", "raised"}]
    BY <2>2
  <2> QED
    BY <2>1, <2>3, <2>4 DEF plan, coordinator
<1>10. CASE Ended \/ CancelExecution \/ (\E n \in Nodes : JobFails(n)) \/ UNCHANGED vars
  BY <1>10 DEF Ended, CancelExecution, JobFails, vars, plan, coordinator, tasks
<1> QED
  BY <1>1, <1>2, <1>3, <1>4, <1>5, <1>6, <1>7, <1>8, <1>9, <1>10 DEF Next, Coordinator, PoolThread

LEMMA PlanOrderedStep == Typed /\ PlanOrdered /\ [Next]_vars => PlanOrdered'
<1> SUFFICES ASSUME Typed, PlanOrdered, [Next]_vars PROVE PlanOrdered'
  OBVIOUS
<1> DEFINE DepsListed(s) ==
             \A i \in 1..Len(s) : \A d \in Dependencies(stage.use, s[i]) :
                \E k \in 1..(i - 1) : s[k] = d
<1>0. DepsListed(order)
  BY DEF PlanOrdered, Deps
<1>1. ASSUME stage' = stage, order' = order, remaining' = remaining,
             \A n \in layer' : Dependencies(stage.use, n) \cap remaining = {},
             phase' \notin {"compile", "rejected"} => remaining = {}
      PROVE  PlanOrdered'
  <2>1. Placed' = Placed
    BY <1>1 DEF Placed
  <2>2. DepsListed(order')
    BY <1>0, <1>1
  <2> QED
    BY <1>1, <2>1, <2>2 DEF PlanOrdered, Deps
<1>2. CASE Round
  <2>1. \A n \in layer' : Dependencies(stage.use, n) \cap remaining = {}
    BY <1>2 DEF Round, Ready
  <2> QED
    BY <1>1, <1>2, <2>1 DEF Round
<1>3. ASSUME NEW n \in Nodes, Place(n) PROVE PlanOrdered'
  <2>1. /\ order' = Append(order, n) /\ remaining' = remaining \ {n} /\ layer' = layer \ {n}
        /\ UNCHANGED <<stage, phase>> /\ n \in layer /\ phase = "compile"
    BY <1>3 DEF Place, coordinator
  <2>2. /\ Len(order') = Len(order) + 1 /\ Len(order) \in Nat /\ order'[Len(order) + 1] = n
        /\ \A i \in 1..Len(order) : order'[i] = order[i]
    BY <2>1 DEF Typed
  <2>3. Placed' = Placed \cup {n}
    BY <2>2 DEF Placed
  <2>4. \A d \in Dependencies(stage.use, n) : \E k \in 1..Len(order) : order[k] = d
    BY <2>1, DepsTyped DEF PlanOrdered, Placed, Deps
  <2>5. ASSUME NEW i \in 1..Len(order'), NEW d \in Dependencies(stage.use, order'[i])
        PROVE  \E k \in 1..(i - 1) : order'[k] = d
    <3>1. CASE i = Len(order) + 1
      <4>1. PICK k \in 1..Len(order) : order[k] = d
        BY <2>2, <2>4, <2>5, <3>1
      <4> QED
        BY <2>2, <3>1, <4>1
    <3>2. CASE i # Len(order) + 1
      <4>1. i \in 1..Len(order)
        BY <2>2, <3>2
      <4>2. PICK k \in 1..(i - 1) : order[k] = d
        BY <1>0, <2>2, <2>5, <4>1
      <4> QED
        BY <2>2, <4>1, <4>2
    <3> QED
      BY <3>1, <3>2
  <2>6. \A m \in layer' : Dependencies(stage.use, m) \cap remaining' = {}
    BY <2>1 DEF PlanOrdered, Deps
  <2>7. remaining' = Nodes \ Placed'
    BY <2>1, <2>3 DEF PlanOrdered
  <2>8. DepsListed(order')
    BY <2>5
  <2> QED
    BY <2>1, <2>6, <2>7, <2>8 DEF PlanOrdered, Deps
<1>4. ASSUME UNCHANGED plan, phase' = phase \/ phase \notin {"compile", "rejected"}
      PROVE  PlanOrdered'
  <2>1. \A n \in layer' : Dependencies(stage.use, n) \cap remaining = {}
    BY <1>4 DEF PlanOrdered, Deps, plan
  <2>2. phase' \notin {"compile", "rejected"} => remaining = {}
    BY <1>4 DEF PlanOrdered
  <2> QED
    BY <1>1, <1>4, <2>1, <2>2 DEF plan
<1> QED
  BY <1>2, <1>3, <1>4 DEF Next, Coordinator, Start, Loop, Visit, Visited, Wait, Collect, Collected,
       Leave, Cancel, Drain, Settle, PoolThread, StartNode, FinishNode, JobFails,
       CancelExecution, Ended, vars, coordinator

LEMMA BooksStep == Typed /\ PhasesAgree /\ NothingLost /\ BooksAgree /\ [Next]_vars => BooksAgree'
<1> SUFFICES ASSUME Typed, PhasesAgree, NothingLost, BooksAgree, [Next]_vars PROVE BooksAgree'
  OBVIOUS
<1>1. CASE UNCHANGED books
  BY <1>1 DEF books, BooksAgree, Succeeded
<1>2. CASE Visit /\ Skip(order[at])
  <2> DEFINE n == order[at]
  <2>1. n \in Nodes /\ n \in pending /\ pending' = pending \ {n}
    BY <1>2, VisitsANode DEF Skip, ReadyToRun
  <2>2. UNCHANGED <<published, result, running, task>>
    BY <1>2 DEF Visit, Skip
  <2>3. \/ failed' = failed \cup {n} /\ completed' = completed \cup {n}
        \/ UNCHANGED <<failed, completed>>
    BY <1>2 DEF Skip
  <2>4. task[n] = "none" /\ result[n] = "none"
    BY <2>1 DEF BooksAgree
  <2> HIDE DEF n
  <2> QED
    BY <2>1, <2>2, <2>3, <2>4 DEF BooksAgree, Succeeded
<1>3. CASE Visit /\ Submit(order[at])
  <2> DEFINE n == order[at]
  <2>1. n \in Nodes /\ n \in pending /\ pending' = pending \ {n} /\ running' = running \cup {n}
    BY <1>3, VisitsANode DEF Submit, ReadyToRun
  <2>2. UNCHANGED <<published, result, completed, failed>>
    BY <1>3 DEF Visit, Submit
  <2>3. task' = [task EXCEPT ![n] = "queued"]
    BY <1>3 DEF Submit
  <2>4. task[n] = "none" /\ result[n] = "none"
    BY <2>1 DEF BooksAgree
  <2> HIDE DEF n
  <2> QED
    BY <2>1, <2>2, <2>3, <2>4 DEF BooksAgree, Succeeded, Typed
<1>4. ASSUME NEW n \in Nodes, Collect(n) PROVE BooksAgree'
  <2>1. n \in running /\ running' = running \ {n} /\ UNCHANGED <<pending, task, result>>
    BY <1>4 DEF Collect, tasks, Typed
  <2>2. task[n] = "finished"
    BY <1>4 DEF Collect, PhasesAgree, NothingLost, Done
  <2>3. result[n] # "none"
    BY <2>2 DEF BooksAgree
  <2>4. CASE result[n] = "raised"
    <3>1. UNCHANGED <<completed, failed, published>>
      BY <1>4, <2>4 DEF Collect
    <3> QED
      BY <2>1, <2>2, <3>1 DEF BooksAgree, Succeeded
  <2>5. CASE result[n] # "raised"
    <3>1. /\ completed' = completed \cup {n}
          /\ failed' = IF result[n] = "error" THEN failed \cup {n} ELSE failed
          /\ published' = IF result[n] = "error" THEN published ELSE published \cup {n}
      BY <1>4, <2>5 DEF Collect
    <3>2. Succeeded(n) <=> result[n] # "error"
      BY <2>3, <2>5 DEF Succeeded, Typed
    <3>3. \A m \in Nodes : Succeeded(m)' <=> Succeeded(m)
      BY <2>1 DEF Succeeded
    <3>4. /\ published' = {m \in completed' : Succeeded(m)}
          /\ failed' = {m \in completed' : ~Succeeded(m)}
      BY <2>1, <3>1, <3>2 DEF BooksAgree
    <3> QED
      BY <2>1, <2>2, <3>1, <3>3, <3>4 DEF BooksAgree, Typed
  <2> QED
    BY <2>4, <2>5
<1>5. CASE Cancel
  <2>1. UNCHANGED <<pending, running, completed, failed, published, result>>
    BY <1>5 DEF Cancel
  <2>2. \A n \in Nodes : \/ task'[n] = task[n]
                         \/ n \in running /\ task[n] = "queued" /\ task'[n] = "cancelled"
    BY <1>5 DEF Cancel
  <2>3. \A n \in Nodes : task'[n] = "finished" <=> task[n] = "finished"
    BY <2>2
  <2>4. \A n \in Nodes : n \notin running => task'[n] = task[n]
    BY <2>2
  <2>5. \A n \in running : task'[n] # "none"
    BY <2>2 DEF BooksAgree, Typed
  <2>6. \A n \in Nodes : task'[n] \in {"queued", "running"} => n \in running
    BY <2>2 DEF BooksAgree
  <2>7. (\A n \in pending : task'[n] = "none") /\ (\A n \in completed : task'[n] \in {"none", "finished"})
    BY <2>4 DEF BooksAgree, Typed
  <2> QED
    BY <2>1, <2>3, <2>5, <2>6, <2>7 DEF BooksAgree, Succeeded
<1>6. ASSUME NEW n \in Nodes, StartNode(n) \/ FinishNode(n) PROVE BooksAgree'
  <2>1. UNCHANGED <<pending, running, completed, failed, published>>
    BY <1>6 DEF StartNode, FinishNode, coordinator
  <2>2. task[n] \in {"queued", "running"} /\ n \in running
    BY <1>6 DEF StartNode, FinishNode, BooksAgree
  <2>3. \/ task' = [task EXCEPT ![n] = "running"] /\ task[n] = "queued" /\ result' = result
        \/ /\ task' = [task EXCEPT ![n] = "finished"]
           /\ \E r \in {"ok", "inconclusive", "error", "raised"} : result' = [result EXCEPT ![n] = r]
    BY <1>6 DEF StartNode, FinishNode
  <2>4. \A m \in Nodes : m # n => task'[m] = task[m] /\ result'[m] = result[m]
    BY <2>3 DEF Typed
  <2>5. /\ task'[n] \in {"running", "finished"} /\ (result'[n] # "none" <=> task'[n] = "finished")
    BY <2>2, <2>3 DEF Typed, BooksAgree
  <2>6. n \notin completed /\ n \notin pending
    BY <2>2 DEF BooksAgree
  <2>7. \A m \in completed : Succeeded(m)' <=> Succeeded(m)
    BY <2>4, <2>6 DEF Typed, Succeeded
  <2>8. /\ published = {m \in completed : Succeeded(m)'} /\ failed = {m \in completed : ~Succeeded(m)'}
    BY <2>7 DEF BooksAgree
  <2>9. /\ \A m \in pending : task'[m] = "none"
        /\ \A m \in completed : task'[m] \in {"none", "finished"}
    BY <2>4, <2>6 DEF BooksAgree, Typed
  <2>10. \A m \in running : task'[m] # "none"
    BY <2>4, <2>5 DEF BooksAgree, Typed
  <2>11. \A m \in Nodes : task'[m] \in {"queued", "running"} => m \in running
    BY <2>2, <2>4 DEF BooksAgree
  <2>12. \A m \in Nodes : result'[m] # "none" <=> task'[m] = "finished"
    BY <2>4, <2>5 DEF BooksAgree
  <2> QED
    BY <2>1, <2>8, <2>9, <2>10, <2>11, <2>12 DEF BooksAgree
<1> QED
  BY <1>1, <1>2, <1>3, <1>4, <1>5, <1>6, StageSteps

LEMMA NothingLostStep ==
    ASSUME Typed, PhasesAgree, BooksAgree, NothingLost, [Next]_vars
    PROVE  NothingLost'
<1> SUFFICES ASSUME failure' = "none"
             PROVE  /\ Nodes = pending' \cup running' \cup completed'
                    /\ \A n \in Nodes : task'[n] # "cancelled"
  BY DEF NothingLost
<1>1. failure = "none"
  BY DEF Next, Coordinator, Round, Place, Start, Loop, Visit, PassOver, Skip, Submit, Visited,
         Wait, Collect, Collected, Leave, Cancel, Drain, Settle, PoolThread, StartNode,
         FinishNode, JobFails, CancelExecution, Ended, coordinator, vars
<1>2. /\ Nodes = pending \cup running \cup completed
      /\ \A n \in Nodes : task[n] # "cancelled"
  BY <1>1 DEF NothingLost
<1>3. CASE UNCHANGED books
  BY <1>2, <1>3 DEF books
<1>4. CASE Visit /\ Skip(order[at])
  BY <1>1, <1>2, <1>4, VisitsANode DEF Visit, Skip
<1>5. CASE Visit /\ Submit(order[at])
  BY <1>2, <1>5, VisitsANode DEF Visit, Submit, Typed
<1>6. ASSUME NEW n \in Nodes, Collect(n)
      PROVE  /\ Nodes = pending' \cup running' \cup completed'
             /\ \A m \in Nodes : task'[m] # "cancelled"
  BY <1>1, <1>2, <1>6 DEF Collect, tasks
<1>7. ~Cancel
  BY <1>1 DEF Cancel, PhasesAgree
<1>8. ASSUME NEW n \in Nodes, StartNode(n) \/ FinishNode(n)
      PROVE  /\ Nodes = pending' \cup running' \cup completed'
             /\ \A m \in Nodes : task'[m] # "cancelled"
  <2>1. UNCHANGED <<pending, running, completed>>
    BY <1>8 DEF StartNode, FinishNode, coordinator
  <2>2. \E t \in {"running", "finished"} : task' = [task EXCEPT ![n] = t]
    BY <1>8 DEF StartNode, FinishNode
  <2> QED
    BY <1>2, <2>1, <2>2 DEF Typed
<1> QED
  BY <1>3, <1>4, <1>5, <1>6, <1>7, <1>8, StageSteps

(* A future that is done stays done. *)
LEMMA DoneStays ==
    ASSUME Typed, BooksAgree, [Next]_vars, NEW n \in running, Done(n)
    PROVE  Done(n)'
<1>1. CASE UNCHANGED books
  BY <1>1 DEF books, Done
<1>2. CASE Submit(order[at])
  <2>1. n # order[at]
    BY <1>2 DEF Submit, ReadyToRun, BooksAgree
  <2> QED
    BY <1>2, <2>1 DEF Submit, Done, Typed
<1>3. CASE Cancel
  BY <1>3 DEF Cancel, Done, Typed
<1>4. ASSUME NEW m \in Nodes, StartNode(m) \/ FinishNode(m) PROVE Done(n)'
  <2>1. task[m] \in {"queued", "running"} /\ \E t \in {"running", "finished"} : task' = [task EXCEPT ![m] = t]
    BY <1>4 DEF StartNode, FinishNode
  <2> QED
    BY <2>1 DEF Typed, Done
<1>5. CASE task' = task
  BY <1>5 DEF Done
<1> QED
  BY <1>1, <1>2, <1>3, <1>4, <1>5, StageSteps DEF Collect, tasks, Skip

(* What a node came to is settled once it is completed. *)
LEMMA CompletedStays ==
    ASSUME Typed, BooksAgree, [Next]_vars
    PROVE  /\ completed \subseteq completed'
           /\ \A n \in completed : /\ task'[n] = task[n] /\ result'[n] = result[n]
                                   /\ Succeeded(n)' <=> Succeeded(n)
<1>1. completed \subseteq completed'
  BY StageSteps DEF books, Skip, Submit, Collect, Cancel, StartNode, FinishNode, coordinator
<1>2. ASSUME NEW n \in completed PROVE task'[n] = task[n] /\ result'[n] = result[n]
  <2>1. n \notin pending /\ n \notin running /\ n \in Nodes
    BY DEF BooksAgree, Typed
  <2>2. CASE Visit /\ Submit(order[at])
    BY <2>1, <2>2 DEF Visit, Submit, ReadyToRun, Typed
  <2>3. CASE Cancel
    BY <2>1, <2>3 DEF Cancel
  <2>4. ASSUME NEW m \in Nodes, StartNode(m) \/ FinishNode(m)
        PROVE  task'[n] = task[n] /\ result'[n] = result[n]
    <3>1. task[m] \in {"queued", "running"} /\ m \in running
      BY <2>4 DEF StartNode, FinishNode, BooksAgree
    <3>2. /\ \E t \in {"running", "finished"} : task' = [task EXCEPT ![m] = t]
          /\ result' = result \/ \E r \in {"ok", "inconclusive", "error", "raised"} :
                                      result' = [result EXCEPT ![m] = r]
      BY <2>4 DEF StartNode, FinishNode
    <3> QED
      BY <2>1, <3>1, <3>2 DEF Typed
  <2>5. CASE UNCHANGED <<task, result>>
    BY <2>5
  <2> QED
    BY <2>2, <2>3, <2>4, <2>5, StageSteps DEF books, Visit, Skip, Collect, tasks
<1> QED
  BY <1>1, <1>2 DEF Succeeded

LEMMA PhasesStep ==
    ASSUME Typed, BooksAgree, NothingLost, PhasesAgree, [Next]_vars
    PROVE  PhasesAgree'
<1>1. /\ phase' \notin {"cancel", "drain", "raised"} => failure' = "none"
      /\ phase' \in {"cancel", "raised"} => failure' # "none"
  BY DEF PhasesAgree, Typed, Phases, Next, Coordinator, Round, Place, Start, Loop, Visit, PassOver,
         Skip, Submit, Visited, Wait, Collect, Collected, Leave, Cancel, Drain, Settle,
         PoolThread, StartNode, FinishNode, JobFails, CancelExecution, Ended, coordinator, vars
<1>2. phase' \in {"compile", "start", "rejected"} => running' = {}
  BY DEF PhasesAgree, Next, Coordinator, Round, Place, Start, Loop, Visit, PassOver,
         Skip, Submit, Visited, Wait, Collect, Collected, Leave, Cancel, Drain, Settle,
         PoolThread, StartNode, FinishNode, JobFails, CancelExecution, Ended, coordinator, vars
<1>3. phase' = "collect" => \A n \in batch' : Done(n)'
  <2>1. CASE Wait
    BY <2>1 DEF Wait, Done, tasks
  <2>2. ASSUME ~Wait, phase' = "collect" PROVE phase = "collect" /\ batch' \subseteq batch
    BY <2>2 DEF Next, Coordinator, Round, Place, Start, Loop, Visit, PassOver,
         Skip, Submit, Visited, Collect, Collected, Leave, Cancel, Drain, Settle,
         PoolThread, StartNode, FinishNode, JobFails, CancelExecution, Ended, coordinator, vars
  <2> QED
    BY <2>1, <2>2, DoneStays DEF PhasesAgree, Typed
<1>4. phase' \in {"leave", "settle", "returned"} \/ (phase' = "drain" /\ failure' = "none")
          => pending' \cup running' = {}
  BY DEF PhasesAgree, Typed, Next, Coordinator, Round, Place, Start, Loop, Visit, PassOver,
         Skip, Submit, Visited, Wait, Collect, Collected, Leave, Cancel, Drain, Settle,
         PoolThread, StartNode, FinishNode, JobFails, CancelExecution, Ended, coordinator, vars
<1>5. phase' = "raised" => \A n \in running' : Done(n)'
  <2>1. CASE Start \/ Drain \/ Settle
    BY <2>1 DEF Start, Drain, Settle, PhasesAgree, Done, tasks
  <2>2. ASSUME ~(Start \/ Drain \/ Settle), phase' = "raised"
        PROVE  phase = "raised" /\ running' = running
    BY <2>2 DEF Next, Coordinator, Round, Place, Loop, Visit, PassOver,
         Skip, Submit, Visited, Wait, Collect, Collected, Leave, Cancel,
         PoolThread, StartNode, FinishNode, JobFails, CancelExecution, Ended, coordinator, vars
  <2> QED
    BY <2>1, <2>2, DoneStays DEF PhasesAgree
<1>6. ASSUME phase' # "returned"
      PROVE  /\ status' # "error"
             /\ status' = "ok" => \A n \in completed' : result'[n] # "inconclusive"
  <2>1. phase # "returned" /\ status # "error"
    BY <1>6 DEF PhasesAgree, Next, Coordinator, Round, Place, Start, Loop, Visit, PassOver,
         Skip, Submit, Visited, Wait, Collect, Collected, Leave, Cancel, Drain, Settle,
         PoolThread, StartNode, FinishNode, JobFails, CancelExecution, Ended, coordinator, vars
  <2>2. status = "ok" => \A n \in completed : result'[n] # "inconclusive"
    BY <2>1, CompletedStays DEF PhasesAgree
  <2>3. ASSUME NEW n \in Nodes, Collect(n)
        PROVE  /\ status' # "error"
               /\ status' = "ok" => \A m \in completed' : result'[m] # "inconclusive"
    BY <2>1, <2>2, <2>3 DEF Collect, tasks
  <2>4. CASE Visit
    <3>1. status' = status /\ result' = result
      BY <2>4 DEF Visit
    <3>2. completed' = completed \/ (completed' = completed \cup {order[at]} /\ order[at] \in pending)
      BY <2>4 DEF Visit, PassOver, Skip, Submit, ReadyToRun
    <3>3. order[at] \in pending => result[order[at]] = "none"
      BY <2>4, VisitsANode DEF BooksAgree
    <3> QED
      BY <2>1, <2>2, <3>1, <3>2, <3>3
  <2>5. ASSUME ~Visit, ~(\E n \in Nodes : Collect(n))
        PROVE  status' = status /\ completed' = completed
    BY <1>6, <2>5 DEF Next, Coordinator, Round, Place, Start, Loop, Visited, Wait, Collected,
         Leave, Cancel, Drain, Settle, PoolThread, StartNode, FinishNode, JobFails,
         CancelExecution, Ended, coordinator, vars
  <2> QED
    BY <2>1, <2>2, <2>3, <2>4, <2>5
<1> QED
  BY <1>1, <1>2, <1>3, <1>4, <1>5, <1>6 DEF PhasesAgree

(* The pass has just gone by the nodes it could not submit, and a node it  *)
(* skips is a dependency of none of them.                                  *)
LEMMA PassCompleteStep ==
    ASSUME Typed, PlanOrdered, PassComplete, [Next]_vars
    PROVE  PassComplete'
<1> SUFFICES ASSUME phase' = "submit", NEW k \in 1..Len(order'), k < at'
             PROVE  ~(order'[k] \in pending' /\ Dependencies(stage'.use, order'[k]) \subseteq completed')
  BY DEF PassComplete, ReadyToRun, Deps
<1>0. Len(order) \in Nat /\ at \in Nat
  BY DEF Typed
<1>1. CASE Loop
  BY <1>1 DEF Loop
<1>2. CASE Visit
  <2>1. UNCHANGED <<stage, order>> /\ at' = at + 1 /\ k \in 1..Len(order)
    BY <1>2 DEF Visit, plan
  <2>2. at \in 1..Len(order) /\ phase = "submit"
    BY <1>2, VisitsANode
  <2>3. CASE k = at
    <3>1. \/ order[at] \notin pending'
          \/ ~ReadyToRun(order[at]) /\ UNCHANGED <<pending, completed>>
      BY <1>2 DEF Visit, PassOver, Skip, Submit
    <3> QED
      BY <2>1, <2>3, <3>1 DEF ReadyToRun, Deps
  <2>4. CASE k # at
    <3>1. k < at
      BY <1>0, <2>1, <2>4
    <3>2. ~ReadyToRun(order[k])
      BY <2>1, <2>2, <3>1 DEF PassComplete
    <3>3. pending' \subseteq pending
      BY <1>2 DEF Visit, PassOver, Skip, Submit
    <3>4. completed' \subseteq completed \cup {order[at]}
          /\ (completed' # completed => ReadyToRun(order[at]))
      BY <1>2 DEF Visit, PassOver, Skip, Submit
    <3>5. CASE completed' = completed
      BY <2>1, <3>2, <3>3, <3>5 DEF ReadyToRun, Deps
    <3>6. CASE ReadyToRun(order[at])
      <4>1. order[at] \notin Deps(order[k])
        <5>1. SUFFICES ASSUME order[at] \in Deps(order[k]) PROVE FALSE
          OBVIOUS
        <5>2. PICK i \in 1..(k - 1) : order[i] = order[at]
          BY <2>1, <5>1 DEF PlanOrdered
        <5>3. i \in 1..Len(order) /\ i < at
          BY <1>0, <2>1, <2>2, <3>1, <5>2
        <5>4. ~ReadyToRun(order[i])
          BY <2>2, <5>3 DEF PassComplete
        <5> QED
          BY <3>6, <5>2, <5>4
      <4> QED
        BY <2>1, <3>2, <3>3, <3>4, <4>1 DEF ReadyToRun, Deps
    <3> QED
      BY <3>4, <3>5, <3>6
  <2> QED
    BY <2>3, <2>4
<1>3. ASSUME ~Loop, ~Visit
      PROVE  phase = "submit" /\ UNCHANGED <<stage, order, at, pending, completed>>
  BY <1>3 DEF Next, Coordinator, Round, Place, Start, Visited, Wait, Collect, Collected,
       Leave, Cancel, Drain, Settle, PoolThread, StartNode, FinishNode, JobFails,
       CancelExecution, Ended, coordinator, plan, vars
<1> QED
  BY <1>1, <1>2, <1>3 DEF PassComplete, ReadyToRun, Deps

(* A completed dependency has what it will ever have, and a node is        *)
(* submitted only when all of them are completed.                          *)
LEMMA InputsTakenStep ==
    ASSUME Typed, BooksAgree, InputsTaken, [Next]_vars
    PROVE  InputsTaken'
<1> DEFINE D(n) == Dependencies(stage.use, n)
           R(n) == RequiredDependencies(stage.use, n)
<1>0. stage' = stage
  BY DEF Next, Coordinator, Round, Place, Start, Loop, Visit, Visited, Wait, Collect, Collected,
         Leave, Cancel, Drain, Settle, PoolThread, StartNode, FinishNode, JobFails,
         CancelExecution, Ended, plan, vars
<1>1. SUFFICES ASSUME NEW n \in Nodes, task'[n] # "none"
               PROVE  /\ D(n) \subseteq completed'
                      /\ seen'[n] \cap D(n) = {d \in D(n) : Succeeded(d)'}
                      /\ R(n) \subseteq seen'[n]
  <2>1. \A n \in Nodes : task'[n] # "none" =>
            /\ Dependencies(stage'.use, n) \subseteq completed'
            /\ seen'[n] \cap Dependencies(stage'.use, n) =
                  {d \in Dependencies(stage'.use, n) : result'[d] \in {"ok", "inconclusive"}}
            /\ RequiredDependencies(stage'.use, n) \subseteq seen'[n]
    BY <1>0, <1>1 DEF Succeeded
  <2> QED
    BY <2>1 DEF InputsTaken, InputsAreFinal, Deps, Required, Succeeded
<1> HIDE DEF D, R
<1>2. Deps(n) = D(n) /\ Required(n) = R(n) /\ R(n) \subseteq D(n)
  BY DepsTyped DEF Deps, Required, D, R
<1>3. CASE task[n] # "none" /\ seen'[n] = seen[n]
  <2>1. /\ D(n) \subseteq completed /\ R(n) \subseteq seen[n]
        /\ seen[n] \cap D(n) = {d \in D(n) : Succeeded(d)}
    BY <1>2, <1>3 DEF InputsTaken, InputsAreFinal
  <2> QED
    BY <1>3, <2>1, CompletedStays
<1>4. CASE Visit /\ Submit(order[at]) /\ n = order[at]
  <2>1. D(n) \subseteq completed /\ R(n) \cap failed = {} /\ UNCHANGED <<completed, result>>
    BY <1>2, <1>4 DEF Visit, Submit, ReadyToRun, Blocked
  <2>2. seen'[n] = published
    BY <1>4 DEF Submit, Typed
  <2>3. \A d \in D(n) : d \in published <=> Succeeded(d)
    BY <2>1 DEF BooksAgree
  <2>4. \A d \in D(n) : d \notin failed => Succeeded(d)
    BY <2>1 DEF BooksAgree
  <2> QED
    BY <1>2, <2>1, <2>2, <2>3, <2>4 DEF Succeeded
<1>5. ~(Visit /\ Submit(order[at]) /\ n = order[at]) => task[n] # "none" /\ seen'[n] = seen[n]
  <2> SUFFICES ASSUME ~(Visit /\ Submit(order[at]) /\ n = order[at])
               PROVE  task[n] # "none" /\ seen'[n] = seen[n]
    OBVIOUS
  <2>1. CASE Visit /\ Submit(order[at])
    BY <1>1, <2>1 DEF Submit, Typed
  <2>2. CASE Cancel
    BY <1>1, <2>2 DEF Cancel
  <2>3. ASSUME NEW m \in Nodes, StartNode(m) \/ FinishNode(m)
        PROVE  task[n] # "none" /\ seen'[n] = seen[n]
    <3>1. /\ task[m] # "none" /\ seen' = seen
          /\ \E t \in {"running", "finished"} : task' = [task EXCEPT ![m] = t]
      BY <2>3 DEF StartNode, FinishNode
    <3> QED
      BY <1>1, <3>1 DEF Typed
  <2>4. CASE UNCHANGED <<task, seen>>
    BY <1>1, <2>4
  <2> QED
    BY <2>1, <2>2, <2>3, <2>4, StageSteps DEF books, Skip, Collect, tasks
<1> QED
  BY <1>3, <1>4, <1>5

LEMMA SkippedStep ==
    ASSUME Typed, NothingLost, PhasesAgree, BooksAgree, SkippedAreBlocked, [Next]_vars
    PROVE  SkippedAreBlocked'
<1>0. stage' = stage
  BY DEF Next, Coordinator, Round, Place, Start, Loop, Visit, Visited, Wait, Collect, Collected,
         Leave, Cancel, Drain, Settle, PoolThread, StartNode, FinishNode, JobFails,
         CancelExecution, Ended, plan, vars
<1>1. SUFFICES ASSUME NEW n \in completed', task'[n] = "none"
               PROVE  RequiredDependencies(stage.use, n) \cap failed' # {}
  <2>1. \A n \in completed' : task'[n] = "none" =>
            RequiredDependencies(stage'.use, n) \cap failed' # {}
    BY <1>0, <1>1
  <2> QED
    BY <2>1 DEF SkippedAreBlocked, Blocked, Required
<1>2. failed \subseteq failed'
  BY StageSteps DEF books, Skip, Submit, Collect, Cancel, StartNode, FinishNode, coordinator
<1>3. CASE n \in completed
  <2>1. RequiredDependencies(stage.use, n) \cap failed # {}
    BY <1>1, <1>3, CompletedStays DEF SkippedAreBlocked, Blocked, Required
  <2> QED
    BY <1>2, <2>1
<1>4. CASE n \notin completed
  <2>1. ~(\E m \in Nodes : Collect(m))
    <3> SUFFICES ASSUME NEW m \in Nodes, Collect(m) PROVE FALSE
      OBVIOUS
    <3>1. n = m /\ task' = task
      BY <1>1, <1>4 DEF Collect, tasks
    <3>2. task[m] # "none"
      BY DEF Collect, BooksAgree, Typed
    <3> QED
      BY <1>1, <3>1, <3>2
  <2>2. Visit /\ Skip(order[at])
    BY <1>1, <1>4, <2>1, StageSteps DEF books, Submit, Cancel, StartNode, FinishNode, coordinator
  <2>3. Blocked(order[at]) /\ n = order[at]
    BY <1>1, <1>4, <2>2 DEF Skip
  <2> QED
    BY <1>2, <2>3 DEF Blocked, Required
<1> QED
  BY <1>3, <1>4

-----------------------------------------------------------------------------
(* After a whole pass something runs or nothing is pending: the first      *)
(* pending node of the plan has all its dependencies completed.            *)
LEMMA SomethingRuns ==
    ASSUME Typed, PlanOrdered, NothingLost, PhasesAgree, PassComplete,
           phase = "submit", at > Len(order), running = {}
    PROVE  pending = {}
<1> DEFINE T == {k \in 1..Len(order) : order[k] \in pending}
<1>0. Len(order) \in Nat /\ at \in Nat
  BY DEF Typed
<1>1. Nodes = pending \cup completed
  BY DEF NothingLost, PhasesAgree
<1>2. ASSUME T # {} PROVE FALSE
  <2>1. T \subseteq Nat
    BY <1>0
  <2>2. PICK k \in T : \A i \in T : ~(i < k)
    <3>1. PICK k \in T : \A i \in Nat : <<i, k>> \in OpToRel(<, Nat) => i \notin T
      BY <1>2, <2>1, NatLessThanWellFounded, WFMin
    <3> QED
      BY <2>1, <3>1 DEF OpToRel
  <2>3. \A d \in Deps(order[k]) : d \in completed
    <3> TAKE d \in Deps(order[k])
    <3>1. PICK i \in 1..(k - 1) : order[i] = d
      BY DEF PlanOrdered
    <3>2. i \in 1..Len(order) /\ i < k
      BY <1>0, <3>1
    <3>3. d \notin pending
      BY <2>2, <3>1, <3>2
    <3>4. d \in Nodes
      BY <3>1, <3>2 DEF Typed
    <3> QED
      BY <1>1, <3>3, <3>4
  <2>4. ReadyToRun(order[k])
    BY <2>3 DEF ReadyToRun
  <2>5. k < at
    BY <1>0
  <2> QED
    BY <2>4, <2>5 DEF PassComplete
<1>3. remaining = {}
  BY DEF PlanOrdered
<1>4. Nodes \subseteq Placed
  BY <1>3 DEF PlanOrdered
<1>5. ASSUME NEW n \in pending PROVE FALSE
  <2>1. n \in Placed
    BY <1>4 DEF Typed
  <2>2. PICK k \in 1..Len(order) : order[k] = n
    BY <2>1 DEF Placed
  <2> QED
    BY <1>2, <2>2
<1> QED
  BY <1>5

LEMMA NeverStallsStep ==
    ASSUME Typed, PlanOrdered, NothingLost, PhasesAgree, PassComplete, NeverStalls, [Next]_vars
    PROVE  NeverStalls'
<1>1. CASE Visited
  <2>1. ~(running = {} /\ pending # {})
    BY <1>1, SomethingRuns DEF Visited
  <2> QED
    BY <1>1, <2>1 DEF Visited, NeverStalls
<1>2. CASE ~Visited
  BY <1>2 DEF NeverStalls, Next, Coordinator, Round, Place, Start, Loop, Visit, PassOver, Skip,
       Submit, Wait, Collect, Collected, Leave, Cancel, Drain, Settle, PoolThread, StartNode,
       FinishNode, JobFails, CancelExecution, Ended, coordinator, vars
<1> QED
  BY <1>1, <1>2

(* Once the stage has returned, every node is completed. *)
LEMMA AllCompleted ==
    ASSUME Typed, BooksAgree, NothingLost, PhasesAgree, phase \in {"settle", "returned"}
    PROVE  /\ completed = Nodes
           /\ published = {n \in Nodes : Succeeded(n)}
           /\ failed = {n \in Nodes : ~Succeeded(n)}
<1>1. failure = "none" /\ pending \cup running = {}
  BY DEF PhasesAgree
<1>2. completed = Nodes
  BY <1>1 DEF NothingLost
<1> QED
  BY <1>2 DEF BooksAgree

LEMMA ResultStep ==
    ASSUME Typed, BooksAgree, NothingLost, PhasesAgree, ResultIsFaithful, [Next]_vars
    PROVE  ResultIsFaithful'
<1> SUFFICES ASSUME phase' = "returned"
             PROVE  /\ status' # "error" => stage'.producers \subseteq published'
                    /\ status' = "ok" => \A n \in Nodes : result'[n] = "ok"
                    /\ (\E n \in Nodes : ~Succeeded(n)' /\ n \notin Tolerated(stage'.use))
                          => status' = "error"
  BY DEF ResultIsFaithful
<1>1. CASE phase = "returned"
  <2>1. UNCHANGED <<stage, status, published>>
    BY <1>1 DEF Next, Coordinator, Round, Place, Start, Loop, Visit, Visited, Wait, Collect,
         Collected, Leave, Cancel, Drain, Settle, PoolThread, StartNode, FinishNode, JobFails,
         CancelExecution, Ended, coordinator, plan, vars
  <2>2. \A n \in Nodes : result'[n] = result[n] /\ (Succeeded(n)' <=> Succeeded(n))
    BY <1>1, AllCompleted, CompletedStays
  <2> QED
    BY <1>1, <2>1, <2>2 DEF ResultIsFaithful
<1>2. CASE phase # "returned"
  <2>1. Settle
    BY <1>2 DEF Next, Coordinator, Round, Place, Start, Loop, Visit, PassOver, Skip, Submit,
         Visited, Wait, Collect, Collected, Leave, Cancel, Drain, PoolThread, StartNode,
         FinishNode, JobFails, CancelExecution, Ended, coordinator, vars
  <2>2. /\ phase = "settle" /\ UNCHANGED <<stage, published, failed, result>>
        /\ status' = IF failed = {} THEN status
                     ELSE IF FatalFailures(stage.use, stage.producers, failed) = {}
                          THEN "inconclusive" ELSE "error"
    BY <2>1 DEF Settle, plan, tasks
  <2>3. /\ completed = Nodes /\ published = {n \in Nodes : Succeeded(n)}
        /\ failed = {n \in Nodes : ~Succeeded(n)}
    BY <2>2, AllCompleted
  <2>4. status # "error" /\ (status = "ok" => \A n \in Nodes : result[n] # "inconclusive")
    BY <2>2, <2>3 DEF PhasesAgree
  <2>5. stage.producers \subseteq Nodes
    BY DEF Typed
  <2>6. status' # "error" => failed \cap stage.producers = {} /\ failed \subseteq Tolerated(stage.use)
    BY <2>2 DEF FatalFailures
  <2>7. status' # "error" => stage'.producers \subseteq published'
    BY <2>2, <2>3, <2>5, <2>6
  <2>8. ASSUME status' = "ok" PROVE \A n \in Nodes : result'[n] = "ok"
    <3>1. failed = {} /\ status = "ok"
      BY <2>2, <2>8
    <3> QED
      BY <2>2, <2>3, <2>4, <3>1 DEF Succeeded
  <2>9. ASSUME NEW n \in Nodes, ~Succeeded(n)', n \notin Tolerated(stage'.use)
        PROVE  status' = "error"
    BY <2>2, <2>3, <2>6, <2>9 DEF Succeeded
  <2> QED
    BY <2>7, <2>8, <2>9
<1> QED
  BY <1>1, <1>2

LEMMA InitStage == Init => StageInv
<1> SUFFICES ASSUME Init PROVE StageInv
  OBVIOUS
<1>1. Typed
  BY StageConstants DEF Init, Typed, Phases
<1>2. PlanOrdered
  BY DEF Init, PlanOrdered, Placed
<1>3. BooksAgree /\ NothingLost /\ PhasesAgree /\ PassComplete
  BY DEF Init, BooksAgree, NothingLost, PhasesAgree, PassComplete, Succeeded
<1>4. InputsTaken /\ SkippedAreBlocked /\ NeverStalls /\ ResultIsFaithful
  BY DEF Init, InputsTaken, InputsAreFinal, SkippedAreBlocked, NeverStalls, ResultIsFaithful
<1> QED
  BY <1>1, <1>2, <1>3, <1>4 DEF StageInv

LEMMA StageInvStep == StageInv /\ [Next]_vars => StageInv'
BY TypedStep, PlanOrderedStep, BooksStep, NothingLostStep, PhasesStep, PassCompleteStep,
   InputsTakenStep, SkippedStep, NeverStallsStep, ResultStep DEF StageInv

(* For any nodes and any stage over them: whatever the order in which      *)
(* nodes finish, fail or are cancelled, the snapshot of the outputs a node *)
(* is submitted with holds, of its dependencies, exactly those that        *)
(* succeed, now and later, and all the required ones.                      *)
THEOREM SnapshotsAreFinal == Spec => []InputsAreFinal
<1>1. StageInv => InputsAreFinal
  BY DEF StageInv, InputsTaken
<1> QED
  BY <1>1, InitStage, StageInvStep, PTL DEF Spec

(* For any nodes and any stage over them: run_stage returns OK only when   *)
(* every node succeeded, ERROR when a failure was not tolerated, with all  *)
(* bound outputs otherwise; it skips exactly the nodes a failure blocks,   *)
(* leaves none in the pool, and its stall assertion never fails, because   *)
(* the plan puts every node after its dependencies.                        *)
THEOREM StageReturnsFaithfully == Spec => []ReturnIsFaithful
<1>1. StageInv => ReturnIsFaithful
  <2> SUFFICES ASSUME StageInv PROVE ReturnIsFaithful
    OBVIOUS
  <2> USE DEF StageInv
  <2>1. OnlyBlockedNodesSkipped
    <3> SUFFICES ASSUME phase = "returned", NEW n \in Nodes
                 PROVE  task[n] = "none" <=> \E d \in Required(n) : ~Succeeded(d)
      BY DEF OnlyBlockedNodesSkipped
    <3>1. completed = Nodes /\ failed = {m \in Nodes : ~Succeeded(m)}
      BY AllCompleted
    <3>2. task[n] = "none" => \E d \in Required(n) : ~Succeeded(d)
      BY <3>1 DEF SkippedAreBlocked, Blocked
    <3>3. task[n] # "none" => \A d \in Required(n) : Succeeded(d)
      BY DepsTyped DEF InputsTaken, InputsAreFinal
    <3> QED
      BY <3>2, <3>3
  <2>2. StageDrained
    <3> SUFFICES ASSUME phase \in {"returned", "raised"}, NEW n \in Nodes
                 PROVE  task[n] \in {"none", "finished", "cancelled"}
      BY DEF StageDrained
    <3>1. \A m \in running : Done(m)
      BY DEF PhasesAgree
    <3>2. task[n] \notin {"queued", "running"}
      BY <3>1 DEF BooksAgree, Done
    <3> QED
      BY <3>2 DEF Typed
  <2> QED
    BY <2>1, <2>2 DEF ReturnIsFaithful
<1> QED
  BY <1>1, InitStage, StageInvStep, PTL DEF Spec
=============================================================================
