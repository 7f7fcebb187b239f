----------------------------- MODULE JobHandles -----------------------------
(***************************************************************************)
(* The handles through which nodes reach the job scheduler (_NodeJobs,     *)
(* concurrency.py).  A handle is immutable; limit() and                    *)
(* with_cancellation() derive new ones, and run() turns a handle into the  *)
(* cancellation event, parent events, quotas and limit of one call of      *)
(* JobScheduler.run.  After these operators, the handles a program can     *)
(* derive from one JobScheduler and the runs it can start through them.    *)
(* Every with_cancellation() of the engine passes                          *)
(* an event made for it (stages/service.py:477, contracts.py:464,          *)
(* simple_llm_review/service.py:329) or the handle's own, and every fresh  *)
(* run event and quota is a new object: `made` numbers them.               *)
(***************************************************************************)
EXTENDS Integers, FiniteSets

CONSTANTS MaxWorkers,   \* size of the thread pool
          MaxMade       \* bound on the objects made

VARIABLES handles,  \* the handles in use
          calls,    \* the arguments of the runs started
          made      \* events and quotas made so far; the latest is number `made`

hvars == <<handles, calls, made>>

(* The smaller of two limits. *)
Lesser(m, n) == IF m <= n THEN m ELSE n

(* _NodeJobs.__init__; quotas are [id, limit] records, `id` the identity   *)
(* of the _JobQuota object.                                                *)
Handle(limit, own, parents, quotas, explicit) ==
    [limit |-> limit, own |-> own, parents |-> parents, quotas |-> quotas,
     explicit |-> explicit]

(* Mutant: the limit is not the smaller of the two. *)
LimitUnclamped(h, n, id) ==
    Handle(n, h.own, h.parents, h.quotas \cup {[id |-> id, limit |-> n]}, h.explicit)

(* _NodeJobs.limit: a new quota only where it restricts the handle. *)
Limit(h, n, id) ==
    LET maximum == Lesser(n, h.limit)
        extra   == IF h.quotas = {} \/ maximum < h.limit
                   THEN {[id |-> id, limit |-> maximum]} ELSE {}
    IN  Handle(maximum, h.own, h.parents, h.quotas \cup extra, h.explicit)

(* Mutant: the events inherited by the handle are forgotten. *)
WithCancellationOfOwn(h, event) ==
    Handle(h.limit, event, IF h.own = event THEN {} ELSE {h.own}, h.quotas, TRUE)

(* _NodeJobs.with_cancellation *)
WithCancellation(h, event) ==
    Handle(h.limit, event,
           IF h.own = event THEN h.parents ELSE h.parents \cup {h.own},
           h.quotas, TRUE)

(* JobScheduler.limit *)
SchedulerLimit(maxWorkers, event, n, id) ==
    Limit(Handle(maxWorkers, event, {}, {}, FALSE), n, id)

(* Mutant: every run sets the event of its handle. *)
RunArgumentsShared(h, fresh) ==
    [own |-> h.own, parents |-> h.parents, quotas |-> h.quotas, limit |-> h.limit]

(* _NodeJobs.run: a handle without a scope of its own gives each run a     *)
(* fresh event, so that a failing run does not cancel its siblings.        *)
RunArguments(h, fresh) ==
    [own     |-> IF h.explicit THEN h.own ELSE fresh,
     parents |-> IF h.explicit THEN h.parents ELSE h.parents \cup {h.own},
     quotas  |-> h.quotas,
     limit   |-> h.limit]

(* The events a run or a handle reacts to. *)
Observed(h) == h.parents \cup {h.own}

-----------------------------------------------------------------------------
Init ==
    /\ \E n \in 1..MaxWorkers :
          handles = {SchedulerLimit(MaxWorkers, 1, n, 2)}
    /\ calls = {}
    /\ made = 2

MakeLimit(h, n) ==
    /\ made < MaxMade
    /\ made' = made + 1
    /\ handles' = handles \cup {Limit(h, n, made + 1)}
    /\ UNCHANGED calls

(* A new event, or the event the handle already has. *)
MakeScope(h) ==
    /\ made < MaxMade
    /\ \E event \in {made + 1, h.own} :
          handles' = handles \cup {WithCancellation(h, event)}
    /\ made' = made + 1
    /\ UNCHANGED calls

StartRun(h) ==
    /\ made < MaxMade
    /\ made' = made + 1
    /\ calls' = calls \cup {RunArguments(h, made + 1)}
    /\ UNCHANGED handles

(* The bound is reached. *)
Exhausted == made >= MaxMade /\ UNCHANGED hvars

Next ==
    \/ \E h \in handles :
          \/ \E n \in 1..MaxWorkers : MakeLimit(h, n)
          \/ MakeScope(h)
          \/ StartRun(h)
    \/ Exhausted

HandleSpec == Init /\ [][Next]_hvars

-----------------------------------------------------------------------------
Scoped == handles \cup calls

(* Whoever observes the event of a run or handle observes every event that *)
(* run or handle observes: the order in which the dispatcher scans the     *)
(* registered runs for cancellation cannot matter.                         *)
ScopesAreNested ==
    \A x, y \in Scoped : x.own \in Observed(y) => Observed(x) \subseteq Observed(y)

(* The event a failing run sets is seen by no handle, unless the program   *)
(* asked for a shared scope by with_cancellation() ("cancelling this scope *)
(* leaves parents intact").                                                *)
PlainFailureStaysLocal ==
    \A c \in calls, h \in handles :
        c.own \in Observed(h) => \E g \in handles : g.explicit /\ g.own = c.own

(* Deriving a handle never loosens what its ancestors allow: the limit of  *)
(* a handle is the tightest of the quotas it holds.                        *)
LimitIsTightestQuota ==
    \A x \in Scoped :
        /\ \E q \in x.quotas : q.limit = x.limit
        /\ \A q \in x.quotas : x.limit <= q.limit
=============================================================================
