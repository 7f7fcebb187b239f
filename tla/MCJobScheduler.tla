--------------------------- MODULE MCJobScheduler ---------------------------
(***************************************************************************)
(* Instances of JobScheduler.  The scopes and quotas of the runs come from *)
(* handles derived the way the engine derives them (JobHandles).           *)
(***************************************************************************)
EXTENDS JobScheduler

(* Only the operators on handles are used. *)
H == INSTANCE JobHandles WITH MaxMade <- 0, handles <- {}, calls <- {}, made <- 0

(* The engine's handle, and a node's explicit scope limited to one job. *)
Engine == H!SchedulerLimit(MaxWorkers, "engine", MaxWorkers, "shared")
Node   == H!Limit(H!WithCancellation(Engine, "node"), 1, "narrow")

(* Runs through the node's handle, and a plain run of the engine's. *)
CallOf(r) == CASE r = "first"  -> H!RunArguments(Node, "unused")
               [] r = "second" -> H!RunArguments(Node, "unused")
               [] r = "plain"  -> H!RunArguments(Engine, "private")

MCEvents   == {"engine", "node", "private"}
MCExternal == {"engine", "node"}
MCQuotas   == Engine.quotas \cup Node.quotas
MCOwn      == [r \in Runs |-> CallOf(r).own]
MCParents  == [r \in Runs |-> CallOf(r).parents]
MCQuotasOf == [r \in Runs |-> CallOf(r).quotas]
MCQuotaLimit == [q \in MCQuotas |-> q.limit]
MCMaxConcurrency == [r \in Runs |-> H!Lesser(CallOf(r).limit, MaxWorkers)]

(* Calls of independent threads, or the plain run started by the           *)
(* completion callback of the first.                                       *)
MCFlat   == [r \in Runs |-> NoRun]
MCNested == [r \in Runs |-> IF r = "plain" THEN "first" ELSE NoRun]

(* Bounds: jobs per run. *)
MCTwoThenOne == [r \in Runs |-> IF r = "first" THEN 2 ELSE 1]
=============================================================================
