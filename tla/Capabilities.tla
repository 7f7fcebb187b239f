----------------------------- MODULE Capabilities -----------------------------
(***************************************************************************)
(* EngineCapabilities (capabilities/engine.py): named services built on    *)
(* first use under a re-entrant lock and closed with the engine.  A        *)
(* factory runs under the lock and may itself require capabilities or      *)
(* close the engine; the closers run outside the lock.                     *)
(***************************************************************************)
EXTENDS Naturals, FiniteSets, Sequences, SequencesExt

CONSTANTS Names,        \* capability names that somebody requires
          Builtin,      \* names of the built-in registrations
          EntryPoints,  \* EntryPoints[n]: the names that installed packages register for n
          Closing,      \* names whose registration has a closer
          Users,        \* threads
          MaxBuilt      \* bound on instances built

VARIABLES
    instances,  \* _instances: name -> number of the instance, 0 before it is built
    built,      \* the names of the instances built, in order
    factories,  \* factories[u]: the names whose factory the thread is in, inner last
    closers,    \* _closers: instances, in order of construction
    capClosed,  \* _closed
    closing,    \* closing[u]: the instances its close() has still to close
    closed      \* closed[i]: how often the closer of instance i was called

capVars == <<instances, built, factories, closers, capClosed, closing, closed>>

CapInit ==
    /\ instances = [n \in Names |-> 0] /\ built = <<>> /\ closers = <<>> /\ capClosed = FALSE
    /\ factories = [u \in Users |-> <<>>] /\ closing = [u \in Users |-> <<>>]
    /\ closed = <<>>

\* CapabilityCatalog.resolve: a built-in nobody else registers, or the one
\* installed package, which must register the name it was found under.
Resolves(n) == IF n \in Builtin THEN EntryPoints[n] = <<>> ELSE EntryPoints[n] = <<n>>

\* The lock is re-entrant: the thread inside a factory holds it.
HasLock(u) == \A v \in Users \ {u} : factories[v] = <<>>

UnderConstruction == UNION {ToSet(factories[u]) : u \in Users}

\* _construct up to the call of the factory.  A name that is closed, built,
\* under construction or unknown changes nothing.
Require(u, n) ==
    /\ HasLock(u) /\ closing[u] = <<>> /\ ~capClosed
    /\ instances[n] = 0 /\ n \notin UnderConstruction /\ Resolves(n)
    /\ Len(built) + Cardinality(UnderConstruction) < MaxBuilt
    /\ factories' = [factories EXCEPT ![u] = Append(@, n)]
    /\ UNCHANGED <<instances, built, closers, capClosed, closing, closed>>

\* The factory raises or returns None.
FactoryFails(u) ==
    /\ factories[u] # <<>> /\ closing[u] = <<>>
    /\ factories' = [factories EXCEPT ![u] = Front(@)]
    /\ UNCHANGED <<instances, built, closers, capClosed, closing, closed>>

\* Mutant: the owner is not looked at again after the factory.
ConstructUnchecked(u) ==
    LET n == Last(factories[u]) IN
    /\ factories[u] # <<>> /\ closing[u] = <<>>
    /\ factories' = [factories EXCEPT ![u] = Front(@)]
    /\ built' = Append(built, n) /\ closed' = Append(closed, 0)
    /\ instances' = [instances EXCEPT ![n] = Len(built')]
    /\ closers' = IF n \in Closing THEN Append(closers, Len(built')) ELSE closers
    /\ UNCHANGED <<capClosed, closing>>

\* _construct after the factory: an engine that was closed meanwhile, by the
\* factory itself, does not keep the instance, which is closed here.
Construct(u) ==
    LET n == Last(factories[u]) IN
    /\ factories[u] # <<>> /\ closing[u] = <<>>
    /\ factories' = [factories EXCEPT ![u] = Front(@)]
    /\ built' = Append(built, n)
    /\ IF capClosed
       THEN /\ closed' = Append(closed, IF n \in Closing THEN 1 ELSE 0)
            /\ UNCHANGED <<instances, closers>>
       ELSE /\ instances' = [instances EXCEPT ![n] = Len(built')]
            /\ closers' = IF n \in Closing THEN Append(closers, Len(built')) ELSE closers
            /\ closed' = Append(closed, 0)
    /\ UNCHANGED <<capClosed, closing>>

\* close() under the lock: the first caller takes the closers.
BeginClose(u) ==
    /\ HasLock(u) /\ closing[u] = <<>> /\ ~capClosed
    /\ capClosed' = TRUE /\ closers' = <<>>
    /\ closing' = [closing EXCEPT ![u] = Reverse(closers)]
    /\ UNCHANGED <<instances, built, factories, closed>>

\* close() outside the lock: a closer that raises does not stop the others.
CloseNext(u) ==
    /\ closing[u] # <<>>
    /\ closed' = [closed EXCEPT ![Head(closing[u])] = @ + 1]
    /\ closing' = [closing EXCEPT ![u] = Tail(@)]
    /\ UNCHANGED <<instances, built, factories, closers, capClosed>>

Settled == \A u \in Users : factories[u] = <<>> /\ closing[u] = <<>>
CapDone == capClosed /\ Settled

CapNext == \E u \in Users : \/ \E n \in Names : Require(u, n)
                            \/ FactoryFails(u) \/ Construct(u) \/ BeginClose(u) \/ CloseNext(u)

CapSpec == CapInit /\ [][CapNext \/ (CapDone /\ UNCHANGED capVars)]_capVars

-----------------------------------------------------------------------------
(***************************************************************************)
(* Every capability built for the engine is closed exactly once when the   *)
(* engine has been closed, also one whose factory was running when a close *)
(* began, and none while the engine still hands it out (the two _closed    *)
(* tests of _construct against close()).                                   *)
(***************************************************************************)
BuiltIsClosedOnce ==
    /\ \A i \in DOMAIN built : closed[i] <= (IF built[i] \in Closing /\ capClosed THEN 1 ELSE 0)
    /\ CapDone => \A i \in DOMAIN built : built[i] \in Closing => closed[i] = 1
=============================================================================
