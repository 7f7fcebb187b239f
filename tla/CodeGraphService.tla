-------------------------- MODULE CodeGraphService --------------------------
(***************************************************************************)
(* The code graph node (nodes/codegraph): materialize() builds one graph   *)
(* of the codebase at a time, others wait for it or take it over; a graph  *)
(* is kept in SQLite under the fingerprint of the sources it was built     *)
(* from and reused while they are unchanged; load() reads it back.         *)
(*                                                                         *)
(* The text of a file is its version.  Fingerprinting and building read    *)
(* the files one after the other while users edit them, so neither sees    *)
(* the codebase at one moment.  Edits never restore an earlier version.    *)
(***************************************************************************)
EXTENDS Naturals, FiniteSets

CONSTANTS Sources,     \* the selected files
          Providers,   \* the code graph providers
          ProviderOf,  \* the provider of each file
          Callers,     \* threads that call materialize and load
          MaxChanges,  \* bound: edits of the sources
          MaxRows      \* bound: graphs saved

VARIABLES
    version,     \* version[f]: the text of f now, the number of the edit that wrote it
    edits,       \* edits so far
    rows,        \* canonical_codegraph and its records
    revision,    \* the AUTOINCREMENT counter
    active,      \* _materialize_active: who builds, or nobody
    generation,  \* _materialize_generation
    last,        \* _last_materialization
    call,        \* call[c]: the call of c
    draft,       \* what the active call is doing
    since        \* history: the codebases there were since it became active

graphVars == <<version, edits, rows, revision, active, generation, last, call, draft, since>>

NoOne == "nobody"
NotRead == MaxChanges + 1
Unread == [f \in Sources |-> NotRead]
NoReference == [rev |-> 0, print |-> Unread, failed |-> {}]
IdleCall == [at |-> "idle", seen |-> 0, ref |-> NoReference, got |-> Unread]
NewDraft == [step |-> "print", print |-> Unread, graph |-> Unread, failed |-> {},
             check |-> Unread, ref |-> NoReference]

\* _reference_from_connection
Reference(row) == [rev |-> row.rev, print |-> row.print, failed |-> row.failed]

GraphInit ==
    /\ version = [f \in Sources |-> 0] /\ edits = 0 /\ rows = {} /\ revision = 0
    /\ active = NoOne /\ generation = 0 /\ last = NoReference
    /\ call = [c \in Callers |-> IdleCall] /\ draft = NewDraft /\ since = {}

EditSource(f) ==
    /\ edits < MaxChanges /\ edits' = edits + 1
    /\ version' = [version EXCEPT ![f] = edits + 1]
    /\ since' = since \union {version'}
    /\ UNCHANGED <<rows, revision, active, generation, last, call, draft>>

-----------------------------------------------------------------------------
(* materialize: one builds, the others wait for the generation to advance.    *)

BecomeActive(c) ==
    /\ active' = c /\ draft' = NewDraft /\ since' = {version}
    /\ call' = [call EXCEPT ![c].at = "active"]

EnterMaterialize(c) ==
    /\ call[c].at = "idle"
    /\ IF active = NoOne THEN BecomeActive(c)
       ELSE /\ call' = [call EXCEPT ![c].at = "waiting", ![c].seen = generation]
            /\ UNCHANGED <<active, draft, since>>
    /\ UNCHANGED <<version, edits, rows, revision, generation, last>>

\* A waiter whose generation failed waits on while another caller is active.
WakeWaiter(c) ==
    /\ call[c].at = "waiting" /\ generation > call[c].seen
    /\ IF last # NoReference
       THEN /\ call' = [call EXCEPT ![c].at = "returned", ![c].ref = last]
            /\ UNCHANGED <<active, draft, since>>
       ELSE /\ active = NoOne
            /\ BecomeActive(c)
    /\ UNCHANGED <<version, edits, rows, revision, generation, last>>

CancelWaiter(c) ==
    /\ call[c].at = "waiting" /\ call' = [call EXCEPT ![c].at = "raised"]
    /\ UNCHANGED <<version, edits, rows, revision, active, generation, last, draft, since>>

Draft(step) == active # NoOne /\ draft.step = step
Leave(reference) ==
    draft' = [draft EXCEPT !.step = "leave", !.ref = reference]

\* _fingerprint: the files are hashed one by one.
HashSource(f) ==
    /\ Draft("print") /\ draft.print[f] = NotRead
    /\ draft' = [draft EXCEPT !.print[f] = version[f]]
    /\ UNCHANGED <<version, edits, rows, revision, active, generation, last, call, since>>

\* reference_for_fingerprint: complete graphs first, then the latest.
Preferred(found) ==
    LET complete == {r \in found : r.failed = {}}
        best == IF complete # {} THEN complete ELSE found
    IN CHOOSE r \in best : \A s \in best : s.rev <= r.rev

LookUp ==
    /\ Draft("print") /\ \A f \in Sources : draft.print[f] # NotRead
    /\ LET found == {r \in rows : r.print = draft.print}
       IN IF found # {} /\ Preferred(found).failed = {}
          THEN Leave(Reference(Preferred(found)))
          ELSE draft' = [draft EXCEPT !.step = "build"]
    /\ UNCHANGED <<version, edits, rows, revision, active, generation, last, call, since>>

-----------------------------------------------------------------------------
(* _build: every provider builds the graph of its files.                      *)

Built == {f \in Sources : draft.graph[f] # NotRead} \union draft.failed

BuildFile(f, fails) ==
    /\ Draft("build") /\ f \notin Built
    /\ draft' = IF fails THEN [draft EXCEPT !.failed = @ \union {f}]
                ELSE [draft EXCEPT !.graph[f] = version[f]]
    /\ UNCHANGED <<version, edits, rows, revision, active, generation, last, call, since>>

\* A provider that does not start, raises, or whose result is invalid or does not
\* cover its files fails all of them, and its graph is not merged.
ProviderFails(p) ==
    LET own == {f \in Sources : ProviderOf[f] = p}
    IN /\ Draft("build") /\ ~(own \subseteq draft.failed)
       /\ draft' = [draft EXCEPT !.failed = @ \union own,
                                 !.graph = [f \in Sources |-> IF f \in own THEN NotRead ELSE @[f]]]
       /\ UNCHANGED <<version, edits, rows, revision, active, generation, last, call, since>>

\* annotate_graph: semantics that fail make a file a failed one; it stays in the graph.
Annotate(broken) ==
    /\ Draft("build") /\ Built = Sources /\ broken \subseteq Sources \ draft.failed
    /\ draft' = [draft EXCEPT !.step = "check", !.failed = @ \union broken]
    /\ UNCHANGED <<version, edits, rows, revision, active, generation, last, call, since>>

HashAgain(f) ==
    /\ Draft("check") /\ draft.check[f] = NotRead
    /\ draft' = [draft EXCEPT !.check[f] = version[f]]
    /\ UNCHANGED <<version, edits, rows, revision, active, generation, last, call, since>>

\* Mutant: the sources are not looked at again after the build.
SourcesUnchangedAlways == TRUE

SourcesUnchanged == draft.check = draft.print

\* The sources changed under the build: start over with the new ones.
StartOver ==
    /\ Draft("check") /\ (\A f \in Sources : draft.check[f] # NotRead) /\ ~SourcesUnchanged
    /\ draft' = NewDraft
    /\ UNCHANGED <<version, edits, rows, revision, active, generation, last, call, since>>

\* save: the graph and its records are committed together.
Save ==
    /\ Draft("check") /\ (\A f \in Sources : draft.check[f] # NotRead) /\ SourcesUnchanged
    /\ Cardinality(rows) < MaxRows
    /\ LET row == [rev |-> revision + 1, print |-> draft.print, graph |-> draft.graph,
                   failed |-> draft.failed]
       IN rows' = rows \union {row} /\ Leave(Reference(row))
    /\ revision' = revision + 1
    /\ UNCHANGED <<version, edits, active, generation, last, call, since>>

\* A cancellation, an error of the store or an invalid composed graph.
MaterializeRaises ==
    /\ active # NoOne /\ draft.step # "leave" /\ Leave(NoReference)
    /\ UNCHANGED <<version, edits, rows, revision, active, generation, last, call, since>>

\* _finish_materialization, in the finally block.
FinishMaterialization ==
    /\ Draft("leave")
    /\ last' = draft.ref /\ generation' = generation + 1 /\ active' = NoOne
    /\ call' = [call EXCEPT ![active] =
                  [@ EXCEPT !.at = IF draft.ref = NoReference THEN "raised" ELSE "returned",
                            !.ref = draft.ref]]
    /\ draft' = NewDraft
    /\ UNCHANGED <<version, edits, rows, revision, since>>

-----------------------------------------------------------------------------
(* load, and another process that opens the store with another schema version *)

\* Mutant: the row with the revision is taken for the graph referred to.
StoredUnchecked(ref) == {r \in rows : r.rev = ref.rev}

\* A row with the revision but another fingerprint or other failures is not it.
Stored(ref) == {r \in rows : r.rev = ref.rev /\ Reference(r) = ref}

LoadGraph(c) ==
    /\ call[c].at = "returned"
    /\ IF Stored(call[c].ref) = {} THEN call' = [call EXCEPT ![c].at = "missing"]
       ELSE \E r \in Stored(call[c].ref) :
              call' = [call EXCEPT ![c].at = "loaded", ![c].got = r.graph]
    /\ UNCHANGED <<version, edits, rows, revision, active, generation, last, draft, since>>

\* _initialize drops the tables of another version; revisions start again.
DropStore ==
    /\ rows # {} /\ rows' = {} /\ revision' = 0
    /\ UNCHANGED <<version, edits, active, generation, last, call, draft, since>>

GraphDone ==
    /\ \A c \in Callers : call[c].at \in {"raised", "loaded", "missing"}
    /\ UNCHANGED graphVars

GraphNext ==
    \/ \E c \in Callers : \/ EnterMaterialize(c) \/ WakeWaiter(c) \/ CancelWaiter(c)
                          \/ LoadGraph(c)
    \/ \E f \in Sources : \/ EditSource(f) \/ HashSource(f) \/ HashAgain(f)
                          \/ \E b \in BOOLEAN : BuildFile(f, b)
    \/ \E p \in Providers : ProviderFails(p)
    \/ \E broken \in SUBSET Sources : Annotate(broken)
    \/ LookUp \/ StartOver \/ Save \/ MaterializeRaises \/ FinishMaterialization
    \/ DropStore \/ GraphDone

GraphSpec == GraphInit /\ [][GraphNext]_graphVars

-----------------------------------------------------------------------------
(* Property *)

GraphOf(graph, print) == \A f \in Sources : graph[f] # NotRead => graph[f] = print[f]

\* A graph is the graph of the sources its fingerprint names, file by file, although
\* the files are hashed, built and hashed again one after the other while users edit;
\* the codebase with that fingerprint existed while the materialization ran that
\* returned it, reused or built; and what load() gives a caller is that graph
\* (CodeGraphService._materialize, SQLiteCodeGraphStore.load).
GraphIsOfItsSources ==
    /\ \A row \in rows : GraphOf(row.graph, row.print)
    /\ Draft("leave") /\ draft.ref # NoReference => draft.ref.print \in since
    /\ \A c \in Callers : call[c].at = "loaded" => GraphOf(call[c].got, call[c].ref.print)
=============================================================================
