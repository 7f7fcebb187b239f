--------------------------- MODULE MCEngineServices ---------------------------
(****************************************************************************)
(* The services the engine shares among stages and commands, each explored  *)
(* on its own: a behaviour is a behaviour of one component, and the others  *)
(* stay off.                                                                *)
(****************************************************************************)
EXTENDS Naturals, Sequences

CONSTANT Components   \* the components this run explores
CONSTANTS CapNames, CapBuiltin, CapEntryPoints, CapClosing, CapUsers, MaxCapBuilt
CONSTANTS IndexClients, IndexTopKs, MaxIndexDepth, MaxIndexResets
CONSTANTS ExternalCalls, ExternalResults
CONSTANTS JobWorkers, MaxHandlesMade
CONSTANTS LogJobs, LogPayloads, LogContent, MaxRecords

\* run_analysis, run_validation and run_pipeline
ASSUME ExternalCallsTyped ==
    /\ ExternalResults \in Nat
    /\ \A c \in DOMAIN ExternalCalls :
          ExternalCalls[c].stages \in {<<"analysis">>, <<"validation">>, <<"analysis", "validation">>}

\* The main thread is no job
ASSUME LogJobsTyped == LogJobs \subseteq Nat \ {0, 1}

VARIABLE component   \* the one in this behaviour
VARIABLES instances, built, factories, closers, capClosed, closing, closed
VARIABLES index, retrievers, retrieverGeneration, embedded, mutations, indexClosed,
          backendCloses, pending, indexCalls
VARIABLES setup, history, store, commits, builder, reader
VARIABLES events, sequence, totals, scopes, embedding, command, completed, saving,
          saved
VARIABLES records, torn, meta, blobs, context, asked, waits, writing, failing, failed,
          outcome, session
VARIABLES files, pc, at, child, applied
VARIABLES handles, handleCalls, made

Off == "off"   \* the state of a component that is not in this behaviour

-----------------------------------------------------------------------------
(* Constants of the components.                                             *)

\* Two built-in capabilities, a plugin, and an entry point of another name
MCCapEntryPoints == [index |-> <<>>, navigation |-> <<>>, x |-> <<"x">>, z |-> <<"x">>]

\* Threat models: policies and rules of two scopes, some claims of no effect; the
\* cases are two runs while sources are edited, two runs that distil different
\* claims, claims that are merged, and a git history
Claim(t, d, sc) == [kind |-> [statement |-> 1, type |-> t, disposition |-> d], scopes |-> sc]
PolicyClaim(sc) == Claim("analysis_policy", "out_of_scope", sc)
RuleClaim(sc) == Claim("scope_rule", "out_of_scope", sc)
AssetClaim == Claim("asset", "review", {"repository"})
ThreatCase(ds, k, c, b, e) == [distillations |-> ds, kinds |-> k, commits |-> c, builds |-> b, edits |-> e]
ThreatCases ==
    {ThreatCase({{PolicyClaim({"b"})}}, {}, <<>>, 2, 2),
     ThreatCase({{}, {PolicyClaim({"b"})}}, {}, <<>>, 2, 0),
     ThreatCase({{}, {PolicyClaim({"a"}), RuleClaim({"b"})}, {PolicyClaim({"b"}), AssetClaim},
                 {RuleClaim({"repository"})}, {Claim("caller_contract", "advisory", {}), PolicyClaim({"repository"})}},
                {PolicyClaim({}).kind, AssetClaim.kind}, <<>>, 1, 0),
     ThreatCase({{}}, {}, <<[message |-> 3, paths |-> 1], [message |-> 0, paths |-> 1]>>, 1, 0)}

\* Token counts a response reports: none, a sum left out, a total of its own
UsageReports == {<<0, 0, 0>>, <<1, 1, 0>>, <<1, 1, 3>>}

\* Two runs that share a directory, one reading its input there, and commands
\* with undefined or missing outputs
MCExternalCalls ==
    <<[stages |-> <<"analysis", "validation">>, bindings |-> "request", given |-> FALSE],
      [stages |-> <<"analysis">>, bindings |-> "all", given |-> FALSE],
      [stages |-> <<"validation">>, bindings |-> "all", given |-> TRUE],
      [stages |-> <<"analysis">>, bindings |-> "undefined", given |-> TRUE],
      [stages |-> <<"validation">>, bindings |-> "missing", given |-> TRUE]>>

-----------------------------------------------------------------------------
Capability == INSTANCE Capabilities WITH
            Names <- CapNames, Builtin <- CapBuiltin, EntryPoints <- CapEntryPoints,
            Closing <- CapClosing, Users <- CapUsers, MaxBuilt <- MaxCapBuilt
capabilityVars == <<instances, built, factories, closers, capClosed, closing, closed>>
CapabilityOff ==
    /\ instances = Off /\ built = Off /\ factories = Off /\ closers = Off /\ capClosed = Off
    /\ closing = Off /\ closed = Off
CapabilityStep ==
    IF component = "capability"
    THEN Capability!CapNext \/ (Capability!CapDone /\ UNCHANGED capabilityVars)
    ELSE UNCHANGED capabilityVars

Index == INSTANCE IndexCapability WITH
            Clients <- IndexClients, TopKs <- IndexTopKs, MaxDepth <- MaxIndexDepth,
            MaxResets <- MaxIndexResets, calls <- indexCalls
indexVars == <<index, retrievers, retrieverGeneration, embedded, mutations,
               indexClosed, backendCloses, pending, indexCalls>>
IndexOff ==
    /\ index = Off /\ retrievers = Off /\ retrieverGeneration = Off /\ embedded = Off /\ mutations = Off
    /\ indexClosed = Off /\ backendCloses = Off /\ pending = Off /\ indexCalls = Off
IndexStep ==
    IF component = "index"
    THEN Index!IndexNext \/ (Index!IndexDone /\ UNCHANGED indexVars)
    ELSE UNCHANGED indexVars

Threat == INSTANCE ThreatModel WITH
            Sources <- {1, 2}, Cases <- ThreatCases, Paths <- {"a", "b"}, PromptLimit <- 2,
            Processes <- {"p", "q"}, PageSize <- 1
threatVars == <<setup, history, store, commits, builder, reader>>
ThreatOff ==
    /\ setup = Off /\ history = Off /\ store = Off /\ commits = Off /\ builder = Off
    /\ reader = Off
ThreatStep ==
    IF component = "threat"
    THEN Threat!ThreatNext \/ (Threat!ThreatDone /\ UNCHANGED threatVars)
    ELSE UNCHANGED threatVars

Use == INSTANCE Usage WITH
            Threads <- {"s", "t"}, Models <- {"m"}, Reports <- UsageReports,
            MaxEvents <- 3
useVars == <<events, sequence, totals, scopes, embedding, command, completed,
             saving, saved>>
UseOff ==
    /\ events = Off /\ sequence = Off /\ totals = Off /\ scopes = Off /\ embedding = Off
    /\ command = Off /\ completed = Off /\ saving = Off /\ saved = Off
UseStep ==
    IF component = "use"
    THEN Use!UsageNext \/ (Use!UsageDone /\ UNCHANGED useVars)
    ELSE UNCHANGED useVars

Log == INSTANCE RunLog WITH
            Workers <- LogJobs, Payloads <- LogPayloads, Content <- LogContent
logVars == <<records, torn, meta, blobs, context, asked, waits, writing, failing, failed,
             outcome, session>>
LogOff ==
    /\ records = Off /\ torn = Off /\ meta = Off /\ blobs = Off /\ context = Off
    /\ asked = Off /\ waits = Off /\ writing = Off /\ failing = Off
    /\ failed = Off /\ outcome = Off /\ session = Off
LogStep ==
    IF component = "log"
    THEN Log!LogNext \/ (Log!LogDone /\ UNCHANGED logVars)
    ELSE UNCHANGED logVars

External == INSTANCE ExternalStages WITH
            Calls <- ExternalCalls, Results <- ExternalResults
externalVars == <<files, pc, at, child, applied>>
ExternalOff ==
    /\ files = Off /\ pc = Off /\ at = Off /\ child = Off /\ applied = Off
ExternalStep ==
    IF component = "external"
    THEN External!ExternalNext \/ (External!ExternalDone /\ UNCHANGED externalVars)
    ELSE UNCHANGED externalVars

Handle == INSTANCE JobHandles WITH
            MaxWorkers <- JobWorkers, MaxMade <- MaxHandlesMade, calls <- handleCalls
handleVars == <<handles, handleCalls, made>>
HandleOff ==
    /\ handles = Off /\ handleCalls = Off /\ made = Off
HandleStep ==
    IF component = "handle"
    THEN Handle!Next
    ELSE UNCHANGED handleVars

-----------------------------------------------------------------------------
Init ==
    /\ component \in Components
    /\ IF component = "capability" THEN Capability!CapInit ELSE CapabilityOff
    /\ IF component = "index" THEN Index!IndexInit ELSE IndexOff
    /\ IF component = "threat" THEN Threat!ThreatInit ELSE ThreatOff
    /\ IF component = "use" THEN Use!UsageInit ELSE UseOff
    /\ IF component = "log" THEN Log!LogInit ELSE LogOff
    /\ IF component = "external" THEN External!ExternalInit ELSE ExternalOff
    /\ IF component = "handle" THEN Handle!Init ELSE HandleOff

Next ==
    /\ UNCHANGED component
    /\ CapabilityStep
    /\ IndexStep
    /\ ThreatStep
    /\ UseStep
    /\ LogStep
    /\ ExternalStep
    /\ HandleStep

vars == <<component, capabilityVars, indexVars, threatVars, useVars, logVars, externalVars,
         handleVars>>

Spec == Init /\ [][Next]_vars

-----------------------------------------------------------------------------
\* EngineCapabilities: an instance that was constructed is closed exactly
\* once, also when the engine closes while it is being constructed;
\* IndexCapability: a retriever that is served reads the index the backend
\* holds now, whatever resets raced its construction.
CapabilitiesSound ==
    /\ component = "capability" => Capability!BuiltIsClosedOnce
    /\ component = "index" => Index!RetrieversAreCurrent

\* initialize_threat_model_memory and get_threat_model_context: a snapshot that is
\* reused was distilled from the sources as they are, short of an edit that was
\* undone; no claim and no part of the git history is lost on the way to it; and
\* an undisturbed context has every policy that concerns its path, and no other.
ThreatContextSound ==
    component = "threat" =>
        /\ Threat!ReusedIsNotStale /\ Threat!ProvenanceIsKept
        /\ Threat!ContextIsComplete /\ Threat!HistoryIsReadWhole

\* UsageRuntime: what is saved for the commands never exceeds the totals
\* saved with it, while other threads record.
UsageWithinTotals == component = "use" => Use!CommandsWithinTotals

\* RunLogSession: a bundle that claims to be complete is accepted by its own
\* reader, and a record never refers to a missing blob.
BundlesValidate == component = "log" => Log!CompleteBundlesValidate

\* ExternalStageService: a result is read from what the command of the same
\* run wrote, although runs share a directory.
ExternalResultOwn == component = "external" => External!ResultIsOwn

\* _NodeJobs: the scope of a derived handle or run holds its parent's, a
\* plain run's failure reaches nobody else, and a limit only tightens.
HandlesSound ==
    component = "handle" =>
        Handle!ScopesAreNested /\ Handle!PlainFailureStaysLocal /\ Handle!LimitIsTightestQuota
=============================================================================
