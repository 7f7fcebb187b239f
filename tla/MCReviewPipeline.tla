--------------------------- MODULE MCReviewPipeline ---------------------------
(*****************************************************************************)
(* The components of the review and triage pipeline, each explored on its    *)
(* own: a behaviour is a behaviour of one component, and the others stay     *)
(* off.                                                                      *)
(*****************************************************************************)
EXTENDS Naturals, Sequences

CONSTANT Components   \* the components this run explores
CONSTANTS ReviewFiles, FirstChunks, MaxChunks, Tools, CuriousFiles, ViewedFiles,
          ToolPlaces, MaxObservations, MaxReviewEdits, MaxReviewRuns
CONSTANTS Publishers, MaxInodes, MaxFileEdits
CONSTANTS SourceLines, FindingLines, Radius, Capture, PackMax, Header, Answers,
          Navigations, Models, MaxAttempts, MaxLineEdits, MaxCalls
CONSTANTS Count, BatchSize, TriageWorkers, Earlier
CONSTANTS TriageDocuments, MaxPublishes
CONSTANTS GraphSources, GraphProviders, ProviderOf, Callers, MaxChanges, MaxRows
CONSTANTS ParsedFiles, MaxParsers
CONSTANTS FileVersions, FileGraph, FilePackets, ModelResponses

\* No file is called nobody
ASSUME ReviewAssumption == FirstChunks \in Nat /\ MaxReviewEdits \in Nat /\ "nobody" \notin ReviewFiles

\* A process is neither the user nor nobody
ASSUME FilesAssumption == MaxInodes \in Nat /\ Publishers \cap {"nobody", "user"} = {}

\* Lines are numbered, and an answer has a status of the schema and quotes ranges
\* of lines
ASSUME WorkAssumption ==
    /\ SourceLines \subseteq Nat /\ Capture \in Nat /\ PackMax \in Nat /\ Header \in Nat
    /\ \A a \in Answers :
          /\ a.status \in {"valid", "invalid", "inconclusive"}
          /\ \A e \in a.evidence : e[1] \in Nat /\ e[2] \in Nat

\* Numbers of findings, and batches of one or more
ASSUME StageAssumption == Count \in Nat /\ Earlier \in Nat /\ BatchSize \in Nat \ {0}

\* A finding of a document is triaged or not
ASSUME StoreAssumption == \A d \in TriageDocuments : d.groups \in Seq(Seq(BOOLEAN))

\* Files have providers, and no caller is called nobody
ASSUME ServiceAssumption ==
    /\ MaxChanges \in Nat /\ ProviderOf \in [GraphSources -> GraphProviders]
    /\ "nobody" \notin Callers

\* Files are numbered in their order; a folder's name counts as a number
ASSUME ParseAssumption ==
    ParsedFiles \in Seq([folder : Nat, weight : Nat, meta : BOOLEAN, language : STRING, header : BOOLEAN,
                         dual : BOOLEAN, cppFails : BOOLEAN, readable : BOOLEAN, nodes : SUBSET STRING])

\* A text is a sequence of lines, and calls, sinks and conditions are numbered
ASSUME PacketAssumption ==
    /\ FileVersions \in Seq(Seq(STRING)) /\ FileVersions # <<>>
    /\ \A f \in DOMAIN FileGraph :
          /\ FileGraph[f].from \in Nat /\ FileGraph[f].to \in Nat
          /\ FileGraph[f].calls \in Seq([line : Nat, result : BOOLEAN])
    /\ \A p \in FilePackets : p.nodes \in Seq(DOMAIN FileGraph)
    /\ \A r \in ModelResponses :
          r.reviews \in Seq([snippet : Seq(STRING), line : Nat, confident : BOOLEAN,
                            alternatives : Seq([sink : Nat, all : Seq(Nat)])])

VARIABLE component   \* the one in this behaviour
VARIABLES content, tree, simpleDisk, simplePhase, simpleMode, streaming,
          records, loaded, work, answers, failures, refused, simpleStatus,
          writing, runs
VARIABLES inodes, created, path, registry, lock, pub, filesEdits, raced, snap,
          history
VARIABLES storeDocument, state, total, remaining, include, storeDecisions,
          pass, target, upTo, publishes
VARIABLES workDisk, workEdits, calls, live, workflow, call, workPhase, attempt,
          shown, observed, initial, errors, answer, result
VARIABLES stageMode, base, stagePhase, batch, offset, stageJob, decision,
          outcomes, stageJournal, processed, handled, failure, attempted,
          counted, stagePublished
VARIABLES serviceVersion, graphEdits, rows, revision, active, generation, last,
          graphCall, draft, serviceSince
VARIABLES batches, parseAnswers, thread, worker, parseOutcome, closed, poolLock,
          cancelled, parseStage, merged
VARIABLES packetVersion, packet, analysis, checked, packetStage, findings

Off == "off"   \* the state of a component that is not in this behaviour

-----------------------------------------------------------------------------
(* Constants of the components.                                             *)

StoredDocuments ==
    {[kind |-> "sarif", groups |-> <<<<FALSE, TRUE>>, <<>>, <<FALSE>>>>],
     [kind |-> "review", groups |-> <<<<FALSE>>, <<TRUE, FALSE>>>>],
     [kind |-> "other", groups |-> <<>>]}

\* Verdicts that quote one line, several, none, or a range the wrong way round
Verdicts ==
    [status : {"invalid"}, evidence : {{}, {<<1, 1>>}, {<<1, 2>>}, {<<3, 3>>}, {<<2, 1>>}}, chain : {TRUE}]
    \cup {[status |-> "valid", evidence |-> {<<2, 3>>}, chain |-> FALSE],
          [status |-> "valid", evidence |-> {<<1, 1>>, <<3, 3>>}, chain |-> TRUE],
          [status |-> "inconclusive", evidence |-> {}, chain |-> FALSE]}

\* Files of two providers
ProviderOfSource == [a |-> "p", b |-> "q"]

\* Files to parse in five folders, of which two share a batch: C, C++, headers of
\* both, one that cannot be read and one whose language is unknown; two define
\* the same function
SourceFile(d, w, m, l, h, du, cf, r, n) ==
    [folder |-> d, weight |-> w, meta |-> m, language |-> l, header |-> h, dual |-> du,
     cppFails |-> cf, readable |-> r, nodes |-> n]
ParsedSources ==
    <<SourceFile(1, 3, TRUE, "c", FALSE, FALSE, FALSE, TRUE, {"f"}),
      SourceFile(1, 1, TRUE, "c", TRUE, TRUE, FALSE, TRUE, {"h"}),
      SourceFile(2, 2, TRUE, "c", FALSE, FALSE, FALSE, TRUE, {"f", "g"}),
      SourceFile(3, 2, TRUE, "c", TRUE, TRUE, TRUE, TRUE, {"k"}),
      SourceFile(3, 1, TRUE, "cpp", FALSE, FALSE, FALSE, FALSE, {"u"}),
      SourceFile(4, 1, FALSE, "c", FALSE, FALSE, FALSE, TRUE, {"m"}),
      SourceFile(5, 1, TRUE, "cpp", FALSE, FALSE, FALSE, TRUE, {"n"})>>

\* A file of two functions, before and after a line is inserted above them, and
\* answers whose snippets and alternatives lie in or out of what was shown
PacketCall(line, known) == [line |-> line, result |-> known]
PacketVersions == <<<<"f", "x", "", "y", "g", "x">>, <<"n", "f", "x", "", "y", "g", "x">>>>
PacketGraph ==
    [f |-> [from |-> 1, to |-> 4, calls |-> <<PacketCall(2, TRUE), PacketCall(4, FALSE)>>],
     g |-> [from |-> 5, to |-> 6, calls |-> <<PacketCall(6, TRUE)>>]]
ReviewPackets ==
    {[nodes |-> <<"f">>, shown |-> {1, 2, 4}], [nodes |-> <<"f", "g">>, shown |-> {1, 2, 4, 5, 6}],
     [nodes |-> <<"g">>, shown |-> {5, 6}], [nodes |-> <<"f">>, shown |-> {1, 4}]}
PacketAlternatives ==
    {<<>>} \cup {<<[sink |-> s, all |-> a]>> : s \in 0..2, a \in {<<0>>, <<1>>, <<0, 0>>, <<0, 1>>}}
    \cup {<<[sink |-> 0, all |-> <<0, 1>>], [sink |-> 0, all |-> <<1, 0>>]>>}
PacketReviews ==
    [snippet : {<<"x">>, <<"x", "", "y">>, <<"y", "g">>, <<"f", "x", "", "y">>, <<"z">>},
     line : {0, 2, 6}, confident : {TRUE}, alternatives : PacketAlternatives]
PlainReviews ==
    {[snippet |-> <<"x">>, line |-> 0, confident |-> FALSE, alternatives |-> <<>>],
     [snippet |-> <<"x">>, line |-> 6, confident |-> TRUE, alternatives |-> <<>>]}
PacketResponses ==
    {[parses |-> FALSE, reviews |-> <<>>]}
    \cup [parses : {TRUE},
          reviews : {<<>>} \cup {<<r>> : r \in PacketReviews}
                    \cup {<<p, r>> : p \in PlainReviews, r \in PacketReviews}]

-----------------------------------------------------------------------------
Simple == INSTANCE SimpleReview WITH
            Files <- ReviewFiles, Viewed <- ViewedFiles, Curious <- CuriousFiles, Places <- ToolPlaces,
            MaxEdits <- MaxReviewEdits, MaxRuns <- MaxReviewRuns, disk <- simpleDisk,
            phase <- simplePhase, mode <- simpleMode, status <- simpleStatus
simpleVars == <<content, tree, simpleDisk, simplePhase, simpleMode, streaming,
                records, loaded, work, answers, failures, refused, simpleStatus,
                writing, runs>>
SimpleOff ==
    /\ content = Off /\ tree = Off /\ simpleDisk = Off /\ simplePhase = Off /\ simpleMode = Off
    /\ streaming = Off /\ records = Off /\ loaded = Off /\ work = Off /\ answers = Off
    /\ failures = Off /\ refused = Off /\ simpleStatus = Off /\ writing = Off /\ runs = Off
SimpleStep ==
    IF component = "simple"
    THEN Simple!Next
    ELSE UNCHANGED simpleVars

Files == INSTANCE ArtifactFiles WITH
            MaxEdits <- MaxFileEdits, edits <- filesEdits
filesVars == <<inodes, created, path, registry, lock, pub, filesEdits, raced, snap,
               history>>
FilesOff ==
    /\ inodes = Off /\ created = Off /\ path = Off /\ registry = Off /\ lock = Off /\ pub = Off
    /\ filesEdits = Off /\ raced = Off /\ snap = Off /\ history = Off
FilesStep ==
    IF component = "files"
    THEN Files!FileNext
    ELSE UNCHANGED filesVars

Store == INSTANCE TriageStore WITH
            Documents <- TriageDocuments,
            document <- storeDocument, decisions <- storeDecisions
storeVars == <<storeDocument, state, total, remaining, include, storeDecisions,
               pass, target, upTo, publishes>>
StoreOff ==
    /\ storeDocument = Off /\ state = Off /\ total = Off /\ remaining = Off /\ include = Off
    /\ storeDecisions = Off /\ pass = Off /\ target = Off /\ upTo = Off /\ publishes = Off
StoreStep ==
    IF component = "store"
    THEN Store!StoreNext
    ELSE UNCHANGED storeVars

Work == INSTANCE TriageWorkflow WITH
            Lines <- SourceLines, Findings <- FindingLines, MaxEdits <- MaxLineEdits,
            disk <- workDisk, edits <- workEdits, phase <- workPhase
workVars == <<workDisk, workEdits, calls, live, workflow, call, workPhase, attempt,
              shown, observed, initial, errors, answer, result>>
WorkOff ==
    /\ workDisk = Off /\ workEdits = Off /\ calls = Off /\ live = Off /\ workflow = Off
    /\ call = Off /\ workPhase = Off /\ attempt = Off /\ shown = Off /\ observed = Off
    /\ initial = Off /\ errors = Off /\ answer = Off /\ result = Off
WorkStep ==
    IF component = "work"
    THEN Work!WorkNext \/ (Work!WorkDone /\ UNCHANGED workVars)
    ELSE UNCHANGED workVars

Stage == INSTANCE Triage WITH
            Workers <- TriageWorkers, mode <- stageMode, phase <- stagePhase, job <- stageJob,
            journal <- stageJournal, published <- stagePublished
stageVars == <<stageMode, base, stagePhase, batch, offset, stageJob, decision,
               outcomes, stageJournal, processed, handled, failure, attempted,
               counted, stagePublished>>
StageOff ==
    /\ stageMode = Off /\ base = Off /\ stagePhase = Off /\ batch = Off /\ offset = Off
    /\ stageJob = Off /\ decision = Off /\ outcomes = Off /\ stageJournal = Off
    /\ processed = Off /\ handled = Off /\ failure = Off /\ attempted = Off /\ counted = Off
    /\ stagePublished = Off
StageStep ==
    IF component = "stage"
    THEN Stage!Next
    ELSE UNCHANGED stageVars

Service == INSTANCE CodeGraphService WITH
            Sources <- GraphSources, Providers <- GraphProviders,
            version <- serviceVersion, edits <- graphEdits, call <- graphCall,
            since <- serviceSince
serviceVars == <<serviceVersion, graphEdits, rows, revision, active, generation, last, graphCall,
                 draft, serviceSince>>
ServiceOff ==
    /\ serviceVersion = Off /\ graphEdits = Off /\ rows = Off /\ revision = Off /\ active = Off
    /\ generation = Off /\ last = Off /\ graphCall = Off /\ draft = Off /\ serviceSince = Off
ServiceStep ==
    IF component = "service"
    THEN Service!GraphNext
    ELSE UNCHANGED serviceVars

Parse == INSTANCE CFamilyParse WITH
            Sources <- ParsedFiles, MaxWorkers <- MaxParsers, answers <- parseAnswers,
            outcome <- parseOutcome, lock <- poolLock, stage <- parseStage
parseVars == <<batches, parseAnswers, thread, worker, parseOutcome, closed, poolLock, cancelled,
               parseStage, merged>>
ParseOff ==
    /\ batches = Off /\ parseAnswers = Off /\ thread = Off /\ worker = Off /\ parseOutcome = Off
    /\ closed = Off /\ poolLock = Off /\ cancelled = Off /\ parseStage = Off /\ merged = Off
ParseStep ==
    IF component = "parse"
    THEN Parse!ParseNext \/ (Parse!ParseDone /\ UNCHANGED parseVars)
    ELSE UNCHANGED parseVars

Packet == INSTANCE PacketFindings WITH
            Versions <- FileVersions, Graph <- FileGraph, Packets <- FilePackets,
            Responses <- ModelResponses, version <- packetVersion, stage <- packetStage
packetVars == <<packetVersion, packet, analysis, checked, packetStage, findings>>
PacketOff ==
    /\ packetVersion = Off /\ packet = Off /\ analysis = Off /\ checked = Off
    /\ packetStage = Off /\ findings = Off
PacketStep ==
    IF component = "packet"
    THEN Packet!PacketNext \/ (Packet!PacketDone /\ UNCHANGED packetVars)
    ELSE UNCHANGED packetVars

-----------------------------------------------------------------------------
Init ==
    /\ component \in Components
    /\ IF component = "simple" THEN Simple!Init ELSE SimpleOff
    /\ IF component = "files" THEN Files!FileInit ELSE FilesOff
    /\ IF component = "store" THEN Store!StoreInit ELSE StoreOff
    /\ IF component = "work" THEN Work!WorkInit ELSE WorkOff
    /\ IF component = "stage" THEN Stage!Init ELSE StageOff
    /\ IF component = "service" THEN Service!GraphInit ELSE ServiceOff
    /\ IF component = "parse" THEN Parse!ParseInit ELSE ParseOff
    /\ IF component = "packet" THEN Packet!PacketInit ELSE PacketOff

Next ==
    /\ UNCHANGED component
    /\ SimpleStep
    /\ FilesStep
    /\ StoreStep
    /\ WorkStep
    /\ StageStep
    /\ ServiceStep
    /\ ParseStep
    /\ PacketStep

vars == <<component, simpleVars, filesVars, storeVars, workVars, stageVars,
          serviceVars, parseVars, packetVars>>

Spec == Init /\ [][Next]_vars

-----------------------------------------------------------------------------
\* SimpleReviewService: what the node reports is faithful to what became of
\* every file, through edits, crashes and resumed runs.
ReviewStatusFaithful == component = "simple" => Simple!StatusFaithful

\* _review_file_standard and checkpoint_evidence_valid: a result taken from a
\* checkpoint rests on the present text of everything it was read from.
ResumedIsCurrent == [][component = "simple" => Simple!ResumesCurrent]_vars

\* generated_artifacts.py and JsonSnapshot: a file is hidden from the review
\* only if this program wrote it, unless a user wrote while a publication
\* held the registry, and a snapshot is one version of a file, whoever writes
\* meanwhile.
FilesAreSound == component = "files" => Files!HiddenIsGenerated /\ Files!SnapshotIsOneVersion

\* TriageInput.publish: the published document has exactly the decisions
\* journalled, each at its own finding.
TriagePublishedExact == component = "store" => Store!PublishedIsExact

\* TriageWorkflow: a verdict rests on lines that were shown in this call and
\* still are on disk, and a cached workflow is of the model and tools it is
\* used with.
VerdictGrounded == component = "work" => Work!VerdictIsGrounded /\ Work!WorkflowIsOfItsCall

\* TriageStage: the last checkpoint has every annotation of the journal, and
\* the call returns exactly what was handled.
TriageAccountsForAll == component = "stage" => Stage!CheckpointComplete /\ Stage!ReturnExact

\* CodeGraphService and its store: a graph handed out describes the sources
\* as they were at one moment of the call, whatever is edited, stored or
\* dropped meanwhile.
GraphOfItsSources == component = "service" => Service!GraphIsOfItsSources

\* parse_files_in_parallel and build_graph: each file is processed or failed
\* exactly once, the graph is that of the processed files, and no worker is
\* left running.
FilesAccounted == component = "parse" => Parse!EveryFileAccounted

\* IncrementalGraphReviewer: a finding lies in lines of its packet that were
\* shown, and its alternatives name conditions and calls of its own function.
FindingsGrounded == component = "packet" => Packet!FindingsAreGrounded
=============================================================================
