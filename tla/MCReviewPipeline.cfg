SPECIFICATION Spec
CONSTANT
    Components = {"simple", "files", "store", "work", "stage", "service", "parse", "packet"}
    ReviewFiles = {"a", "b"}
    FirstChunks = 1
    MaxChunks = 2
    Tools = "navigation"
    CuriousFiles = {"a"}
    ViewedFiles = {"b"}
    ToolPlaces = {"p", "q"}
    MaxObservations = 2
    MaxReviewEdits = 1
    MaxReviewRuns = 2
    Publishers = {"p", "q"}
    MaxInodes = 3
    MaxFileEdits = 2
    SourceLines = {1, 2, 3}
    FindingLines = {2}
    Radius = 1
    Capture = 5
    PackMax = 4
    Header = 1
    Answers <- Verdicts
    Navigations = {1, 2}
    Models = {"m", "n"}
    MaxAttempts = 2
    MaxLineEdits = 1
    MaxCalls = 2
    Count = 3
    BatchSize = 2
    TriageWorkers = 2
    Earlier = 1
    TriageDocuments <- StoredDocuments
    MaxPublishes = 2
    GraphSources = {"a", "b"}
    GraphProviders = {"p", "q"}
    ProviderOf <- ProviderOfSource
    Callers = {"c", "d"}
    MaxChanges = 2
    MaxRows = 2
    ParsedFiles <- ParsedSources
    MaxParsers = 3
    FileVersions <- PacketVersions
    FileGraph <- PacketGraph
    FilePackets <- ReviewPackets
    ModelResponses <- PacketResponses
INVARIANTS
    ReviewStatusFaithful
    FilesAreSound
    TriagePublishedExact
    VerdictGrounded
    TriageAccountsForAll
    GraphOfItsSources
    FilesAccounted
    FindingsGrounded
PROPERTY
    ResumedIsCurrent
