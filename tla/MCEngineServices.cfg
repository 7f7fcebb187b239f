SPECIFICATION Spec
CONSTANT
    Components = {"capability", "index", "threat", "use", "log", "external", "handle"}
    CapNames = {"index", "navigation", "x", "z"}
    CapBuiltin = {"index", "navigation"}
    CapEntryPoints <- MCCapEntryPoints
    CapClosing = {"index", "x"}
    CapUsers = {"u", "v"}
    MaxCapBuilt = 3
    IndexClients = {"u", "v"}
    IndexTopKs = {5}
    MaxIndexDepth = 3
    MaxIndexResets = 2
    ExternalCalls <- MCExternalCalls
    ExternalResults = 1
    JobWorkers = 2
    MaxHandlesMade = 6
    LogJobs = {2, 3}
    LogPayloads = {"small", "large"}
    LogContent = "full"
    MaxRecords = 3
INVARIANTS
    CapabilitiesSound
    ThreatContextSound
    UsageWithinTotals
    BundlesValidate
    ExternalResultOwn
    HandlesSound
