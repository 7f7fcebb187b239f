CONSTANTS
    MaxAttempts = 2
    MaxTransportRetries = 2
    MaxToolRounds = 2
    MaxToolCalls = 2
SPECIFICATION Spec
INVARIANTS
    ObservedIsEvidence
    NothingIsExplained
PROPERTY CancellationWins
