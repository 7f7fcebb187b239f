CONSTANTS
    Executions = {e1, e2}
    Closers = {c1, c2}
    MaxExecutions = 1
    MaxNodes = 1
    StageCount = 1
SPECIFICATION FairSpec
INVARIANT
    LifeCycleSound
PROPERTY CallsEnd
