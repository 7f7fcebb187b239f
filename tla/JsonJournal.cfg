CONSTANTS
    Producers <- MCProducers
    Flushers = {f1}
    Closers = {c1, c2}
    Size <- MCSize
    Buffer = 2
    Writer = Writer
    Stop = Stop
SPECIFICATION FairSpec
INVARIANT NoLostWakeup
PROPERTY ImplementsDurableLog
