\* FIFOs of one, counters of three values.
CONSTANTS
    MaxSessions = 2
    SourceDepth = 1
    AckDepth = 1
    TxDepth = 1
    CountDepth = 1
    CounterValues = 3
    AckDelay = 2
SPECIFICATION FairSpec
INVARIANTS
    CountersAgree
    GateMeansNoneToDelay
    NoCircularWait
PROPERTIES
    
    SettlesWhenIdle
