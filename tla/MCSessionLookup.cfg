\* One session ID that two connections want; the TX engine asks for tuples.
CONSTANTS
    t0 = t0
    t1 = t1
    MaxSessions = 1
    Tuples <- TwoTuples
    FifoDepth = 1
    Queried <- OneQueried
    None = None
SPECIFICATION FairSpec
INVARIANTS
    IdsConserved
    CountIsExact
    TablesAgree
    HitIsNotReused
PROPERTIES
    ReverseDirectory
    LookupIsAnswered
    ReleasedIsRecycled
