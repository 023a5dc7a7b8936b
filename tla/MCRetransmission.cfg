\* One connection, with data and a FIN; every process runs.
CONSTANTS
    MaxSessions = 2
    Connections = {0}
    Skip = 1
    SkipWindow = 1
    MaxRetries = 1
    ClearDepth = 1
    SetDepth = 1
    EventDepth = 1
    ReleaseDepth = 1
    Window = 4
    MSS = 2
    MaxSent = 2
    Timeout <- Growing
    None = None
SPECIFICATION FairSpec
INVARIANTS
    OpeningIsTimed
PROPERTIES
    OpeningEnds
    SettlesWhenIdle
