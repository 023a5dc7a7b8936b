\* the acknowledgement of the peer's FIN is in range
CONSTANTS
    Window = 3
    MSS = 1
    Burst = 2
    Lengths = {1}
    Congestion = {2}
    PeerWindow = 2
    PushDepth = 1
    MergeDepth = 1
    EventDepth = 1
    SegmentDepth = 1
    ReplyDepth = 1
    MaxBytes = 4
    MaxFins = 2
    Unchecked = FALSE
    None = None
SPECIFICATION FairSpec
INVARIANTS
    PeerGetsTheStream
    FinComesBehind
    AcceptedFitsWindow
PROPERTIES
    ImplementsStream
    AcceptedIsSent
CHECK_DEADLOCK FALSE
