\* Bytes of one bit: ports 0 and 1 to listen on, 2 and 3 to hand out; two
\* segments on their way at a time.
CONSTANTS
    HostBytes = 2
    CallDepth = 1
    CheckDepth = 2
    Addressed <- LowAndHigh
    Requested <- OneEach
SPECIFICATION FairSpec
INVARIANTS
    AnswerFitsSegment
    ChecksAreCounted
PROPERTIES
    SettlesWhenIdle
