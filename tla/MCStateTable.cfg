\* One session that both clients, the stream and the timers meet on; FIFOs of
\* depth two as in toe.cpp: a client's next read waits behind its write.
CONSTANTS
    Sessions = {s0}
    s0 = s0
    FifoDepth = 2
    None = None
SPECIFICATION FairSpec
INVARIANTS
    LockExclusion
    LockIsOwed
    ReplyIsCurrent
PROPERTIES
    ClosedIsReleased
    AtomicSpec
    DrainsWhenIdle
