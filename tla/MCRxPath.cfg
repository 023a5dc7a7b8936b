CONSTANTS
    Sessions = {1}
    Window = 4
    StreamLength = 4
    Lengths = {0, 2}
    Offsets = {0, 2}
    Kinds = {"RST"}
    Stray = FALSE
    PayloadDepth = 2
    MetaDepth = 1
    VerdictDepth = 1
    NotifyDepth = 1
    InFlight = 2
    DataDepth = 1
    None = None
SPECIFICATION FairSpec
INVARIANTS
    DeliveredIsStream
    UnreadFits
PROPERTIES
    StreamIsDelivered
CHECK_DEADLOCK FALSE
