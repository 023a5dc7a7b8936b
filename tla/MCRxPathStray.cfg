CONSTANTS
    Sessions = {1}
    Window = 4
    StreamLength = 4
    Lengths = {0, 2}
    Offsets = {0, 2}
    Kinds = {"RST"}
    Stray = TRUE
    PayloadDepth = 2
    MetaDepth = 1
    VerdictDepth = 2
    NotifyDepth = 1
    InFlight = 2
    DataDepth = 1
    None = None
SPECIFICATION Spec
INVARIANTS
    DeliveredIsStream
CHECK_DEADLOCK FALSE
