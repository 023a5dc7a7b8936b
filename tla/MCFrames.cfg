CONSTANTS
    W = 32
    MinFrame = 30
    Lengths = {0, 2, 5, 40}
    Kinds = {"DATA", "SYN", "RST"}
    HeaderLens = {5, 15}
    Others = {"ARP", "OTHER"}
    PeerOptions <- OptionLists
    WINDOW_SCALE_BITS = 2
    MaxPackets = 2
    Depth = 1
    PacketDepth = 3
    None = None
SPECIFICATION FairSpec
INVARIANTS
    FramesAreWhole
PROPERTIES
    AllArrive
CHECK_DEADLOCK FALSE
