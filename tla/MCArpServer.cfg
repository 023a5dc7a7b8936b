\* The host has the subnet scanned at any time.
CONSTANTS
    Nets = {"mine", "far"}
    MyNet = "mine"
    LastOctet = 1
    Depth = 3
    ArpDepth = 1
    PortDepth = 1
    HostScans = TRUE
    None = None
    Local <- OwnNet
    Gateway <- GatewayIp
    Asked <- Outside
    Hosts <- GatewayOnly
SPECIFICATION FairSpec
INVARIANTS
    AnswersCounted
    NoCircularWait
PROPERTIES
    EveryQuestionAnswered
    ScanEnds
