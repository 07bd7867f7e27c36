SPECIFICATION FairSpec
CONSTANTS
    Clients = {c1, c2}
    QueueDepth = 1
    WriteDepth = 1
    SocketRoom = 1
    MaxConnections = 1
    MaxEvents = 2
    MaxFaults = 3
    MaxCalls = 1
INVARIANTS
    DaemonTypeOK
    SlotsCounted
    NoBlindClient
    NoGaps
    VerdictIsTheServers
    RoomsRejoined
    LossIsSeen
PROPERTIES
    SlotComesBack
    ImplementsEventFeed
    DisplacedStays
    LossIsRepaired
CHECK_DEADLOCK FALSE
