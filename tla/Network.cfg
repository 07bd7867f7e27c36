SPECIFICATION Spec
CONSTANTS
    p1 = p1
    p2 = p2
    Peers = {p1, p2}
    MaxActors = 2
    MaxPeerOps = 1
    Scenarios <- Scenes
    Candidates = {a, b}
    Kids = {k}
    Me = me
    Elsewhere = elsewhere
    Levels <- ClaimedLevels
    ChildLimits = {1, 2}
    MaxCandidates = 2
    MaxLinks = 2
    MaxTreeOps = 1
    Callers = {t1, t2}
    Titles = {f, g}
    NoCaller = nobody
INVARIANTS
    NetworkTypeOK
    NoZombie
    NoOrphanThread
    NothingStranded
    LinksHaveThreads
    PlaceIsTold
    RoomIsTold
    CallsAreTold
    CallerHears
    NothingLeftBehind
PROPERTIES
    SuccessorStays
CHECK_DEADLOCK FALSE
