SPECIFICATION Spec
CHECK_DEADLOCK FALSE
CONSTANTS
    Users = {u1}
    Files = {f1}
    Size = 1
    MaxDownloads = 2
    PeerTokens = {11}
    MaxThreads = 2
    Calls = {"pause", "cancel", "remove", "twice"}
    Mishaps = {"second offer", "refusal", "unreachable"}
INVARIANTS
    TypeOK
    ClaimOnce
PROPERTIES
    VerdictStays
    CancelHolds
