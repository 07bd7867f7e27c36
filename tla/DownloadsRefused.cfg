SPECIFICATION Spec
CHECK_DEADLOCK FALSE
CONSTANTS
    Users = {u1}
    Files = {f1}
    Size = 1
    MaxDownloads = 1
    PeerTokens = {11}
    MaxThreads = 1
    Calls = {"pause", "cancel"}
    Mishaps = {"refusal"}
INVARIANTS
    NoTransferAfterFailure
