SPECIFICATION Spec
CHECK_DEADLOCK FALSE
CONSTANTS
    Users = {u1}
    Files = {f1}
    Size = 2
    MaxDownloads = 2
    PeerTokens = {11}
    MaxThreads = 2
    Calls = {"cancel"}
    Mishaps = {}
INVARIANTS
    OneWriter
