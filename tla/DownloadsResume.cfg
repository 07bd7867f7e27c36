SPECIFICATION FairSpec
CHECK_DEADLOCK FALSE
CONSTANTS
    Users = {u1}
    Files = {f1}
    Size = 3
    MaxDownloads = 3
    PeerTokens = {11, 12}
    MaxThreads = 3
    Calls = {"pause"}
    Mishaps = {}
INVARIANTS
    WholeFile
    NoOrphan
PROPERTIES
    TransfersSettle
