SPECIFICATION FairSpec
CONSTANTS
    n1 = n1
    n2 = n2
    Nodes = {n1, n2}
    NoOwner = NoOwner
    Settings <- LiveSettings
    Count = 3
    ChunkSize = 1
    MaxFailed = 0
    MaxAcceptedRanges = 4
    MinStride = 1
INVARIANTS FenceNeverRefused
PROPERTIES RunEnds
CHECK_DEADLOCK FALSE
