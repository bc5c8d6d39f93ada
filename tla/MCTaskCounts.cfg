SPECIFICATION Spec
CONSTANTS
    n1 = n1
    n2 = n2
    Nodes = {n1, n2}
    NoOwner = NoOwner
    Settings <- CountSettings
    Count = 3
    ChunkSize = 2
    MaxFailed = 1
    MaxAcceptedRanges = 1
    MinStride = 1
INVARIANTS TypeOK SnapshotValid 
CHECK_DEADLOCK FALSE
