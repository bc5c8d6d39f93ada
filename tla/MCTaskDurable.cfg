SPECIFICATION Spec
CONSTANTS
    n1 = n1
    n2 = n2
    Nodes = {n1, n2}
    NoOwner = NoOwner
    Settings <- DurableSettings
    Count = 2
    ChunkSize = 1
    MaxFailed = 2
    MaxAcceptedRanges = 4
    MinStride = 1
INVARIANTS DurableBeforeActing
CHECK_DEADLOCK FALSE
