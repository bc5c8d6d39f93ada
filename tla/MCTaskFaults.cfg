SPECIFICATION Spec
CONSTANTS
    n1 = n1
    n2 = n2
    Nodes = {n1, n2}
    NoOwner = NoOwner
    Settings <- FaultSettings
    Count = 1
    ChunkSize = 1
    MaxFailed = 0
    MaxAcceptedRanges = 4
    MinStride = 1
INVARIANTS StartedOnce OldDataNeverRuns GrantsAreFenced FirstGrantsResume
PROPERTIES NothingOlderActs
CHECK_DEADLOCK FALSE
