SPECIFICATION Spec
CONSTANTS
    n1 = n1
    n2 = n2
    n3 = n3
    Node = {n1, n2, n3}
    Seeds <- OneSeed
    Broadcasts = 1
    Scopes <- PairAndRelay
INVARIANTS
    TypeOK
    NoForgedIncarnation
    OwnRecordAlive
PROPERTY
    OpinionsOnlyAdvance
CHECK_DEADLOCK FALSE
