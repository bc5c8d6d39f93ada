SPECIFICATION Spec
CONSTANTS
    a = a
    b = b
    Node = {a, b}
    Founders = {a, b}
    Kinds = {"append", "snapshot"}
    Links <- Connected
    MaxRecoveries = 2
    MaxEpoch = 2
    MaxStops = 1
    MaxInFlight = 1
    MaxBackups = 1
INVARIANTS
    TypeOK
    RecordedFenceBinds
    FencedByRealCouncil
    
PROPERTIES
    KnowledgeOnlyGrows
CHECK_DEADLOCK FALSE
