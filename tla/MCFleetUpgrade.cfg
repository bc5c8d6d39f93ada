SPECIFICATION LiveSpec
CONSTANTS
    Nodes = {"a", "b", "c"}
    Versions = {1, 2}
    Base = 1
    Target = 2
    Ids = {1, 2}
    MaxBoots = 1
    Retain = 1
    Order <- MCOrder
    Settings <- MCSettings
INVARIANTS
    TypeOK
    
    AlwaysBootable
    NoSecondTrial
    
    OneBatchReverts
    OneVoterSwaps
PROPERTIES
    RunEnds
    SwapsResolve
CHECK_DEADLOCK FALSE
