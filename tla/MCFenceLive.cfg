SPECIFICATION LiveSpec
CONSTANTS
    a = a
    b = b
    Node = {a, b}
    Founders = {a, b}
    Kinds = {"append", "snapshot"}
    Links <- Connected
    MaxRecoveries = 2
    MaxEpoch = 2
    MaxStops = 1
    MaxInFlight = 0
    MaxBackups = 2
PROPERTIES
    RivalsEnd
CHECK_DEADLOCK FALSE
