SPECIFICATION Spec
CONSTANTS
    producer = producer
    consumer = consumer
    Nodes = {producer, consumer}
    Producer = producer
    Services = {"s", "t"}
    VIPs = {1, 2}
    Executions = {"e1", "e2"}
    EpochSpan = 10
    Capacity = 2
    Lease = 1
    DischargeAfter = 2
    Settings <- FaultSettings
INVARIANTS
    TypeOK
    
    ConsumersFollowCouncil

    
CHECK_DEADLOCK FALSE
