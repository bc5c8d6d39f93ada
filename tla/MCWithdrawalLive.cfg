SPECIFICATION LiveSpec
CONSTANTS
    producer = producer
    consumer = consumer
    Nodes = {producer, consumer}
    Producer = producer
    Services = {"s"}
    VIPs = {1}
    Executions = {"e1", "e2"}
    EpochSpan = 10
    Capacity = 2
    Lease = 1
    DischargeAfter = 2
    Settings <- LiveSettings
PROPERTIES
    AddressFreed
    NodesCatchUp
CHECK_DEADLOCK FALSE
