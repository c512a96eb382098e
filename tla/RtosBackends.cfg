SPECIFICATION BSpec
CONSTANTS
    Item = {m1, m2}
    Capacity = 3
    Producers <- MCProducers
    Consumer = "Telemetry"
    Writer = "Motion"
    EventBits = {"MOVING", "FAULTED"}
INVARIANTS
    ReceiveFindsMessage
    BackendsAgree
PROPERTIES
    FifoSpec
