SPECIFICATION Spec
CONSTANTS
    Words = {"a", "b"}
    TopicNames <- TwoTopics
    Filters <- SomeFilters
    MqttIds = {"s", "p", "q", NoId}
    PacketIds = {1, 2}
    Payloads = {"m1", "m2", "none"}
    None = None
    NoId = NoId
    Conns = {1, 2}
    Plans <- SharedIdPlans
    MaxRefusals = 1
INVARIANT PubrelDeliversOwn
CHECK_DEADLOCK FALSE
