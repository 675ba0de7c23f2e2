SPECIFICATION Spec
CONSTANTS
    Words = {"a", "b"}
    TopicNames <- TwoTopics
    Filters <- SomeFilters
    MqttIds = {"s", "p", NoId}
    PacketIds = {1, 2}
    Payloads = {"m1", "m2", "none"}
    None = None
    NoId = NoId
    Conns = {1, 2}
    Plans <- ClearPlans
    MaxRefusals = 1
INVARIANT ClearSticks
CHECK_DEADLOCK FALSE
