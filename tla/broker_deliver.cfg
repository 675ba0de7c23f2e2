SPECIFICATION FairSpec
CONSTANTS
    Words = {"a", "b"}
    TopicNames <- TwoTopics
    Filters <- SomeFilters
    MqttIds = {"s", "t", "p", NoId}
    PacketIds = {1, 2}
    Payloads = {"m1", "m2", "none"}
    None = None
    NoId = NoId
    Conns = {1, 2, 3}
    Plans <- DeliveryPlans
    MaxRefusals = 1
PROPERTIES
    DeliveredToSubscribers
    ReachesLatest
CHECK_DEADLOCK FALSE
