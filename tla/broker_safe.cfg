SPECIFICATION Spec
CONSTANTS
    Words = {"a", "b"}
    TopicNames <- TwoTopics
    Filters <- SomeFilters
    MqttIds = {"s", "p", "q", NoId}
    PacketIds = {1, 2}
    Payloads = {"m1", "m2", "none"}
    None = None
    NoId = NoId
    Conns = {1, 2, 3}
    Plans <- SafePlans
    MaxRefusals = 1
INVARIANTS
    BrokerTypeOK
    NoMissedRetained
    SubackNeverPanics
    PubrelDeliversOwn
    DeliveredOnce
    DeliveredWhenReleased
    SentWhenReleased
CHECK_DEADLOCK FALSE
