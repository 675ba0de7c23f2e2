SPECIFICATION Spec
CONSTANTS
    Streams <- PingStreams
    SplitStreams <- NoStreams
    SpareMin = 9
    SpareMax = 9
    Capacity = 2
    Replies <- OneAck
    ServicesFail = FALSE
    MaxDeliveries = 1
    Unregisters = FALSE
INVARIANT PingreqKeepsAlive
CHECK_DEADLOCK FALSE
