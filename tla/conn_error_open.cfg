SPECIFICATION FairSpec
CONSTANTS
    Streams <- MalformedStreams
    SplitStreams <- NoStreams
    SpareMin = 9
    SpareMax = 9
    Capacity = 2
    Replies <- OneAck
    ServicesFail = FALSE
    MaxDeliveries = 1
    Unregisters = FALSE
PROPERTY ErrorClosesSocket
CHECK_DEADLOCK FALSE
