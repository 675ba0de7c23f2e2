SPECIFICATION FairSpec
CONSTANTS
    Streams <- PublishStreams
    SplitStreams <- PublishStreams
    SpareMin = 9
    SpareMax = 9
    Capacity = 2
    Replies <- OneAck
    ServicesFail = FALSE
    MaxDeliveries = 1
    Unregisters = FALSE
INVARIANT PublishMayArriveInParts
CHECK_DEADLOCK FALSE
