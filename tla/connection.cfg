SPECIFICATION FairSpec
CONSTANTS
    Streams <- ClientStreams
    SplitStreams <- CutStreams
    SpareMin = 1
    SpareMax = 6
    Capacity = 2
    Replies <- AnyReplies
    ServicesFail = TRUE
    MaxDeliveries = 1
    Unregisters = TRUE
INVARIANTS
    ConnectionTypeOK
    NoLostWakeup
    StreamIntact
    ServedInOrder
    AnswersInOrder
    QueueIsFifo
    FailsOnNoWholeFrame
PROPERTIES
    FollowsDiscipline
    SentIsServed
    AcceptedIsWritten
    ReleasedConnectionCloses
CHECK_DEADLOCK FALSE
