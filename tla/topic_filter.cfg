SPECIFICATION FairSpec
CONSTANTS
    Words = {"a", "b"}
    Filters <- AllFilters
    TopicNames <- AllTopics
INVARIANTS
    LoopInvariant
    LoopDecides
PROPERTY LoopEnds
CHECK_DEADLOCK FALSE
