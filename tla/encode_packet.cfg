CONSTANTS
    NoList = NoList
    Packets <- MCPackets
    Responses <- MCResponses
    WriteSizes <- MCWriteSizes

SPECIFICATION FairSpec

INVARIANT EncoderTypeOK
INVARIANT InStep
INVARIANT PolledWhole
PROPERTY PollEnds

CHECK_DEADLOCK FALSE
