CONSTANTS
    None = None
    Levels = {4, 5}
    Lengths <- MCLengths
    Announced = {0, 1, 2, 3, 5, 10, 17}
    MaxString = 1
    MaxBuffer = 17
    Word = 1000000000

SPECIFICATION FairSpec

INVARIANT PacketTypeOK
INVARIANT AcceptedEndsItsFrame
INVARIANT PayloadFollowsList
PROPERTY PollReturns

CHECK_DEADLOCK FALSE
