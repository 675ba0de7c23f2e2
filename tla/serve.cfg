CONSTANTS
    Clients = {c1, c2, c3}
    NoClient = NoClient
    MaxOpen = 2
    MaxFaults = 1

SPECIFICATION FairSpec

INVARIANT ServeTypeOK
INVARIANT PanicsOnlyIfKept
PROPERTY WaitsForAReason
PROPERTY SlotsComeBack

CHECK_DEADLOCK FALSE
