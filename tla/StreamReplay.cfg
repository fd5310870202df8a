SPECIFICATION Spec
CONSTANTS
    Prices = {3, 4, 6}
    One = 10
    SetSize = 1
    Costs = 1
    MinNet = 0
    Deltas <- SmallDeltas
    InitialBooks <- OneStart
    High = 2
    MaxMoves = 2
    MaxFaults = 1
INVARIANTS
    LiveEqualsReplay
CHECK_DEADLOCK FALSE
