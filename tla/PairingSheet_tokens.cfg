SPECIFICATION SheetSpec
CONSTANTS
    Peers = {p1, p2}
    Calls = {c1, c2}
    Taps = {b1, b2}
    Ttl = 1
    MaxTime = 1
    Capacity = 1
    MaxInbox = 1
    None = None
INVARIANTS
    OpenedByOwnToken
    PairedByDecision
    NothingWaitsUnseen
    FlagIsTrue
SYMMETRY MCSymmetry
