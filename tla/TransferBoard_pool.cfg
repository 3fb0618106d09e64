SPECIFICATION BoardSpec
CONSTANTS
    Tasks = {t1, t2}
    Calls = {c1}
    Batch <- MCBatch
    MaxParallel = 1
    FileSize <- MCFileSize
    Capacity = 1
    MaxInbox = 1
    Tappable = {t1}
    None = None
    c1 = c1
    t1 = t1
    t2 = t2
INVARIANTS
    TypeOK
    PermitsBalanced
    EntriesConserved
    NoneStranded
    CardsAreAttributed
PROPERTIES
    ImplementsPool
    EventuallySettled
    NeverReopened
    CardSettles
CHECK_DEADLOCK FALSE
