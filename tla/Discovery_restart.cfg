SPECIFICATION FairSpec
CONSTANTS
    Starts = {s1, s2}
    Stops = {o1}
    Peers = {p1}
    Self = me
    MaxReports = 2
    None = None
INVARIANTS
    TypeOK
    NoOrphan
    AnnouncedIsListed
PROPERTY
    StopWindsDown
CHECK_DEADLOCK FALSE
