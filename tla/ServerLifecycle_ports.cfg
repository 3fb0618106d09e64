SPECIFICATION FairSpec
CONSTANTS
    Inits = {i1, i2}
    Starts = {s1, s2}
    Stops = {k1}
    LastPort = 2
    Other = Other
    None = None
INVARIANTS
    NoOrphanServer
    EndpointIsLive
    DartKnows
    EngineIsTheirs
PROPERTIES
    StoppedLetsGo
CHECK_DEADLOCK FALSE
