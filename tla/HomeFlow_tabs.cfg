SPECIFICATION FairSpec
CONSTANTS
    Visits = {v1, v2}
    Creates = {c1, c2}
    Sends = {s1, s2}
    None = None
INVARIANTS
    RecordedGroupIsUp
    DiscoveryFollowsStage
PROPERTY
    SpinnersEnd
CHECK_DEADLOCK FALSE
