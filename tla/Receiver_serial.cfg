SPECIFICATION SerialSpec
CONSTANTS
    Handlers = {h1, h2}
    Ids = {t1}
    Names = {n1}
    Versions = {v1, v2}
    FileName <- MCFileName
    FileSize <- MCFileSize
    Requests <- MCRequests
    None = None
    NoSha = NoSha
    Hole = Hole
    h1 = h1
    h2 = h2
    h3 = h3
    t1 = t1
    t2 = t2
    n1 = n1
    v1 = v1
    v2 = v2
INVARIANTS
    TypeOK
    ReceivedVerified
    HonestNeverRejected
    ControlReachesHandler
SYMMETRY MCSymmetry
CHECK_DEADLOCK FALSE
