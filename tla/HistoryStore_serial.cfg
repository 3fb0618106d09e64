SPECIFICATION SerialSpec
CONSTANTS
    Ops = {o1, o2, o3, o4}
    Records = {r1, r2, r3}
    Work <- MCWork
    Clear = Clear
    Torn = Torn
    None = None
    o1 = o1
    o2 = o2
    o3 = o3
    o4 = o4
    r1 = r1
    r2 = r2
    r3 = r3
INVARIANTS
    TypeOK
    StoreLoadable
    AckedDurable
CHECK_DEADLOCK FALSE
