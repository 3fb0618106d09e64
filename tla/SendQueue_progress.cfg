SPECIFICATION Spec
CONSTANTS
    Tasks = {t1, t2}
    Calls = {c1}
    Batch <- MCBatch
    MaxParallel = 2
    FileSize <- MCFileSize
    None = None
    c1 = c1
    t1 = t1
    t2 = t2
INVARIANT
    ProgressIsOwn
CHECK_DEADLOCK FALSE
