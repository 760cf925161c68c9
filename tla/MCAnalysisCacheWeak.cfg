CONSTANTS
    a = a
    b = b
    p = p
    q = q
    Threads = {t1, t2}
    Keys = {a, b}
    Paths = {p, q}
    SamePath <- MCSamePath
    BytesOf <- MCBytesOf
    MaxBytes = 3
    MaxItemBytes = 2
    ChanCap = 1
    BatchCap = 2
    MemoBudget = 3
    MemoItem = 2
    MaxRows = 1
    RowTarget = 1
    ByteTarget = 1
    Interval = 1
    Inputs <- MCInputs
    Jobs = 2
    Boots = 2
    Loads = 1
    Files = 3
    NoReport = NoReport
SPECIFICATION Spec
INVARIANT OnlyFullScansCached
