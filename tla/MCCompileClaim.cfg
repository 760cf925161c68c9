SPECIFICATION FairSpec
CONSTANTS
    w1 = w1
    w2 = w2
    w3 = w3
    a = a
    b = b
    c = c
    x = x
    NoEngine = NoEngine
    Workers <- AllWorkers
    Patterns <- AllPatterns
    Hash <- HashFn
    SlotOf <- SlotFn
    MemoOf <- MemoFn
    Size <- SizeFn
    Bad <- BadPatterns
    Budget = 4
    Cap = 2
    Polls = 2
    Calls = 3
    Upsets = 1
CHECK_DEADLOCK FALSE
INVARIANTS
    TablesExact
    RightEngine
    CompiledOnce
PROPERTIES
    EveryCallReturns
