SPECIFICATION FairSpec
CONSTANTS
    w1 = w1
    h1 = h1
    NoMapper = NoMapper
    Pool <- PoolThreads
    Hosts <- HostThreads
    MaxTree = 2
    Analyses = 2
    Reloads = 2
    Flips = 1
CHECK_DEADLOCK FALSE
INVARIANTS
    OneMapperPerEpoch
    CalmHonest
PROPERTIES
    QuietReloadTakes
    EveryOpEnds
