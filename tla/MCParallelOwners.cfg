CONSTANTS
    Threads = {t1, t2}
    MaxFrames = 4
    WordMax = 15
    PoolCap <- MCPoolCap
    HostCaps <- MCHostCaps
SYMMETRY Perms
SPECIFICATION Spec
INVARIANTS
    SlotsMatchGuards
    CapsHold
