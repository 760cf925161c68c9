CONSTANTS
    t1 = t1
    t2 = t2
    t3 = t3
    t4 = t4
    j1 = j1
    j2 = j2
    j3 = j3
    j4 = j4
    j5 = j5
    a = a
    b = b
    None = None
    Threads = {t1, t2, t3, t4}
    Pool = {t1, t2, t4}
    Jobs <- MCJobs
    Keys = {a, b}
    KeyOf <- MCKeyOf
    Parent <- MCParent
    Lane <- MCLane
    Pulled = {j2}
    Small = {}
    Fanouts = {{j1, j4}, {j5}}
    Isolated = {b}
SPECIFICATION FairSpec
INVARIANTS
    MapHoldsLiveFlights
    NoOrphanFollower
    OneOwnerPerKey
    WaitersCapped
    CountsExact
    OnlyQuinesCycle
PROPERTIES
    EveryJobEnds
