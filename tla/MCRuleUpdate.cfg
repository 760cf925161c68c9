SPECIFICATION FairSpec
CONSTANTS
    u1 = u1
    u2 = u2
    u3 = u3
    p1 = p1
    p2 = p2
    None = None
    Updaters <- All
    Processes = {p1, p2}
    ProcOf <- ProcessOf
    Calls <- CallsOf
    Holding <- First
    Insisting <- Second
    LockModes = {TRUE, FALSE}
    Checkouts <- OssCheckout
    Publishing <- EnrichedInstalled
    Preinstalled <- EnrichedInstalled
    Attempts = 2
    Entries = 2
    MaxVersion = 2
    Runs = 2
    MaxFaults = 2
CHECK_DEADLOCK FALSE
INVARIANTS
    NoPartialTree
    CopySurvives
    ChannelsKept
    CheckoutGoesByPin
PROPERTIES
    EveryUpdateEnds
