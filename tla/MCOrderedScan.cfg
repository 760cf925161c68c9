CONSTANTS
    Lanes <- MCLanes
    Callers <- MCCallers
    NumFiles = 3
    FileSize <- MCFileSizeBig
    FileHint <- MCFileHintBig
    Filtered = {3}
    CallbackPanics = TRUE
    Unknown = Unknown
    Sizes <- MCSizes
    MemLevels <- MCMemLevelsUnknown
    TotalMemory = 10
    StartMemory = 8
    Expansion = 2
    FlatExpansion = 1
    MinEstimate = 1
    LoneHeadroom = 1
    WordMax = 30
SPECIFICATION ScanFairSpec
INVARIANTS
    Accounting
    CeilingHolds
    PendingCounts
    Ledger
    EventsAgree
PROPERTIES
    OnlyStuckOverPermit
    CompletesWithMemory
