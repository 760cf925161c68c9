CONSTANTS
    Lanes <- MCLanes
    Callers <- MCCallers
    NumFiles = 3
    FileSize <- MCFileSize
    FileHint <- MCFileHint
    Filtered = {}
    CallbackPanics = FALSE
    Unknown = Unknown
    Sizes <- MCSizes
    MemLevels <- MCMemLevels
    TotalMemory = 10
    StartMemory = 8
    Expansion = 2
    FlatExpansion = 1
    MinEstimate = 1
    LoneHeadroom = 1
    WordMax = 30
SPECIFICATION ScanFairSpec
PROPERTY ScanReturns
