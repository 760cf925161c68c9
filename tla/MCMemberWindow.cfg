CONSTANTS
    zip = zip
    tar = tar
    Archives = {zip, tar}
    Sizes <- MCSizes
    Workers = 2
    Pipelined = TRUE
    BudgetBytes = 6
    MaxCount = 3
    PressuredChunk = 1
    HeavyBytes = 2
    HeavyParallel = 1
    MaxPanics = 1
SPECIFICATION FairSpec
CHECK_DEADLOCK FALSE
INVARIANTS
    FoldsInOrder
    OkMeansComplete
    ResidentBounded
PROPERTIES
    EndsUnlessAllPark
