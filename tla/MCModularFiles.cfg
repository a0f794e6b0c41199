CONSTANTS
    f1 = f1
    f2 = f2
    f3 = f3
    File <- MCFile
    Level = {0, 1}
    Policies = {"ratio"}
    TotalModules <- MCTotalModules
    ErrorRate <- MCErrorRate
    FullThreshold <- Fifth
    PartialThreshold <- Tenth
    MaxLookups = 2
SPECIFICATION ModularSpec
SYMMETRY Symmetry
CHECK_DEADLOCK FALSE
INVARIANTS
    ListsIndexed
    NonZeroPrefix
    CountsAreTrue
    RatioTreeMatches
    MoreEmptyMoreModules
