CONSTANTS
    f1 = f1
    f2 = f2
    lost = lost
    File <- MCFile
    Level = {0, 1}
    Policies = {"none", "vanilla", "cost_model", "percentile", "ratio", "work_info"}
    TotalModules <- MCTotalModules
    ErrorRate <- MCErrorRate
    FullThreshold <- Half
    PartialThreshold <- Half
    FilterCapacity = 1
    DataCapacity = 1
    SeriesPerRecord = {0, 2}
    Word = 4
    Gets <- MCGets
    Lost <- MCLost
    optimal_lookahead = 1
    modular_lookahead = 2
    workload_empty_fraction <- Half
    MaxGets = 4
SPECIFICATION Spec
CHECK_DEADLOCK FALSE
INVARIANTS
    CountsAreWindow
    ListsIndexed
    RatioTreeMatches
    Bounds
    NoAccessLost
    MapTellsUnnecessary
    UnknownNotReported
    SeriesOnTime
