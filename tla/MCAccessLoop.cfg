CONSTANTS
    f1 = f1
    f2 = f2
    File <- MCFile
    Level = {0}
    Policies = {"none", "vanilla", "cost_model", "percentile", "ratio", "work_info"}
    TotalModules <- MCTotalModules
    ErrorRate <- MCErrorRate
    FullThreshold <- Half
    PartialThreshold <- Half
    Reads <- MCReads
    FilterCapacity = 2
    DataCapacity = 1
    SeriesPerRecord = {0, 2, 5}
    Word = 4
    MaxLookups = 2
    MaxAccesses = 5
SPECIFICATION Spec
CHECK_DEADLOCK FALSE
INVARIANTS
    CountsAddUp
    SeriesOnTime
    DeletedFileIsGone
