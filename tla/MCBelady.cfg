CONSTANTS
    b1 = b1
    b2 = b2
    b3 = b3
    b4 = b4
    f1 = f1
    Block <- MCBlock
    File = {f1}
    FileOf <- MCFileOf
    Size = {1, 3, 4}
    MaxSize = 3
    Word = 8
    MaxAdded = 6
SPECIFICATION BSpec
SYMMETRY Symmetry
CHECK_DEADLOCK FALSE
INVARIANTS
    NearestIsNextUse
    MapFollowsHeap
    Optimal
PROPERTIES
    VictimUsedLast
    ImplementsCache
