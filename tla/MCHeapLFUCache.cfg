CONSTANTS
    b1 = b1
    b2 = b2
    b3 = b3
    b4 = b4
    b5 = b5
    b6 = b6
    b7 = b7
    f1 = f1
    f2 = f2
    Block <- MCBlock
    File <- MCFile
    FileOf <- MCFileOf
    Size = {1, 6, 7}
    MaxSize = 6
    Word = 8
    MaxAccess = 2
SPECIFICATION LFUSpec
SYMMETRY Symmetry
CHECK_DEADLOCK FALSE
INVARIANTS
    MapFollowsHeap
PROPERTIES
    VictimLeastUsed
    ImplementsCache
