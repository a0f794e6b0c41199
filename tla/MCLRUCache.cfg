CONSTANTS
    b1 = b1
    b2 = b2
    b3 = b3
    b4 = b4
    f1 = f1
    f2 = f2
    Block <- MCBlock
    File <- MCFile
    FileOf <- MCFileOf
    Size <- MCSize
    MaxSize = 3
    Word = 8
SPECIFICATION FairSpec
CHECK_DEADLOCK FALSE
INVARIANTS
    TypeOK
    ListMatchesMap
    Accounting
    PurgedBehindIterator
PROPERTIES
    ImplementsCache
    CallsReturn
