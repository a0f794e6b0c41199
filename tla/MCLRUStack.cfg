CONSTANTS
    b1 = b1
    b2 = b2
    b3 = b3
    b4 = b4
    b5 = b5
    f1 = f1
    f2 = f2
    Block <- MCBlock
    File <- MCFile
    FileOf <- MCFileOf
    SizeOf <- MCSizeOf
    SmallSize = 3
    BigSize = 5
    Word = 8
SPECIFICATION Spec
INVARIANTS
    Inclusion
