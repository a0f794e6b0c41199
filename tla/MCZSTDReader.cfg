CONSTANTS
    Char = {"x"}
    Files <- MCFiles
    InBufCapacity = 2
    OutBufCapacity = 2
    CR = "CR"
    LF = "LF"
SPECIFICATION DamagedSpec
CHECK_DEADLOCK FALSE
PROPERTIES
    CallsReturn
