CONSTANTS
    Char = {"x", "get", "cut", "miss", "scan", "create", "broken"}
    Files <- MCFiles
    ContentsOf <- MCContentsOf
    InBufCapacity = 2
    OutBufCapacity = 2
    CR = "CR"
    LF = "LF"
SPECIFICATION ParserSpec
INVARIANTS
    LinesAreTheFiles
    RecordsAreTheLines
PROPERTIES
    GotoReaches
    ParserReturns
