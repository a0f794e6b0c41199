CONSTANTS
    File = {1, 2}
    Level = {0, 1}
    Gets <- MCGets
    MaxGets = 3
SPECIFICATION AnalyzeSpec
CHECK_DEADLOCK FALSE
INVARIANTS
    RowsExact
