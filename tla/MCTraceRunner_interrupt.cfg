CONSTANTS
    t1 = t1
    t2 = t2
    t3 = t3
    d1 = d1
    d3 = d3
    Traces <- MCTraces
    JOBS = 2
    LogDir <- MCLogDir
    Percent <- MCPercent
    Configs <- MCConfigs
    PolicyOrder <- MCPolicyOrder
    CacheOrder <- MCCacheOrder
    Byte = 256
    Word = 65536
    DWord = 1000000
    None = None
SPECIFICATION Spec
CHECK_DEADLOCK FALSE
INVARIANTS
    InterruptStopsAll
