SPECIFICATION FairSpec
CONSTANTS
    c1 = c1
    c2 = c2
    c3 = c3
    Old = Old
    Absent = Absent
    Copiers <- Copiers3
    Source <- Source3
    OverWrite <- Mixed
    BufSize = 2
    DestBefore = Old
    GarbageFails = TRUE
    MaxFaults = 2
    MaxEINTR = 1
CHECK_DEADLOCK FALSE
INVARIANTS PrefixCopied CopiedIsWhole FirstKeepsDest DestinationSurvives
PROPERTIES CallsEnd CopySteps
