SPECIFICATION Spec
CONSTANTS
    m1 = m1
    m2 = m2
    p1 = p1
    Callers <- MCCallers
    Subsystem <- MCSubsystem
    AutoCreate <- MCAutoCreate
    Mountinfos <- MCMountinfos
    NoRoot = "none"
    Elsewhere <- MCElsewhere
    DirsBefore <- Nowhere
    MaxFaults = 2
CHECK_DEADLOCK FALSE
INVARIANTS LoserLeavesDirectory OnlyAutoCreateCreates FirstLoneDecides
