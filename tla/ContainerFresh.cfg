SPECIFICATION Spec
CONSTANTS
    r1 = r1
    r2 = r2
    Host = Host
    Runs <- MCRuns
    HostShared = FALSE
    NDEBUG = FALSE
    Overlap = FALSE
    MaxFaults = 0
    MaxKills = 0
    InitSpaces <- AnySpaces
    InitRoots <- FreshRoots
CHECK_DEADLOCK FALSE
INVARIANT MountingPointCreated
