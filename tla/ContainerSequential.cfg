SPECIFICATION Spec
CONSTANTS
    r1 = r1
    r2 = r2
    Host = Host
    Runs <- MCRuns
    HostShared = FALSE
    NDEBUG = TRUE
    Overlap = FALSE
    MaxFaults = 2
    MaxKills = 2
    InitSpaces <- AnySpaces
    InitRoots <- AnyRoots
SYMMETRY MCSymmetry
CHECK_DEADLOCK FALSE
INVARIANT LeftoversTolerated
