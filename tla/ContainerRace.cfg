SPECIFICATION FairSpec
CONSTANTS
    r1 = r1
    r2 = r2
    Host = Host
    Runs <- MCRuns
    HostShared = TRUE
    NDEBUG = FALSE
    Overlap = TRUE
    MaxFaults = 1
    MaxKills = 1
    InitSpaces <- ReadySpaces
    InitRoots <- FreshRoots
CHECK_DEADLOCK FALSE
INVARIANTS ShellConfined ReturnMeansGone LeakIsUnionOnly HostRootKept RaceHasWinner
PROPERTIES ShellExitPropagates ImplementsLaunch
