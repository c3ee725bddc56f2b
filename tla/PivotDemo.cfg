SPECIFICATION FairSpec
CONSTANTS
    r1 = r1
    r2 = r2
    r3 = r3
    Host = Host
    Nobody = Nobody
    Before = Before
    Runs <- Runs3
    HostShared = TRUE
    Owners <- AnyOwner
    MaxFaults = 2
    MaxKills = 1
CHECK_DEADLOCK FALSE
INVARIANTS SealedOrBlocked
PROPERTIES LeftoverStays ChildEndPropagates
