SPECIFICATION FairSpec
CONSTANTS
    p1 = p1
    p2 = p2
    Nobody = Nobody
    Parents <- Parents2
    Limit = 1
    Need = 2
    GroupsBefore <- Groups
    MaxFaults = 1
    MaxKills = 1
CHECK_DEADLOCK FALSE
INVARIANTS HogEscapedEarly OrphanCause
PROPERTY LimitEndsIt
