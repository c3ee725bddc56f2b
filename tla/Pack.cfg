SPECIFICATION FairSpec
CONSTANTS
    Dirs <- SmallDirs
    Files <- SmallFiles
    Root = "d"
    Parent <- SmallParent
    FileLen <- SmallLen
    OldLen <- SmallOldLen
    BlockSize = 2
    MaxFaults = 1
    MaxShort = 1
    MaxChanges = 1
    MaxKills = 1
CHECK_DEADLOCK FALSE
INVARIANTS TypeOK ShortKeepsFraming OutcomeHasCause RoundTrip
PROPERTY UnpackEnds
