SPECIFICATION FairSpec
CONSTANTS
    Trees <- MCTrees
    Length <- MCLength
    BlockSize = 2
    MaxFaults = 2
    MaxChanges = 2
CHECK_DEADLOCK FALSE
INVARIANTS LossOnlyByDroppedResult ReportedFailures ExtractIsHonest
PROPERTY ImageEnds
