SPECIFICATION FairParseSpec
CONSTANTS
    Texts <- ShortTexts
    NDEBUG = FALSE
    MaxLen = 5
CHECK_DEADLOCK FALSE
INVARIANTS ParseTypeOK OnlyEscapesBreakIt NumbersAreWholeLines BreaksAreInKeys
PROPERTY ParseEnds
