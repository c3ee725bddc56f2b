SPECIFICATION ParseSpec
CONSTANTS
    Texts <- ExampleTexts
    NDEBUG = FALSE
    MaxLen = 0
CHECK_DEADLOCK FALSE
INVARIANT SameIndentSameDepth
