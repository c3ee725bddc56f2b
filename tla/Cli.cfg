SPECIFICATION Spec
CONSTANTS
    Names <- MCNames
    Args <- MCArgs
    MaxArgs = 4
    subCommandMap <- MCSubCommandMap
    otherOptConfigs <- MCOptConfigs
    NUL = NUL
CHECK_DEADLOCK FALSE
INVARIANTS TypeOK WildReadCause NullAfterLastOption
