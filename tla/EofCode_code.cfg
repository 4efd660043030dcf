SPECIFICATION FairSpec
CONSTANTS
    STACK_LIMIT = 24
    STACK_ELEMENTS = 20
    U8 = 8
    U16 = 65536
    MAX_INPUT_ITEMS = 20
    MAX_OUTPUT_ITEMS = 20
    Binaries <- MCBinaries
    MaxReturns = 30
INVARIANTS TypeOK ValidatedHeight NoFault WithinDeclared AllReachable SlicesInBounds
PROPERTY ValidationEnds
CHECK_DEADLOCK FALSE
