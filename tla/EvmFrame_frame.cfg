SPECIFICATION BothSpec
CONSTANTS
    ELEMENT_SIZE = 2
    MEMORY_CAPACITY = 2
    MAX_MEMORY_SIZE = 4
    USIZE = 8
    Code <- MCCode
    CallData <- MCCallData
    Message <- MCMessage
    next_power_of_two <- PowerOfTwo
    Ranges <- MCRanges
    Froms = {0, 2}
    Words <- MCWords
    Outputs <- MCOutputs
    ByteBits = 2
    WordBytes = 2
    UsizeBytes = 1
    AddressBytes = 1
    STACK_ELEMENTS = 4
    MaxDepth = 3
    MaxSteps = 4
INVARIANTS TypeOK SeenAsFlat RunningSerializable OpcodesExact
CHECK_DEADLOCK FALSE
