SPECIFICATION FairSpec
CONSTANTS
    WINDOW = 3
    MAX_ENTRIES = 6
    MaxSlot = 8
INVARIANTS ReadsInBounds FoundIfListed
PROPERTIES SearchEnds
CHECK_DEADLOCK FALSE
