SPECIFICATION Spec
CONSTANTS
    x1 = x1
    zero = zero
    written = written
    Contracts = {x1}
    STATIC_STORAGE_LIMIT = 1
    BLOCK = 2
    SEEDS = 4
    MaxIndex = 3
    Cells = {zero, written}
    Zero = zero
    MaxWrites = 2
    MaxGeneration = 2
    MaxGift = 2
INVARIANTS CellsAsWritten OneChunkPerCell RentExempt
