CONSTANTS
    InitialSize = 4  MaxSize = 7  GrowthFactor = 2  BlockSize = 2
    Request = {1, 2, 3}
SPECIFICATION MemorySpec
INVARIANTS FreeMemoryIsUsable
CHECK_DEADLOCK FALSE
