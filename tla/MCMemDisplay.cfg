SPECIFICATION Spec
CONSTANTS
    MemSize = 64
    Offsets = {0, 1, 2, 3}
    MaxWrites = 3
INVARIANTS
    WritesShown
CHECK_DEADLOCK FALSE
