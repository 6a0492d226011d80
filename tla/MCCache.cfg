SPECIFICATION Spec
CONSTANTS
    CommandLines <- MCCommandLines
    Address <- MCAddress
    AddrSpace = 64
    Throttle = 2
    MaxAccesses = 5
    BitAnd <- MCAnd
    BitOr <- MCOr
INVARIANTS
    TypeOK
    LinesConsistent
    LRUKeepsRecent
    PrefetchSparesDemand
    Accounting
PROPERTIES
    BehavesAsMemory
CHECK_DEADLOCK FALSE
