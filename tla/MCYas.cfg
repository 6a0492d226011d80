SPECIFICATION Spec
CONSTANTS
    Sources <- MCSources
    Short = 16
    Limit = 64
    MemLen = 40
    IntHalf = 128
    TOK_PER_LINE = 12
    STAB = 3
INVARIANTS
    PassesAgree
    FetchRecoversSource
    ErrorsExact
CHECK_DEADLOCK FALSE
