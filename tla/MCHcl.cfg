SPECIFICATION Spec
CHECK_DEADLOCK FALSE
CONSTANTS
    Programs <- MCPrograms
    SYM_LIM = 3
    ERRLIM = 5
    Words = {0, 1, 2}
INVARIANTS
    ErrorsExact
    GeneratedMeansSource
