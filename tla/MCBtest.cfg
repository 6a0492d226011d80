SPECIFICATION Spec
CHECK_DEADLOCK FALSE
CONSTANTS
    W = 8
    EXP = 4
    TestSets <- MCTestSets
    Solution <- MCSolution
    Test <- MCTest
    CommandLines <- MCCommandLines
    TEST_RANGE = 4
    MAX_TEST_VALS = 52
    Weights = {0, 3}
INVARIANTS
    ScoreExact
    VerdictsRight
    ArithExact
PROPERTIES
    Termination
