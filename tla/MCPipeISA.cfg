SPECIFICATION IFairSpec
CONSTANTS
    HalfRange <- MCHalfRange
    MemLen <- MCMemLen
    RegId <- MCRegId
    RSP = "rsp"
    RNONE = "none"
    Decode <- MCDecode
    AndW <- MCAnd
    XorW <- MCXor
    Loads <- MCLoads
INVARIANTS
    NoPipeError
    StagesFollowProgram
    OperandsCurrent
PROPERTIES
    ImplementsISA
    AlwaysRetires
CHECK_DEADLOCK FALSE
