SPECIFICATION PsimFairSpec
CONSTANTS
    HalfRange <- MCHalfRange
    MemLen <- MCMemLen
    RegId <- MCRegId
    RSP = "rsp"
    RNONE = "none"
    Decode <- MCDecode
    AndW <- MCAnd
    XorW <- MCXor
    Loads <- MCLoads
    instr_limit = 11
INVARIANTS
    CheckSucceeds
PROPERTIES
    RunLeavesPrefix
    Terminates
CHECK_DEADLOCK FALSE
