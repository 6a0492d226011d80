SPECIFICATION Spec
CONSTANTS
    HalfRange <- MCHalfRange
    MemLen <- MCMemLen
    RegId <- MCRegId
    RSP = "rsp"
    RNONE = "none"
    Decode <- SeqDecode
    AndW <- MCAnd
    XorW <- MCXor
    Codes <- MCCodes
    Designs <- MCDesigns
    instr_limit = 8
PROPERTIES
    SeqImplementsISA
CHECK_DEADLOCK FALSE
