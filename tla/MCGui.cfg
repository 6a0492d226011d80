SPECIFICATION GuiSpec
CONSTANTS
    HalfRange <- MCHalfRange
    MemLen <- MCMemLen
    RegId <- MCRegId
    RSP = "rsp"
    RNONE = "none"
    Decode <- MCDecode
    AndW <- MCAnd
    XorW <- MCXor
    Loads <- MCLoads
    Files <- MCFiles
    Cleared <- MCCleared
    MaxGo = 2
INVARIANTS
    DisplayCurrent
PROPERTIES
    SessionIsISA
    ExceptionEndsGo
CHECK_DEADLOCK FALSE
