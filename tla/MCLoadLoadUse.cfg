SPECIFICATION PipesSpec
CONSTANTS
    ImmBits = 4
    GPRs <- MCGPRs
    InitRegs <- MCInitRegs
    InitData <- MCInitData
    EntryPC = 16
    SysReturns <- MCSysReturns
    MaxCycles = 20
    Designs = {"forward"}
    Programs <- LoadLoadUse
INVARIANT RegsAgree
CHECK_DEADLOCK FALSE
