SPECIFICATION PipesSpec
CONSTANTS
    ImmBits = 4
    GPRs <- MCGPRs
    InitRegs <- MCInitRegs
    InitData <- MCInitData
    EntryPC = 16
    SysReturns <- MCSysReturns
    MaxCycles = 20
    Designs = {"forward", "stall", "first", "new"}
    Programs <- AllPrograms
INVARIANTS PipelineExact ScoreboardExact CyclesExplained StallingExact FirstExact NewInstsExact
PROPERTY Terminates
CHECK_DEADLOCK FALSE
