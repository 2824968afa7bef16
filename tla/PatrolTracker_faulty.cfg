SPECIFICATION Spec
CONSTANTS
    cpA = cpA
    cpB = cpB
    cpC = cpC
    NoFloor = NoFloor
    NoCtx = NoCtx
    NoState = NoState
    APs = {cpA, cpB, cpC}
    Configs <- FaultyConfigs
    Positions <- PositionsFew
    SavesMayFail = TRUE
    Radius = 1
    ExitMargin = 1
    Window = 4
    SoftCloseCap = 2
    MinDwell = 2
    ParkedDwell = 2
    CacheTTL = 2
INVARIANTS
    VerdictsSurviveFaults
