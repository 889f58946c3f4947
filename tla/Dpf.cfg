\* Four levels above a packed one: EvalFull8 goes on below its eight subtrees.
SPECIFICATION Spec
CONSTANTS
    LogN = 5
    Pack = 1
    SeedBits <- MCSeedBits
    Prg <- MCPrg
    Convert <- MCConvert
    Draws <- MCDraws
    Fns = {"Eval", "EvalFull", "EvalFull8"}
INVARIANTS LeavesDifferAtThePoint ServersFallTogether EveryLeafInItsPlace ServersShareThePoint
CONSTRAINT OneAfterTheOther
CHECK_DEADLOCK FALSE
