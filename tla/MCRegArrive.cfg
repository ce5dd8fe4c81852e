SPECIFICATION Spec
CONSTANTS
    Regs = {1, 2, 3, 4, 5, 6, 7, 8}
    Functions <- AllFunctions
    Args <- MCArgs
    Allocatable <- MCAllocatable
    Scratch <- MCScratch
    ReturnReg = 0
    ResumeTemp = 5
    Rdx = 2
    DivTemps <- MCDivTemps
INVARIANTS
    OperandsArrive
CHECK_DEADLOCK FALSE
