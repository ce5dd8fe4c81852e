-------------------------------- MODULE MCJit --------------------------------
EXTENDS JitRun

X86Programs == INSTANCE JitPrograms WITH Target <- "x86"
ArmPrograms == INSTANCE JitPrograms WITH Target <- "arm"

RiscvPrograms == INSTANCE JitPrograms WITH Target <- "riscv"

All == RiscvPrograms!All \cup X86Programs!All \cup ArmPrograms!All
=============================================================================
