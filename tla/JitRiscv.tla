------------------------------- MODULE JitRiscv -------------------------------
(***************************************************************************)
(* The code written for RISC-V (karte-codegen, jit/riscv_compiler.rs).     *)
(* Registers of LIR are mapped to those of the processor; register 0 of    *)
(* the processor is zero.  Numbers in instructions are scaled as words     *)
(* are: 12 bits are nine, the upper part of a register begins at the       *)
(* tenth.                                                                  *)
(***************************************************************************)
EXTENDS JitMachine

RA == 1
T0 == 5
T1 == 6
T2 == 7
A0 == 10

map_register ==
  [r \in 0 .. 29 |-> CASE r \in 0 .. 7   -> 10 + r
                       [] r \in {8, 9}   -> r - 3
                       [] r = 10         -> 2
                       [] r \in {11, 12} -> r - 3
                       [] r \in 13 .. 22 -> r + 5
                       [] r \in 23 .. 26 -> r + 5
                       [] r = 27         -> RA
                       [] r \in {28, 29} -> r - 25]

Hw(r) == map_register[r]
HwOf(o) == IF IsReg(o) THEN Reg(Hw(o.reg)) ELSE o

VmSp == Hw(10)
VmFp == Hw(11)

\* is_callee_saved
CalleeSaved == 12 .. 22
\* What a function of the runtime may overwrite.
Clobbers == {RA, 5, 6, 7} \cup (10 .. 17) \cup (28 .. 31)

\* The machine when the start code calls the entry; see JitX86.
Platform ==
  [start |-> Machine([r \in 0 .. 31 |-> CASE r = 0 -> 0 [] r = VmSp -> HostTop - 8 [] r = A0 -> StackTop [] r = 11 -> 8
                                          [] r = RA -> HostReturn [] OTHER -> Anything(r)], <<>>),
   kept |-> {8, 9} \cup (18 .. 27), sp |-> VmSp, ended |-> HostTop - 8, ret |-> A0, gc |-> 160,
   hardware |-> map_register]

----------------------------------------------------------------------------
(* Encoders and operands.                                                  *)

emit_addi(d, s, v) == <<Alu("add", d, Reg(s), Imm(v))>>
Mv(d, s)           == emit_addi(d, s, 0)
emit_ld(d, base, off) == <<Load(d, base, off, 8)>>
emit_sd(s, base, off) == <<Store(base, off, Reg(s), 8)>>
ByRegisters(f, d, a, b) == <<Alu(f, d, Reg(a), Reg(b))>>

as_i12(v) == v \in -256 .. 255

\* The lower part is added as a signed number; what is not a small number is
\* kept beside the code.
emit_load_imm64(d, v) ==
  IF as_i12(v) THEN emit_addi(d, 0, v)
  ELSE IF v \in 0 .. 2047
  THEN <<Move(d, Imm(v - (v % 512)))>>
       \o (IF v % 512 = 0 THEN <<>> ELSE emit_addi(d, d, Signed(v % 512, 512)))
  ELSE <<Move(d, Imm(v))>>

\* An operand goes to register d, or is used where it is: a register stays, the
\* others go to a temporary one.
load_operand_to_reg(d, o) ==
  CASE IsReg(o) -> IF Hw(o.reg) = d THEN <<>> ELSE Mv(d, Hw(o.reg))
    [] IsImm(o) -> emit_load_imm64(d, o.imm)
    [] IsLab(o) -> <<Move(d, o)>>
Fetched(o, temp)             == IF IsReg(o) THEN <<>> ELSE load_operand_to_reg(temp, o)
resolve_operand_reg(o, temp) == IF IsReg(o) THEN Hw(o.reg) ELSE temp

----------------------------------------------------------------------------

compile_move(i) == load_operand_to_reg(Hw(i.d), i.a)

\* Two operands: the first goes to the result.
TwoOperands(f, i) ==
  load_operand_to_reg(Hw(i.d), i.a) \o Fetched(i.b, T0)
  \o ByRegisters(f, Hw(i.d), Hw(i.d), resolve_operand_reg(i.b, T0))

compile_add(i) == TwoOperands("add", i)
compile_sub(i) == TwoOperands("sub", i)
compile_mul(i) == TwoOperands("mul", i)
compile_div(i) == TwoOperands("div", i)
compile_mod(i) == TwoOperands("rem", i)

Logical(f, i) ==
  IF IsImm(i.a) /\ IsImm(i.b) THEN emit_load_imm64(Hw(i.d), Sgn(Compute(f, Bits(i.a.imm), Bits(i.b.imm))))
  ELSE TwoOperands(f, i)

compile_bitand(i) == Logical("and", i)
compile_bitor(i)  == Logical("or", i)
compile_bitxor(i) == Logical("xor", i)

\* The number of bits stands where the kind of the shift belongs.
Shift(f, i) ==
  IF IsImm(i.b) /\ ~IsImm(i.a)
  THEN load_operand_to_reg(Hw(i.d), i.a) \o (IF i.b.imm = 0 THEN <<>> ELSE <<Illegal>>)
  ELSE Logical(f, i)

compile_shift_left(i)  == Shift("shl", i)
compile_shift_right(i) == Shift("shr", i)

compile_bitnot(i) ==
  IF IsImm(i.a) THEN emit_load_imm64(Hw(i.d), -i.a.imm - 1)
  ELSE load_operand_to_reg(Hw(i.d), i.a) \o <<Alu("xor", Hw(i.d), Reg(Hw(i.d)), Imm(-1))>>

\* What is compared stays in its registers until a branch looks at them.
compile_compare(i) ==
  Fetched(i.a, T0) \o Fetched(i.b, T1)
last_compare_operands(i) == <<resolve_operand_reg(i.a, T0), resolve_operand_reg(i.b, T1)>>

compile_compare_set(i) ==
  LET d == Hw(i.d)
      b == resolve_operand_reg(i.b, T0)
      not == <<Alu("xor", d, Reg(d), Imm(1))>>
  IN  load_operand_to_reg(d, i.a) \o Fetched(i.b, T0)
      \o CASE i.c = "Equal"        -> ByRegisters("sub", d, d, b) \o <<Alu("Below", d, Reg(d), Imm(1))>>
           [] i.c = "NotEqual"     -> ByRegisters("sub", d, d, b) \o ByRegisters("Below", d, 0, d)
           [] i.c = "Less"         -> ByRegisters("Less", d, d, b)
           [] i.c = "Greater"      -> ByRegisters("Less", d, b, d)
           [] i.c = "LessEqual"    -> ByRegisters("Less", d, b, d) \o not
           [] i.c = "GreaterEqual" -> ByRegisters("Less", d, d, b) \o not

compile_jump(i) == <<JumpTo(i.l)>>

\* i.compared: the comparison before the branch.
compile_conditional_jump(i) ==
  LET ops == last_compare_operands(i.compared)
      branch(c, a, b) == <<BranchIf(c, Reg(a), Reg(b), i.l)>>
  IN  CASE i.c \in {"Equal", "NotEqual", "Less", "GreaterEqual"} -> branch(i.c, ops[1], ops[2])
        [] i.c = "Greater"   -> branch("Less", ops[2], ops[1])
        [] i.c = "LessEqual" -> branch("GreaterEqual", ops[2], ops[1])

compile_jump_indirect(i) == <<JumpReg(Hw(i.r))>>

----------------------------------------------------------------------------
(* Memory.                                                                 *)

\* Where an access goes: an offset that does not fit is added first.
Base(i)    == IF as_i12(i.off) THEN <<>> ELSE emit_load_imm64(T0, i.off) \o ByRegisters("add", T0, Hw(i.r), T0)
BaseReg(i) == IF as_i12(i.off) THEN Hw(i.r) ELSE T0
Off(i)     == IF as_i12(i.off) THEN i.off ELSE 0

compile_load64(i) == Base(i) \o <<Load(Hw(i.d), BaseReg(i), Off(i), 8)>>
\* LW extends the sign, LBU does not.
compile_load32(i) == Base(i) \o <<Load(Hw(i.d), BaseReg(i), Off(i), 4), Alu("extend", Hw(i.d), Reg(Hw(i.d)), Imm(Half))>>
compile_load8(i)  == Base(i) \o <<Load(Hw(i.d), BaseReg(i), Off(i), 1)>>

Stored(i, w, temp) ==
  Base(i) \o Fetched(i.a, temp) \o <<Store(BaseReg(i), Off(i), Reg(resolve_operand_reg(i.a, temp)), w)>>
compile_store64(i) == Stored(i, 8, T2)
compile_store32(i) == Stored(i, 4, T1)
compile_store8(i)  == Stored(i, 1, T1)

compile_load_global(i) ==
  LET d == Hw(i.d) IN
  CASE i.name = "vm_sp"     -> Mv(d, VmSp)
    [] i.name = "stack_top" -> <<Move(d, Lab(StackBottom))>> \o emit_ld(d, d, 0)
                               \o emit_load_imm64(T0, StackSize - 16) \o ByRegisters("add", d, d, T0)
    [] OTHER                -> <<Move(d, Lab(GlobalVariable))>> \o emit_ld(d, d, 0)

\* The registers a collection looks at.
GcRegs == <<5, 6, 7>> \o [k \in 1 .. 17 |-> 9 + k]
compile_gc_reg_op(i) ==
  IF i.push
  THEN emit_addi(VmSp, VmSp, -160) \o [k \in DOMAIN GcRegs |-> Store(VmSp, 8 * (k - 1), Reg(GcRegs[k]), 8)]
  ELSE [k \in DOMAIN GcRegs |-> Load(GcRegs[k], VmSp, 8 * (k - 1), 8)] \o emit_addi(VmSp, VmSp, 160)

----------------------------------------------------------------------------
(* Functions.                                                              *)

get_callee_saved_registers(env) ==
  LET used == SelectSeq(env.used, LAMBDA r : r \in CalleeSaved) IN [k \in DOMAIN used |-> Hw(used[k])]

\* What the entry keeps for the start code, below its stack.
HostSaved == <<RA, 8, 9>> \o [k \in 1 .. 10 |-> 17 + k]
S2 == 18

emit_main_function_prologue ==
  emit_addi(2, 2, -112) \o [k \in DOMAIN HostSaved |-> Store(2, 8 * (k - 1), Reg(HostSaved[k]), 8)]
  \o Mv(S2, 2) \o Mv(2, A0) \o Mv(8, 11)
  \o emit_addi(VmSp, VmSp, -16) \o emit_sd(S2, VmSp, 0) \o emit_sd(0, VmSp, 8)
  \o emit_addi(VmSp, VmSp, -16) \o emit_sd(0, VmSp, 0) \o emit_sd(0, VmSp, 8)
  \o Mv(VmFp, VmSp)

emit_main_function_epilogue ==
  emit_addi(VmSp, VmSp, 16) \o emit_ld(2, VmSp, 0)
  \o [k \in DOMAIN HostSaved |-> Load(HostSaved[k], 2, 8 * (k - 1), 8)]
  \o emit_addi(2, 2, 112) \o <<JumpReg(RA)>>

emit_internal_function_prologue(env) ==
  Mv(T0, VmSp) \o emit_addi(VmSp, VmSp, -16) \o emit_sd(VmFp, VmSp, 8) \o emit_sd(T0, VmSp, 0)
  \o Flat(get_callee_saved_registers(env), LAMBDA r : emit_addi(VmSp, VmSp, -16) \o emit_sd(r, VmSp, 0))
  \o Mv(VmFp, VmSp)

emit_internal_function_epilogue(env) ==
  Flat(Reverse(get_callee_saved_registers(env)), LAMBDA r : emit_ld(r, VmSp, 0) \o emit_addi(VmSp, VmSp, 16))
  \o emit_ld(T0, VmSp, 8) \o emit_ld(VmSp, VmSp, 0) \o Mv(VmFp, T0)

\* The result goes to A0; the return address is on top of the stack of the VM.
compile_return(i, env) ==
  (IF IsReg(i.a) THEN load_operand_to_reg(A0, i.a) ELSE emit_addi(A0, 0, 0))
  \o (IF env.main THEN emit_main_function_epilogue
      ELSE emit_internal_function_epilogue(env) \o emit_ld(T0, VmSp, 0) \o <<JumpReg(T0)>>)

----------------------------------------------------------------------------
(* Calls of the runtime.                                                   *)

\* Registers of LIR; what is excluded has the number of the processor.
Clobbered(exclude) == SelectSeq(<<0, 1, 2, 3, 4, 5, 6, 7, 8, 9, 23, 24, 25, 26>>, LAMBDA r : r \notin exclude)
SpaceOf(regs) == align_to(8 * Len(regs), 16)

save_call_clobbered_registers_ex(regs) ==
  emit_load_imm64(T0, -SpaceOf(regs)) \o ByRegisters("add", VmSp, VmSp, T0)
  \o [k \in DOMAIN regs |-> Store(VmSp, 8 * (k - 1), Reg(Hw(regs[k])), 8)]

restore_call_clobbered_registers(regs) ==
  [k \in DOMAIN regs |-> Load(Hw(regs[k]), VmSp, 8 * (k - 1), 8)]
  \o emit_load_imm64(T0, SpaceOf(regs)) \o ByRegisters("add", VmSp, VmSp, T0)

\* Arguments are moved one after the other; the result is looked for behind
\* the restored registers.
emit_runtime_call(call) ==
  LET regs == Clobbered(compute_exclude_return_reg(call, A0))
  IN  save_call_clobbered_registers_ex(regs)
      \o Flat([k \in DOMAIN call.args |-> k], LAMBDA k : load_operand_to_reg(9 + k, call.args[k]))
      \o <<Move(T0, Imm(1)), Move(RA, Imm(2)),
           Native(call.f, [k \in DOMAIN call.args |-> 9 + k], A0, Clobbers, VmSp)>>
      \o restore_call_clobbered_registers(regs)
      \o (IF call.result = <<>> THEN <<>> ELSE load_operand_to_reg(Hw(call.result[1]), Reg(0)))

----------------------------------------------------------------------------

compile_instruction(i, env) ==
  CASE i.op = "Move"      -> compile_move(i)
    [] i.op = "Add"       -> compile_add(i)
    [] i.op = "Sub"       -> compile_sub(i)
    [] i.op = "Mul"       -> compile_mul(i)
    [] i.op = "Div"       -> compile_div(i)
    [] i.op = "Mod"       -> compile_mod(i)
    [] i.op = "BitAnd"    -> compile_bitand(i)
    [] i.op = "BitOr"     -> compile_bitor(i)
    [] i.op = "BitXor"    -> compile_bitxor(i)
    [] i.op = "ShiftLeft" -> compile_shift_left(i)
    [] i.op = "ShiftRight" -> compile_shift_right(i)
    [] i.op = "BitNot"    -> compile_bitnot(i)
    [] i.op = "Compare"   -> compile_compare(i)
    [] i.op = "CompareSet" -> compile_compare_set(i)
    [] i.op = "Jump"      -> compile_jump(i)
    [] i.op = "JumpIf"    -> compile_conditional_jump(i)
    [] i.op = "JumpIndirect" -> compile_jump_indirect(i)
    [] i.op = "Return"    -> compile_return(i, env)
    [] i.op = "Load64"    -> compile_load64(i)
    [] i.op = "Store64"   -> compile_store64(i)
    [] i.op = "Load32"    -> compile_load32(i)
    [] i.op = "Store32"   -> compile_store32(i)
    [] i.op = "Load8"     -> compile_load8(i)
    [] i.op = "Store8"    -> compile_store8(i)
    [] i.op = "StorePair" -> compile_store64(First(i)) \o compile_store64(SecondOf(i))
    [] i.op = "LoadPair"  -> compile_load64(First(i)) \o compile_load64(SecondOf(i))
    [] i.op = "LoadGlobal" -> compile_load_global(i)
    [] i.op = "GcRegOp"   -> compile_gc_reg_op(i)
    [] i.op \in RuntimeOps -> emit_runtime_call(RuntimeCall(i))
    [] OTHER              -> <<>>

compile_function(env) ==
  IF env.main THEN emit_main_function_prologue ELSE emit_internal_function_prologue(env)
=============================================================================
