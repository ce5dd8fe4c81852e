-------------------------------- MODULE JitX86 --------------------------------
(***************************************************************************)
(* The code the JIT writes for x86-64 (karte-codegen, jit/x86_compiler.rs).*)
(* Registers have the numbers of the processor: RAX, RCX, RDX, RBX, RSP,   *)
(* RBP, RSI, RDI, R8 to R15.                                               *)
(***************************************************************************)
EXTENDS JitMachine

RAX == 0
RCX == 1
RDX == 2
RSP == 4
VmSp == 10
VmFp == 11

CalleeSaved == {3, 12, 13, 14, 15}     \* is_callee_saved, without R10 and R11
ArgRegs == <<7, 6, 2, 1, 8, 9>>
\* What a function of the system may overwrite.
Clobbers == {0, 1, 2, 6, 7, 8, 9, 10, 11}

\* The machine when the host calls the entry, with the two ends of the stack of
\* the VM; what the entry has to give back, the register of the result, the
\* size of what GcRegOp saves, the registers of LIR in those of the machine.
Platform ==
  [start |-> Machine([r \in 0 .. 15 |-> CASE r = RSP -> HostTop [] r = 7 -> StackTop [] r = 6 -> 8
                                          [] OTHER -> Anything(r)],
                     HostTop :> HostReturn),
   kept |-> {3, 5, 12, 13, 14, 15}, sp |-> RSP, ended |-> HostTop + 8, ret |-> RAX, gc |-> 88,
   hardware |-> [r \in 0 .. 15 |-> r]]

----------------------------------------------------------------------------
(* Encoders.                                                               *)

emit_mov_reg_reg(d, s)         == Move(d, Reg(s))
emit_mov_reg_imm64(d, v)       == Move(d, Imm(v))
emit_mov_reg_mem(d, base, off) == Load(d, base, AsI32(off), 8)
emit_mov_mem_reg(base, off, s) == Store(base, AsI32(off), Reg(s), 8)
emit_mov_mem_imm32(base, off, v) == Store(base, AsI32(off), Imm(AsI32(v)), 8)
emit_add_reg_imm32(d, v)       == AluFlags("add", d, Reg(d), Imm(AsI32(v)))
emit_sub_reg_imm32(d, v)       == AluFlags("sub", d, Reg(d), Imm(AsI32(v)))
emit_push(r)                   == <<Alu("sub", RSP, Reg(RSP), Imm(8)), Store(RSP, 0, Reg(r), 8)>>
emit_pop(r)                    == <<Load(r, RSP, 0, 8), Alu("add", RSP, Reg(RSP), Imm(8))>>

\* The second operand: a register, or a number of 32 bits.
Second(o) == IF IsImm(o) THEN Imm(AsI32(o.imm)) ELSE o

\* An operand goes to register d, unless it is there.
Into(d, o) == IF o = Reg(d) THEN <<>> ELSE <<Move(d, o)>>

----------------------------------------------------------------------------
(* One definition for each instruction, or for those that differ in one    *)
(* opcode only.                                                            *)

compile_move(i) == IF IsLab(i.a) THEN <<Illegal>> ELSE Into(i.d, i.a)

\* Two operands: the first goes to the result, the second is applied to it.
TwoOperands(f, i) == Into(i.d, i.a) \o <<AluFlags(f, i.d, Reg(i.d), Second(i.b))>>

compile_add(i) == TwoOperands("add", i)
compile_sub(i) == TwoOperands("sub", i)
compile_mul(i) == TwoOperands("mul", i)

\* What is known when it is compiled is computed then.
Folded(f, i) == <<Move(i.d, Imm(Compute(f, Bits(i.a.imm), Bits(i.b.imm))))>>
Logical(f, i) == IF IsImm(i.a) /\ IsImm(i.b) THEN Folded(f, i) ELSE TwoOperands(f, i)

compile_bitand(i) == Logical("and", i)
compile_bitor(i)  == Logical("or", i)
compile_bitxor(i) == Logical("xor", i)

\* The divisor must be in neither RAX nor RDX; a copy goes to R9, or to R8 if
\* R9 is the dividend.
Division(i, result) ==
  LET temp    == IF i.a = Reg(9) THEN 8 ELSE 9
      copied  == IsImm(i.b) \/ i.b = Reg(RDX)
      divisor == IF copied THEN temp ELSE i.b.reg
  IN  (IF copied THEN <<Move(temp, i.b)>> ELSE <<>>)
      \o Into(RAX, i.a)
      \o <<Alu("sar", RDX, Reg(RAX), Imm(23)), DivideWide(divisor)>>     \* CQO, IDIV
      \o Into(i.d, Reg(result))

compile_div(i) == Division(i, RAX)
compile_mod(i) == Division(i, RDX)

\* The count of a shift is in CL, or in the instruction.
Shift(f, i, inPlace) ==
  IF IsImm(i.a) /\ IsImm(i.b) THEN Folded(f, i)
  ELSE Into(i.d, i.a)
       \o (IF IsImm(i.b) THEN <<AluFlags(f, i.d, Reg(i.d), i.b)>>
           ELSE (IF i.b.reg \in inPlace THEN <<>> ELSE <<Move(RCX, i.b)>>)
                \o <<AluFlags(f, i.d, Reg(i.d), Reg(RCX))>>)

compile_shift_left(i)  == Shift("shl", i, {RAX, RCX})
compile_shift_right(i) == Shift("shr", i, {RCX})

\* The opcode leaves no room for the registers from R8 on: it negates another one.
compile_bitnot(i) ==
  IF IsImm(i.a) THEN <<Move(i.d, Imm(-i.a.imm - 1))>>
  ELSE Into(i.d, i.a)
       \o <<IF i.d < 8 THEN Alu("xor", i.d, Reg(i.d), Imm(-1))
            ELSE AluFlags("sub", i.d - 8, Imm(0), Reg(i.d - 8))>>

compile_intcast(i) ==
  LET masked(v) == <<AluFlags("and", i.d, Reg(i.d), Imm(v))>>
  IN  Into(i.d, i.a)
      \o CASE i.from = 64 /\ i.to = 32 -> masked(-1)
           [] i.from = 64 /\ i.to = 16 -> masked(Byte^2 - 1)
           [] i.from = 64 /\ i.to = 8  -> masked(Byte - 1)
           [] i.from = 32 /\ i.to = 64 /\ i.signed -> <<Alu("extend", i.d, Reg(i.d), Imm(Half))>>
           [] OTHER -> <<>>

compile_compare(i) == IF IsImm(i.a) THEN <<Illegal>> ELSE <<Compare(i.a, Second(i.b))>>

\* The result is cleared before the operands are compared; one that is also
\* the result is kept below the stack pointer and compared from RAX or RCX.
compile_compare_set(i) ==
  LET one  == i.a = Reg(i.d)
      two  == i.b = Reg(i.d)
      at   == IF one THEN -16 ELSE -8
      temp == IF one THEN RCX ELSE RAX
  IN  IF IsImm(i.a) THEN <<Illegal>>
      ELSE (IF one THEN <<emit_mov_mem_reg(VmSp, -8, i.d)>> ELSE <<>>)
           \o (IF two THEN <<emit_mov_mem_reg(VmSp, at, i.d)>> ELSE <<>>)
           \o <<AluFlags("xor", i.d, Reg(i.d), Reg(i.d))>>
           \o (IF one THEN <<emit_mov_reg_mem(RAX, VmSp, -8)>> ELSE <<>>)
           \o (IF two THEN <<emit_mov_reg_mem(temp, VmSp, at)>> ELSE <<>>)
           \o <<Compare(IF one THEN Reg(RAX) ELSE i.a, IF two THEN Reg(temp) ELSE Second(i.b)),
                SetLow(i.d, i.c)>>

compile_jump(i)             == <<JumpTo(i.l)>>
compile_conditional_jump(i) == <<JumpIf(i.c, i.l)>>
compile_jump_register(i)    == <<JumpReg(i.r)>>

----------------------------------------------------------------------------
(* Memory.                                                                 *)

compile_load64(i) == <<emit_mov_reg_mem(i.d, i.r, i.off)>>

\* The address of a label goes through RAX.
compile_store64(i) ==
  IF IsLab(i.a) THEN <<Move(RAX, i.a), emit_mov_mem_reg(i.r, i.off, RAX)>>
  ELSE <<Store(i.r, AsI32(i.off), Second(i.a), 8)>>

\* With one of the registers from R8 on the prefix makes it an access of 64
\* bits, and an address in R12 needs a byte the code does not have.
Width32(r, s) == IF r < 8 /\ s < 8 THEN 4 ELSE 8

compile_load32(i) ==
  <<IF i.r = 12 THEN Illegal ELSE Load(i.d, i.r, AsI32(i.off), Width32(i.r, i.d))>>
compile_store32(i) ==
  <<IF i.r = 12 THEN Illegal
    ELSE Store(i.r, AsI32(i.off), Second(i.a), IF IsImm(i.a) THEN 4 ELSE Width32(i.r, i.a.reg))>>

compile_load8(i)  == <<IF i.r = 12 THEN Illegal ELSE Load(i.d, i.r, AsI32(i.off), 1)>>
compile_store8(i) == <<IF i.r = 12 THEN Illegal ELSE Store(i.r, AsI32(i.off), i.a, 1)>>

compile_load_global(i) ==
  CASE i.name = "vm_sp"     -> <<emit_mov_reg_reg(i.d, VmSp)>>
    [] i.name = "stack_top" -> <<emit_mov_reg_reg(i.d, 12), AluFlags("add", i.d, Reg(i.d), Imm(StackSize - 16))>>
    [] OTHER                -> <<Move(RAX, Lab(GlobalVariable)), emit_mov_reg_reg(i.d, RAX), emit_mov_reg_mem(i.d, i.d, 0)>>

\* The registers a collection looks at.
GcRegs == <<3, 1, 2, 6, 7, 8, 9, 12, 13, 14, 15>>
compile_gc_reg_op(i) ==
  IF i.push
  THEN <<emit_sub_reg_imm32(VmSp, 88)>>
       \o [k \in DOMAIN GcRegs |-> emit_mov_mem_reg(VmSp, 8 * (k - 1), GcRegs[k])]
  ELSE [k \in DOMAIN GcRegs |-> emit_mov_reg_mem(GcRegs[k], VmSp, 8 * (k - 1))]
       \o <<emit_add_reg_imm32(VmSp, 88)>>

----------------------------------------------------------------------------
(* Functions.  env: whether the function is the entry, and the registers   *)
(* the allocation has used.                                                *)

get_callee_saved_registers(env) == SelectSeq(env.used, LAMBDA r : r \in CalleeSaved)

emit_main_function_prologue ==
  emit_push(3) \o emit_push(5)
  \o <<emit_sub_reg_imm32(RSP, 40), emit_mov_mem_reg(RSP, 0, 12), emit_mov_mem_reg(RSP, 8, 13),
       emit_mov_mem_reg(RSP, 16, 14), emit_mov_mem_reg(RSP, 24, 15),
       emit_mov_reg_reg(VmSp, 7), emit_mov_reg_reg(VmFp, 6),
       emit_sub_reg_imm32(VmSp, 16), emit_mov_reg_reg(RAX, RSP), emit_mov_mem_reg(VmSp, 0, RAX),
       emit_mov_mem_imm32(VmSp, 8, 0),
       emit_sub_reg_imm32(VmSp, 16), emit_mov_mem_imm32(VmSp, 0, 0), emit_mov_mem_imm32(VmSp, 8, 0),
       emit_mov_reg_reg(VmFp, VmSp)>>

HostLosesR12 ==
  <<emit_add_reg_imm32(VmSp, 16), emit_mov_mem_reg(RSP, 32, RAX),
    emit_mov_reg_mem(RCX, VmSp, 0), emit_mov_reg_reg(RSP, RCX),
    emit_mov_reg_mem(15, RSP, 24), emit_mov_reg_mem(14, RSP, 16), emit_mov_reg_mem(13, RSP, 8),
    emit_mov_reg_mem(RAX, RSP, 32), emit_add_reg_imm32(RSP, 40)>>
  \o emit_pop(5) \o emit_pop(3) \o <<ReturnBy(RSP)>>

emit_main_function_epilogue ==
  <<emit_add_reg_imm32(VmSp, 16), emit_mov_mem_reg(RSP, 32, RAX),
    emit_mov_reg_mem(RCX, VmSp, 0), emit_mov_reg_reg(RSP, RCX),
    emit_mov_reg_mem(15, RSP, 24), emit_mov_reg_mem(14, RSP, 16), emit_mov_reg_mem(13, RSP, 8),
    emit_mov_reg_mem(12, RSP, 0), emit_mov_reg_mem(RAX, RSP, 32), emit_add_reg_imm32(RSP, 40)>>
  \o emit_pop(5) \o emit_pop(3) \o <<ReturnBy(RSP)>>

emit_internal_function_prologue(env) ==
  <<emit_mov_reg_reg(RAX, VmSp), emit_sub_reg_imm32(VmSp, 16), emit_mov_mem_reg(VmSp, 8, VmFp),
    emit_mov_mem_reg(VmSp, 0, RAX)>>
  \o Flat(get_callee_saved_registers(env),
          LAMBDA r : <<emit_sub_reg_imm32(VmSp, 16), emit_mov_mem_reg(VmSp, 0, r)>>)
  \o <<emit_mov_reg_reg(VmFp, VmSp)>>

emit_internal_function_epilogue(env) ==
  Flat(Reverse(get_callee_saved_registers(env)),
       LAMBDA r : <<emit_mov_reg_mem(r, VmSp, 0), emit_add_reg_imm32(VmSp, 16)>>)
  \o <<emit_mov_reg_mem(RCX, VmSp, 8), emit_mov_reg_mem(VmSp, VmSp, 0), emit_mov_reg_reg(VmFp, RCX)>>

\* The result goes to RAX; the return address is on top of the stack of the VM.
compile_return(i, env) ==
  (IF i.a = Imm(0) THEN <<Move(RAX, Imm(0))>> ELSE Into(RAX, i.a))
  \o (IF env.main THEN emit_main_function_epilogue
      ELSE emit_internal_function_epilogue(env)
           \o <<emit_mov_reg_mem(RCX, VmSp, 0), JumpReg(RCX)>>)

----------------------------------------------------------------------------
(* Calls of the runtime.                                                   *)

\* What is saved, at the top of the stack of the VM.
Clobbered(env, exclude) ==
  LET lost == SelectSeq(<<0, 1, 2, 6, 7, 8, 9, 10, 11>>, LAMBDA r : r \notin exclude)
  IN  lost \o SelectSeq(get_callee_saved_registers(env), LAMBDA r : r \notin exclude)

SpaceOf(regs) == align_to(8 * Len(regs), 16)

save_call_clobbered_registers(regs) ==
  <<emit_sub_reg_imm32(RSP, 16), emit_mov_mem_reg(RSP, 0, VmSp), emit_sub_reg_imm32(VmSp, SpaceOf(regs))>>
  \o [k \in DOMAIN regs |-> emit_mov_mem_reg(VmSp, 8 * (k - 1), regs[k])]

restore_call_clobbered_registers(regs) ==
  <<emit_mov_reg_mem(VmSp, RSP, 0), emit_add_reg_imm32(RSP, 16), emit_sub_reg_imm32(VmSp, SpaceOf(regs))>>
  \o [k \in DOMAIN regs |-> emit_mov_reg_mem(regs[k], VmSp, 8 * (k - 1))]
  \o <<emit_add_reg_imm32(VmSp, SpaceOf(regs))>>

GiveInTurn(call) ==
  Flat([k \in DOMAIN call.args |-> k], LAMBDA k : <<Move(ArgRegs[k], call.args[k])>>)

\* Arguments in registers are pushed and then popped into their places; numbers
\* follow.
GiveArguments(call) ==
  LET all     == [k \in DOMAIN call.args |-> k]
      inRegs  == SelectSeq(all, LAMBDA k : IsReg(call.args[k]))
      numbers == SelectSeq(all, LAMBDA k : IsImm(call.args[k]))
  IN  Flat(inRegs, LAMBDA k : emit_push(call.args[k].reg))
      \o Flat(Reverse(inRegs), LAMBDA k : emit_pop(ArgRegs[k]))
      \o Flat(numbers, LAMBDA k : <<Move(ArgRegs[k], call.args[k])>>)

emit_runtime_call(call, env) ==
  LET regs == Clobbered(env, compute_exclude_return_reg(call, RAX))
  IN  save_call_clobbered_registers(regs)
      \o GiveArguments(call)
      \o <<Move(RAX, Imm(1)), Native(call.f, [k \in DOMAIN call.args |-> ArgRegs[k]], RAX, Clobbers, RSP)>>
      \o restore_call_clobbered_registers(regs)
      \o (IF call.result = <<>> THEN <<>> ELSE Into(call.result[1], Reg(RAX)))

----------------------------------------------------------------------------

compile_instruction(i, env) ==
  CASE i.op = "Move"      -> compile_move(i)
    [] i.op = "Add"       -> compile_add(i)
    [] i.op = "Sub"       -> compile_sub(i)
    [] i.op = "Mul"       -> compile_mul(i)
    [] i.op = "Div"       -> compile_div(i)
    [] i.op = "Mod"       -> compile_mod(i)
    [] i.op = "BitAnd"    -> compile_bitand(i)
    [] i.op = "BitOr"     -> compile_bitor(i)
    [] i.op = "BitXor"    -> compile_bitxor(i)
    [] i.op = "ShiftLeft" -> compile_shift_left(i)
    [] i.op = "ShiftRight" -> compile_shift_right(i)
    [] i.op = "BitNot"    -> compile_bitnot(i)
    [] i.op = "IntCast"   -> compile_intcast(i)
    [] i.op = "Compare"   -> compile_compare(i)
    [] i.op = "CompareSet" -> compile_compare_set(i)
    [] i.op = "Jump"      -> compile_jump(i)
    [] i.op = "JumpIf"    -> compile_conditional_jump(i)
    [] i.op = "JumpIndirect" -> compile_jump_register(i)
    [] i.op = "Return"    -> compile_return(i, env)
    [] i.op = "Load64"    -> compile_load64(i)
    [] i.op = "Store64"   -> compile_store64(i)
    [] i.op = "Load32"    -> compile_load32(i)
    [] i.op = "Store32"   -> compile_store32(i)
    [] i.op = "Load8"     -> compile_load8(i)
    [] i.op = "Store8"    -> compile_store8(i)
    [] i.op = "StorePair" -> compile_store64(First(i)) \o compile_store64(SecondOf(i))
    [] i.op = "LoadPair"  -> compile_load64(First(i)) \o compile_load64(SecondOf(i))
    [] i.op = "LoadGlobal" -> compile_load_global(i)
    [] i.op = "GcRegOp"   -> compile_gc_reg_op(i)
    [] i.op \in RuntimeOps -> emit_runtime_call(RuntimeCall(i), env)
    [] OTHER              -> <<>>

\* The code of a function: the label it begins with comes before the prologue.
compile_function(env) ==
  IF env.main THEN emit_main_function_prologue ELSE emit_internal_function_prologue(env)
=============================================================================
