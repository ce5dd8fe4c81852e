-------------------------------- MODULE JitArm --------------------------------
(***************************************************************************)
(* The code the JIT writes for AArch64 (karte-codegen,                     *)
(* jit/aarch64_compiler.rs).  Registers are X0 to X30, and 31 for SP.  The *)
(* code has X16 and X17 to itself.  Numbers in instructions are scaled as  *)
(* words are: 16 bits are six, 12 are nine, nine are six.                  *)
(***************************************************************************)
EXTENDS JitMachine

X0  == 0
X16 == 16
X17 == 17
X29 == 29
X30 == 30
SP  == 31
VmSp == 10
VmFp == 11

\* ffi_calling_convention and vm_calling_convention.
FfiCallerSaved == 0 .. 17
FfiCalleeSaved == 19 .. 30
VmCalleeSaved  == {10, 11} \cup (19 .. 28)
\* What a function of the system may overwrite.
Clobbers == (0 .. 18) \cup {X30}

\* The machine when the host calls the entry; see JitX86.
Platform ==
  [start |-> Machine([r \in 0 .. 31 |-> CASE r = SP -> HostTop - 8 [] r = X0 -> StackTop [] r = 1 -> 8
                                          [] r = X30 -> HostReturn [] OTHER -> Anything(r)], <<>>),
   kept |-> 19 .. 29, sp |-> SP, ended |-> HostTop - 8, ret |-> X0, gc |-> 80,
   hardware |-> [r \in 0 .. 31 |-> r]]

----------------------------------------------------------------------------
(* Encoders.                                                               *)

emit_mov_reg_reg(d, s) == <<Move(d, Reg(s))>>

\* MOVZ for the first part that is not zero, MOVK for the others.
Part(v, n) == ((Bits(v) \div 64^n) % 64) * 64^n
emit_mov_reg_imm64(d, v) ==
  LET parts == SelectSeq([n \in 1 .. 4 |-> Part(v, n - 1)], LAMBDA part : part # 0)
  IN  IF parts = <<>> THEN <<Move(d, Imm(0))>>
      ELSE [n \in DOMAIN parts |-> IF n = 1 THEN Move(d, Imm(parts[1])) ELSE Alu("or", d, Reg(d), Imm(parts[n]))]

ByTemp(f, d, s, v) == emit_mov_reg_imm64(X16, v) \o <<Alu(f, d, Reg(s), Reg(X16))>>
Fits12(v) == v \in 0 .. 511

emit_add_reg_reg_imm(d, s, v) ==
  IF Fits12(v) THEN <<Alu("add", d, Reg(s), Imm(v))>>
  ELSE IF Fits12(-v) THEN <<Alu("sub", d, Reg(s), Imm(-v))>>
  ELSE ByTemp("add", d, s, v)
emit_sub_reg_reg_imm(d, s, v) ==
  IF Fits12(v) THEN <<Alu("sub", d, Reg(s), Imm(v))>> ELSE ByTemp("sub", d, s, v)
emit_cmp_reg_imm(s, v) ==
  IF Fits12(v) THEN <<Compare(Reg(s), Imm(v))>>
  ELSE emit_mov_reg_imm64(X16, v) \o <<Compare(Reg(s), Reg(X16))>>

\* A multiple of eight, a small number, or a register that holds the offset.
OffsetFits(off) == (off \in 0 .. 504 /\ off % 8 = 0) \/ off \in -32 .. 31
OffsetTemp(r, base) == IF X16 \in {r, base} THEN X17 ELSE X16
emit_ldr_reg_mem(d, base, off) ==
  IF OffsetFits(off) THEN <<Load(d, base, off, 8)>>
  ELSE LET t == OffsetTemp(d, base) IN emit_mov_reg_imm64(t, off) \o <<LoadIndexed(d, base, t, 8)>>
emit_str_reg_mem(s, base, off) ==
  IF OffsetFits(off) THEN <<Store(base, off, Reg(s), 8)>>
  ELSE LET t == OffsetTemp(s, base) IN emit_mov_reg_imm64(t, off) \o <<StoreIndexed(base, t, Reg(s), 8)>>

\* Two words below SP, and from there.
PushPair(a, b) == <<Alu("sub", SP, Reg(SP), Imm(16)), Store(SP, 0, a, 8), Store(SP, 8, b, 8)>>
PopPair(a, b)  == <<Load(a, SP, 0, 8), Load(b, SP, 8, 8), Alu("add", SP, Reg(SP), Imm(16))>>
PopOne(a)      == <<Load(a, SP, 0, 8), Alu("add", SP, Reg(SP), Imm(16))>>

----------------------------------------------------------------------------

compile_move(i) ==
  CASE IsReg(i.a) -> emit_mov_reg_reg(i.d, i.a.reg)
    [] IsImm(i.a) -> emit_mov_reg_imm64(i.d, i.a.imm)
    [] IsLab(i.a) -> <<Move(i.d, i.a)>>

\* A number among the operands goes to X16.
InTemp(o) == IF IsImm(o) THEN emit_mov_reg_imm64(X16, o.imm) ELSE <<>>
OrTemp(o) == IF IsImm(o) THEN Reg(X16) ELSE o
Numbers(i) == IsImm(i.a) /\ IsImm(i.b)
Folded(f, i) == emit_mov_reg_imm64(i.d, Compute(f, Bits(i.a.imm), Bits(i.b.imm)))

ThreeOperands(f, i) == InTemp(i.a) \o InTemp(i.b) \o <<Alu(f, i.d, OrTemp(i.a), OrTemp(i.b))>>

compile_add(i) ==
  CASE Numbers(i)  -> Folded("add", i)
    [] IsImm(i.b)  -> emit_add_reg_reg_imm(i.d, i.a.reg, AsI32(i.b.imm))
    [] IsImm(i.a)  -> emit_add_reg_reg_imm(i.d, i.b.reg, AsI32(i.a.imm))
    [] OTHER       -> <<Alu("add", i.d, i.a, i.b)>>
compile_sub(i) ==
  CASE Numbers(i)  -> Folded("sub", i)
    [] IsImm(i.b)  -> emit_sub_reg_reg_imm(i.d, i.a.reg, AsI32(i.b.imm))
    [] OTHER       -> ThreeOperands("sub", i)

\* Two numbers are refused.
compile_mul(i) == IF Numbers(i) THEN <<Illegal>> ELSE ThreeOperands("mul", i)
compile_div(i) == IF Numbers(i) THEN <<Illegal>> ELSE ThreeOperands("div", i)

\* The quotient is in X16, the divisor in X17; a number that is divided goes to
\* the result first.
compile_mod(i) ==
  LET x    == IF IsImm(i.a) THEN Reg(i.d) ELSE i.a
      div  == IF IsReg(i.a) /\ IsReg(i.b) THEN i.b ELSE Reg(X17)
  IN  IF Numbers(i) THEN <<Illegal>>
      ELSE (IF IsImm(i.a) THEN emit_mov_reg_imm64(i.d, i.a.imm) ELSE <<>>)
           \o (IF IsImm(i.b) THEN emit_mov_reg_imm64(X17, i.b.imm) ELSE emit_mov_reg_reg(X17, i.b.reg))
           \o <<Alu("div", X16, x, div),
                Alu("mul", X16, Reg(X16), Reg(X17)), Alu("sub", i.d, x, Reg(X16))>>     \* MSUB

Logical(f, i) == IF Numbers(i) THEN Folded(f, i) ELSE ThreeOperands(f, i)

compile_bitand(i) == Logical("and", i)
compile_bitor(i)  == Logical("or", i)
compile_bitxor(i) == Logical("xor", i)
compile_shift_left(i)  == Logical("shl", i)
compile_shift_right(i) == Logical("sar", i)

\* What is written for MVN is ORR, which moves the register.
compile_bitnot(i) ==
  IF IsImm(i.a) THEN emit_mov_reg_imm64(i.d, -i.a.imm - 1) ELSE <<Move(i.d, i.a)>>

\* SBFM has no place among these 64-bit instructions.
compile_intcast(i) ==
  LET masked(v) == emit_mov_reg_imm64(X16, v) \o <<Alu("and", i.d, Reg(i.d), Reg(X16))>>
      bits(n)   == CASE n = 8 -> Byte - 1 [] n = 16 -> Byte^2 - 1 [] n = 32 -> Half - 1
  IN  (IF IsImm(i.a) THEN emit_mov_reg_imm64(i.d, i.a.imm)
       ELSE IF i.a = Reg(i.d) THEN <<>> ELSE emit_mov_reg_reg(i.d, i.a.reg))
      \o CASE i.from = 64 /\ i.to \in {8, 16, 32} -> masked(bits(i.to))
           [] i.from \in {8, 16, 32} /\ i.to = 64 ->
                (IF i.signed THEN <<Illegal>> ELSE <<>>)
                \o (IF i.from = 32 \/ ~i.signed THEN masked(bits(i.from)) ELSE <<>>)
           [] OTHER -> <<>>

compile_compare(i) ==
  CASE Numbers(i) -> <<Illegal>>
    [] IsImm(i.b) -> emit_cmp_reg_imm(i.a.reg, AsI32(i.b.imm))
    [] OTHER      -> InTemp(i.a) \o <<Compare(OrTemp(i.a), i.b)>>

compile_compare_set(i) == compile_compare(i) \o <<SetWord(i.d, i.c)>>

compile_jump(i)             == <<JumpTo(i.l)>>
compile_conditional_jump(i) == <<JumpIf(i.c, i.l)>>
compile_jump_register(r)    == <<JumpReg(r)>>
compile_jump_indirect(i) ==
  (IF i.r = X16 THEN <<>> ELSE emit_mov_reg_reg(X16, i.r)) \o <<JumpReg(X16)>>

----------------------------------------------------------------------------
(* Memory.                                                                 *)

compile_load64(i) == emit_ldr_reg_mem(i.d, i.r, AsI32(i.off))
compile_store64(i) ==
  CASE IsReg(i.a) -> emit_str_reg_mem(i.a.reg, i.r, AsI32(i.off))
    [] IsImm(i.a) -> emit_mov_reg_imm64(X16, i.a.imm) \o emit_str_reg_mem(X16, i.r, AsI32(i.off))
    [] IsLab(i.a) -> <<Move(X16, i.a)>> \o emit_str_reg_mem(X16, i.r, AsI32(i.off))

\* Division as Rust does it.
TowardsZero(off, n) == IF off < 0 THEN -((-off) \div n) ELSE off \div n

\* Of offsets that do not fit, those of 32-bit accesses overwrite the opcode, of
\* those of bytes 12 bits are left.
Access32(access) ==
  LET quarter == TowardsZero(access.off.imm, 4)
  IN  IF quarter \in 0 .. 4095 THEN [access EXCEPT !.off = Imm(4 * quarter)] ELSE Illegal
compile_load32(i)  == <<Access32(Load(i.d, i.r, i.off, 4))>>
compile_store32(i) == InTemp(i.a) \o <<Access32(Store(i.r, i.off, OrTemp(i.a), 4))>>
compile_load8(i)   == <<Load(i.d, i.r, i.off % 4096, 1)>>
compile_store8(i)  == InTemp(i.a) \o <<Store(i.r, i.off % 4096, OrTemp(i.a), 1)>>

\* The offset of a pair is one of words, on SP of two words; ten bits of it, of
\* which three are zero, are written, but what is refused is beyond 32 KB.
PairBytes(i)   == IF i.r = SP THEN 16 * TowardsZero(i.off, 16) ELSE i.off
PairRefused(i) == i.off % 8 # 0 \/ PairBytes(i) \div 8 \notin -4096 .. 4095
PairOffset(i)  == Signed(PairBytes(i) % 1024, 1024)
compile_store_pair(i) ==
  IF PairRefused(i) THEN <<Illegal>>
  ELSE <<Store(i.r, PairOffset(i), i.a, 8), Store(i.r, PairOffset(i) + 8, i.b, 8)>>
compile_load_pair(i) ==
  LET one == Load(i.d, i.r, PairOffset(i), 8)
      two == Load(i.e, i.r, PairOffset(i) + 8, 8)
  IN  CASE PairRefused(i) -> <<Illegal>>
        [] ~PairRefused(i) /\ i.d = i.r -> <<two, one>>     \* the address is read first
        [] OTHER -> <<one, two>>

\* The bottom of the stack is a global variable of its own.
compile_load_global(i) ==
  CASE i.name = "vm_sp"     -> IF i.d = VmSp THEN <<>> ELSE emit_mov_reg_reg(i.d, VmSp)
    [] i.name = "stack_top" -> <<Move(X16, Lab(StackBottom))>> \o emit_ldr_reg_mem(i.d, X16, 0)
                               \o emit_add_reg_reg_imm(i.d, i.d, StackSize - 16)
    [] OTHER                -> <<Move(X16, Lab(GlobalVariable))>>
                               \o (IF i.d = X16 THEN <<>> ELSE emit_mov_reg_reg(i.d, X16))
                               \o emit_ldr_reg_mem(i.d, i.d, 0)

compile_gc_reg_op(i) ==
  LET regs == [k \in 1 .. 10 |-> 18 + k]
      all  == [k \in DOMAIN regs |-> k]
  IN  IF i.push
      THEN emit_sub_reg_reg_imm(VmSp, VmSp, 80) \o Flat(all, LAMBDA k : emit_str_reg_mem(regs[k], VmSp, 8 * (k - 1)))
      ELSE Flat(all, LAMBDA k : emit_ldr_reg_mem(regs[k], VmSp, 8 * (k - 1))) \o emit_add_reg_reg_imm(VmSp, VmSp, 80)

----------------------------------------------------------------------------
(* Functions.                                                              *)

get_vm_callee_saved_registers(env) == SelectSeq(env.used, LAMBDA r : r \in VmCalleeSaved)

\* Registers of the host in pairs, in the order of their numbers; the last one
\* may be alone.
HostSaved(env) == Ascending((ToSet(env.used) \cap FfiCalleeSaved) \ {X29, X30})
PairAt(regs, n) == SubSeq(regs, 2 * n - 1, IF 2 * n <= Len(regs) THEN 2 * n ELSE Len(regs))
PairsOf(regs)   == [n \in 1 .. (Len(regs) + 1) \div 2 |-> PairAt(regs, n)]

save_callee_saved_registers(env) ==
  Flat(PairsOf(HostSaved(env)), LAMBDA p : PushPair(Reg(p[1]), IF Len(p) = 2 THEN Reg(p[2]) ELSE Imm(0)))
restore_callee_saved_registers(env) ==
  Flat(Reverse(PairsOf(HostSaved(env))), LAMBDA p : IF Len(p) = 2 THEN PopPair(p[1], p[2]) ELSE PopOne(p[1]))

save_return_slot_pointer == emit_sub_reg_reg_imm(VmSp, VmSp, 16) \o emit_str_reg_mem(X0, VmSp, 0)

emit_function_prologue(env) ==
  PushPair(Reg(X29), Reg(X30)) \o emit_mov_reg_reg(X29, SP)
  \o save_callee_saved_registers(env)
  \o emit_mov_reg_reg(VmSp, X0) \o emit_mov_reg_reg(VmFp, 1)
  \o emit_sub_reg_reg_imm(VmSp, VmSp, 16)
  \o emit_mov_reg_reg(X16, SP) \o emit_str_reg_mem(X16, VmSp, 0) \o emit_str_reg_mem(X30, VmSp, 8)
  \o save_return_slot_pointer
  \o emit_mov_reg_reg(VmFp, VmSp)

emit_function_epilogue(env) ==
  emit_ldr_reg_mem(X16, VmSp, 0) \o emit_ldr_reg_mem(X30, VmSp, 8)
  \o emit_mov_reg_reg(SP, X16)
  \o restore_callee_saved_registers(env)
  \o PopPair(X29, X30)

\* The frame pointer is set only if there is a register to save.
emit_internal_function_prologue(env) ==
  emit_mov_reg_reg(X16, VmSp) \o emit_sub_reg_reg_imm(VmSp, VmSp, 16)
  \o emit_str_reg_mem(VmFp, VmSp, 8) \o emit_str_reg_mem(X16, VmSp, 0)
  \o Flat(get_vm_callee_saved_registers(env),
          LAMBDA r : emit_sub_reg_reg_imm(VmSp, VmSp, 16) \o emit_str_reg_mem(r, VmSp, 0))
  \o (IF get_vm_callee_saved_registers(env) = <<>> THEN <<>> ELSE emit_mov_reg_reg(VmFp, VmSp))

emit_internal_function_epilogue(env) ==
  Flat(Reverse(get_vm_callee_saved_registers(env)),
       LAMBDA r : emit_ldr_reg_mem(r, VmSp, 0) \o emit_add_reg_reg_imm(VmSp, VmSp, 16))
  \o emit_ldr_reg_mem(VmFp, VmSp, 8) \o emit_ldr_reg_mem(VmSp, VmSp, 0)

\* The result goes to X0; the return address is on top of the stack of the VM.
compile_return(i, env) ==
  (IF IsImm(i.a) THEN emit_mov_reg_imm64(X0, 0) ELSE IF i.a = Reg(X0) THEN <<>> ELSE emit_mov_reg_reg(X0, i.a.reg))
  \o (IF env.main
      THEN emit_add_reg_reg_imm(VmSp, VmSp, 16) \o emit_function_epilogue(env) \o <<JumpReg(X30)>>
      ELSE emit_internal_function_epilogue(env) \o emit_ldr_reg_mem(X30, VmSp, 0) \o compile_jump_register(X30))

----------------------------------------------------------------------------
(* Calls of the runtime.                                                   *)

Clobbered(env, exclude) ==
  Ascending((FfiCallerSaved \cup (ToSet(env.used) \cap VmCalleeSaved)) \ exclude)
SpaceOf(regs) == align_to(8 * Len(regs), 16) + 32

save_call_clobbered_registers(regs) ==
  emit_sub_reg_reg_imm(VmSp, VmSp, SpaceOf(regs))
  \o Flat([k \in DOMAIN regs |-> k], LAMBDA k : emit_str_reg_mem(regs[k], VmSp, 8 * (k - 1)))
  \o PushPair(Reg(VmSp), Reg(VmFp))

restore_call_clobbered_registers(regs) ==
  PopPair(VmSp, VmFp)
  \o Flat([k \in DOMAIN regs |-> k], LAMBDA k : emit_ldr_reg_mem(regs[k], VmSp, 8 * (k - 1)))
  \o emit_add_reg_reg_imm(VmSp, VmSp, SpaceOf(regs))

emit_runtime_dispatch(call) ==
  <<Move(X16, Imm(1)),
    Native(call.f, [k \in DOMAIN call.args |-> k - 1], X0, Clobbers, SP)>>

\* Arguments are moved one after the other; the result is where it belongs
\* before the registers are restored.
emit_runtime_call(call, env) ==
  LET regs == Clobbered(env, compute_exclude_dst_reg(call))
      give(k) == IF call.args[k] = Reg(k - 1) THEN <<>> ELSE compile_move([d |-> k - 1, a |-> call.args[k]])
  IN  save_call_clobbered_registers(regs)
      \o Flat([k \in DOMAIN call.args |-> k], LAMBDA k : give(k))
      \o emit_runtime_dispatch(call)
      \o (IF call.result = <<>> \/ call.result = <<X0>> THEN <<>> ELSE emit_mov_reg_reg(call.result[1], X0))
      \o restore_call_clobbered_registers(regs)

----------------------------------------------------------------------------

compile_instruction(i, env) ==
  CASE i.op = "Move"      -> compile_move(i)
    [] i.op = "Add"       -> compile_add(i)
    [] i.op = "Sub"       -> compile_sub(i)
    [] i.op = "Mul"       -> compile_mul(i)
    [] i.op = "Div"       -> compile_div(i)
    [] i.op = "Mod"       -> compile_mod(i)
    [] i.op = "BitAnd"    -> compile_bitand(i)
    [] i.op = "BitOr"     -> compile_bitor(i)
    [] i.op = "BitXor"    -> compile_bitxor(i)
    [] i.op = "ShiftLeft" -> compile_shift_left(i)
    [] i.op = "ShiftRight" -> compile_shift_right(i)
    [] i.op = "BitNot"    -> compile_bitnot(i)
    [] i.op = "IntCast"   -> compile_intcast(i)
    [] i.op = "Compare"   -> compile_compare(i)
    [] i.op = "CompareSet" -> compile_compare_set(i)
    [] i.op = "Jump"      -> compile_jump(i)
    [] i.op = "JumpIf"    -> compile_conditional_jump(i)
    [] i.op = "JumpIndirect" -> compile_jump_indirect(i)
    [] i.op = "Return"    -> compile_return(i, env)
    [] i.op = "Load64"    -> compile_load64(i)
    [] i.op = "Store64"   -> compile_store64(i)
    [] i.op = "Load32"    -> compile_load32(i)
    [] i.op = "Store32"   -> compile_store32(i)
    [] i.op = "Load8"     -> compile_load8(i)
    [] i.op = "Store8"    -> compile_store8(i)
    [] i.op = "StorePair" -> compile_store_pair(i)
    [] i.op = "LoadPair"  -> compile_load_pair(i)
    [] i.op = "LoadGlobal" -> compile_load_global(i)
    [] i.op = "GcRegOp"   -> compile_gc_reg_op(i)
    [] i.op \in RuntimeOps -> emit_runtime_call(RuntimeCall(i), env)
    [] OTHER              -> <<>>

\* The code of a function, up to its second instruction; the first label is
\* behind the prologue of the entry, and before that of the others.
compile_function(env) ==
  IF env.main THEN emit_function_prologue(env) ELSE emit_internal_function_prologue(env)
=============================================================================
