------------------------------- MODULE JitLower -------------------------------
(***************************************************************************)
(* Calling conventions (karte-common/src/calling_convention.rs) and the    *)
(* pass that makes calls explicit, the last one before code is generated   *)
(* (karte-lir/src/pass/instruction_lowering_pass.rs).                      *)
(*                                                                         *)
(* A function is [label, entry, params, stackSlots, frame, used, code]:    *)
(* the registers its first parameters have, the slots of those that arrive *)
(* on the stack, the size of its frame and used_physical_regs.  Its code   *)
(* has registers of the target only; an operand that was spilled is        *)
(* [slot |-> its offset from the frame pointer].                           *)
(***************************************************************************)
EXTENDS JitMachine, FiniteSetsExt

\* Registers of arguments, the ones that take more arguments, the result; what
\* calls may overwrite and what they keep; stack, frame and effect pointer.
X86Convention ==
  [args |-> <<7, 6, 2, 1, 8, 9>>, overflow |-> <<13, 14, 15, 3, 12>>, ret |-> 0,
   callerSaved |-> {0, 1, 2, 6, 7, 8, 9}, calleeSaved |-> {3, 10, 11, 12, 13, 14, 15},
   sp |-> 10, fp |-> 11, effect |-> 12, temp |-> 5]

Aarch64Convention ==
  [args |-> <<1, 2, 3, 4, 5, 6, 7>>, overflow |-> <<19, 20, 21, 22, 23, 24, 25, 26, 27, 28>>, ret |-> 0,
   callerSaved |-> (0 .. 9) \cup (12 .. 18), calleeSaved |-> {10, 11} \cup (19 .. 28),
   sp |-> 10, fp |-> 11, effect |-> 12, temp |-> 15]

\* Code for RISC-V is compiled on another machine, whose registers take more
\* arguments: x86-64 here.
RiscvConvention ==
  [args |-> <<0, 1, 2, 3, 4, 5, 6, 7>>, overflow |-> X86Convention.overflow, ret |-> 0,
   callerSaved |-> (0 .. 9) \cup (23 .. 27), calleeSaved |-> 12 .. 22,
   sp |-> 10, fp |-> 11, effect |-> 12, temp |-> 9]

Convention(target) ==
  CASE target = "x86" -> X86Convention
    [] target = "arm" -> Aarch64Convention
    [] target = "riscv" -> RiscvConvention

register_passing_limit(cc) == Len(cc.args) + Len(cc.overflow)
ArgPlace(cc, k) == IF k <= Len(cc.args) THEN cc.args[k] ELSE cc.overflow[k - Len(cc.args)]

IsSlot(o) == "slot" \in DOMAIN o

----------------------------------------------------------------------------
(* Pieces of code: an instruction, which one of the function it was, and   *)
(* what the function has done once it is executed: nothing yet, that       *)
(* instruction ("do"), or a part of a call: "enter" the callee, "leave"    *)
(* it, be "back" behind the call.                                          *)

Piece(i, of, then) == [i |-> i, of |-> of, then |-> then]
Ending(s, of, then) == [n \in DOMAIN s |-> Piece(s[n], of, IF n = Len(s) THEN then ELSE "none")]

AddTo(r, n)  == [op |-> "Add", d |-> r, a |-> Reg(r), b |-> Imm(n)]
SubFrom(r, n) == [op |-> "Sub", d |-> r, a |-> Reg(r), b |-> Imm(n)]
Load64(d, r, off)  == [op |-> "Load64", d |-> d, r |-> r, off |-> off]
Store64(r, off, o) == [op |-> "Store64", r |-> r, off |-> off, a |-> o]
MoveTo(d, o) == [op |-> "Move", d |-> d, a |-> o]

align_stack_size(n) == align_to(n, 16)

SaveAWordHigh(cc, regs) ==
  [n \in 1 .. (Len(regs) + 1) \div 2 |->
     LET i == 2 * n - 1 IN
     IF i < Len(regs)
     THEN [op |-> "StorePair", r |-> cc.sp, off |-> -8 * i, a |-> Reg(regs[i]), b |-> Reg(regs[i + 1])]
     ELSE Store64(cc.sp, -8 * i, Reg(regs[i]))]
  \o <<SubFrom(cc.sp, align_stack_size(8 * Len(regs)))>>

\* Pairs of registers, each below the one before; the last may be alone.
save_registers_to_stack(cc, regs) ==
  [n \in 1 .. (Len(regs) + 1) \div 2 |->
     LET i == 2 * n - 1 IN
     IF i < Len(regs)
     THEN [op |-> "StorePair", r |-> cc.sp, off |-> -8 * (i + 1), a |-> Reg(regs[i]), b |-> Reg(regs[i + 1])]
     ELSE Store64(cc.sp, -8 * i, Reg(regs[i]))]
  \o <<SubFrom(cc.sp, align_stack_size(8 * Len(regs)))>>

RestoreInOrder(cc, regs) ==
  <<AddTo(cc.sp, align_stack_size(8 * Len(regs)))>>
  \o [n \in DOMAIN regs |-> Load64(regs[n], cc.sp, -8 * n)]

restore_registers_from_stack(cc, regs) ==
  <<AddTo(cc.sp, align_stack_size(8 * Len(regs)))>>
  \o [n \in 1 .. (Len(regs) + 1) \div 2 |->
        LET i == 2 * n - 1 IN
        IF i < Len(regs)
        THEN [op |-> "LoadPair", d |-> regs[i], e |-> regs[i + 1], r |-> cc.sp, off |-> -8 * (i + 1)]
        ELSE Load64(regs[i], cc.sp, -8 * i)]

\* resolve_spilled_operand, then a push.
Push(cc, o) ==
  (IF IsSlot(o) THEN <<Load64(cc.ret, cc.fp, o.slot)>> ELSE <<>>)
  \o <<SubFrom(cc.sp, 16), Store64(cc.sp, 0, IF IsSlot(o) THEN Reg(cc.ret) ELSE o)>>

Pop(cc, r) == <<Load64(r, cc.sp, 0), AddTo(cc.sp, 16)>>

\* The labels of returns are numbered by where the call is.
ReturnLabel(f, k) == 100 * f.label + k

\* Arguments go over the stack: those that stay there, the last one first, then
\* those for registers.  A call of a function in a register keeps it in temp.
lower_call(cc, f, k) ==
  LET i      == f.code[k]
      return == ReturnLabel(f, k)
      n      == Len(i.args)
      limit  == register_passing_limit(cc)
      inRegs == Min({n, limit})
      more   == {cc.overflow[j] : j \in 1 .. Min({Len(cc.overflow), Max({n - Len(cc.args), 0})})}
      saved  == Ascending(cc.callerSaved \cup more)
      onStack == [j \in 1 .. n - inRegs |-> i.args[n + 1 - j]]
      before == save_registers_to_stack(cc, saved)
                \o (IF i.op = "CallIndirect" THEN <<MoveTo(cc.temp, Reg(i.r))>> ELSE <<>>)
                \o Flat(onStack \o SubSeq(i.args, 1, inRegs), LAMBDA o : Push(cc, o))
                \o Flat([j \in 1 .. inRegs |-> ArgPlace(cc, inRegs + 1 - j)], LAMBDA r : Pop(cc, r))
                \o <<SubFrom(cc.sp, 16), Store64(cc.sp, 0, Lab(return)),
                     IF i.op = "CallIndirect" THEN [op |-> "JumpIndirect", r |-> cc.temp]
                                              ELSE [op |-> "Jump", l |-> i.l]>>
      after  == <<[op |-> "Label", l |-> return], AddTo(cc.sp, 16)>>
                \o (IF n > limit THEN <<AddTo(cc.sp, 16 * (n - limit))>> ELSE <<>>)
                \o <<Store64(cc.sp, -8, Reg(cc.ret))>>
                \o restore_registers_from_stack(cc, saved)
                \o (IF i.d = <<>> THEN <<>>
                    ELSE <<Load64(i.d[1], cc.sp, -align_stack_size(8 * Len(saved)) - 8)>>)
  IN  Ending(before, k, "enter") \o Ending(after, k, "back")

\* Behind the first label: the frame, the effect stack of the program, and the
\* parameters that are on the stack, above what the prologue saves.
FunctionEntry(cc, f) ==
  LET saved == Len(SelectSeq(f.used, LAMBDA r : r \in cc.calleeSaved \ {cc.sp, cc.fp}))
  IN  <<MoveTo(cc.fp, Reg(cc.sp))>>
      \o (IF f.frame > 0 THEN <<SubFrom(cc.sp, f.frame)>> ELSE <<>>)
      \o (IF f.entry THEN <<MoveTo(cc.effect, Imm(0))>> ELSE <<>>)
      \o Flat([k \in DOMAIN f.stackSlots |-> k],
              LAMBDA k : <<Load64(cc.ret, cc.fp, (saved + 2) * 16 + 16 * (k - 1)),
                           Store64(cc.fp, f.stackSlots[k], Reg(cc.ret))>>)

\* One instruction.
Lowered(cc, f, k) ==
  LET i == f.code[k] IN
  CASE k = 1                 -> Ending(<<i>> \o FunctionEntry(cc, f), k, "do")
    [] i.op \in {"Call", "CallIndirect"} -> lower_call(cc, f, k)
    [] i.op = "Return"       -> Ending((IF f.frame > 0 THEN <<AddTo(cc.sp, f.frame)>> ELSE <<>>) \o <<i>>, k, "leave")
    [] OTHER                 -> <<Piece(i, k, "do")>>

\* A function that the pass finds nothing to lower in stays as it is.
Lowers(i) == i.op \in {"Alloc", "Load64", "Store64", "Call", "CallIndirect"}

run_on_function(cc, f) ==
  IF \E k \in DOMAIN f.code : Lowers(f.code[k])
  THEN Flat([k \in DOMAIN f.code |-> k], LAMBDA k : Lowered(cc, f, k))
  ELSE [k \in DOMAIN f.code |-> Piece(f.code[k], k, IF f.code[k].op = "Return" THEN "leave" ELSE "do")]
=============================================================================
