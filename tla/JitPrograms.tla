----------------------------- MODULE JitPrograms -----------------------------
(***************************************************************************)
(* Programs for the code generator of a target.  Those of the first kind   *)
(* try one instruction with every choice of registers; the others call.    *)
(* What a generator is known to compile wrongly is left out.               *)
(***************************************************************************)
EXTENDS JitLower

CONSTANT Target
X86 == Target = "x86"
Arm == Target = "arm"
Riscv == Target = "riscv"

\* Three registers and a register for addresses, one of them kept by calls.
Work == IF X86 THEN <<1, 3, 13>> ELSE <<1, 14, 20>>
Addr == IF X86 THEN 6 ELSE 5
W == ToSet(Work)
Used == Ascending(W \cup {Addr})

Start == <<[op |-> "Label", l |-> 1], MoveTo(Work[1], Imm(77)), MoveTo(Work[2], Imm(-5)), MoveTo(Work[3], Imm(9)),
           MoveTo(Addr, Imm(GlobalAt + 16))>>
Ret(r) == <<[op |-> "Return", a |-> Reg(r)]>>

Main(body) == [label |-> 1, entry |-> TRUE, params |-> <<>>, stackSlots |-> <<>>, frame |-> 0,
               used |-> Used, code |-> Start \o body]
Solo(body) == <<Main(body)>>

Regs == {Reg(r) : r \in W}
Both(n) == Regs \cup {Imm(v) : v \in n}

\* The second operand is not overwritten before it is read.
Apart(i) == i.b # Reg(i.d) \/ i.a = i.b
Numbers(i) == IsImm(i.a) /\ IsImm(i.b)

Arithmetic ==
  {i \in [op : {"Add", "Sub", "Mul", "Div", "Mod", "BitAnd", "BitOr", "BitXor"}, d : W, a : Regs \cup {Imm(13)}, b : Both({5, -3, 600})] :
     /\ X86 => Apart(i) \/ i.op \in {"Div", "Mod"}
     /\ Riscv => Apart(i)
     /\ Arm => /\ i.op \in {"Mul", "Div", "Mod"} => ~Numbers(i)
               /\ i.op = "Mod" /\ IsImm(i.a) => i.b # Reg(i.d)}

\* AArch64 shifts to the right with the sign.
Shifts ==
  {i \in [op : {"ShiftLeft", "ShiftRight"}, d : W, a : Regs \cup {Imm(13)}, b : Both({3})] :
     /\ X86 => Apart(i) /\ (IsImm(i.b) \/ (i.b = Reg(1) /\ i.d # 1))
     /\ Arm => i.op = "ShiftLeft" \/ i.a # Reg(Work[2])
     /\ Riscv => Apart(i) /\ (IsReg(i.b) \/ IsImm(i.a))}

Others ==
  {i \in [op : {"BitNot", "Move"}, d : W, a : Both({21, 70000, -1})] :
     i.op = "BitNot" /\ IsReg(i.a) => Riscv \/ (X86 /\ i.d < 8)} \cup
  {i \in [op : {"IntCast"}, d : W, a : Both({-300}), from : {64}, to : {8, 16, 32}, signed : BOOLEAN] : Arm \/ (X86 /\ i.to # 32)} \cup
  {i \in [op : {"IntCast"}, d : W, a : Regs, from : {32}, to : {64}, signed : {TRUE}] : X86}

Sets ==
  {i \in [op : {"CompareSet"}, d : W, a : Regs \cup {Imm(9)}, b : Both({77, -5}),
          c : {"Equal", "NotEqual", "Less", "LessEqual", "Greater", "GreaterEqual"}] :
     /\ X86 => IsReg(i.a) /\ ~(i.a = Reg(i.d) /\ i.b = i.a)
     /\ Arm => ~Numbers(i)
     /\ Riscv => Apart(i)}

Branches ==
  {Solo(<<[op |-> "Compare", a |-> Reg(Work[j]), b |-> b], [op |-> "JumpIf", c |-> c, l |-> 2],
                MoveTo(Work[1], Imm(1)), [op |-> "Jump", l |-> 3], [op |-> "Label", l |-> 2],
                MoveTo(Work[1], Imm(2)), [op |-> "Label", l |-> 3]>> \o Ret(Work[1])) :
     j \in 1 .. 2, b \in Both({-5}), c \in {"Equal", "NotEqual", "Less", "LessEqual", "Greater", "GreaterEqual"}}

Loads ==
  [op : {"Load64"}, d : W \cup {Addr}, r : {Addr}, off : {0, 8, -8}] \cup
  [op : {"Load8"}, d : W \cup {Addr}, r : {Addr}, off : IF Arm THEN {1, 6} ELSE {1, -6}]

Stores ==
  {<<[op |-> s, r |-> Addr, off |-> off, a |-> a], Load64(Work[2], Addr, off - (off % 8))>> :
     s \in {"Store64"}, off \in {8, -8}, a \in Both({6})} \cup
  {<<[op |-> "Store8", r |-> Addr, off |-> off, a |-> a], Load64(Work[2], Addr, off - (off % 8))>> :
     off \in IF Arm THEN {3, 8} ELSE {3, -8}, a \in Both({6})} \cup
  {<<[op |-> "StorePair", r |-> Addr, off |-> 0, a |-> a, b |-> b],
     [op |-> "LoadPair", d |-> Work[3], e |-> Work[1], r |-> Addr, off |-> 0]>> : a \in Regs, b \in Regs}

\* Words of 32 bits that are not negative, in registers that need no prefix.
Narrow ==
  {<<[op |-> "Store32", r |-> Addr, off |-> off, a |-> a], [op |-> "Load32", d |-> d, r |-> Addr, off |-> off], Load64(Work[2], Addr, 0)>> :
     off \in {0, 4}, a \in {Imm(600), Reg(Work[1])}, d \in IF X86 THEN {1, 3} ELSE W}

Intrinsics ==
  {<<[op |-> "LoadGlobal", d |-> d, name |-> n]>> : d \in W, n \in {"vm_sp", "other"}} \cup
  {<<[op |-> "GcRegOp", push |-> TRUE], [op |-> "Safepoint", args |-> <<>>], [op |-> "GcRegOp", push |-> FALSE]>>}

Loop ==
  {<<MoveTo(Work[1], Imm(1)), [op |-> "Label", l |-> 2], [op |-> "Mul", d |-> Work[1], a |-> Reg(Work[1]), b |-> Imm(-7)],
     [op |-> "Sub", d |-> Work[3], a |-> Reg(Work[3]), b |-> Imm(k)], [op |-> "Compare", a |-> Reg(Work[3]), b |-> Imm(0)],
     [op |-> "JumpIf", c |-> "Greater", l |-> 2]>> : k \in {2, 5}}

Runtime ==
  {<<[op |-> op, d |-> d, args |-> args]>> :
     op \in IF Riscv THEN {"PrintNumber", "Free"} ELSE {"ToString", "Free", "SplitCount"}, d \in W,
     args \in {<<Reg(Work[1])>>, <<Reg(Work[2]), Imm(4)>>, <<Reg(Work[3]), Reg(Work[1])>>, <<Imm(3), Reg(Addr)>>}}

\* A function with n parameters that computes with the first and the last one,
\* in a frame of its own; the ones for which there is no register have slots.
cx == Convention(Target)
Places(n) == [k \in 1 .. Min({n, register_passing_limit(cx)}) |-> ArgPlace(cx, k)]
SlotOf(k) == -8 * k
Takes(l, n, saved, body) ==
  LET slots == [k \in 1 .. n - Len(Places(n)) |-> SlotOf(k)]
  IN  [label |-> l, entry |-> FALSE, params |-> Places(n), stackSlots |-> slots, frame |-> 48,
       used |-> Ascending(ToSet(Places(n)) \cup saved),
       code |-> <<[op |-> "Label", l |-> l]>> \o body]

Sum(n) ==
  LET first == ArgPlace(cx, 1)
      rest  == n - Len(Places(n))
      other == ArgPlace(cx, 2)
  IN  Takes(11, n, {Work[3], other},
            (IF n = 0 THEN <<MoveTo(first, Imm(3))>> ELSE <<>>)
            \o (IF n > 1 /\ rest = 0 THEN <<[op |-> "Sub", d |-> first, a |-> Reg(first), b |-> Reg(ArgPlace(cx, n))]>> ELSE <<>>)
            \o (IF rest > 0 THEN <<Load64(other, cx.fp, SlotOf(rest)), [op |-> "Sub", d |-> first, a |-> Reg(first), b |-> Reg(other)],
                                  Load64(other, cx.fp, SlotOf(1)), [op |-> "Mul", d |-> first, a |-> Reg(first), b |-> Reg(other)]>>
                ELSE <<>>)
            \o <<MoveTo(Work[3], Imm(4000)), Store64(cx.fp, -40, Reg(first)), Load64(Work[3], cx.fp, -40)>> \o Ret(Work[3]))

\* Arguments in an order that crosses the registers they are for.
Args(n) == [k \in 1 .. n |-> CASE k % 3 = 1 -> Reg(Work[1 + (k % 2)]) [] k = 2 -> [slot |-> -16] [] k % 3 = 2 -> Reg(Addr) [] OTHER -> Imm(20 * k)]

Framed(body) == [Main(body) EXCEPT !.frame = 16]
CallIt(how, n, result) ==
  <<Store64(cx.fp, -16, Imm(55))>>
  \o (IF how = "Call" THEN <<[op |-> "Call", l |-> 11, args |-> Args(n), d |-> result]>>
      ELSE <<Store64(Addr, 0, Lab(11)), Load64(Work[2], Addr, 0),
             [op |-> "CallIndirect", r |-> Work[2], args |-> Args(n), d |-> result]>>)

Calls ==
  {<<Framed(CallIt(how, n, res) \o CallIt(how, n, <<>>) \o <<Load64(Work[1], cx.fp, -16)>> \o Ret(Work[2])), Sum(n)>> :
     how \in {"Call", "CallIndirect"}, n \in {0, 1, 2, 3, 5, 7, 8, 10, 11} \cup IF Riscv THEN {} ELSE {13}, res \in {<<Work[2]>>, <<Work[3]>>, <<>>}}

\* A function that calls itself, and one that has many parameters in registers
\* when it calls the runtime.
Deep ==
  LET p == ArgPlace(cx, 1)
  IN  [Takes(11, 1, {Work[2], Work[3]},
         <<[op |-> "Compare", a |-> Reg(p), b |-> Imm(0)], [op |-> "JumpIf", c |-> "Equal", l |-> 12],
           MoveTo(Work[2], Reg(p)), Store64(cx.fp, -8, Reg(p)),
           [op |-> "Sub", d |-> p, a |-> Reg(p), b |-> Imm(1)],
           [op |-> "Call", l |-> 11, args |-> <<Reg(p)>>, d |-> <<Work[3]>>],
           [op |-> "Mul", d |-> Work[3], a |-> Reg(Work[3]), b |-> Reg(Work[2])],
           Load64(Work[2], cx.fp, -8), [op |-> "Add", d |-> Work[3], a |-> Reg(Work[3]), b |-> Reg(Work[2])]>>
         \o Ret(Work[3]) \o <<[op |-> "Label", l |-> 12], [op |-> "Return", a |-> Imm(0)]>>)
      EXCEPT !.frame = 16]

Busy(n, op) ==
  LET p == ArgPlace(cx, 1)
      q == ArgPlace(cx, n)
  IN  [Takes(11, n, {Work[2]},
         <<[op |-> op, d |-> Work[2], args |-> IF Riscv THEN <<Reg(p), Reg(q)>> ELSE <<Reg(q), Reg(p)>>],
           [op |-> "Sub", d |-> p, a |-> Reg(p), b |-> Reg(q)], [op |-> "Return", a |-> Reg(p)]>>)
      EXCEPT !.frame = 0]

Recursion ==
  {<<Framed(<<[op |-> "Call", l |-> 11, args |-> <<Imm(n)>>, d |-> <<Work[1]>>]>> \o Ret(Work[1])), Deep>> : n \in {0, 2}}
  \cup {<<Framed(<<Store64(cx.fp, -16, Imm(55)), [op |-> "Call", l |-> 11, args |-> Args(n), d |-> <<Work[1]>>]>> \o Ret(Work[1])), Busy(n, op)>> :
           n \in {2, 4, 6} \cup IF Riscv THEN {} ELSE {9}, op \in IF Riscv THEN {"Free"} ELSE {"ToString", "Free"}}

\* Code that is not called, half a page of it, between two functions or not.
Idle ==
  [Takes(13, 0, {}, Flat([k \in 1 .. 13 |-> k], LAMBDA k : <<[op |-> "Free", d |-> Work[1], args |-> <<Imm(k)>>]>>) \o Ret(Work[1]))
   EXCEPT !.frame = 0]

FarCalls == IF Arm THEN {Append(fs, Idle) : fs \in {c \in Calls : Len(c[2].params) = 2}} ELSE {}

Inline == Stores \cup Narrow \cup Intrinsics \cup Loop \cup Runtime
Singles == {Solo(<<i>> \o Ret(i.d)) : i \in Arithmetic \cup Shifts \cup Others \cup Sets \cup Loads}
Programs == {Solo(s \o Ret(Work[2])) : s \in Inline} \cup Branches \cup Calls \cup Recursion \cup FarCalls

----------------------------------------------------------------------------

Instructions(fs) == UNION {ToSet(fs[n].code) : n \in DOMAIN fs}
Ops(fs) == {i.op : i \in Instructions(fs)}
UsesGlobals(fs) == \E i \in Instructions(fs) : i.op = "LoadGlobal" /\ i.name # "vm_sp"

\* The JIT knows no global variables.  In the images of x86-64 some functions of
\* the runtime are not there, in those of AArch64 all of them and the globals.
Links(by, fs) ==
  CASE by = "jit" -> ~Riscv /\ ~UsesGlobals(fs)
    [] X86        -> "SplitCount" \notin Ops(fs)
    [] Arm        -> Ops(fs) \cap RuntimeOps = {} /\ ~UsesGlobals(fs)
    [] Riscv      -> TRUE

Compiled(by, programs) == {[target |-> Target, by |-> by, functions |-> fs] : fs \in {p \in programs : Links(by, p)}}
All == Compiled("jit", Singles \cup Programs) \cup Compiled("aot", IF Riscv THEN Singles \cup Programs ELSE Programs)
=============================================================================
