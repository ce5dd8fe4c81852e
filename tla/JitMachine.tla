------------------------------ MODULE JitMachine ------------------------------
(***************************************************************************)
(* The processors the JIT writes code for, as far as its code uses them.   *)
(* Words are scaled down: a byte has three bits, so that a 64-bit word has *)
(* 24 and an i32 has 12.  A register holds the unsigned reading of its     *)
(* bits.  An operand, of LIR and of the machine, is a register, a number   *)
(* or a label; linking leaves no labels in the code of a machine, the l of *)
(* a jump is the address it reaches.                                       *)
(***************************************************************************)
EXTENDS Integers, Sequences, SequencesExt, TLC, Bitwise

Byte == 8
Half == 2^12        \* an i32
Word == 2^24        \* a 64-bit word

Bits(v) == v % Word
Signed(x, size) == IF x >= size \div 2 THEN x - size ELSE x
Sgn(x) == Signed(x, Word)
Magnitude(n) == IF n < 0 THEN -n ELSE n

\* `v as i32`, which the processor extends.
AsI32(v) == Signed(v % Half, Half)

Reg(r) == [reg |-> r]
Imm(v) == [imm |-> v]
Lab(l) == [lab |-> l]
IsReg(o) == "reg" \in DOMAIN o
IsImm(o) == "imm" \in DOMAIN o
IsLab(o) == "lab" \in DOMAIN o

----------------------------------------------------------------------------
(* What an operation computes.                                             *)

Product(x, y) ==
  LET lo(v) == v % Half
      hi(v) == v \div Half
  IN  Bits(lo(x) * lo(y) + ((hi(x) * lo(y) + lo(x) * hi(y)) % Half) * Half)

\* Signed division rounds towards zero.
Quotient(x, y) ==
  LET q == Magnitude(Sgn(x)) \div Magnitude(Sgn(y))
  IN  Bits(IF (Sgn(x) < 0) = (Sgn(y) < 0) THEN q ELSE -q)

Remainder(x, y) ==
  LET r == Magnitude(Sgn(x)) % Magnitude(Sgn(y)) IN Bits(IF Sgn(x) < 0 THEN -r ELSE r)

\* A shift count is taken modulo the width of a word.
Count(y) == y % 24

Holds(c, x, y) ==
  CASE c = "Equal"        -> x = y
    [] c = "NotEqual"     -> x # y
    [] c = "Less"         -> Sgn(x) < Sgn(y)
    [] c = "LessEqual"    -> Sgn(x) <= Sgn(y)
    [] c = "Greater"      -> Sgn(x) > Sgn(y)
    [] c = "GreaterEqual" -> Sgn(x) >= Sgn(y)
    [] c = "Below"        -> x < y

Bit(b) == IF b THEN 1 ELSE 0

Compute(f, x, y) ==
  CASE f = "add" -> Bits(x + y)
    [] f = "sub" -> Bits(x - y)
    [] f = "mul" -> Product(x, y)
    [] f = "div" -> Quotient(x, y)
    [] f = "rem" -> Remainder(x, y)
    [] f = "and" -> x & y
    [] f = "or"  -> x | y
    [] f = "xor" -> x ^^ y
    [] f = "shl" -> IF Count(y) <= 12 THEN Product(x, 2^Count(y))
                    ELSE Product(Product(x, Half), 2^(Count(y) - 12))
    [] f = "shr" -> x \div 2^Count(y)
    [] f = "sar" -> Bits(Sgn(x) \div 2^Count(y))
    [] f = "low" -> x % y                       \* the low part, of size y
    [] f = "extend" -> Bits(Signed(x % y, y))   \* the low part as a signed number
    [] OTHER     -> Bit(Holds(f, x, y))

----------------------------------------------------------------------------
(* Instructions of the machines.  An operation takes any operands; cc says *)
(* whether it destroys what was compared before.                           *)

Alu(f, d, a, b)      == [k |-> "alu", f |-> f, d |-> d, a |-> a, b |-> b, cc |-> FALSE]
AluFlags(f, d, a, b) == [k |-> "alu", f |-> f, d |-> d, a |-> a, b |-> b, cc |-> TRUE]
Move(d, s)           == Alu("add", d, s, Imm(0))
Load(d, r, off, w)   == [k |-> "load", d |-> d, base |-> r, off |-> Imm(off), w |-> w]
Store(r, off, s, w)  == [k |-> "store", base |-> r, off |-> Imm(off), s |-> s, w |-> w]
LoadIndexed(d, r, x, w)  == [k |-> "load", d |-> d, base |-> r, off |-> Reg(x), w |-> w]
StoreIndexed(r, x, s, w) == [k |-> "store", base |-> r, off |-> Reg(x), s |-> s, w |-> w]
Compare(a, b)        == [k |-> "cmp", a |-> a, b |-> b]
SetLow(d, c)         == [k |-> "setlow", d |-> d, c |-> c]
SetWord(d, c)        == [k |-> "set", d |-> d, c |-> c]
DivideWide(s)        == [k |-> "idiv", s |-> s]
JumpTo(l)            == [k |-> "jump", l |-> l]
JumpIf(c, l)         == [k |-> "jumpif", c |-> c, l |-> l]
BranchIf(c, a, b, l) == [k |-> "branch", c |-> c, a |-> a, b |-> b, l |-> l]
JumpReg(r)           == [k |-> "goto", s |-> r]
ReturnBy(r)          == [k |-> "ret", s |-> r]
Illegal              == [k |-> "illegal"]

\* A call of the runtime: its arguments, its result, what it may leave in the
\* registers, the stack pointer.
Native(f, args, ret, lost, sp) ==
  [k |-> "native", f |-> f, args |-> args, ret |-> ret, lost |-> lost, sp |-> sp]

----------------------------------------------------------------------------
(* A machine: its registers and its memory, words at multiples of eight;   *)
(* what was compared last; whether the next instruction follows, or where  *)
(* it is; what the runtime was given last; whether it   *)
(* went wrong.                                                             *)

Val(m, o) == IF IsReg(o) THEN m.reg[o.reg] ELSE Bits(o.imm)

Cell(a) == a - (a % 8)
Fetch(mem, a, w) == (mem[Cell(a)] \div Byte^(a % 8)) % Byte^w
Patch(mem, a, w, v) ==
  [mem EXCEPT ![Cell(a)] = @ + ((v % Byte^w) - Fetch(mem, a, w)) * Byte^(a % 8)]

\* The stack of the VM, and above it that of the host, with its return address
\* on it where the processor puts it there; global variables.
StackTop   == 1024
HostTop    == 1192
HostReturn == 900000
GlobalAt   == 1536
Globals    == {GlobalAt + 8 * n : n \in 0 .. 5}
StackBottomAt == GlobalAt + 40
\* The labels of a global variable and of the bottom of the stack.
GlobalVariable == 0
StackBottom    == -1
Anything(r) == 500000 + r
Machine(reg, returns) ==
  [reg |-> reg,
   mem |-> returns @@ [a \in {8 * n : n \in 1 .. HostTop \div 8} \cup Globals |-> 600000 + a],
   cmp |-> <<0, 0>>, to |-> "next", target |-> 0, native |-> <<>>, bad |-> FALSE]

\* What a function of the runtime answers, and what it leaves behind.
Answer(args) ==
  Bits(IF args = <<>> THEN 97 ELSE 31 * (args[1] % 4096) + 7 * (args[Len(args)] % 4096) + Len(args))
Junk(r) == 700000 + r

Wrong(m) == [m EXCEPT !.bad = TRUE]
JumpsTo(m, a) == [m EXCEPT !.to = "jump", !.target = a]

Operate(m, i) ==
  LET x == Val(m, i.a)
      y == Val(m, i.b)
      v == Compute(i.f, x, y)
  IN  IF i.f \in {"div", "rem"} /\ y = 0 THEN Wrong(m)
      ELSE [m EXCEPT !.reg[i.d] = v, !.cmp = IF i.cc THEN <<v, 0>> ELSE @]

Access(m, i) ==
  LET a == Bits(m.reg[i.base] + Val(m, i.off))
  IN  IF Cell(a) \notin DOMAIN m.mem \/ a % i.w # 0 THEN Wrong(m)
      ELSE IF i.k = "load" THEN [m EXCEPT !.reg[i.d] = Fetch(m.mem, a, i.w)]
      ELSE [m EXCEPT !.mem = Patch(@, a, i.w, Val(m, i.s))]

\* IDIV divides RDX:RAX.
Divide(m, i) ==
  LET x == m.reg[0]
      y == m.reg[i.s]
  IN  IF y = 0 \/ m.reg[2] # Compute("sar", x, 23) THEN Wrong(m)
      ELSE [m EXCEPT !.reg[0] = Quotient(x, y), !.reg[2] = Remainder(x, y)]

\* The callee finds its stack aligned to 16 bytes.
CallNative(m, i) ==
  LET given == [n \in DOMAIN i.args |-> m.reg[i.args[n]]]
  IN  [m EXCEPT !.reg = [r \in DOMAIN @ |-> IF r = i.ret THEN Answer(given)
                                            ELSE IF r \in i.lost THEN Junk(r) ELSE @[r]],
                !.native = <<i.f, given>>,
                !.bad = @ \/ m.reg[i.sp] % 16 # 0]

\* The return address is on the stack.
PopTarget(m, r) ==
  IF m.reg[r] \notin DOMAIN m.mem THEN Wrong(m)
  ELSE JumpsTo([m EXCEPT !.reg[r] = @ + 8], m.mem[m.reg[r]])

Exec(m, i) ==
  CASE m.bad \/ m.to # "next"       -> m
    [] i.k = "alu"                  -> Operate(m, i)
    [] i.k \in {"load", "store"}    -> Access(m, i)
    [] i.k = "cmp"                  -> [m EXCEPT !.cmp = <<Val(m, i.a), Val(m, i.b)>>]
    [] i.k = "set"                  -> [m EXCEPT !.reg[i.d] = Bit(Holds(i.c, m.cmp[1], m.cmp[2]))]
    [] i.k = "setlow"               -> [m EXCEPT !.reg[i.d] = @ - (@ % Byte) + Bit(Holds(i.c, m.cmp[1], m.cmp[2]))]
    [] i.k = "idiv"                 -> Divide(m, i)
    [] i.k = "jump"                 -> JumpsTo(m, i.l)
    [] i.k = "jumpif"               -> IF Holds(i.c, m.cmp[1], m.cmp[2]) THEN JumpsTo(m, i.l) ELSE m
    [] i.k = "branch"               -> IF Holds(i.c, Val(m, i.a), Val(m, i.b)) THEN JumpsTo(m, i.l) ELSE m
    [] i.k = "goto"                 -> JumpsTo(m, m.reg[i.s])
    [] i.k = "native"               -> CallNative(m, i)
    [] i.k = "ret"                  -> PopTarget(m, i.s)
    [] OTHER                        -> Wrong(m)

\* A piece of code from its beginning.
Execute(code, m) ==
  LET after[n \in 0 .. Len(code)] == IF n = 0 THEN m ELSE Exec(after[n - 1], code[n])
  IN  after[Len(code)]

----------------------------------------------------------------------------
(* What the code generators of the three targets share (jit/               *)
(* dispatch_macro.rs, compiler_trait.rs, ffi.rs, jit_utils.rs): the calls  *)
(* of the runtime an instruction stands for.                               *)
(*                                                                         *)
(* An instruction is a record: op; the registers d (defined), r (address), *)
(* e; the operands a, b; off, l (label), c (condition) and others.         *)

StackSize == 1024    \* of the stack of the VM, 65536 in the code

align_to(value, alignment) == ((value + alignment - 1) \div alignment) * alignment

\* A set of registers in the order of their numbers.
Ascending(regs) == SelectSeq([n \in 1 .. 32 |-> n - 1], LAMBDA r : r \in regs)

\* Code for each member of a sequence.
Flat(s, F(_)) == FoldLeft(LAMBDA code, x : code \o F(x), <<>>, s)

\* The two accesses of a pair.
First(i) ==
  IF i.op = "StorePair" THEN [op |-> "Store64", r |-> i.r, off |-> i.off, a |-> i.a]
                        ELSE [op |-> "Load64", d |-> i.d, r |-> i.r, off |-> i.off]
SecondOf(i) ==
  IF i.op = "StorePair" THEN [op |-> "Store64", r |-> i.r, off |-> i.off + 8, a |-> i.b]
                        ELSE [op |-> "Load64", d |-> i.e, r |-> i.r, off |-> i.off + 8]

\* Instructions the runtime executes; the first ones have a result.
ResultOps == {"Alloc", "StringConcat", "StringEqual", "StringCharAt", "StringSubstring",
              "StringContains", "SplitCount", "Trim", "ToString"}
RuntimeOps == ResultOps \cup {"Free", "Retain", "Release", "Safepoint",
                              "PrintString", "PrintNumber", "PrintBool"}

AtLeast8(n) == IF n < 8 THEN 8 ELSE n

RuntimeCall(i) ==
  [f |-> i.op,
   args |-> IF i.op = "Alloc" THEN <<Imm(AtLeast8(i.size)), Imm(AtLeast8(i.align))>> ELSE i.args,
   result |-> IF i.op \in ResultOps THEN <<i.d>> ELSE <<>>]

compute_exclude_return_reg(call, ret) == IF call.result # <<>> THEN {ret} ELSE {}
compute_exclude_dst_reg(call) == ToSet(call.result)
=============================================================================
