------------------------------- MODULE JitLink -------------------------------
(***************************************************************************)
(* From the code of functions to a program in memory.  The JIT puts the    *)
(* functions into one section of memory and patches their jumps and the    *)
(* addresses of labels in place (karte-codegen, jit/memory_manager.rs,     *)
(* execution_engine.rs, jit/code_buffer.rs); the ahead-of-time compiler    *)
(* does the same in an image behind its runtime                            *)
(* (karte-aot/src/compiler.rs).                                            *)
(*                                                                         *)
(* A job is [target, by, functions]: by is "jit" or "aot", the entry is    *)
(* the first function.  Addresses of code are not scaled down.             *)
(***************************************************************************)
EXTENDS JitLower

X86   == INSTANCE JitX86
Arm   == INSTANCE JitArm
Riscv == INSTANCE JitRiscv

Machines == [x86 |-> X86!Platform, arm |-> Arm!Platform, riscv |-> Riscv!Platform]

----------------------------------------------------------------------------
(* The code of one function.  Each piece of it gets the number of its      *)
(* function, f, its machine code, mc, and its address, addr, at first from *)
(* the beginning of the function.                                          *)

\* The comparison compiled last, which a branch of RISC-V refers to.
WithCompare(s, k) ==
  IF s[k].i.op # "JumpIf" THEN s[k].i
  ELSE LET c == CHOOSE c \in 1 .. k - 1 : s[c].i.op = "Compare" /\ \A d \in c + 1 .. k - 1 : s[d].i.op # "Compare"
       IN  [compared |-> s[c].i] @@ s[k].i

MachineCode(j, f, s, k) ==
  LET env    == [main |-> f.entry, used |-> f.used]
      begins == s[k].i.op = "Label" /\ s[k].i.l = f.label
  IN  CASE j.target = "x86" -> IF begins THEN X86!compile_function(env) ELSE X86!compile_instruction(s[k].i, env)
        [] j.target = "arm" -> IF begins THEN Arm!compile_function(env) ELSE Arm!compile_instruction(s[k].i, env)
        [] j.target = "riscv" -> IF begins THEN Riscv!compile_function(env)
                                 ELSE Riscv!compile_instruction(WithCompare(s, k), env)

\* What refers to a label: a jump, or a move of its address.
Jumps(i) == i.k \in {"jump", "jumpif", "branch"}
Names(i) == i.k = "alu" /\ IsLab(i.a)

\* The bytes of an instruction; those that refer to no label count as four.
\* An address is a MOVABS, an ADRP and an ADD, or, on RISC-V, three
\* instructions and the address itself.
instruction_size(target, i) ==
  CASE target = "x86" /\ i.k = "jump"   -> 5
    [] target = "x86" /\ i.k = "jumpif" -> 6
    [] Names(i) -> (CASE target = "x86" -> 10 [] target = "arm" -> 8 [] target = "riscv" -> 20)
    [] OTHER -> 4

RECURSIVE SizeOf(_, _)
SizeOf(target, mc) == IF mc = <<>> THEN 0 ELSE instruction_size(target, Head(mc)) + SizeOf(target, Tail(mc))

RECURSIVE Laid(_, _, _)
\* Pieces of code one behind the other, from an address on.
Laid(target, s, from) ==
  IF s = <<>> THEN <<>>
  ELSE <<[addr |-> from] @@ Head(s)>> \o Laid(target, Tail(s), from + SizeOf(target, Head(s).mc))

Assembled(j, n) ==
  LET s == run_on_function(Convention(j.target), j.functions[n])
  IN  Laid(j.target, [k \in DOMAIN s |-> s[k] @@ [f |-> n, mc |-> MachineCode(j, j.functions[n], s, k)]], 0)

----------------------------------------------------------------------------
(* Where functions go.                                                     *)

CodeSection == 2^20      \* its address, at the beginning of a page
SectionSize == 2^16      \* JIT_CODE_SECTION_SIZE

\* Each function has twice the room it needs.
allocate_function_memory(memory, n, size) ==
  LET room == align_to(size, 16) * 2
  IN  [offset  |-> memory.offset + room,
       base    |-> (n :> CodeSection + memory.offset) @@ memory.base,
       refused |-> memory.refused \/ size = 0 \/ memory.offset + room > SectionSize]

CodeBase    == 2^22      \* 0x400000
RuntimeSize == 72        \* of the code in front of the program

Alignment(target) == IF target = "x86" THEN 16 ELSE 4

\* One function behind the other.
Appended(memory, target, n, size) ==
  LET start == align_to(memory.offset, Alignment(target))
  IN  [memory EXCEPT !.offset = start + size, !.base = (n :> CodeBase + RuntimeSize + start) @@ @]

\* The JIT takes the functions as they come from a map, the ahead-of-time
\* compiler by their names, the entry last.
Orders(j) ==
  IF j.by = "jit" THEN SetToSeqs(DOMAIN j.functions)
  ELSE {[k \in DOMAIN j.functions |-> IF k = Len(j.functions) THEN 1 ELSE k + 1]}

Placed(j, sizes, order) ==
  FoldLeft(LAMBDA memory, n : IF j.by = "jit" THEN allocate_function_memory(memory, n, sizes[n])
                                              ELSE Appended(memory, j.target, n, sizes[n]),
           [offset |-> 0, base |-> <<>>, refused |-> FALSE], order)

----------------------------------------------------------------------------
(* Labels and what refers to them.                                         *)

\* Global variables have addresses in the image, that of AArch64 and the JIT know
\* none of them.
X86Globals   == (GlobalVariable :> GlobalAt) @@ (StackBottom :> StackBottomAt)
RiscvGlobals == X86Globals
ArmGlobals   == <<>>

GlobalLabels(j) ==
  CASE j.by = "jit"        -> <<>>
    [] j.target = "x86"   -> X86Globals
    [] j.target = "arm"   -> ArmGlobals
    [] j.target = "riscv" -> RiscvGlobals

LabelAddresses(j, code) ==
  LET at == {k \in DOMAIN code : code[k].i.op = "Label"}
  IN  [l \in {code[k].i.l : k \in at} |-> code[CHOOSE k \in at : code[k].i.l = l].addr] @@ GlobalLabels(j)

\* A label that is defined twice in a function is refused.
DefinedTwice(code) ==
  LET at == {k \in DOMAIN code : code[k].i.op = "Label"}
  IN  \E k1, k2 \in at : k1 < k2 /\ code[k1].f = code[k2].f /\ code[k1].i.l = code[k2].i.l

Refused == [k |-> "refused"]

\* Numbers of n bits in an instruction, as the processor reads them.
Field(v, n) == Signed(v % 2^n, 2^n)
Within(v, n) == v \in -(2^(n - 1)) .. 2^(n - 1) - 1

\* The offset of a jump counts from its end, which is that of the offset; the
\* JIT finds the offset from the size of the jump, the ahead-of-time compiler
\* from that of its opcode.
X86Jump(p, i, target) ==
  LET offset == p + instruction_size("x86", i) - 4
  IN  [i EXCEPT !.l = p + instruction_size("x86", i) + (target - (offset + 4))]

X86ImageJump(p, i, target) ==
  LET offset == p + IF i.k = "jump" THEN 1 ELSE 2
  IN  [i EXCEPT !.l = p + instruction_size("x86", i) + (target - (offset + 4))]

\* In words, from the jump itself.
ArmJump(p, i, target) ==
  LET words == (target - p) \div 4
      bits  == IF i.k = "jump" THEN 26 ELSE 19
  IN  IF Within(words, bits) THEN [i EXCEPT !.l = p + 4 * Field(words, bits)] ELSE Refused

RiscvJump(p, i, target) ==
  LET bits == IF i.k = "jump" THEN 21 ELSE 13
  IN  IF Within(target - p, bits) THEN [i EXCEPT !.l = p + Field(target - p, bits)] ELSE Refused

PatchedJump(j, p, i, target) ==
  CASE j.target = "x86"   -> IF j.by = "jit" THEN X86Jump(p, i, target) ELSE X86ImageJump(p, i, target)
    [] j.target = "arm"   -> ArmJump(p, i, target)
    [] j.target = "riscv" -> RiscvJump(p, i, target)

Page(a) == a - (a % 4096)

DistanceInPages(p, target) == Imm(Page(p) + 4096 * ((target - p) \div 4096) + (target % 4096))

\* ADRP has 21 bits for the distance in pages, ADD has the place in the page.
ArmAddress(p, target) ==
  LET pages == (Page(target) - Page(p)) \div 4096
  IN  IF Within(pages, 21) THEN Imm(Page(p) + 4096 * Field(pages, 21) + (target % 4096)) ELSE Refused

\* The ahead-of-time compiler puts the distance two bits too far to the left.
ArmImageAddress(p, target) ==
  LET pages == (Page(target) - Page(p)) \div 4096
  IN  Imm(Page(p) + 4096 * Field(4 * pages, 21) + (target % 4096))

PatchedAddress(j, p, i, target) ==
  LET address == CASE j.target # "arm" -> Imm(target)
                   [] j.by = "jit"     -> ArmAddress(p, target)
                   [] OTHER            -> ArmImageAddress(p, target)
  IN  IF address = Refused THEN Refused ELSE [i EXCEPT !.a = address]

\* The JIT refuses a label it does not know.  The ahead-of-time compiler leaves
\* what refers to it as it is: no offset, no address, an ADRP of this page.
Unresolved(j, p, i) ==
  CASE j.by = "jit" -> Refused
    [] Jumps(i) -> [i EXCEPT !.l = IF j.target = "x86" THEN p + instruction_size("x86", i) ELSE p]
    [] Names(i) -> [i EXCEPT !.a = Imm(IF j.target = "arm" THEN Page(p) ELSE 0)]

\* The functions of the runtime a program may call.  Those of the images have
\* labels; for x86-64 they are found by the addresses they have in the compiler,
\* for AArch64 as well, but there what is looked for has four moves in front of
\* the call, and the addresses of the compiler stay.
X86RuntimeLabels   == RuntimeOps \ {"StringSubstring", "StringContains", "SplitCount"}
RiscvRuntimeLabels == X86RuntimeLabels \ {"StringCharAt", "Trim"}

X86Runtime == (RuntimeOps \ {"StringSubstring"}) \cap X86RuntimeLabels
ArmRuntime == {}

RuntimeOf(j) ==
  CASE j.by = "jit"       -> RuntimeOps
    [] j.target = "x86"   -> X86Runtime
    [] j.target = "arm"   -> ArmRuntime
    [] j.target = "riscv" -> RiscvRuntimeLabels

LinkedInstruction(j, labels, p, i) ==
  LET l == IF Jumps(i) THEN i.l ELSE i.a.lab
  IN  CASE (Jumps(i) \/ Names(i)) /\ l \notin DOMAIN labels -> Unresolved(j, p, i)
        [] Jumps(i) -> PatchedJump(j, p, i, labels[l])
        [] Names(i) -> PatchedAddress(j, p, i, labels[l])
        [] i.k = "native" /\ i.f \notin RuntimeOf(j) -> Illegal
        [] OTHER -> i

RECURSIVE patch_executable_memory(_, _, _, _)
patch_executable_memory(j, labels, p, mc) ==
  IF mc = <<>> THEN <<>>
  ELSE <<LinkedInstruction(j, labels, p, Head(mc))>>
       \o patch_executable_memory(j, labels, p + instruction_size(j.target, Head(mc)), Tail(mc))

----------------------------------------------------------------------------
(* The program in memory, step by step: the pieces of its functions, where  *)
(* they are, and what refers to labels.                                    *)

Pieces(j) == Flat([n \in DOMAIN j.functions |-> n], LAMBDA n : Assembled(j, n))

\* The bytes of each function.
Sizes(j, pieces) ==
  [n \in DOMAIN j.functions |-> Max({p.addr + SizeOf(j.target, p.mc) : p \in {q \in ToSet(pieces) : q.f = n}})]

Moved(pieces, memory) == [k \in DOMAIN pieces |-> [pieces[k] EXCEPT !.addr = memory.base[pieces[k].f] + @]]

Patched(j, code) ==
  LET labels == LabelAddresses(j, code)
  IN  [k \in DOMAIN code |-> [code[k] EXCEPT !.mc = patch_executable_memory(j, labels, code[k].addr, @)]]
=============================================================================
