-------------------------------- MODULE JitRun --------------------------------
(***************************************************************************)
(* Programs in LIR are lowered and compiled for a target, and the machine  *)
(* runs their code beside the program: one step is one instruction of the  *)
(* lowered code.  The program has a frame for each call, with the          *)
(* registers its function has written, and one memory; where a frame is,   *)
(* is up to the code, and known from its first label on.                   *)
(***************************************************************************)
EXTENDS JitLink

CONSTANT Jobs       \* what is compiled: [target, by, functions], see JitLink

VARIABLES job,
          code,     \* the lowered functions, one after the other
          at,       \* what comes next
          m,        \* the machine
          frames,   \* the calls that have not returned, the last one on top
          memory,   \* what the program has stored
          asked,    \* the last call of the runtime
          answer,   \* what the last function returned
          last,     \* the piece that has been executed
          strayed   \* whether the machine went where the program does not

vars == <<job, code, at, m, frames, memory, asked, answer, last, strayed>>

cc == Convention(job.target)

Platform == Machines[job.target]
Hardware(r) == Platform.hardware[r]

\* A call that runs: what it was given, its registers in regs, the call it
\* waits for.
Frame(f, given) ==
  LET params == job.functions[f].params
  IN  [f |-> f, call |-> 0, given |-> given, flags |-> <<0, 0>>,
       regs |-> [r \in ToSet(params) |-> given[CHOOSE k \in DOMAIN params : params[k] = r]]]

Init ==
  /\ job \in Jobs
  /\ \E order \in Orders(job), pieces \in {Pieces(job)} :
     \E placed \in {Placed(job, Sizes(job, pieces), order)} :
     \E moved \in {Moved(pieces, placed)} :
       /\ code = Patched(job, moved)
       /\ m = [Platform.start EXCEPT !.bad = \/ placed.refused \/ DefinedTwice(pieces)
                                              \/ \E k \in DOMAIN code : Refused \in ToSet(code[k].mc)]
  /\ at = 1
  /\ frames = <<Frame(1, <<>>)>>
  /\ memory = [a \in Globals |-> 600000 + a]
  /\ asked = <<>> /\ answer = 0 /\ last = <<>>
  /\ strayed = FALSE

----------------------------------------------------------------------------
(* The machine.                                                            *)

IsLabel(k, l) == code[k].i.op = "Label" /\ code[k].i.l = l
LabelAt(l) == CHOOSE k \in DOMAIN code : IsLabel(k, l)
AddressOf(l) == code[LabelAt(l)].addr

Lost == 0
Host == -1

----------------------------------------------------------------------------
(* The program.                                                            *)

Top == frames[Len(frames)]
Source(p) == job.functions[p.f].code[p.of]

\* The value of an operand.
Value(o) ==
  CASE IsReg(o)  -> Top.regs[o.reg]
    [] IsImm(o)  -> Bits(o.imm)
    [] IsLab(o)  -> AddressOf(o.lab)
    [] IsSlot(o) -> memory[Top.regs[cc.fp] + o.slot]

Address(i) == Bits(Top.regs[i.r] + i.off)

Operation == [Add |-> "add", Sub |-> "sub", Mul |-> "mul", Div |-> "div", Mod |-> "rem",
              BitAnd |-> "and", BitOr |-> "or", BitXor |-> "xor", ShiftLeft |-> "shl", ShiftRight |-> "shr"]

\* A cast to fewer bits takes the low ones; from 32 to 64 bits the sign counts.
Cast(i, v) ==
  CASE i.to = 8  -> v % Byte
    [] i.to = 16 -> v % Byte^2
    [] i.to = 32 -> v % Half
    [] i.from = 32 /\ i.to = 64 /\ i.signed -> Bits(Signed(v % Half, Half))
    [] OTHER -> v

\* The bytes an access of memory has.
Width(i) == CASE i.op \in {"Load64", "Store64"} -> 8
              [] i.op \in {"Load32", "Store32"} -> 4
              [] i.op \in {"Load8", "Store8"}   -> 1

Asks(i) == LET call == RuntimeCall(i) IN <<call.f, [n \in DOMAIN call.args |-> Value(call.args[n])]>>

\* What an instruction writes to its register.
Computed(i) ==
  CASE i.op \in DOMAIN Operation -> Compute(Operation[i.op], Value(i.a), Value(i.b))
    [] i.op = "Move"       -> Value(i.a)
    [] i.op = "BitNot"     -> Bits(-Value(i.a) - 1)
    [] i.op = "IntCast"    -> Cast(i, Value(i.a))
    [] i.op = "CompareSet" -> Bit(Holds(i.c, Value(i.a), Value(i.b)))
    [] i.op \in {"Load64", "Load32", "Load8"} -> Fetch(memory, Address(i), Width(i))
    [] i.op = "LoadGlobal" -> IF i.name = "vm_sp" THEN Top.regs[cc.sp] ELSE memory[GlobalAt]
    [] i.op \in ResultOps  -> Answer(Asks(i)[2])

Writes(i) == i.op \in DOMAIN Operation \cup ResultOps
  \cup {"Move", "BitNot", "IntCast", "CompareSet", "Load64", "Load32", "Load8", "LoadGlobal"}

Set(regs, r, v) == (r :> v) @@ regs
\* The allocation keeps nothing in RDX where a division may overwrite it.
Forget(i, regs) ==
  IF job.target = "x86" /\ i.op \in {"Div", "Mod"} /\ i.d # 2
  THEN Restrict(regs, DOMAIN regs \ {2}) ELSE regs
Replace(frame) == SubSeq(frames, 1, Len(frames) - 1) \o <<frame>>

\* The program begins: where its frame is, and the parameters that have slots.
Begin(p, n) ==
  LET f  == job.functions[p.f]
      fp == n.reg[Hardware(cc.fp)]
      first == Len(f.params)
  IN  /\ frames' = Replace([Top EXCEPT !.regs = (cc.fp :> fp) @@ (cc.sp :> n.reg[Hardware(cc.sp)]) @@ @])
      /\ memory' = [a \in {fp + f.stackSlots[k] : k \in DOMAIN f.stackSlots} |->
                      Top.given[first + CHOOSE k \in DOMAIN f.stackSlots : a = fp + f.stackSlots[k]]] @@ memory
      /\ UNCHANGED <<asked, answer>>

\* An instruction of the program.
Do(p) ==
  LET i == Source(p)
      a == Address(i)
      s == Top.regs[cc.sp]
  IN  /\ frames' = Replace(
           CASE Writes(i)         -> [Top EXCEPT !.regs = Forget(i, Set(@, i.d, Computed(i)))]
             [] i.op = "LoadPair" -> [Top EXCEPT !.regs = Set(Set(@, i.d, memory[a]), i.e, memory[a + 8])]
             [] i.op = "GcRegOp"  -> [Top EXCEPT !.regs = Set(@, cc.sp, IF i.push THEN s - Platform.gc ELSE s + Platform.gc)]
             [] i.op = "Compare"  -> [Top EXCEPT !.flags = <<Value(i.a), Value(i.b)>>]
             [] OTHER             -> Top)
      /\ memory' = CASE i.op = "Store64" -> (a :> Value(i.a)) @@ memory
                     [] i.op \in {"Store32", "Store8"} -> Patch(memory, a, Width(i), Value(i.a))
                     [] i.op = "StorePair" -> (a :> Value(i.a)) @@ (a + 8 :> Value(i.b)) @@ memory
                     [] OTHER -> memory
      /\ asked' = IF i.op \in RuntimeOps THEN Asks(i) ELSE asked
      /\ UNCHANGED answer

\* A call: the parameters of the callee are in registers, or will be in slots.
Callee(i) ==
  LET target == IF i.op = "Call" THEN AddressOf(i.l) ELSE Top.regs[i.r]
  IN  CHOOSE n \in DOMAIN job.functions : AddressOf(job.functions[n].label) = target

Enter(p) ==
  LET i == Source(p)
  IN  /\ frames' = Replace([Top EXCEPT !.call = p.of])
                   \o <<Frame(Callee(i), [k \in DOMAIN i.args |-> Value(i.args[k])])>>
      /\ UNCHANGED <<memory, asked, answer>>

Leave(p) ==
  /\ answer' = Value(Source(p).a)
  /\ frames' = SubSeq(frames, 1, Len(frames) - 1)
  /\ LET lives(a) == a \in Globals \/ (Len(frames) > 1 /\ a >= frames[Len(frames) - 1].regs[cc.sp])
     IN  memory' = Restrict(memory, {a \in DOMAIN memory : lives(a)})
  /\ UNCHANGED asked

Back(p) ==
  /\ frames' = Replace([Top EXCEPT !.call = 0, !.regs = IF Source(p).d = <<>> THEN @ ELSE Set(@, Source(p).d[1], answer)])
  /\ UNCHANGED <<memory, asked, answer>>

\* Where the program goes.
Expected(p) ==
  LET i == Source(p) IN
  CASE p.then = "do" /\ (i.op = "Jump" \/ (i.op = "JumpIf" /\ Holds(i.c, Top.flags[1], Top.flags[2]))) -> LabelAt(i.l)
    [] p.then = "enter" -> LabelAt(job.functions[Callee(i)].label)
    [] p.then = "leave" -> IF Len(frames) = 1 THEN Host
                           ELSE LET caller == frames[Len(frames) - 1]
                                IN  LabelAt(ReturnLabel(job.functions[caller.f], caller.call))
    [] OTHER -> at + 1

\* Where the machine is after a piece of code.  Of the pieces at an address, some
\* of which have no code, it is the one the program goes to.
Goes(p, n) ==
  CASE n.bad -> Lost
    [] n.to = "next" -> at + 1
    [] n.target = HostReturn -> Host
    [] Expected(p) \in DOMAIN code /\ code[Expected(p)].addr = n.target -> Expected(p)
    [] OTHER -> Lost

----------------------------------------------------------------------------

Step ==
  /\ at \in DOMAIN code
  /\ LET p == code[at]
         n == Execute(p.mc, [m EXCEPT !.to = "next"])
     IN  /\ m' = n
         /\ at' = Goes(p, n)
         /\ strayed' = (Goes(p, n) # Expected(p))
         /\ last' = p
         /\ CASE p.then = "do" /\ p.of = 1 -> Begin(p, n)
              [] p.then = "do"    -> Do(p)
              [] p.then = "enter" -> Enter(p)
              [] p.then = "leave" -> Leave(p)
              [] p.then = "back"  -> Back(p)
              [] OTHER            -> UNCHANGED <<frames, memory, asked, answer>>
  /\ UNCHANGED <<job, code>>

Next == Step
Spec == Init /\ [][Next]_vars

----------------------------------------------------------------------------
(* What the code owes to the programs it is made from.                     *)

\* Between two instructions of the program.
Settled == last # <<>> /\ last.then \in {"do", "back"} /\ at \in DOMAIN code

\* The registers of the running call hold what the program has put into them:
\* what an instruction computes is right, it changes no register but its own,
\* and behind a call the caller finds what it had, its stack and its frame
\* included (compile_instruction, emit_runtime_call; lower_call and the
\* prologues and epilogues).
RegistersRight ==
  Settled => \A r \in DOMAIN Top.regs : m.reg[Hardware(r)] = Top.regs[r]

\* Memory holds what the program has stored, in the frames of all calls that
\* have not returned too: what is saved around calls, pushed for them or kept
\* below the stack pointer overwrites nothing (save_registers_to_stack, the
\* prologues, compile_compare_set).
MemoryRight == Settled => \A a \in DOMAIN memory : m.mem[a] = memory[a]

\* The runtime is given the arguments the program gives, and with the stack of
\* the host aligned (emit_runtime_call).
ArgumentsArrive == Settled => m.native = asked

\* The code goes where the program goes: conditions are decided alike, calls
\* reach the callee and returns the instruction behind the call, whatever is on
\* the stack between; and no instruction is one the processor does not have or
\* leaves the memory the code owns.
GoesOn == ~strayed /\ ~m.bad

\* The host gets the result of the entry, and the registers it may not lose.
HostServed ==
  at = Host => /\ m.reg[Platform.ret] = answer
               /\ m.reg[Platform.sp] = Platform.ended
               /\ \A r \in Platform.kept : m.reg[r] = Platform.start.reg[r]
=============================================================================
