---------------------------- MODULE LirPipeline ----------------------------
(***************************************************************************)
(* A function on its way through the passes of an optimisation level       *)
(* (karte-lir/src/pass/pass_registry.rs), led by the pass manager; and the *)
(* run of what comes out, beside the run of the MIR it was lowered from.   *)
(*                                                                         *)
(* The two runs meet at events: a call, a test, the return.  A call        *)
(* computes a new value, or observes one; as in MirRun at most one call    *)
(* computes 1 and the others 0, and a test may come out either way.        *)
(***************************************************************************)
EXTENDS LirPasses, LirLower, PassManager

CONSTANT Programs       \* function bodies, a sequence

VARIABLES job,          \* which program is compiled, and how
          mir,          \* the function before it was lowered
          ctx,          \* the state of its lowering
          code,         \* what it is now
          unlowered,    \* the blocks that are left to lower
          graph,        \* the control flow graph the manager has, or had
          lives,        \* the lifetimes it has, or had
          src,          \* where the run of the MIR is
          out,          \* where the run of the code is
          phase,        \* "lower", "slots", "blocks", "compile", "run", "returned"
          marked,       \* whether the marked value has been computed
          misread,      \* whether the two runs have observed different values
          strayed       \* whether they have come to different events

compiling == <<job, mir, ctx, code, unlowered, graph, lives, managed>>
running   == <<src, out, marked, misread, strayed>>
vars == <<compiling, running, phase>>

----------------------------------------------------------------------------
(* The passes.                                                             *)

\* The next analysis, from the graph and the lifetimes the manager has.
RunAnalysis ==
  /\ phase = "compile"
  /\ \E i \in DOMAIN Analyses :
       /\ MakeAnalysis(i)
       /\ graph' = IF Analyses[i] = "cfg" THEN BuildCfg(code) ELSE graph
       /\ lives' = IF Analyses[i] = "lifetime" THEN BuildLifetimes(code, graph, Slots(code)) ELSE lives
  /\ UNCHANGED <<job, mir, ctx, code, unlowered, phase, running>>

\* The order in which a pass goes through its hash sets, where it has any.
Orders(p) == IF p \in {"ssa", "block-layout"} THEN BOOLEAN ELSE {TRUE}

Transformed(p, up) ==
  CASE p = "ssa"                 -> ConstructSsa(graph, up)
    [] p = "mem2reg"             -> PromoteSlots(graph)
    [] p = "phi-elimination"     -> EliminatePhis(graph)
    [] p = "explicit-jump"       -> MakeJumpsExplicit(graph)
    [] p = "block-layout"        -> LayOutBlocks(graph, up)
    [] p = "register-allocation" -> AllocateRegisters(code)
    [] p = "stack-frame-layout"  -> LayOutFrame(code, lives)
    [] p = "peephole"            -> Peephole(code)
    [] p = "dce"                 -> EliminateDeadCode(code)
    [] OTHER -> code

\* What the blocks and the edges of a graph come from.
Outline(c) == SelectSeq(c, LAMBDA i : i.op \in {"label"} \cup Terminators)

\* run_function_passes_on_function: one pass.
RunPass ==
  /\ phase = "compile" /\ todo # <<>>
  /\ Wanted(Head(todo)) = {}
  /\ \E up \in Orders(Head(todo)) : code' = Transformed(Head(todo), up)
  /\ PerformPass(code' # code, Outline(code') # Outline(code))
  /\ UNCHANGED <<job, mir, ctx, unlowered, graph, lives, phase, running>>

----------------------------------------------------------------------------
(* The run of the code.  st: pc, the next instruction; reg and mem, the    *)
(* registers and the words of the stack; flag, how the last test came out. *)

Junk == 2

In(f, k) == IF k \in DOMAIN f THEN f[k] ELSE Junk
OperandValue(st, o) == IF IsReg(o) THEN In(st.reg, o) ELSE o

\* A word is named by its offset, or by the register of its address.
Word(i) == IF i.u[1] = FP THEN i.tag ELSE i.u[1]

Step(c, st) ==
  LET i == c[st.pc]
      next == [st EXCEPT !.pc = @ + 1]
  IN  CASE i.op = "move" -> [next EXCEPT !.reg = (i.d :> OperandValue(st, i.u[1])) @@ @]
        [] i.op = "load" -> [next EXCEPT !.reg = (i.d :> In(st.mem, Word(i))) @@ @]
        [] IsStore(i)    -> [next EXCEPT !.mem = (Word(i) :> OperandValue(st, i.u[2])) @@ @]
        [] i.op = "jump" -> [st EXCEPT !.pc = LabelIndex(c, i.l)]
        [] i.op = "jcc"  -> IF st.flag THEN [st EXCEPT !.pc = LabelIndex(c, i.l)] ELSE next
        [] OTHER -> next

\* To the next event; pc is 0 if the code ends, or goes on for ever, before it.
RECURSIVE OutAhead(_, _, _)
OutAhead(c, st, fuel) ==
  IF st.pc > Len(c) \/ fuel = 0 THEN [st EXCEPT !.pc = 0]
  ELSE IF c[st.pc].op \in {"call", "cmp", "ret"} THEN st
  ELSE OutAhead(c, Step(c, st), fuel - 1)

Event(kind, t) == [kind |-> kind, t |-> t]

OutEvent(c, st) ==
  IF st.pc = 0 THEN Event("none", 0)
  ELSE LET i == c[st.pc] IN
       CASE i.op = "ret" -> Event("return", 0)
         [] i.op = "cmp" -> Event("test", i.tag)
         [] i.op = "call" -> Event(IF i.d = NoReg THEN "observe" ELSE "compute", i.tag)

----------------------------------------------------------------------------
(* The run of the MIR.  m is [blocks, stores, read, constants], st: the    *)
(* block blk, its statement i, and the temporaries.  What follows the      *)
(* statements is the stores for phi nodes, and the terminator.             *)

StatementEvent(m, s) ==
  IF s.when # Input THEN Event("test", s.when)
  ELSE IF s.s = Input THEN Event(IF m.constants THEN "none" ELSE "compute", s.t)
  ELSE Event(IF s.t \in m.read THEN "none" ELSE "observe", s.t)

AtEnd(m, st) == st.i > Len(m.blocks[st.blk].body)

SrcEvent(m, st) ==
  LET b == m.blocks[st.blk] IN
  IF ~AtEnd(m, st) THEN StatementEvent(m, b.body[st.i])
  ELSE CASE IsChoice(b)      -> Event("test", Condition(b))
         [] b.op = "return"  -> Event("return", 0)
         [] OTHER            -> Event("none", 0)

Assigned(st, t, v) == [st EXCEPT !.val = (t :> v) @@ @, !.i = @ + 1]

StatementValue(st, s) == IF s.s = Input THEN Const(s.t) ELSE In(st.val, s.s)

\* To a block, having made the stores at the end of the one before.
Enter(m, st, b) ==
  [blk |-> b, i |-> 1,
   val |-> [t \in {mv[1] : mv \in m.stores[st.blk]} |->
              In(st.val, (CHOOSE mv \in m.stores[st.blk] : mv[1] = t)[2])] @@ st.val]

RECURSIVE SrcAhead(_, _)
SrcAhead(m, st) ==
  LET b == m.blocks[st.blk] IN
  IF SrcEvent(m, st).kind # "none" THEN st
  ELSE IF AtEnd(m, st) THEN SrcAhead(m, Enter(m, st, b.to[1]))
  ELSE SrcAhead(m, Assigned(st, b.body[st.i].t, StatementValue(st, b.body[st.i])))

----------------------------------------------------------------------------
\* Both runs stand at an event.
Settle(s, o) ==
  /\ src' = SrcAhead(mir, s)
  /\ out' = OutAhead(code, o, Len(code))
  /\ strayed' = (SrcEvent(mir, src') # OutEvent(code, out'))

Passed(st) == [st EXCEPT !.pc = @ + 1]

Launch ==
  /\ phase = "compile" /\ todo = <<>>
  /\ phase' = "run"
  /\ Settle([blk |-> 0, i |-> 1, val |-> <<>>],
            [pc |-> 1, reg |-> <<>>, mem |-> <<>>, flag |-> FALSE])
  /\ UNCHANGED <<compiling, marked, misread>>

ComputeEvent(e) ==
  /\ e.kind = "compute"
  /\ \E v \in {0, 1} :
       /\ v = 1 => ~marked
       /\ marked' = (marked \/ v = 1)
       /\ Settle(Assigned(src, e.t, v),
                 [Passed(out) EXCEPT !.reg = (code[out.pc].d :> v) @@ @])
  /\ UNCHANGED <<misread, phase>>

ObserveEvent(e) ==
  /\ e.kind = "observe"
  /\ LET s == mir.blocks[src.blk].body[src.i]
     IN  /\ misread' = (misread \/ In(src.val, s.s) # OperandValue(out, code[out.pc].u[1]))
         /\ Settle(Assigned(src, s.t, In(src.val, s.s)), Passed(out))
  /\ UNCHANGED <<marked, phase>>

\* The first alternative is jumped to; for a conjunction that is a constant.
Chosen(i) ==
  IF AtEnd(mir, src) THEN Enter(mir, src, mir.blocks[src.blk].to[i])
  ELSE LET s == mir.blocks[src.blk].body[src.i]
       IN  Assigned(src, s.t, IF i = 1 THEN Const(s.t) ELSE In(src.val, s.s))

TestEvent(e) ==
  /\ e.kind = "test"
  /\ misread' = (misread \/ In(src.val, e.t) # OperandValue(out, code[out.pc].u[1]))
  /\ \E i \in {1, 2} : Settle(Chosen(i), [Passed(out) EXCEPT !.flag = (i = 1)])
  /\ UNCHANGED <<marked, phase>>

ReturnEvent(e) ==
  /\ e.kind = "return"
  /\ phase' = "returned"
  /\ UNCHANGED running

Run ==
  /\ phase = "run" /\ ~strayed
  /\ LET e == SrcEvent(mir, src) IN ComputeEvent(e) \/ ObserveEvent(e) \/ TestEvent(e) \/ ReturnEvent(e)
  /\ UNCHANGED compiling

----------------------------------------------------------------------------
\* The stores of a block for phi nodes.
Lowerable(m, constants) ==
  [blocks |-> m, stores |-> [b \in DOMAIN m |-> PhiMoves(m, b)],
   read |-> ReadTemps(m), constants |-> constants]

\* The functions are compiled in order.  The lifetimes of the function before
\* are kept; what its SSA construction left is not, as its first block fell
\* through and ExplicitJump dropped all.
Init ==
  /\ job \in [program : DOMAIN Programs, level : Levels, constants : BOOLEAN]
  /\ mir = <<>> /\ ctx = <<>> /\ code = <<>> /\ unlowered = <<>> /\ todo = <<>>
  /\ kept = IF job.program = 1 THEN {} ELSE {"lifetime"}
  /\ good = {} /\ stale = FALSE
  /\ graph = <<>> /\ lives = <<>>
  /\ src = <<>> /\ out = <<>> /\ phase = "lower"
  /\ marked = FALSE /\ misread = FALSE /\ strayed = FALSE

\* The function in MIR, and the code it is lowered to.
LowerProgram ==
  /\ phase = "lower" /\ phase' = "slots"
  /\ mir' = Lowerable(LowerFunction(Programs[job.program]), job.constants)
  /\ UNCHANGED <<job, ctx, code, unlowered, graph, lives, managed, running>>

\* lower_mir_to_lir
BeginCode ==
  /\ phase = "slots" /\ phase' = "blocks"
  /\ ctx' = WithPreallocated(mir.blocks, job.constants)
  /\ unlowered' = Ascending(DOMAIN mir.blocks)
  /\ UNCHANGED <<job, mir, code, graph, lives, managed, running>>

LowerNextBlock ==
  /\ phase = "blocks" /\ unlowered # <<>>
  /\ ctx' = EmitBlock(ctx, mir.blocks, Head(unlowered))
  /\ unlowered' = Tail(unlowered)
  /\ UNCHANGED <<job, mir, code, graph, lives, managed, running, phase>>

EndCode ==
  /\ phase = "blocks" /\ unlowered = <<>> /\ phase' = "compile"
  /\ code' = ctx.code
  /\ ctx' = <<>>
  /\ TakeFunction(job.level)
  /\ UNCHANGED <<job, mir, unlowered, graph, lives, running>>

Next == LowerProgram \/ BeginCode \/ LowerNextBlock \/ EndCode \/ RunAnalysis \/ RunPass \/ Launch \/ Run

Spec == Init /\ [][Next]_vars

----------------------------------------------------------------------------
(* What the lowering to LIR and the passes of a level must keep.          *)

\* A register that a call observes or a test compares holds what the MIR
\* gives it: no pass takes a store of another path, a register that has been
\* given to another value, a word of the stack another slot still needs, or a
\* value that is computed after it (memory2reg.rs, phi_elimination.rs,
\* the register allocation, stack_frame_layout.rs, Peephole).
ReadsKept == ~misread

\* The code calls, tests and returns where the MIR does, and never runs off
\* its end or goes on for ever between two of these: blocks that are moved,
\* merged or lose their jump still lead to each other
\* (explicit_jump_pass.rs, block_layout_pass.rs).
FlowKept == ~strayed

\* The blocks some path from the first reaches without going through a.
RECURSIVE ReachedWithout(_, _, _, _)
ReachedWithout(g, a, seen, new) ==
  IF new = {} THEN seen
  ELSE ReachedWithout(g, a, seen \cup new,
                      UNION {Succ(g, b) : b \in new} \ (seen \cup new \cup a))

\* On every path to instruction i there is one of the instructions defs.
Precede(g, defs, i) ==
  LET b == BlockOf(g, i)
      others == BlocksOf(g, defs) \ {b}
  IN  \/ \E k \in defs : k \in b .. i - 1
      \/ b \notin ReachedWithout(g, others, {}, {1} \ others)

Between(first, last) ==
  phase = "compile" /\ first \notin ToSet(todo) /\ last \in ToSet(todo)

\* From the SSA construction to the elimination of phi nodes, what an
\* instruction other than a phi node reads is defined on every path to it, but
\* for addresses of slots; and in a function without unreachable blocks a
\* register is defined once (check_ssa_post_invariants, pipeline_invariants.rs;
\* RenameBlock, Memory2Reg).
SsaForm ==
  Between("ssa", "phi-elimination") =>
    LET g == BuildCfg(code)
        defs(r) == {k \in DOMAIN code : code[k].d = r}
    IN  /\ \A i \in {i \in DOMAIN code : code[i].op # "phi"} : \A r \in Reads(code[i]) \ Slots(code) :
             Precede(g, defs(r), i)
        /\ \/ Blocks(g) # {1} \cup ReachedFrom(g, 1)
           \/ \A k \in DOMAIN code : code[k].d # NoReg => defs(code[k].d) = {k}
============================================================================
