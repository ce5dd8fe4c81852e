-------------------------------- MODULE Lir --------------------------------
(***************************************************************************)
(* The low-level intermediate representation of a function                 *)
(* (karte-lir/src/ir.rs): a sequence of instructions, and what the passes  *)
(* compute from it (karte-lir/src/pass/analysis.rs): the control flow      *)
(* graph, what is live, and the lifetimes of the stack slots.              *)
(*                                                                         *)
(* An operand is a number: a virtual register if it is positive and below  *)
(* 1000, a physical register if it is negative, FP for the frame pointer,  *)
(* a constant if it is above 1000.                                         *)
(***************************************************************************)
EXTENDS Integers, FiniteSets, Sequences, SequencesExt, FiniteSetsExt

NoReg == 0
FP    == -1000
Const(n) == 1000 + n

IsReg(o)      == o # NoReg /\ o < 1000
IsVirtual(o)  == 0 < o /\ o < 1000

\* op is the kind; d the register that is defined, if any; u the operands that
\* are read; l a label; tag what a call or a test stands for in the source of
\* the function, and for a store or a load the offset.
Ins(op, d, u, l, tag) == [op |-> op, d |-> d, u |-> u, l |-> l, tag |-> tag]

Label(l)          == Ins("label", NoReg, <<>>, l, 0)
Alloc(d)          == Ins("alloc", d, <<>>, 0, 0)
Load(d, a)        == Ins("load", d, <<a>>, 0, 0)
Store(a, s)       == Ins("store", NoReg, <<a, s>>, 0, 0)
PhiStore(a, s)    == Ins("phistore", NoReg, <<a, s>>, 0, 0)
Move(d, s)        == Ins("move", d, <<s>>, 0, 0)
Call(d, args, t)  == Ins("call", d, args, 0, t)
Compare(s, t)     == Ins("cmp", NoReg, <<s>>, 0, t)
JumpTo(l)         == Ins("jump", NoReg, <<>>, l, 0)
JumpIf(l)         == Ins("jcc", NoReg, <<>>, l, 0)
Return            == Ins("ret", NoReg, <<>>, 0, 0)
\* in: pairs of the label of a predecessor and an operand.
Phi(d, in)        == [op |-> "phi", d |-> d, u |-> [i \in DOMAIN in |-> in[i][2]],
                      l |-> 0, tag |-> [i \in DOMAIN in |-> in[i][1]]]

IsStore(i) == i.op \in {"store", "phistore"}
Reads(i)   == {o \in ToSet(i.u) : IsReg(o)}
Defines(i) == IF i.d = NoReg THEN {} ELSE {i.d}

----------------------------------------------------------------------------
(* ControlFlowGraph.  A block is named by the index of its first           *)
(* instruction.                                                            *)

Leaders(code) ==
  {i \in DOMAIN code : i = 1 \/ code[i].op = "label"
                        \/ code[i - 1].op \in {"jump", "jcc", "ret"}}

LastOf(leaders, n, b) ==
  IF \E l \in leaders : l > b THEN Min({l \in leaders : l > b}) - 1 ELSE n

\* The block a label begins, if there is one.
Target(code, leaders, l) ==
  LET found == {b \in leaders : code[b].op = "label" /\ code[b].l = l}
  IN  IF found = {} THEN <<>> ELSE <<Min(found)>>

\* The successors of a block that ends at end, in the order they are added.
SuccessorsAt(code, leaders, end) ==
  LET next == IF end + 1 \in leaders THEN <<end + 1>> ELSE <<>> IN
  CASE code[end].op = "jump" -> Target(code, leaders, code[end].l)
    [] code[end].op = "jcc"  -> Target(code, leaders, code[end].l) \o next
    [] code[end].op = "ret"  -> <<>>
    [] OTHER -> next

\* from is the code the graph was built from; end and succ are functions of
\* blocks.
WithEnds(code, leaders, end) ==
  [from |-> code, end |-> end,
   succ |-> [b \in leaders |-> SuccessorsAt(code, leaders, end[b])]]

WithLeaders(code, leaders) ==
  WithEnds(code, leaders, [b \in leaders |-> LastOf(leaders, Len(code), b)])

BuildCfg(code) == WithLeaders(code, Leaders(code))

Blocks(cfg) == DOMAIN cfg.end
Succ(cfg, b) == ToSet(cfg.succ[b])
Pred(cfg, b) == {p \in Blocks(cfg) : b \in Succ(cfg, p)}
BlockOf(cfg, i) == CHOOSE b \in Blocks(cfg) : b <= i /\ i <= cfg.end[b]
LabelOf(cfg, b) == cfg.from[b].l

\* The numbers of a set in ascending order.
RECURSIVE Ascending(_)
Ascending(S) == IF S = {} THEN <<>> ELSE <<Min(S)>> \o Ascending(S \ {Min(S)})

\* What a set of blocks reaches in at least one step.
RECURSIVE Closure(_, _, _)
Closure(cfg, seen, new) ==
  IF new = {} THEN seen
  ELSE Closure(cfg, seen \cup new, UNION {Succ(cfg, b) : b \in new} \ (seen \cup new))

ReachedFrom(cfg, b) == Closure(cfg, {}, Succ(cfg, b))

----------------------------------------------------------------------------
(* Liveness without phi nodes, and the lifetimes it gives.                 *)

\* The registers live before instruction i, given those live after it.
LiveBefore(i, after) == (after \ Defines(i)) \cup Reads(i)

\* live[k]: the registers live after instruction k of a block, whose last
\* instruction is followed by the set out.
RECURSIVE LiveIn(_, _, _, _)
LiveIn(code, first, k, after) ==
  IF k < first THEN after ELSE LiveIn(code, first, k - 1, LiveBefore(code[k], after))

LiveOut(cfg, in, b) == UNION {in[s] : s \in Succ(cfg, b)}

RECURSIVE LiveFix(_, _, _)
LiveFix(code, cfg, in) ==
  LET new == [b \in Blocks(cfg) |-> LiveIn(code, b, cfg.end[b], LiveOut(cfg, in, b))]
  IN  IF new = in THEN in ELSE LiveFix(code, cfg, new)

\* The registers live after instruction k.
LiveAfter(code, cfg, in, k) ==
  LET b == BlockOf(cfg, k) IN LiveIn(code, k + 1, cfg.end[b], LiveOut(cfg, in, b))

\* analyze_with_liveness: from the first to the last position where a register
\* is defined, read or live.
Span(positions) == IF positions = {} THEN <<0, -1>> ELSE <<Min(positions), Max(positions)>>

SpanOf(code, after, r) ==
  Span({k \in DOMAIN code : r \in Defines(code[k]) \cup Reads(code[k]) \cup after[k]})

WithLiveAfter(code, after, regs) == [r \in regs |-> SpanOf(code, after, r)]

Lifetimes(code, cfg, in, regs) ==
  WithLiveAfter(code, [k \in DOMAIN code |-> LiveAfter(code, cfg, in, k)], regs)

EmptySets(cfg) == [b \in Blocks(cfg) |-> {}]

BuildLifetimes(code, cfg, regs) ==
  Lifetimes(code, cfg, LiveFix(code, cfg, EmptySets(cfg)), regs)

----------------------------------------------------------------------------
(* IndexInstructionTransformer: edits with indices of the code before the  *)
(* first of them, applied one after the other.                             *)

Removal(at) == [op |-> "remove", at |-> at]
Replacement(at, i) == [op |-> "replace", at |-> at, ins |-> i]
Insertion(at, i) == [op |-> "insert", at |-> at, ins |-> i]

\* Where an index has come to, given the edits that have been applied.
Shifted(at, edit) ==
  CASE edit.op = "remove" /\ edit.at < at  -> at - 1
    [] edit.op = "insert" /\ edit.at <= at -> at + 1
    [] OTHER -> at

\* An edit past the end does nothing.
ApplyEdit(code, e) ==
  CASE e.op = "remove"  -> IF e.at <= Len(code) THEN RemoveAt(code, e.at) ELSE code
    [] e.op = "replace" -> IF e.at <= Len(code) THEN [code EXCEPT ![e.at] = e.ins] ELSE code
    [] e.op = "insert"  -> IF e.at <= Len(code) + 1 THEN InsertAt(code, e.at, e.ins) ELSE code

ApplyNext(st, edit) ==
  LET e == [edit EXCEPT !.at = FoldLeft(Shifted, @, st.done)]
  IN  [code |-> ApplyEdit(st.code, e), done |-> Append(st.done, e)]

Apply(code, edits) == FoldLeft(ApplyNext, [code |-> code, done |-> <<>>], edits).code
============================================================================
