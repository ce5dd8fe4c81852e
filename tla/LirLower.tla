------------------------------ MODULE LirLower ------------------------------
(***************************************************************************)
(* The lowering of a function from MIR (MirLower) to LIR                   *)
(* (karte-lir/src/lower.rs and lower/): every temporary gets a stack slot, *)
(* a statement loads and stores, and phi nodes become stores at the end of *)
(* the preceding blocks.                                                   *)
(*                                                                         *)
(* A statement with source Input is a call, or the assignment of a         *)
(* constant if the function is lowered with constants.  A temporary that   *)
(* nothing reads is passed to a call, which is how it is observed.         *)
(***************************************************************************)
EXTENDS Lir, MirLower

FunctionLabel == 999
InnerLabel(n) == 500 + n

IsChoice(b) == b.op \in {"branch", "match"}

\* What a block branches on.
Condition(b) == Last(b.body).t

\* The temporaries something reads.
ReadTemps(m) ==
  UNION {UNION {{s.s, s.when} : s \in ToSet(m[b].body)} \cup {Condition(m[b]) : x \in {x \in {0} : IsChoice(m[b])}}
         \cup UNION {{e[2] : e \in phi.in} : phi \in m[b].phis} : b \in DOMAIN m} \ {Input}

\* preallocate_temp_slots: the temporaries of assignments and conditions.  The
\* target of a call and of a phi node is not among them.
Preallocated(m, constants) ==
  UNION {UNION {{s.t, s.s, s.when} : s \in {s \in ToSet(m[b].body) : constants \/ s.s # Input}}
         \cup {Condition(m[b]) : x \in {x \in {0} : m[b].op = "branch"}} : b \in DOMAIN m}
  \ {Input}

----------------------------------------------------------------------------
(* LirLoweringContext.  code: the instructions so far; slot: the address   *)
(* registers of the temporaries; next, seed: the next free register and    *)
(* inner label; known: the temporaries whose constant the block knows;     *)
(* read: the temporaries something reads.                                  *)

Emit(c, i) == [c EXCEPT !.code = Append(@, i)]

\* add_instruction puts a label after a conditional jump.
EmitJumpIf(c, l) ==
  [c EXCEPT !.code = @ \o <<JumpIf(l), Label(InnerLabel(c.seed))>>, !.seed = @ + 1]

AllocSlot(c, t) ==
  [Emit(c, Alloc(c.next)) EXCEPT !.slot = (t :> c.next) @@ @, !.next = @ + 1]

\* lower_to_lvalue: the address of a temporary is made the first time.
WithSlot(c, t) == IF t \in DOMAIN c.slot THEN c ELSE AllocSlot(c, t)

\* lower_to_rvalue: the newest register holds the value.
LoadOf(c, t) ==
  LET d == WithSlot(c, t) IN [Emit(d, Load(d.next, d.slot[t])) EXCEPT !.next = @ + 1]

NewestReg(c) == c.next - 1

StoreTo(c, t, s) ==
  LET d == WithSlot(c, t) IN Emit(d, Store(d.slot[t], s))


\* Assign: the value of the source is lowered twice.
Copy(c, t, s) ==
  LET d == LoadOf(LoadOf(c, s), s)
  IN  StoreTo([d EXCEPT !.known = @ \ {t}], t, NewestReg(d))

\* print and the like: the argument is loaded.
Observe(c, t) ==
  LET d == LoadOf(c, t) IN Emit(d, Call(NoReg, <<NewestReg(d)>>, t))

LowerCall(c, t) ==
  StoreTo([Emit(c, Call(c.next, <<>>, t)) EXCEPT !.next = @ + 1, !.known = @ \ {t}],
          t, c.next)

LowerConstant(c, t) == StoreTo([c EXCEPT !.known = @ \cup {t}], t, Const(t))

\* A conjunction: a constant if the first operand does not hold, else the
\* second.
LowerConjunction(c, s) ==
  LET d     == LoadOf(LoadOf(c, s.when), s.s)
      r     == d.next
      false == InnerLabel(d.seed)
      end   == InnerLabel(d.seed + 1)
      e     == EmitJumpIf([Emit(d, Compare(r - 2, s.when)) EXCEPT !.seed = @ + 2], false)
  IN  StoreTo([e EXCEPT !.code = @ \o <<Move(r, r - 1), JumpTo(end), Label(false),
                                        Move(r, Const(s.t)), Label(end)>>,
                        !.next = @ + 1, !.known = @ \ {s.t}],
              s.t, r)

LowerStatement(c, s) ==
  IF s.when # Input THEN LowerConjunction(c, s)
  ELSE IF s.s = Input
    THEN IF c.constants THEN LowerConstant(c, s.t) ELSE LowerCall(c, s.t)
    ELSE LET d == Copy(c, s.t, s.s) IN IF s.t \in c.read THEN d ELSE Observe(d, s.t)

----------------------------------------------------------------------------
\* The stores of a block for phi nodes: pairs of target and source.
PhiMoves(m, b) ==
  UNION {UNION {{<<phi.t, e[2]>> : e \in {e \in phi.in : e[1] = b}} : phi \in m[d].phis} :
         d \in DOMAIN m}

\* One after the other; a block stores to a temporary at most once.
InOrder(moves) ==
  LET order == Ascending({mv[1] : mv \in moves})
  IN  [i \in DOMAIN order |-> CHOOSE mv \in moves : mv[1] = order[i]]


LowerPhiMove(c, mv) ==
  LET d == WithSlot(c, mv[1]) IN
  IF mv[2] \in c.known THEN Emit(d, PhiStore(d.slot[mv[1]], Const(mv[2])))
  ELSE LET e == LoadOf(d, mv[2]) IN Emit(e, PhiStore(e.slot[mv[1]], NewestReg(e)))

\* A condition is compared, and the first of two blocks is jumped to if it
\* holds.
LowerChoice(c, b) ==
  LET d == LoadOf(c, Condition(b))
  IN  Emit(EmitJumpIf(Emit(d, Compare(NewestReg(d), Condition(b))), b.to[1]), JumpTo(b.to[2]))

LowerTerminator(c, b) ==
  CASE b.op = "goto"   -> Emit(c, JumpTo(b.to[1]))
    [] b.op = "return" -> Emit(c, Return)
    [] b.op = "none"   -> c
    [] IsChoice(b)     -> LowerChoice(c, b)

LowerBody(c, l, b, moves) ==
  LowerTerminator(
    FoldLeft(LowerPhiMove,
             FoldLeft(LowerStatement, Emit([c EXCEPT !.known = {}], Label(l)), b.body),
             moves), b)

Entered(m, constants) ==
  [code |-> <<Label(FunctionLabel)>>, slot |-> <<>>, next |-> 1, seed |-> 0,
   known |-> {}, read |-> ReadTemps(m), constants |-> constants]

\* lower_mir_to_lir: first the slots, then the blocks in order.
WithPreallocated(m, constants) ==
  FoldLeft(AllocSlot, Entered(m, constants), Ascending(Preallocated(m, constants)))

EmitBlock(c, m, b) == LowerBody(c, b, m[b], InOrder(PhiMoves(m, b)))
============================================================================
