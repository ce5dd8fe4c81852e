----------------------------- MODULE LirPasses -----------------------------
(***************************************************************************)
(* The passes over the code of a function, after and without Memory2Reg    *)
(* (karte-lir/src/pass): each is an operator from code to code.            *)
(***************************************************************************)
EXTENDS Memory2Reg

Terminators == {"jump", "jcc", "ret"}

\* What a hash set or map goes through, in two of its orders.
Ordered(S, up) == IF up THEN Ascending(S) ELSE Reverse(Ascending(S))

----------------------------------------------------------------------------
(* SsaConstruction: the registers several blocks define.                   *)

\* compute_dominance: the blocks on every path from the first.
RECURSIVE DominatorFix(_, _)
DominatorFix(g, dom) ==
  LET common(P) == {d \in Blocks(g) : P # {} /\ \A p \in P : d \in dom[p]}
      new == [b \in Blocks(g) |-> {b} \cup IF b = 1 THEN {} ELSE common(Pred(g, b))]
  IN  IF new = dom THEN dom ELSE DominatorFix(g, new)

Dominators(g) == DominatorFix(g, [b \in Blocks(g) |-> IF b = 1 THEN {1} ELSE Blocks(g)])

\* The last of them before a block, 0 if there is none.
ImmediateDominator(dom, b) ==
  LET above == dom[b] \ {b}
      last  == {c \in above : \A d \in above \ {c} : c \notin dom[d]}
  IN  IF b = 1 \/ last = {} THEN 0 ELSE Min(last)

ImmediateDominators(dom) == [b \in DOMAIN dom |-> ImmediateDominator(dom, b)]

\* From a block up to another, without it.
RECURSIVE Upward(_, _, _)
Upward(idom, b, stop) == IF b \in {0, stop} THEN {} ELSE {b} \cup Upward(idom, idom[b], stop)

\* compute_dominance_frontiers
Frontiers(g, idom) ==
  [b \in Blocks(g) |->
     {n \in Blocks(g) : /\ Cardinality(Pred(g, n)) > 1
                        /\ \E p \in Pred(g, n) : b \in Upward(idom, p, idom[n])}]

DefiningBlocks(g, r) == {b \in Blocks(g) : \E i \in b .. g.end[b] : g.from[i].d = r}

RECURSIVE FrontierFix(_, _, _)
FrontierFix(frontier, blocks, found) ==
  LET new == UNION {frontier[b] : b \in blocks \cup found} \ found
  IN  IF new = {} THEN found ELSE FrontierFix(frontier, blocks, found \cup new)

\* The virtual registers that several blocks define.
SharedRegs(g) ==
  {r \in {i.d : i \in ToSet(g.from)} : IsVirtual(r) /\ Cardinality(DefiningBlocks(g, r)) > 1}

\* insert_phi_nodes: the blocks that get one, for each register.
PhiPlaces(g, frontier, r) ==
  LET blocks == Ascending(FrontierFix(frontier, DefiningBlocks(g, r), {}))
  IN  [n \in DOMAIN blocks |-> [r |-> r, b |-> blocks[n]]]

SsaPhis(g, frontier) ==
  LET regs == Ascending(SharedRegs(g))
  IN  Numbered(FlattenSeq([k \in DOMAIN regs |-> PhiPlaces(g, frontier, regs[k])]), MaxReg(g.from))

\* An instruction with other registers, what it defines included.
NameOr(name, o) == IF o \in DOMAIN name THEN name[o] ELSE o

Renamed(i, name) ==
  [i EXCEPT !.d = NameOr(name, @), !.u = [k \in DOMAIN @ |-> NameOr(name, @[k])]]

\* st: the code; next, the last register; now, the version each register has;
\* in, what the phi nodes get.
RenameUses(st, i) ==
  [st EXCEPT !.code[i] = Renamed(@, [r \in Reads(@) \cap DOMAIN st.now |-> st.now[r]])]

RenameDefinition(st, i, r) ==
  [st EXCEPT !.code[i] = Renamed(@, r :> st.next + 1), !.next = @ + 1,
             !.now = (r :> st.next + 1) @@ @]

RenameInstruction(st, i, regs) ==
  LET u == RenameUses(st, i)
  IN  IF u.code[i].d \in regs THEN RenameDefinition(u, i, u.code[i].d) ELSE u

\* An edge to a block of a phi node: the version at the end of the block it
\* comes from.  Without one the phi node gets the register itself.
FillPhis(st, g, phis, b) ==
  [st EXCEPT !.in =
     [k \in DOMAIN phis |->
        @[k] \o [n \in DOMAIN SelectSeq(g.succ[b], LAMBDA s : s = phis[k].b) |->
                   <<LabelOf(g, b), NameOr(st.now, phis[k].r)>>]]]

PhiVersions(phis, b) ==
  [r \in {phi.r : phi \in {phi \in ToSet(phis) : phi.b = b}} |->
     (CHOOSE phi \in ToSet(phis) : phi.b = b /\ phi.r = r).d]

\* Mutant: a block follows its dominator only where that leads to it.
ChildrenThatFollow(g, idom, b) == {c \in Succ(g, b) : idom[c] = b}

DominatedChildren(g, idom, b) == {c \in Blocks(g) : idom[c] = b}

\* rename_block_recursive.  On the way out the versions are as they were at
\* the entry, but a register that had none keeps its own.
\* An instruction that names none of the registers stays as it is.
RECURSIVE RenameBlock(_, _, _, _, _, _)
RenameBlock(g, idom, phis, up, st, b) ==
  LET regs    == {phi.r : phi \in ToSet(phis)}
      entered == [st EXCEPT !.now = PhiVersions(phis, b) @@ @]
      concern == {i \in b .. g.end[b] : regs \cap (Reads(g.from[i]) \cup {g.from[i].d}) # {}}
      renamed == FoldLeft(LAMBDA s, i : RenameInstruction(s, i, regs), entered, Ascending(concern))
      below   == FoldLeft(LAMBDA s, c : RenameBlock(g, idom, phis, up, s, c),
                          FillPhis(renamed, g, phis, b),
                          Ordered(DominatedChildren(g, idom, b), up))
  IN  [below EXCEPT !.now = st.now @@ @]

\* insert_phi_instructions: behind the labels, those that have been filled.
WithPhisOf(g, phis, st) ==
  FlattenSeq([i \in DOMAIN st.code |->
    <<st.code[i]>> \o
    LET here == SelectSeq([k \in DOMAIN phis |-> k], LAMBDA k : phis[k].b = i /\ st.in[k] # <<>>)
    IN  [n \in DOMAIN here |-> Phi(phis[here[n]].d, st.in[here[n]])]])

RenameAll(g, idom, phis, up) ==
  IF phis = <<>> THEN g.from
  ELSE WithPhisOf(g, phis,
         RenameBlock(g, idom, phis, up,
                     [code |-> g.from, next |-> MaxReg(g.from) + Len(phis), now |-> <<>>,
                      in |-> [k \in DOMAIN phis |-> <<>>]], 1))

SsaWith(g, idom, up) == RenameAll(g, idom, SsaPhis(g, Frontiers(g, idom)), up)

\* The blocks below a dominator come from a hash map: up is its order.
ConstructSsa(g, up) ==
  IF SharedRegs(g) = {} THEN g.from ELSE SsaWith(g, ImmediateDominators(Dominators(g)), up)

----------------------------------------------------------------------------
(* PhiElimination                                                          *)

\* find_insertion_point: before the jumps that end a block.
InsertionPoint(g, b) == Max({b - 1} \cup {i \in b .. g.end[b] : g.from[i].op \notin Terminators}) + 1

\* The phi node at i is removed, and each block it names copies its value.  A
\* phi node of a stack address is only removed.
PhiEdits(g, i) ==
  LET phi == g.from[i]
      into == [k \in DOMAIN phi.u |-> CHOOSE b \in Blocks(g) : LabelOf(g, b) = phi.tag[k]]
  IN  <<Removal(i)>> \o
      IF phi.d \in Slots(g.from) THEN <<>>
      ELSE [k \in DOMAIN phi.u |-> Insertion(InsertionPoint(g, into[k]), Move(phi.d, phi.u[k]))]

EliminatePhis(g) ==
  Apply(g.from, FlattenSeq([i \in DOMAIN g.from |->
                              IF g.from[i].op = "phi" THEN PhiEdits(g, i) ELSE <<>>]))

----------------------------------------------------------------------------
(* ExplicitJump                                                            *)

\* A block that falls through gets a jump to its first successor.
Explicit(g, b) ==
  SubSeq(g.from, b, g.end[b])
  \o IF g.from[g.end[b]].op \notin Terminators /\ g.succ[b] # <<>>
       THEN <<JumpTo(LabelOf(g, g.succ[b][1]))>> ELSE <<>>

Concat(g, order, Code(_)) == FlattenSeq([k \in DOMAIN order |-> Code(order[k])])

MakeJumpsExplicit(g) == Concat(g, Ascending(Blocks(g)), LAMBDA b : Explicit(g, b))

----------------------------------------------------------------------------
(* BlockLayout                                                             *)

\* find_back_edges: edges to a block on the path of a depth first search.
RECURSIVE Search(_, _, _, _)
Search(g, st, path, b) ==
  FoldLeft(LAMBDA d, s : IF s \notin d.seen THEN Search(g, d, path \cup {b}, s)
                         ELSE IF s \in path \cup {b} THEN [d EXCEPT !.back = @ \cup {<<b, s>>}]
                         ELSE d,
           [st EXCEPT !.seen = @ \cup {b}], g.succ[b])

BackEdges(g) == Search(g, [seen |-> {}, back |-> {}], {}, 1).back

\* All edges to a block that do not close a loop come from blocks in order.
Placed(g, back, order, b) == \A p \in Pred(g, b) : p \in ToSet(order) \/ <<p, b>> \in back

\* Mutant: the target of a conditional jump comes before what it falls through to.
TargetFirst(due, now, rest, loops) == due \o now \o rest \o loops

\* What comes next: blocks that were late, the successors with the last of them
\* first, what was to come, and the heads of loops.
Upcoming(due, now, rest, loops) == due \o Reverse(now) \o rest \o loops

\* compute_optimal_order.  work is what comes next, late the hash set of the
\* blocks that wait for a predecessor.
RECURSIVE Order(_, _, _, _, _, _)
Order(g, back, up, order, work, late) ==
  IF work = <<>> THEN order
  ELSE LET b    == Head(work)
           done == Append(order, b)
           open == SelectSeq(g.succ[b], LAMBDA s : s \notin ToSet(done))
           fwd  == SelectSeq(open, LAMBDA s : <<b, s>> \notin back)
           now  == SelectSeq(fwd, LAMBDA s : Placed(g, back, done, s))
           wait == late \cup (ToSet(fwd) \ ToSet(now))
           due  == {d \in wait : Placed(g, back, done, d)}
       IN  IF b \in ToSet(order) THEN Order(g, back, up, order, Tail(work), late)
           ELSE Order(g, back, up, done,
                      Upcoming(Ordered(due, up), now, Tail(work),
                               SelectSeq(open, LAMBDA s : <<b, s>> \in back)),
                      wait \ due)

\* find_mergeable_blocks: the k-th block is followed by its only successor,
\* whose only predecessor it is.
Merged(g, order, k) ==
  /\ k < Len(order)
  /\ g.succ[order[k]] = <<order[k + 1]>>
  /\ Pred(g, order[k + 1]) = {order[k]}

References(code, l) ==
  Cardinality({i \in DOMAIN code : \/ code[i].op \in {"jump", "jcc"} /\ code[i].l = l
                                   \/ code[i].op = "phi" /\ l \in ToSet(code[i].tag)})

\* The label of the k-th block goes, with the jump to it.
LabelGoes(g, order, k) ==
  /\ k > 1
  /\ Merged(g, order, k - 1)
  /\ g.from[order[k]].op = "label"
  /\ References(g.from, LabelOf(g, order[k])) = 1

Emitted(g, order, k) ==
  SelectSeq(SubSeq(g.from, order[k], g.end[order[k]]),
            LAMBDA i :
              /\ ~(i.op = "label" /\ LabelGoes(g, order, k))
              /\ ~(i.op = "jump" /\ k < Len(order) /\ LabelGoes(g, order, k + 1)
                   /\ i.l = LabelOf(g, order[k + 1])))

Reordered(g, order) == FlattenSeq([k \in DOMAIN order |-> Emitted(g, order, k)])

WithUnreached(g, order) == order \o Ascending(Blocks(g) \ ToSet(order))

LayoutWith(g, back, up) ==
  IF Cardinality({e[2] : e \in back}) >= 2 THEN g.from
  ELSE Reordered(g, WithUnreached(g, Order(g, back, up, <<>>, <<1>>, {})))

\* The code stays as it is with one block, or with two loops.
LayOutBlocks(g, up) ==
  IF Cardinality(Blocks(g)) <= 1 THEN g.from ELSE LayoutWith(g, BackEdges(g), up)

----------------------------------------------------------------------------
(* RegisterAllocation: each register gets the first place no other whose   *)
(* lifetime meets its own has.  The address of a slot keeps its register.  *)

Occurrences(code, r) == {i \in DOMAIN code : r \in Defines(code[i]) \cup Reads(code[i])}

LabelIndex(code, l) == CHOOSE i \in DOMAIN code : code[i].op = "label" /\ code[i].l = l

\* The jumps to a label before them: <<label, jump>>.
BackJumps(code) ==
  SelectSeq([i \in DOMAIN code |->
               IF code[i].op \in {"jump", "jcc"} THEN <<LabelIndex(code, code[i].l), i>>
               ELSE <<i, i>>],
            LAMBDA e : e[1] < e[2])

Meets(a, b) == a[1] <= b[2] /\ b[1] <= a[2]

Extended(life, edge) ==
  IF Meets(life, edge) THEN <<Min({life[1], edge[1]}), Max({life[2], edge[2]})>> ELSE life

\* analyze_simple: from the first to the last occurrence, over every loop it
\* meets, from the start if the register is read before it is written.
SimpleLifetime(code, jumps, r, at) ==
  LET life == FoldLeft(Extended, <<Min(at), Max(at)>>, jumps)
  IN  IF jumps # <<>> /\ r \notin Defines(code[Min(at)]) THEN <<1, life[2]>> ELSE life

AllocatedRegs(code) ==
  UNION {Defines(code[i]) \cup Reads(code[i]) : i \in DOMAIN code} \ (Slots(code) \cup {FP})

PlaceNext(place, r, lives) ==
  LET used == {place[s] : s \in {s \in DOMAIN place : Meets(lives[s], lives[r])}}
  IN  (r :> Max({p \in -100 .. -1 : p \notin used})) @@ place

PlaceAll(regs, lives) == FoldLeft(LAMBDA place, r : PlaceNext(place, r, lives), <<>>, regs)

Rewritten(code, place) == [i \in DOMAIN code |-> Renamed(code[i], place)]

AllocateWith(code, jumps, regs) ==
  Rewritten(code, PlaceAll(Ascending(regs),
              [r \in regs |-> SimpleLifetime(code, jumps, r, Occurrences(code, r))]))

AllocateRegisters(code) == AllocateWith(code, BackJumps(code), AllocatedRegs(code))

----------------------------------------------------------------------------
(* StackFrameLayout: offsets from the frame pointer, shared by slots whose *)
(* lifetimes do not meet.                                                  *)

\* The slots by the start of their lifetimes.
ByStart(slots, lives) == SortSeq(slots, LAMBDA a, b : lives[a][1] < lives[b][1])

\* expire_old_intervals: the places of slots whose lifetime has ended are free.
Expired(fr, start, lives) ==
  LET over == SortSeq(SelectSeq(fr.active, LAMBDA a : lives[a][2] < start),
                      LAMBDA a, b : lives[a][2] < lives[b][2])
  IN  [fr EXCEPT !.free = @ \o [k \in DOMAIN over |-> fr.offset[over[k]]],
                 !.active = SelectSeq(@, LAMBDA a : lives[a][2] >= start)]

Assign(fr, a) ==
  IF fr.free # <<>>
    THEN [fr EXCEPT !.offset = (a :> Head(fr.free)) @@ @, !.free = Tail(@),
                    !.active = Append(@, a)]
    ELSE [fr EXCEPT !.offset = (a :> fr.size - 8) @@ @, !.size = @ - 8,
                    !.active = Append(@, a)]

Offsets(slots, lives) ==
  FoldLeft(LAMBDA fr, a : Assign(Expired(fr, lives[a][1], lives), a),
           [offset |-> <<>>, free |-> <<>>, active |-> <<>>, size |-> 0], slots).offset

\* A slot whose address is nothing but an address.
AddressOnly(code, a) ==
  \A i \in DOMAIN code :
    CASE IsStore(code[i])           -> code[i].u[2] # a
      [] code[i].op \in {"load", "alloc"} -> TRUE
      [] OTHER -> a \notin Reads(code[i]) \cup Defines(code[i])

\* lower_to_fp_offsets
AtOffset(i, offset) == [i EXCEPT !.u[1] = FP, !.tag = offset]

LowerToOffsets(code, offset) ==
  LET plain == {a \in DOMAIN offset : AddressOnly(code, a)}
      edit(i) == IF (IsStore(code[i]) \/ code[i].op = "load") /\ code[i].u[1] \in plain
                   THEN AtOffset(code[i], offset[code[i].u[1]]) ELSE code[i]
  IN  SelectSeq([i \in DOMAIN code |-> edit(i)], LAMBDA i : i.op # "alloc" \/ i.d \notin plain)

LowerSlots(code, slots, lives) == LowerToOffsets(code, Offsets(ByStart(slots, lives), lives))

\* lives are the lifetimes the analysis found.
LayOutFrame(code, lives) ==
  LowerSlots(code, SelectSeq([i \in DOMAIN code |-> IF code[i].op = "alloc" THEN code[i].d
                                                     ELSE NoReg],
                             LAMBDA a : a # NoReg), lives)

----------------------------------------------------------------------------
(* Peephole.  SameWord: two accesses to one address and offset.            *)

SameWord(a, b) == a.u[1] = b.u[1] /\ a.tag = b.tag

\* The edits for the instruction at i, and how far to go on.
Window(code, i) ==
  LET a == code[i]
      b == IF i < Len(code) THEN code[i + 1] ELSE Return
      moved(r) == IF b.d = r THEN Removal(i + 1) ELSE Replacement(i + 1, Move(b.d, r))
  IN  CASE a.op = "move" /\ a.u[1] = a.d -> [edits |-> <<Removal(i)>>, by |-> 1]
        [] a.op = "move" /\ a.u[1] # a.d /\ b.op = "move" /\ a.d = b.d /\ a.u = b.u ->
             [edits |-> <<Removal(i + 1)>>, by |-> 2]
        [] IsStore(a) /\ IsStore(b) /\ SameWord(a, b) ->
             [edits |-> <<Removal(i)>>, by |-> 1]
        [] a.op = "load" /\ b.op = "load" /\ SameWord(a, b) ->
             [edits |-> <<moved(a.d)>>, by |-> 2]
        [] a.op = "load" /\ IsStore(b) /\ SameWord(a, b) /\ b.u[2] = a.d ->
             [edits |-> <<Removal(i + 1)>>, by |-> 1]
        [] IsStore(a) /\ b.op = "load" /\ SameWord(a, b) /\ IsReg(a.u[2]) ->
             [edits |-> <<moved(a.u[2])>>, by |-> 2]
        [] OTHER -> [edits |-> <<>>, by |-> 1]

RECURSIVE Windows(_, _)
Windows(code, i) ==
  IF i > Len(code) THEN <<>>
  ELSE LET w == Window(code, i) IN w.edits \o Windows(code, i + w.by)

Peephole(code) == Apply(code, Windows(code, 1))

----------------------------------------------------------------------------
(* DeadCodeElimination                                                     *)

HasSideEffects(i) == i.op \notin {"move", "load", "phi"}

\* The registers a used register is computed from are used.
RECURSIVE UsedFrom(_, _)
UsedFrom(code, used) ==
  LET new == UNION {Reads(code[i]) : i \in {i \in DOMAIN code : code[i].d \in used}} \ used
  IN  IF new = {} THEN used ELSE UsedFrom(code, used \cup new)

UsedRegs(code) ==
  UsedFrom(code, UNION {Reads(code[i]) : i \in {i \in DOMAIN code : HasSideEffects(code[i])}})

WithoutDead(code, used) ==
  SelectSeq(code, LAMBDA i : HasSideEffects(i) \/ i.d \in used)

EliminateDeadCode(code) == WithoutDead(code, UsedRegs(code))
=============================================================================
