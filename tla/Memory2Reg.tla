----------------------------- MODULE Memory2Reg -----------------------------
(***************************************************************************)
(* Stack slots that only hold a value become registers                     *)
(* (karte-lir/src/pass/memory2reg.rs).  A slot is named by its address     *)
(* register; g is the control flow graph of the code, g.from.              *)
(***************************************************************************)
EXTENDS Lir

Slots(code) == {code[i].d : i \in {i \in DOMAIN code : code[i].op = "alloc"}}
AllocAt(code, a) == CHOOSE i \in DOMAIN code : code[i].op = "alloc" /\ code[i].d = a
LoadsOf(code, a) == {i \in DOMAIN code : code[i].op = "load" /\ code[i].u[1] = a}
StoresTo(code, a) == {i \in DOMAIN code : IsStore(code[i]) /\ code[i].u[1] = a}

Stored(code, i) == code[i].u[2]

----------------------------------------------------------------------------
(* Which slots can be promoted.                                            *)

\* trace_register_to_stack_load: the slot whose load is what a register holds
\* at i; another definition or a call ends the search.
LoadedFrom(code, r, i) ==
  LET stops == {k \in 1 .. i - 1 : \/ code[k].op = "call"
                                   \/ code[k].op \in {"load", "move"} /\ code[k].d = r}
  IN  IF stops = {} \/ code[Max(stops)].op # "load" THEN NoReg ELSE code[Max(stops)].u[1]


\* A slot whose address is copied, passed or stored, and one that is stored to
\* for a phi node of the program.
Escaping(code, slots) ==
  {a \in slots : \E i \in DOMAIN code :
     \/ code[i].op \in {"move", "call"} /\ a \in ToSet(code[i].u)
     \/ code[i].op = "phistore" /\ code[i].u[1] = a
     \/ IsStore(code[i]) /\ a \in ToSet(code[i].u) /\ code[i].u[1] \in slots
                         /\ code[i].u[2] \in slots}

\* So is a slot that gets what another such slot holds.
RECURSIVE Tainted(_, _, _)
Tainted(code, slots, bad) ==
  LET new == {a \in slots \ bad : \E i \in StoresTo(code, a) :
                                    LoadedFrom(code, Stored(code, i), i) \in bad}
  IN  IF new = {} THEN bad ELSE Tainted(code, slots, bad \cup new)

Promotable(code) == Slots(code) \ Tainted(code, Slots(code), Escaping(code, Slots(code)))

\* What the pass knows of a slot.
SlotOf(code, a) ==
  [a |-> a, alloc |-> AllocAt(code, a), loads |-> LoadsOf(code, a), stores |-> StoresTo(code, a)]

BlocksOf(g, positions) == {BlockOf(g, i) : i \in positions}

----------------------------------------------------------------------------
(* compute_phi_insertions.  phis is a sequence of records: the slot a, the *)
(* block b and the register d of each phi node.                            *)

\* The blocks where paths meet before a load.
Confluences(g, slot) ==
  {b \in Blocks(g) : /\ Cardinality(Pred(g, b)) > 1
                     /\ ({b} \cup ReachedFrom(g, b)) \cap BlocksOf(g, slot.loads) # {}}

\* Those after a store or after another phi node.
RECURSIVE PhiFix(_, _, _, _)
PhiFix(g, meets, storing, found) ==
  LET new == {b \in meets \ found : Pred(g, b) \cap (storing \cup found) # {}}
  IN  IF new = {} THEN found ELSE PhiFix(g, meets, storing, found \cup new)

PhiBlocks(g, slot) == PhiFix(g, Confluences(g, slot), BlocksOf(g, slot.stores), {})

PhisOf(g, slot) ==
  LET blocks == Ascending(PhiBlocks(g, slot))
  IN  [i \in DOMAIN blocks |-> [a |-> slot.a, b |-> blocks[i]]]

MaxReg(code) == Max({0} \cup {code[i].d : i \in DOMAIN code})

Numbered(places, base) == [i \in DOMAIN places |-> [d |-> base + i] @@ places[i]]

AllPhis(g, slots) ==
  Numbered(FlattenSeq([i \in DOMAIN slots |->
                         IF slots[i].stores = {} THEN <<>> ELSE PhisOf(g, slots[i])]),
           MaxReg(g.from))

\* The register of the phi node of a slot in a block, or NoReg.
PhiReg(phis, a, b) ==
  LET found == {i \in DOMAIN phis : phis[i].a = a /\ phis[i].b = b}
  IN  IF found = {} THEN NoReg ELSE phis[Min(found)].d

\* What the last store of a block stores, or NoReg.
LastStored(g, slot, b) ==
  LET found == {i \in slot.stores : BlockOf(g, i) = b}
  IN  IF found = {} THEN NoReg ELSE Stored(g.from, Max(found))

\* Mutant: a phi node of the block comes before its stores.
ReachingPhiFirst(g, slot, phis, p, to) ==
  IF PhiReg(phis, slot.a, p) # NoReg THEN PhiReg(phis, slot.a, p)
  ELSE LastStored(g, slot, p)

\* What a slot holds at the end of block p, which is on a path to the block
\* to: the search goes back while there is one predecessor.  Where it finds
\* nothing the phi node refers to itself.
RECURSIVE Reaching(_, _, _, _, _)
Reaching(g, slot, phis, p, to) ==
  CASE LastStored(g, slot, p) # NoReg -> LastStored(g, slot, p)
    [] LastStored(g, slot, p) = NoReg /\ PhiReg(phis, slot.a, p) # NoReg ->
         PhiReg(phis, slot.a, p)
    [] OTHER ->
         IF Cardinality(Pred(g, p)) = 1 /\ Pred(g, p) \cap {p, to} = {}
           THEN Reaching(g, slot, phis, Min(Pred(g, p)), to)
           ELSE PhiReg(phis, slot.a, to)

PhiInsertion(g, slot, phis, phi) ==
  LET preds == Ascending(Pred(g, phi.b))
  IN  Insertion(phi.b + 1,
        Phi(phi.d, [i \in DOMAIN preds |->
                      <<LabelOf(g, preds[i]), Reaching(g, slot, phis, preds[i], phi.b)>>]))

----------------------------------------------------------------------------
(* transform_with_phi_support                                              *)

\* The latest store of the block of i before i, or NoReg.
StoredBefore(g, slot, i) ==
  LET found == {k \in slot.stores : k < i /\ BlockOf(g, k) = BlockOf(g, i)}
  IN  IF found = {} THEN NoReg ELSE Stored(g.from, Max(found))


\* The search goes back along single predecessors.
RECURSIVE FoundBack(_, _, _, _)
FoundBack(g, slot, phis, b) ==
  CASE PhiReg(phis, slot.a, b) # NoReg -> PhiReg(phis, slot.a, b)
    [] PhiReg(phis, slot.a, b) = NoReg /\ LastStored(g, slot, b) # NoReg ->
         LastStored(g, slot, b)
    [] OTHER -> IF Cardinality(Pred(g, b)) = 1
                  THEN FoundBack(g, slot, phis, Min(Pred(g, b))) ELSE NoReg

\* A phi node of a predecessor, the first that has one.
PhiOfPred(g, slot, phis, b) ==
  LET found == {p \in Pred(g, b) : PhiReg(phis, slot.a, p) # NoReg}
  IN  IF found = {} THEN NoReg ELSE PhiReg(phis, slot.a, Min(found))

\* What a load at i is replaced by, or NoReg.
LoadValue(g, slot, phis, i) ==
  LET options == <<StoredBefore(g, slot, i), PhiReg(phis, slot.a, BlockOf(g, i)),
                   PhiOfPred(g, slot, phis, BlockOf(g, i)),
                   FoundBack(g, slot, phis, BlockOf(g, i))>>
      found   == {k \in DOMAIN options : options[k] # NoReg}
  IN  IF found = {} THEN NoReg ELSE options[Min(found)]

Replaced(code, i, v) == Replacement(i, Move(code[i].d, v))

\* The loads become moves; the slot goes when all of them could be replaced.
WithValues(code, slot, values) ==
  LET loads == Ascending({i \in slot.loads : values[i] # NoReg})
  IN  [k \in DOMAIN loads |-> Replaced(code, loads[k], values[loads[k]])]
      \o IF Len(loads) < Cardinality(slot.loads) THEN <<>>
         ELSE <<Removal(slot.alloc)>>
              \o [k \in 1 .. Cardinality(slot.stores) |-> Removal(Ascending(slot.stores)[k])]

PhiSupported(g, slot, phis) ==
  WithValues(g.from, slot, [i \in slot.loads |-> LoadValue(g, slot, phis, i)])

----------------------------------------------------------------------------
(* collect_simple_transform_operations                                     *)

\* trace_register_value: what a register is copied from at i, through a slot
\* with one store; NoReg if that is not known.
RECURSIVE Traced(_, _, _)
Traced(code, r, i) ==
  LET defs == {k \in 1 .. i - 1 : code[k].op \in {"move", "load"} /\ code[k].d = r}
  IN  IF defs = {} THEN NoReg
      ELSE LET k == Max(defs)
               a == code[k].u[1]
               earlier == {n \in StoresTo(code, a) : n < k}
           IN  CASE code[k].op = "move" -> IF Cardinality(defs) = 1 THEN a ELSE NoReg
                 [] code[k].op = "load" ->
                      IF a \notin Slots(code) \/ Cardinality(StoresTo(code, a)) > 1
                         \/ earlier = {} THEN NoReg
                      ELSE LET v == Stored(code, Max(earlier))
                               t == Traced(code, v, Max(earlier))
                           IN  IF t = NoReg THEN v ELSE t

TracedOr(code, v, i) ==
  LET t == Traced(code, v, i) IN IF IsReg(v) /\ t # NoReg THEN t ELSE v

Definitions(code, r) ==
  {i \in DOMAIN code : code[i].op \in {"move", "load"} /\ code[i].d = r}

\* is_control_flow_sensitive_slot: stores in several blocks, or one store of a
\* register that is defined in several.
Sensitive(g, slot) ==
  \/ Cardinality(BlocksOf(g, slot.stores)) > 1
  \/ /\ Cardinality(slot.stores) = 1
     /\ Cardinality(BlocksOf(g, Definitions(g.from, Stored(g.from, Max(slot.stores))))) > 1

\* Every load becomes a move of v.
AllLoads(code, slot, v) ==
  LET loads == Ascending(slot.loads)
  IN  [k \in DOMAIN loads |-> Replaced(code, loads[k], v)]

\* The last store is removed and the others are kept if it comes before all
\* loads in the code.
LastStoreFirst(code, slot, last) ==
  IF \A i \in slot.loads : i > last
    THEN AllLoads(code, slot, Stored(code, last)) \o <<Removal(last)>>
    ELSE <<>>

OneStore(g, slot, at) ==
  IF Cardinality(BlocksOf(g, slot.loads)) > 1
    THEN <<Removal(slot.alloc), Removal(at)>> \o AllLoads(g.from, slot, Stored(g.from, at))
    ELSE AllLoads(g.from, slot, TracedOr(g.from, Stored(g.from, at), at))
         \o <<Removal(at), Removal(slot.alloc)>>

Simple(g, slot) ==
  LET stores == Ascending(slot.stores) IN
  CASE Sensitive(g, slot) \/ stores = <<>> -> <<>>
    [] ~Sensitive(g, slot) /\ Len(stores) = 1 -> OneStore(g, slot, stores[1])
    [] OTHER ->
         IF slot.loads = {}
           THEN [k \in DOMAIN stores |-> Removal(stores[k])] \o <<Removal(slot.alloc)>>
           ELSE LastStoreFirst(g.from, slot, Last(stores))

----------------------------------------------------------------------------
\* transform_function: the phi nodes by block, then the slots one by one.
PhisByBlock(phis) ==
  FlattenSeq([k \in DOMAIN Ascending({phis[i].b : i \in DOMAIN phis}) |->
                SelectSeq(phis, LAMBDA phi :
                            phi.b = Ascending({phis[i].b : i \in DOMAIN phis})[k])])

SlotEdits(g, slot, phis) ==
  IF \E i \in DOMAIN phis : phis[i].a = slot.a THEN PhiSupported(g, slot, phis)
  ELSE Simple(g, slot)

Edits(g, slots, phis, byBlock) ==
  [k \in DOMAIN byBlock |->
     PhiInsertion(g, SlotOf(g.from, byBlock[k].a), phis, byBlock[k])]
  \o FlattenSeq([k \in DOMAIN slots |-> SlotEdits(g, slots[k], phis)])

WithPhis(g, slots, phis) == Apply(g.from, Edits(g, slots, phis, PhisByBlock(phis)))

WithSlots(g, slots) ==
  IF \A k \in DOMAIN slots : slots[k].stores = {} THEN g.from
  ELSE WithPhis(g, slots, AllPhis(g, slots))

PromoteOf(g, order) == WithSlots(g, [k \in DOMAIN order |-> SlotOf(g.from, order[k])])

PromoteSlots(g) == PromoteOf(g, Ascending(Promotable(g.from)))
=============================================================================
