------------------------------- MODULE MirRun -------------------------------
(***************************************************************************)
(* Programs are lowered (MirLower), their phi nodes become stores at the   *)
(* end of the preceding blocks (karte-lir/src/lower.rs), and the result is *)
(* run block by block beside the source program (MirSource), both taking   *)
(* the same branches and computing the same values.                        *)
(*                                                                         *)
(* Every value a run moves around comes from one Input.  At most one of    *)
(* them, any, computes 1 and the others 0: two reads that do not go back   *)
(* to the same Input differ in the run that marks one of the two.          *)
(***************************************************************************)
EXTENDS MirLower

CONSTANT Programs   \* function bodies, a sequence

VARIABLES code,     \* the function that runs: its blocks, slots and stores
          blk,      \* the block that comes next, Done at the end
          val,      \* the stack slots of the temporaries
          env,      \* the variables of the source
          left,     \* what is left of the source
          marked,   \* whether the marked value has been computed
          misread,  \* whether a value read was not that of the source
          strayed   \* whether the two did different things

vars == <<code, blk, val, env, left, marked, misread, strayed>>

Done == -1
Junk == 2           \* what a slot holds before it is stored to

\* The temporaries that are read; the others need no slot.
Temps(m) == UNION {{s.s : s \in ToSet(m[b].body)} \cup
                   UNION {{phi.t} \cup {e[2] : e \in phi.in} : phi \in m[b].phis} :
                   b \in DOMAIN m} \ {Input}

\* The stores at the end of a block, one for each phi node of any block that
\* names it.
Stores(m, b) ==
  UNION {UNION {{[t |-> phi.t, v |-> e[2]] : e \in {e \in phi.in : e[1] = b}} :
                phi \in m[d].phis} : d \in DOMAIN m}

Runnable(m) == [blocks |-> m, temps |-> Temps(m), stores |-> [b \in DOMAIN m |-> Stores(m, b)]]

\* left is the source of the function, and code what it is lowered to.
Init ==
  \E p \in DOMAIN Programs :
    /\ left = Programs[p]
    /\ code = Runnable(LowerFunction(Programs[p]))
    /\ blk = 0
    /\ val = [t \in code.temps |-> Junk]
    /\ env = <<>>
    /\ marked = FALSE /\ misread = FALSE /\ strayed = FALSE

\* One statement, beside the next event of the source.
Statement(st, s, new) ==
  LET k == Ahead(st.left)
      matches == /\ k # <<>>
                 /\ Head(k).op \in {"let", "set", "use"}
                 /\ (Head(k).from = Input) <=> (s.s = Input)
      v == IF s.s = Input THEN new ELSE st.val[s.s]
      w == IF s.s = Input THEN new ELSE st.env[Head(k).from]
  IN  IF ~matches THEN [st EXCEPT !.strayed = TRUE]
      ELSE [st EXCEPT !.val = IF s.t \in DOMAIN @ THEN [@ EXCEPT ![s.t] = v] ELSE @,
                      !.env = IF Head(k).op = "use" THEN @ ELSE (Head(k).var :> w) @@ @,
                      !.left = Tail(k),
                      !.misread = @ \/ v # w]

\* The statements of a block, the mark-th computing the marked value.
Statements(b, mark) ==
  FoldLeft(LAMBDA st, i : Statement(st, b.body[i], IF i = mark THEN 1 ELSE 0),
           [val |-> val, env |-> env, left |-> left, misread |-> misread,
            strayed |-> strayed],
           [i \in DOMAIN b.body |-> i])

\* A block that makes the given stores at its end, and then jumps.
RunBlock(b, stores) ==
  \E mark \in {0} \cup IF marked THEN {} ELSE {i \in DOMAIN b.body : b.body[i].s = Input} :
    LET st == Statements(b, mark)
        k  == Ahead(st.left)
        choice == b.op \in {"branch", "match"}
        agrees == IF choice
                    THEN k # <<>> /\ Head(k).op = "choose" /\ Len(Head(k).alts) = Len(b.to)
                    ELSE b.op = "goto" \/ k = <<>>
    IN
    /\ marked' = (marked \/ mark # 0)
    /\ val' = [t \in DOMAIN val |->
                 IF \E s \in stores : s.t = t
                   THEN st.val[(CHOOSE s \in stores : s.t = t).v] ELSE st.val[t]]
    /\ env' = st.env
    /\ misread' = st.misread
    /\ strayed' = (st.strayed \/ ~agrees)
    /\ IF strayed' \/ b.op = "return"
         THEN blk' = Done /\ left' = k
         ELSE \E i \in DOMAIN b.to :
                /\ blk' = b.to[i]
                /\ left' = IF choice THEN Head(k).alts[i] \o Tail(k) ELSE st.left
    /\ UNCHANGED code

Next == blk # Done /\ ~strayed /\ RunBlock(code.blocks[blk], code.stores[blk])

Spec == Init /\ [][Next]_vars

----------------------------------------------------------------------------
(* What the lowering of functions to MIR must keep of the source.         *)

\* A variable that is read, after any branches, iterations, breaks and
\* continues (expr.rs: If, Match, While, ForIn, Break, Continue), has the value
\* the source gave it last.
ReadsAgree == ~misread

\* The blocks do what the source does in its order (expr.rs): the same
\* statements, the same branches, and the function ends where the source ends.
FlowsAgree == ~strayed

\* Any order of the stores has the same outcome.
Commute(stores) ==
  \A s, r \in stores : s # r => s.t # r.t /\ s.t # r.v

\* The stores for phi nodes are made one after the other (karte-lir lower.rs).
\* That is right because no block stores two values to one slot, or stores to
\* a slot that another of its stores reads.
PhiStoresCommute == blk # Done => Commute(code.stores[blk])
============================================================================
