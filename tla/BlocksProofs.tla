------------------------- MODULE BlocksProofs -------------------------
(* Proofs that every block is held exactly once, that no block the       *)
(* program reaches is given away and that the free flag tells the truth, *)
(* for any number of threads and blocks, except that in what a thread    *)
(* was about to return when it ended the flag is wrong and objects may   *)
(* be lost. All of it holds as long as no thread ends while another is   *)
(* there.                                                                *)
EXTENDS Blocks, ListLemmas, FiniteSetTheorems, TLAPS

Boxes == {<<"freeList", None>>, <<"recycleG", None>>, <<"unavailG", None>>}
            \cup ({"recyclable", "unavailable", "eva", "toReturn"} \X Threads)

BlockTypes ==
    /\ current \in Nat
    /\ freeList \in Seq(Nat) /\ recycleG \in Seq(Nat) /\ unavailG \in SUBSET Nat
    /\ recyclable \in [Threads -> Seq(Nat)]
    /\ unavailable \in [Threads -> SUBSET Nat]
    /\ eva \in [Threads -> SUBSET Nat]
    /\ toReturn \in [Threads -> SUBSET Nat]
    /\ pc \in [Threads -> Lists]
    /\ snapshot \in [Threads -> Seq(Nat)]

NoRepeats ==
    /\ Distinct(freeList) /\ Distinct(recycleG)
    /\ \A t \in Threads : Distinct(recyclable[t])

\* The blocks that h says are held in a box of a thread.
HeldAt(h, kind, t) == {b \in 1 .. current : h[b] = <<kind, t>>}

\* h tells of every block where it is.
Held(h) ==
    /\ h \in [1 .. current -> Boxes]
    /\ Range(freeList) = HeldAt(h, "freeList", None)
    /\ Range(recycleG) = HeldAt(h, "recycleG", None)
    /\ unavailG = HeldAt(h, "unavailG", None)
    /\ \A t \in Threads :
        /\ Range(recyclable[t]) = HeldAt(h, "recyclable", t)
        /\ unavailable[t] = HeldAt(h, "unavailable", t)
        /\ eva[t] = HeldAt(h, "eva", t)
        /\ toReturn[t] = HeldAt(h, "toReturn", t)

Waiting == {"freeList", "eva", "toReturn"}
Used == {"recyclable", "unavailable", "recycleG", "unavailG"}

\* What the free flags say, what the program reaches, and what is marked when
\* the sweep begins.
Kept(h) ==
    /\ \A b \in free \cup handed \cup live : b \in 1 .. current
    /\ \A b \in 1 .. current : b \in free <=> h[b][1] \in Waiting \/ b \in handed
    /\ \A b \in live \ handed : h[b][1] \in Used
    /\ \A t \in Threads, b \in live \ handed :
        pc[t] = "sweep" /\ h[b] \in {<<"recyclable", t>>, <<"unavailable", t>>} => b \in marked

\* Who is there, and what an ending thread saw of the free list.
CrewInv ==
    /\ \A t \in Threads : pc[t] # "out" => t \in crew.threads
    /\ \A t \in Threads : pc[t] \in {"leave", "push"} => t \in crew.leavers
    /\ \A t \in Threads : pc[t] = "push" => snapshot[t] = freeList

BlocksInv ==
    /\ BlockTypes /\ NoRepeats /\ CrewInv
    /\ \E h \in [1 .. current -> Boxes] : Held(h) /\ Kept(h)

\* What a collecting thread had to return, it has returned.
Returned == \A t \in Threads : pc[t] \in {"mark", "evacuate", "carveEvacuate", "sweep"} => toReturn[t] = {}

Inv == crew \in Crews /\ (Orderly => BlocksInv /\ Returned)

-----------------------------------------------------------------------
(* Where a block is, and who moves it.                                   *)

\* The blocks in order of their addresses, each once.
LEMMA AscendingLists ==
    ASSUME NEW n \in Nat, NEW S \in SUBSET (1..n)
    PROVE  Ascending(S) \in Seq(Nat) /\ Distinct(Ascending(S)) /\ Range(Ascending(S)) = S
<1> DEFINE N == Cardinality(S)
           Below(b) == {c \in S : c <= b}
           rank == [b \in S |-> Cardinality(Below(b))]
<1>1. IsFiniteSet(S) /\ N \in Nat
  <2>1. IsFiniteSet(1..n)
    BY FS_Interval
  <2>2. IsFiniteSet(S)
    BY <2>1, FS_Subset
  <2> QED  BY <2>2, FS_CardinalityType
<1>2. ASSUME NEW b \in S PROVE b \in Nat
  OBVIOUS
<1>3. ASSUME NEW b \in S PROVE IsFiniteSet(Below(b)) /\ Cardinality(Below(b)) \in 1..N
  <2>1. Below(b) \in SUBSET S /\ b \in Below(b)
    BY <1>2
  <2>2. IsFiniteSet(Below(b)) /\ Cardinality(Below(b)) <= N
    BY <1>1, <2>1, FS_Subset
  <2>3. Cardinality(Below(b)) \in Nat /\ Cardinality(Below(b)) # 0
    BY <2>1, <2>2, FS_CardinalityType, FS_EmptySet
  <2> QED  BY <1>1, <2>2, <2>3
<1>4. ASSUME NEW b \in S, NEW c \in S, b < c PROVE Cardinality(Below(b)) # Cardinality(Below(c))
  <2>1. \A x \in Below(b) : x \in Below(c)
    BY <1>2, <1>4
  <2>2. c \in Below(c) /\ c \notin Below(b)
    BY <1>2, <1>4
  <2>3. Below(b) \in SUBSET Below(c) /\ Below(b) # Below(c)
    BY <2>1, <2>2
  <2> QED  BY <1>3, <2>3, FS_Subset
<1>5. rank \in Surjection(S, 1..N)
  <2>1. IsFiniteSet(1..N) /\ Cardinality(1..N) = N
    BY <1>1, FS_Interval
  <2>2. rank \in [S -> 1..N]
    BY <1>3
  <2>3. \A b, c \in S : rank[b] = rank[c] => b = c
    BY <1>2, <1>4
  <2>4. rank \in Injection(S, 1..N)
    BY <2>2, <2>3 DEF Injection, IsInjective
  <2> QED  BY <1>1, <2>1, <2>4, FS_Injection
<1>6. ASSUME NEW i \in 1..N PROVE \E b \in S : Cardinality(Below(b)) = i
  BY <1>5 DEF Surjection
<1> DEFINE s == Ascending(S)
<1>7. s = [i \in 1..N |-> CHOOSE b \in S : Cardinality(Below(b)) = i]
  BY DEF Ascending
<1> HIDE DEF s
<1>8. ASSUME NEW i \in 1..N PROVE s[i] \in S /\ Cardinality(Below(s[i])) = i
  BY <1>6, <1>7
<1> HIDE DEF N, Below, rank
<1>9. s \in Seq(Nat) /\ DOMAIN s = 1..N
  <2>1. DOMAIN s = 1..N /\ s = [i \in 1..N |-> s[i]]
    BY <1>7
  <2>2. \A i \in 1..N : s[i] \in Nat
    BY <1>2, <1>8
  <2>3. s \in [1..N -> Nat]
    BY <2>1, <2>2
  <2> QED  BY <1>1, <2>1, <2>3
<1>10. Distinct(s)
  BY <1>8, <1>9 DEF Distinct
<1>11. Range(s) = S
  <2>1. ASSUME NEW b \in S PROVE \E i \in 1..N : s[i] = b
    <3>1. PICK i \in 1..N : i = Cardinality(Below(b))
      BY <1>3
    <3>2. s[i] \in S /\ Cardinality(Below(s[i])) = i
      BY <1>8
    <3>3. ~(s[i] < b) /\ ~(b < s[i])
      BY <1>4, <3>1, <3>2
    <3>4. s[i] \in Nat /\ b \in Nat
      BY <1>2, <3>2
    <3> QED  BY <3>3, <3>4
  <2> QED  BY <1>8, <1>9, <2>1 DEF Range
<1> QED  BY <1>9, <1>10, <1>11 DEF s

LEMMA HeldFacts ==
    ASSUME NEW h, Held(h)
    PROVE  /\ h \in [1 .. current -> Boxes]
           /\ \A b : b \in Range(freeList) <=> b \in 1..current /\ h[b] = <<"freeList", None>>
           /\ \A b : b \in Range(recycleG) <=> b \in 1..current /\ h[b] = <<"recycleG", None>>
           /\ \A b : b \in unavailG <=> b \in 1..current /\ h[b] = <<"unavailG", None>>
           /\ \A t \in Threads : \A b :
                /\ b \in Range(recyclable[t]) <=> b \in 1..current /\ h[b] = <<"recyclable", t>>
                /\ b \in unavailable[t] <=> b \in 1..current /\ h[b] = <<"unavailable", t>>
                /\ b \in eva[t] <=> b \in 1..current /\ h[b] = <<"eva", t>>
                /\ b \in toReturn[t] <=> b \in 1..current /\ h[b] = <<"toReturn", t>>
BY DEF Held, HeldAt

Kinds == {"recyclable", "unavailable", "eva", "toReturn"}

\* A step of t takes the blocks from where h says they are to where g says
\* they are: only what t holds, and what nobody holds, moves.
Elsewhere(h, g, t) ==
    \A u \in Threads \ {t} :
        /\ recyclable'[u] = recyclable[u] /\ unavailable'[u] = unavailable[u]
        /\ eva'[u] = eva[u] /\ toReturn'[u] = toReturn[u]
        /\ \A kind \in Kinds : \A b : (b \in 1..current' /\ g[b] = <<kind, u>>) <=> (b \in 1..current /\ h[b] = <<kind, u>>)

Nobodys(g) ==
    /\ \A b : b \in Range(freeList') <=> (b \in 1..current' /\ g[b] = <<"freeList", None>>)
    /\ \A b : b \in Range(recycleG') <=> (b \in 1..current' /\ g[b] = <<"recycleG", None>>)
    /\ \A b : b \in unavailG' <=> (b \in 1..current' /\ g[b] = <<"unavailG", None>>)

Own(g, t) ==
    /\ \A b : b \in Range(recyclable'[t]) <=> (b \in 1..current' /\ g[b] = <<"recyclable", t>>)
    /\ \A b : b \in unavailable'[t] <=> (b \in 1..current' /\ g[b] = <<"unavailable", t>>)
    /\ \A b : b \in eva'[t] <=> (b \in 1..current' /\ g[b] = <<"eva", t>>)
    /\ \A b : b \in toReturn'[t] <=> (b \in 1..current' /\ g[b] = <<"toReturn", t>>)

LEMMA Rearranged ==
    ASSUME NEW h, Held(h), NEW t \in Threads, NEW g \in [1 .. current' -> Boxes],
           Elsewhere(h, g, t), Nobodys(g), Own(g, t)
    PROVE  Held(g)'
<1>1. ASSUME NEW u \in Threads
      PROVE  /\ Range(recyclable'[u]) = HeldAt(g, "recyclable", u)'
             /\ unavailable'[u] = HeldAt(g, "unavailable", u)'
             /\ eva'[u] = HeldAt(g, "eva", u)'
             /\ toReturn'[u] = HeldAt(g, "toReturn", u)'
  <2>1. CASE u = t
    BY <2>1 DEF HeldAt, Own
  <2>2. CASE u # t
    <3>1. /\ recyclable'[u] = recyclable[u] /\ unavailable'[u] = unavailable[u]
          /\ eva'[u] = eva[u] /\ toReturn'[u] = toReturn[u]
      BY <2>2 DEF Elsewhere
    <3>2. \A kind \in Kinds : \A b :
                b \in 1..current' /\ g[b] = <<kind, u>> <=> b \in 1..current /\ h[b] = <<kind, u>>
      BY <2>2 DEF Elsewhere
    <3>3. \A kind \in Kinds : HeldAt(g, kind, u)' = HeldAt(h, kind, u)
      BY <3>2 DEF HeldAt
    <3>4. /\ Range(recyclable[u]) = HeldAt(h, "recyclable", u) /\ unavailable[u] = HeldAt(h, "unavailable", u)
          /\ eva[u] = HeldAt(h, "eva", u) /\ toReturn[u] = HeldAt(h, "toReturn", u)
      BY DEF Held
    <3> QED  BY <3>1, <3>3, <3>4 DEF Kinds
  <2> QED  BY <2>1, <2>2
<1>2. /\ Range(freeList') = HeldAt(g, "freeList", None)' /\ Range(recycleG') = HeldAt(g, "recycleG", None)'
      /\ unavailG' = HeldAt(g, "unavailG", None)'
  BY DEF HeldAt, Nobodys
<1> QED  BY <1>1, <1>2 DEF Held

\* A step of a thread of the crew: no other is about to store the cursor.
LEMMA CrewStep ==
    ASSUME crew \in Crews, Orderly, CrewInv, BlockTypes, NEW t \in crew.threads, NEW where \in Lists,
           pc' = [pc EXCEPT ![t] = where], UNCHANGED crew,
           where \in {"leave", "push"} => t \in crew.leavers,
           where = "push" => snapshot'[t] = freeList'
    PROVE  CrewInv' /\ t \in Threads /\ pc' \in [Threads -> Lists]
           /\ pc'[t] = where /\ \A u \in Threads \ {t} : pc'[u] = pc[u]
<1>1. crew.threads \subseteq Threads /\ crew.leavers \subseteq crew.threads
  BY CrewsAssumption
<1>2. t \in Threads
  BY <1>1
<1>3. pc' \in [Threads -> Lists] /\ pc'[t] = where /\ \A u \in Threads \ {t} : pc'[u] = pc[u]
  BY <1>2 DEF BlockTypes
<1>4. ASSUME NEW u \in Threads \ {t} PROVE pc[u] # "push"
  <2> SUFFICES ASSUME pc[u] = "push" PROVE FALSE
    OBVIOUS
  <2>1. u \in crew.leavers /\ u \in crew.threads
    BY <1>1 DEF CrewInv
  <2>2. PICK x \in Threads : crew.threads = {x}
    BY <2>1 DEF Orderly
  <2> QED  BY <2>1, <2>2
<1>5. CrewInv'
  BY <1>2, <1>3, <1>4 DEF CrewInv
<1> QED  BY <1>2, <1>3, <1>5

Base == crew \in Crews /\ Orderly /\ BlocksInv

\* h accounts for the blocks, their flags and what is in them.
Accounts(h) == Held(h) /\ Kept(h)

\* A thread goes on: no list changes, new objects are in its own blocks.
LEMMA GoesOnAlone ==
    ASSUME Base, NEW t \in crew.threads, NEW where \in Lists \ {"sweep"},
           pc' = [pc EXCEPT ![t] = where],
           where \in {"leave", "push"} => t \in crew.leavers,
           where = "push" => snapshot'[t] = freeList',
           UNCHANGED <<crew, current, freeList, globals, lists, free, handed>>,
           snapshot' \in [Threads -> Seq(Nat)],
           live' \subseteq live \cup Range(recyclable[t]), marked \subseteq marked'
    PROVE  BlocksInv'
<1>1. PICK h : Accounts(h) /\ h \in [1..current -> Boxes]
  BY DEF Base, BlocksInv, Accounts
<1>2. CrewInv' /\ t \in Threads /\ pc' \in [Threads -> Lists]
      /\ pc'[t] = where /\ \A u \in Threads \ {t} : pc'[u] = pc[u]
  BY CrewStep DEF Base, BlocksInv
<1>3. BlockTypes' /\ NoRepeats'
  BY <1>2 DEF Base, BlocksInv, BlockTypes, NoRepeats, globals, lists
<1>4. Held(h)'
  BY <1>1 DEF Accounts, Held, HeldAt, globals, lists
<1>5. Kept(h)'
  <2>1. Kept(h) /\ Held(h)
    BY <1>1 DEF Accounts
  <2>2. \A b \in Range(recyclable[t]) : b \in 1..current /\ h[b] = <<"recyclable", t>>
    BY <1>2, <2>1, HeldFacts
  <2>3. \A b \in live' : b \in live \/ (b \in 1..current /\ h[b] = <<"recyclable", t>>)
    BY <2>2
  <2>4. /\ \A b \in live' : b \in 1 .. current
        /\ \A b \in live' \ handed : h[b][1] \in Used
    BY <2>1, <2>3 DEF Kept, Used
  <2>5. ASSUME NEW u \in Threads, NEW b \in live' \ handed, pc'[u] = "sweep",
               h[b] \in {<<"recyclable", u>>, <<"unavailable", u>>}
        PROVE  b \in marked'
    <3>1. u # t /\ pc[u] = "sweep"
      BY <1>2, <2>5
    <3>2. b \in live
      BY <2>3, <2>5, <3>1
    <3> QED  BY <2>1, <2>5, <3>1, <3>2 DEF Kept
  <2> QED  BY <2>1, <2>4, <2>5 DEF Kept
<1> QED  BY <1>1, <1>2, <1>3, <1>4, <1>5 DEF BlocksInv

Taking == {"alloc", "carveAlloc", "evacuate", "carveEvacuate", "refill", "carveRefill"}

\* A thread that waits for a block takes one: out of the free list, of its
\* own reserve, or a new one.
LEMMA Takes ==
    ASSUME Base, NEW t \in Threads, NEW b \in Nat, NEW h, Accounts(h),
           pc[t] \in Taking, TakeBlock(t, b),
           UNCHANGED <<crew, globals, unavailable, snapshot>>,
           freeList' \in Seq(Nat), Distinct(freeList'), Range(freeList') = Range(freeList) \ {b},
           eva' = [eva EXCEPT ![t] = @ \ {b}], toReturn' = [toReturn EXCEPT ![t] = @ \ {b}],
           current' \in Nat, \A x : x \in 1..current' <=> x \in 1..current \/ x = b,
           b \in 1..current => h[b] \in {<<"freeList", None>>, <<"eva", t>>, <<"toReturn", t>>}
    PROVE  BlocksInv'
<1>1. Held(h) /\ BlockTypes /\ NoRepeats /\ CrewInv /\ t \in crew.threads
  BY DEF Base, BlocksInv, Accounts, CrewInv, Taking
<1>2. PICK where \in {"run", "mark"} : pc' = [pc EXCEPT ![t] = where]
  BY DEF TakeBlock, Place, Resume, Goto, Taking
<1>3. CrewInv' /\ pc' \in [Threads -> Lists] /\ pc'[t] = where
      /\ \A u \in Threads \ {t} : pc'[u] = pc[u]
  BY <1>1, <1>2, CrewStep DEF Base, Lists
<1> PICK g : g = [x \in 1..current' |-> IF x = b THEN <<"recyclable", t>> ELSE h[x]]
  OBVIOUS
<1>4. /\ h \in [1 .. current -> Boxes]
      /\ \A x : x \in Range(freeList) <=> x \in 1..current /\ h[x] = <<"freeList", None>>
      /\ \A x : x \in Range(recycleG) <=> x \in 1..current /\ h[x] = <<"recycleG", None>>
      /\ \A x : x \in unavailG <=> x \in 1..current /\ h[x] = <<"unavailG", None>>
      /\ \A x : /\ x \in Range(recyclable[t]) <=> x \in 1..current /\ h[x] = <<"recyclable", t>>
                /\ x \in unavailable[t] <=> x \in 1..current /\ h[x] = <<"unavailable", t>>
                /\ x \in eva[t] <=> x \in 1..current /\ h[x] = <<"eva", t>>
                /\ x \in toReturn[t] <=> x \in 1..current /\ h[x] = <<"toReturn", t>>
  BY <1>1, HeldFacts
<1>5. /\ g \in [1..current' -> Boxes] /\ b \in 1..current' /\ g[b] = <<"recyclable", t>>
      /\ \A x : x \in 1..current' /\ x # b <=> x \in 1..current /\ x # b
      /\ \A x \in 1..current' : x # b => g[x] = h[x]
  BY <1>4 DEF Boxes
<1>6. recyclable' = [recyclable EXCEPT ![t] = Append(recyclable[t], b)]
  BY DEF TakeBlock
<1>7. b \notin Range(recyclable[t])
  BY <1>4
<1> DEFINE q == recyclable[t]
<1>8. q \in Seq(Nat) /\ Distinct(q)
  BY <1>1 DEF BlockTypes, NoRepeats
<1>9. Append(q, b) \in Seq(Nat) /\ Range(Append(q, b)) = Range(q) \cup {b} /\ Distinct(Append(q, b))
  <2> HIDE DEF q
  <2>1. b \notin Range(q)
    BY <1>7 DEF q
  <2> QED  BY <1>8, <2>1, AppendDistinct
<1>10. recyclable'[t] = Append(q, b) /\ \A u \in Threads \ {t} : recyclable'[u] = recyclable[u]
  BY <1>1, <1>6 DEF BlockTypes
<1>11. /\ eva'[t] = eva[t] \ {b} /\ toReturn'[t] = toReturn[t] \ {b} /\ unavailable' = unavailable
       /\ \A u \in Threads \ {t} : eva'[u] = eva[u] /\ toReturn'[u] = toReturn[u]
  BY <1>1 DEF BlockTypes
<1>12. BlockTypes'
  <2>1. recyclable' \in [Threads -> Seq(Nat)]
    BY <1>1, <1>6, <1>9 DEF BlockTypes
  <2>2. eva' \in [Threads -> SUBSET Nat] /\ toReturn' \in [Threads -> SUBSET Nat]
    BY <1>1 DEF BlockTypes
  <2> QED  BY <1>1, <1>3, <2>1, <2>2 DEF BlockTypes, globals
<1>13. NoRepeats'
  BY <1>1, <1>9, <1>10 DEF NoRepeats, globals
<1>14. Held(g)'
  <2>1. \A u \in Threads \ {t}, kind \in Kinds : \A x :
                x \in 1..current' /\ g[x] = <<kind, u>> <=> x \in 1..current /\ h[x] = <<kind, u>>
    <3> SUFFICES ASSUME NEW u \in Threads \ {t}, NEW kind \in Kinds, NEW x
                 PROVE  x \in 1..current' /\ g[x] = <<kind, u>> <=> x \in 1..current /\ h[x] = <<kind, u>>
      OBVIOUS
    <3>1. CASE x = b
      BY <1>5, <3>1 DEF Kinds
    <3>2. CASE x # b
      BY <1>5, <3>2
    <3> QED  BY <3>1, <3>2
  <2>2. /\ \A x : x \in Range(freeList') <=> x \in 1..current' /\ g[x] = <<"freeList", None>>
        /\ \A x : x \in Range(recycleG') <=> x \in 1..current' /\ g[x] = <<"recycleG", None>>
        /\ \A x : x \in unavailG' <=> x \in 1..current' /\ g[x] = <<"unavailG", None>>
    <3>1. \A x : x # b => /\ x \in Range(freeList') <=> x \in Range(freeList)
                          /\ x \in Range(recycleG') <=> x \in Range(recycleG)
                          /\ x \in unavailG' <=> x \in unavailG
      BY DEF globals
    <3>2. b \notin Range(freeList') /\ b \notin Range(recycleG') /\ b \notin unavailG'
      BY <1>4 DEF globals
    <3> QED  BY <1>4, <1>5, <3>1, <3>2
  <2>3. \A x : x \in Range(recyclable'[t]) <=> x \in 1..current' /\ g[x] = <<"recyclable", t>>
    BY <1>4, <1>5, <1>9, <1>10
  <2>4. /\ \A x : x \in unavailable'[t] <=> x \in 1..current' /\ g[x] = <<"unavailable", t>>
        /\ \A x : x \in eva'[t] <=> x \in 1..current' /\ g[x] = <<"eva", t>>
        /\ \A x : x \in toReturn'[t] <=> x \in 1..current' /\ g[x] = <<"toReturn", t>>
    <3>1. \A x : x # b => /\ x \in eva'[t] <=> x \in eva[t]
                          /\ x \in toReturn'[t] <=> x \in toReturn[t]
      BY <1>11
    <3>2. b \notin unavailable'[t] /\ b \notin eva'[t] /\ b \notin toReturn'[t]
      BY <1>4, <1>11
    <3> QED  BY <1>4, <1>5, <1>11, <3>1, <3>2
  <2>5. \A u \in Threads \ {t} : /\ recyclable'[u] = recyclable[u] /\ unavailable'[u] = unavailable[u]
                                 /\ eva'[u] = eva[u] /\ toReturn'[u] = toReturn[u]
    BY <1>10, <1>11
  <2>6. Held(h) /\ g \in [1..current' -> Boxes]
    BY <1>1, <1>5
  <2>7. Elsewhere(h, g, t)
    BY <2>1, <2>5 DEF Elsewhere
  <2>8. Nobodys(g) /\ Own(g, t)
    BY <2>2, <2>3, <2>4 DEF Nobodys, Own
  <2> QED  BY <2>6, <2>7, <2>8, Rearranged
<1>15. Kept(g)'
  <2>1. Kept(h)
    BY DEF Accounts
  <2>2. free' = free \ {b} /\ handed' = handed \ {b}
    BY DEF TakeBlock
  <2>3. live' \subseteq live \cup {b} /\ \A x \in marked : x # b => x \in marked'
    BY DEF TakeBlock, Place
  <2>4. \A x \in free' \cup handed' \cup live' : x \in 1 .. current'
    BY <1>5, <2>1, <2>2, <2>3 DEF Kept
  <2>5. \A x \in 1..current' : x \in free' <=> g[x][1] \in Waiting \/ x \in handed'
    BY <1>5, <2>1, <2>2 DEF Kept, Waiting
  <2>6. \A x \in live' \ handed' : g[x][1] \in Used
    <3>1. ASSUME NEW x \in live' \ handed', x # b PROVE g[x][1] \in Used
      <4>1. x \in live \ handed /\ x \in 1..current
        BY <2>1, <2>2, <2>3, <3>1 DEF Kept
      <4> QED  BY <1>5, <2>1, <3>1, <4>1 DEF Kept
    <3> QED  BY <1>5, <3>1 DEF Used
  <2>7. ASSUME NEW u \in Threads, NEW x \in live' \ handed', pc'[u] = "sweep",
               g[x] \in {<<"recyclable", u>>, <<"unavailable", u>>}
        PROVE  x \in marked'
    <3>1. u # t /\ pc[u] = "sweep"
      BY <1>2, <1>3, <2>7
    <3>2. x # b
      BY <1>5, <2>7, <3>1
    <3>3. x \in live \ handed /\ h[x] = g[x]
      BY <1>5, <2>2, <2>3, <2>4, <3>2
    <3> QED  BY <2>1, <2>3, <2>7, <3>1, <3>2, <3>3 DEF Kept
  <2> QED  BY <2>4, <2>5, <2>6, <2>7 DEF Kept
<1> QED  BY <1>3, <1>5, <1>12, <1>13, <1>14, <1>15 DEF BlocksInv

LEMMA Account ==
    ASSUME Base
    PROVE  \E h : Accounts(h)
BY DEF Base, BlocksInv, Accounts

LEMMA TakesHeadRoom ==
    ASSUME Base, NEW t \in Threads, FromHeadRoom(t)
    PROVE  BlocksInv'
<1>1. PICK h : Accounts(h)
  BY Account
<1>2. PICK b \in eva[t] : eva' = [eva EXCEPT ![t] = @ \ {b}] /\ TakeBlock(t, b)
  BY DEF FromHeadRoom
<1>3. b \in 1..current /\ h[b] = <<"eva", t>> /\ b \notin Range(freeList) /\ b \notin toReturn[t]
  BY <1>1, <1>2, HeldFacts DEF Accounts
<1>4. pc[t] \in Taking
  BY DEF FromHeadRoom, WantsBlock, Allocating, FrontUsable, Taking
<1>5. /\ UNCHANGED <<crew, globals, unavailable, snapshot>> /\ current' = current
      /\ freeList' = freeList /\ toReturn' = toReturn
  BY DEF FromHeadRoom
<1>6. /\ freeList \in Seq(Nat) /\ Distinct(freeList) /\ current \in Nat
      /\ toReturn \in [Threads -> SUBSET Nat]
  BY DEF Base, BlocksInv, BlockTypes, NoRepeats
<1>7. toReturn' = [toReturn EXCEPT ![t] = @ \ {b}]
  BY <1>3, <1>5, <1>6
<1>8. Range(freeList) \ {b} = Range(freeList)
  BY <1>3
<1>9. b \in Nat
  BY <1>3, <1>6
<1> QED  BY <1>1, <1>2, <1>3, <1>4, <1>5, <1>6, <1>7, <1>8, <1>9, Takes

LEMMA TakesToReturn ==
    ASSUME Base, NEW t \in Threads, FromToReturn(t)
    PROVE  BlocksInv'
<1>1. PICK h : Accounts(h)
  BY Account
<1>2. PICK b : b = Max(toReturn[t])
  OBVIOUS
<1>3. /\ freeList \in Seq(Nat) /\ Distinct(freeList) /\ current \in Nat
      /\ eva \in [Threads -> SUBSET Nat]
  BY DEF Base, BlocksInv, BlockTypes, NoRepeats
<1>4. \A x \in toReturn[t] : x \in 1..current
  BY <1>1, HeldFacts DEF Accounts
<1>5. b \in toReturn[t]
  <2>1. toReturn[t] \subseteq 1..current /\ toReturn[t] # {}
    BY <1>4 DEF FromToReturn
  <2> QED  BY <1>2, <1>3, <2>1, MaxIsMember
<1>6. b \in 1..current /\ h[b] = <<"toReturn", t>> /\ b \notin Range(freeList) /\ b \notin eva[t]
  BY <1>1, <1>5, HeldFacts DEF Accounts
<1>7. pc[t] \in Taking
  BY DEF FromToReturn, WantsBlock, Allocating, FrontUsable, Taking
<1>8. /\ UNCHANGED <<crew, globals, unavailable, snapshot>> /\ current' = current
      /\ freeList' = freeList /\ eva' = eva /\ TakeBlock(t, b)
      /\ toReturn' = [toReturn EXCEPT ![t] = @ \ {b}]
  BY <1>2 DEF FromToReturn
<1>9. eva' = [eva EXCEPT ![t] = @ \ {b}]
  BY <1>3, <1>6, <1>8
<1>10. Range(freeList) \ {b} = Range(freeList)
  BY <1>6
<1>11. b \in Nat
  BY <1>3, <1>6
<1> QED  BY <1>1, <1>3, <1>6, <1>7, <1>8, <1>9, <1>10, <1>11, Takes

LEMMA TakesFromList ==
    ASSUME Base, NEW t \in Threads, FromFreeList(t)
    PROVE  BlocksInv'
<1>1. PICK h : Accounts(h)
  BY Account
<1>2. PICK b : b = Last(freeList)
  OBVIOUS
<1>3. /\ freeList \in Seq(Nat) /\ Distinct(freeList) /\ current \in Nat /\ freeList # <<>>
      /\ eva \in [Threads -> SUBSET Nat] /\ toReturn \in [Threads -> SUBSET Nat]
  BY DEF Base, BlocksInv, BlockTypes, NoRepeats, FromFreeList
<1>4. /\ b \in Range(freeList) /\ Front(freeList) \in Seq(Nat) /\ Distinct(Front(freeList))
      /\ Range(Front(freeList)) = Range(freeList) \ {b}
  BY <1>2, <1>3, FrontDistinct
<1>5. b \in 1..current /\ h[b] = <<"freeList", None>> /\ b \notin eva[t] /\ b \notin toReturn[t]
  BY <1>1, <1>4, HeldFacts DEF Accounts
<1>6. pc[t] \in Taking
  BY DEF FromFreeList, WantsBlock, Allocating, FrontUsable, Taking
<1>7. /\ UNCHANGED <<crew, globals, unavailable, snapshot>> /\ current' = current
      /\ freeList' = Front(freeList) /\ eva' = eva /\ toReturn' = toReturn /\ TakeBlock(t, b)
  BY <1>2 DEF FromFreeList
<1>8. eva' = [eva EXCEPT ![t] = @ \ {b}] /\ toReturn' = [toReturn EXCEPT ![t] = @ \ {b}]
  BY <1>3, <1>5, <1>7
<1>9. b \in Nat
  BY <1>3, <1>5
<1> QED  BY <1>1, <1>3, <1>4, <1>5, <1>6, <1>7, <1>8, <1>9, Takes

LEMMA TakesNew ==
    ASSUME Base, NEW t \in Threads, Carve(t)
    PROVE  BlocksInv'
<1>1. PICK h : Accounts(h)
  BY Account
<1>2. /\ freeList \in Seq(Nat) /\ Distinct(freeList) /\ current \in Nat
      /\ eva \in [Threads -> SUBSET Nat] /\ toReturn \in [Threads -> SUBSET Nat]
  BY DEF Base, BlocksInv, BlockTypes, NoRepeats
<1>3. PICK b \in Nat : b = current + 1
  BY <1>2
<1>4. b \notin 1..current /\ \A x : x \in 1..b <=> (x \in 1..current \/ x = b)
  BY <1>2, <1>3
<1>5. b \notin Range(freeList) /\ b \notin eva[t] /\ b \notin toReturn[t]
  BY <1>1, <1>4, HeldFacts DEF Accounts
<1>6. pc[t] \in Taking
  BY DEF Carve, Taking
<1>7. /\ UNCHANGED <<crew, globals, unavailable, snapshot>> /\ current' = b
      /\ freeList' = freeList /\ eva' = eva /\ toReturn' = toReturn /\ TakeBlock(t, b)
  BY <1>3 DEF Carve
<1>8. eva' = [eva EXCEPT ![t] = @ \ {b}] /\ toReturn' = [toReturn EXCEPT ![t] = @ \ {b}]
  BY <1>2, <1>5, <1>7
<1>9. Range(freeList) \ {b} = Range(freeList)
  BY <1>5
<1> QED  BY <1>1, <1>2, <1>4, <1>6, <1>7, <1>8, <1>9, Takes

\* The steps that move no block.
LEMMA NothingMoves ==
    ASSUME Base, NEW t \in Threads,
           \/ StartAlloc(t) \/ Fits(t) \/ CheckHeapEnd(t) \/ OutOfMemory(t)
           \/ Join(t) \/ PushLoad(t) \/ Left(t) \/ Stop(t)
           \/ \E b \in live : MarkInPlace(t, b) \/ Evacuate(t, b)
    PROVE  BlocksInv'
<1>1. /\ CrewInv /\ snapshot \in [Threads -> Seq(Nat)] /\ freeList \in Seq(Nat)
      /\ pc \in [Threads -> Lists] /\ recyclable \in [Threads -> Seq(Nat)]
  BY DEF Base, BlocksInv, BlockTypes
<1>2. t \in crew.threads
  <2>1. pc[t] # "out" \/ Join(t)
    BY DEF StartAlloc, Fits, FrontUsable, CheckHeapEnd, WantsBlock, Allocating, OutOfMemory,
           PushLoad, Left, Stop, MarkInPlace, Evacuate
  <2> QED  BY <1>1, <2>1 DEF CrewInv, Join
<1>3. CASE StartAlloc(t) \/ OutOfMemory(t) \/ Join(t) \/ Left(t)
  <2>1. \E where \in {"alloc", "run", "out"} : pc' = [pc EXCEPT ![t] = where]
    BY <1>3 DEF StartAlloc, OutOfMemory, Join, Left, Goto
  <2>2. UNCHANGED <<crew, current, freeList, globals, lists, flags, from, snapshot>>
    BY <1>3 DEF StartAlloc, OutOfMemory, Join, Left
  <2> QED  BY <1>1, <1>2, <2>1, <2>2, GoesOnAlone DEF flags, Lists
<1>4. CASE Fits(t)
  <2>1. \E where \in {"run", "mark"} : pc' = [pc EXCEPT ![t] = where]
    BY <1>4 DEF Fits, FrontUsable, Allocating, Resume, Goto
  <2>2. recyclable[t] \in Seq(Nat) /\ recyclable[t] # <<>>
    BY <1>1, <1>4 DEF Fits, FrontUsable
  <2> DEFINE q == recyclable[t]
  <2>3. Head(q) \in Range(q)
    <3> HIDE DEF q
    <3>1. q \in Seq(Nat) /\ q # <<>>
      BY <2>2 DEF q
    <3>2. 1 \in 1..Len(q) /\ Head(q) = q[1]
      BY <3>1
    <3> QED  BY <3>1, <3>2, InRange
  <2>4. live' \subseteq live \cup Range(recyclable[t]) /\ marked \subseteq marked'
    BY <1>4, <2>3 DEF Fits
  <2>5. UNCHANGED <<crew, current, freeList, globals, lists, free, handed, snapshot>>
    BY <1>4 DEF Fits
  <2> QED  BY <1>1, <1>2, <2>1, <2>4, <2>5, GoesOnAlone DEF Lists
<1>5. CASE CheckHeapEnd(t)
  <2>1. \E where \in {"carveAlloc", "carveEvacuate", "carveRefill"} : pc' = [pc EXCEPT ![t] = where]
    BY <1>5 DEF CheckHeapEnd, WantsBlock, FrontUsable, Allocating, CarveTo, Goto
  <2>2. UNCHANGED <<crew, current, freeList, globals, lists, flags, from, snapshot>>
    BY <1>5 DEF CheckHeapEnd
  <2> QED  BY <1>1, <1>2, <2>1, <2>2, GoesOnAlone DEF flags, Lists
<1>6. CASE PushLoad(t)
  <2>1. pc' = [pc EXCEPT ![t] = "push"] /\ t \in crew.leavers
    BY <1>1, <1>6 DEF PushLoad, Goto, CrewInv
  <2>2. /\ UNCHANGED <<crew, current, freeList, globals, lists, flags>>
        /\ snapshot' = [snapshot EXCEPT ![t] = freeList]
    BY <1>6 DEF PushLoad
  <2>3. snapshot' \in [Threads -> Seq(Nat)] /\ snapshot'[t] = freeList'
    BY <1>1, <2>2
  <2> QED  BY <1>2, <2>1, <2>2, <2>3, GoesOnAlone DEF flags, Lists
<1>7. CASE Stop(t)
  <2>1. pc' = [pc EXCEPT ![t] = "stopped"]
    BY <1>7 DEF Stop, Goto
  <2>2. UNCHANGED <<crew, current, freeList, globals, lists, free, handed, marked, live, snapshot>>
    BY <1>7 DEF Stop
  <2> QED  BY <1>1, <1>2, <2>1, <2>2, GoesOnAlone DEF Lists
<1>8. CASE \E b \in live : MarkInPlace(t, b) \/ Evacuate(t, b)
  <2>1. \E where \in {"mark", "evacuate"} : pc' = [pc EXCEPT ![t] = where]
    <3>1. CASE \E b \in live : MarkInPlace(t, b)
      <4>1. pc[t] = "mark" /\ pc' = pc
        BY <3>1 DEF MarkInPlace
      <4> QED  BY <1>1, <4>1
    <3>2. CASE \E b \in live : Evacuate(t, b)
      BY <3>2 DEF Evacuate, Goto
    <3> QED  BY <1>8, <3>1, <3>2
  <2>2. UNCHANGED <<crew, current, freeList, globals, lists, free, handed, live, snapshot>> /\ marked \subseteq marked'
    BY <1>8 DEF MarkInPlace, Evacuate, flags
  <2> QED  BY <1>1, <1>2, <2>1, <2>2, GoesOnAlone DEF Lists
<1> QED  BY <1>3, <1>4, <1>5, <1>6, <1>7, <1>8

\* Every thread is out, or goes from the marking to the sweep, when nothing
\* is left to mark.
LEMMA MarkingEnded ==
    ASSUME Base, EndMarking
    PROVE  BlocksInv'
<1>1. PICK h : Accounts(h) /\ h \in [1..current -> Boxes]
  BY DEF Base, BlocksInv, Accounts
<1>2. /\ UNCHANGED <<crew, current, freeList, globals, lists, flags, snapshot>>
      /\ pc \in [Threads -> Lists] /\ \A t \in Threads : pc[t] \in {"out", "mark"}
      /\ \A t \in Threads : pc'[t] = IF pc[t] = "mark" THEN "sweep" ELSE pc[t]
      /\ pc' \in [Threads -> Lists] /\ \A b \in live : ~Seen(b)
  BY DEF EndMarking, Base, BlocksInv, BlockTypes, Lists
<1>3. BlockTypes' /\ NoRepeats' /\ CrewInv'
  <2>1. BlockTypes' /\ NoRepeats'
    BY <1>2 DEF Base, BlocksInv, BlockTypes, NoRepeats, globals, lists
  <2>2. \A t \in Threads : pc'[t] \in {"out", "sweep"} /\ (pc'[t] = "sweep" => pc[t] # "out")
    BY <1>2
  <2>3. CrewInv'
    BY <1>2, <2>2 DEF Base, BlocksInv, CrewInv
  <2> QED  BY <2>1, <2>3
<1>4. Held(h)'
  BY <1>1, <1>2 DEF Accounts, Held, HeldAt, globals, lists
<1>5. Kept(h)'
  <2>1. Kept(h) /\ UNCHANGED <<free, handed, marked, live, current>>
    BY <1>1, <1>2 DEF Accounts, flags
  <2>2. \A b \in live \ handed : b \in 1..current /\ h[b][1] \in Used
    BY <2>1 DEF Kept
  <2>3. \A b \in live \ handed : b \notin free
    BY <2>1, <2>2 DEF Kept, Waiting, Used
  <2>4. \A b \in live \ handed : b \in marked
    BY <1>2, <2>3 DEF Seen
  <2> QED  BY <2>1, <2>4 DEF Kept
<1> QED  BY <1>1, <1>2, <1>3, <1>4, <1>5 DEF BlocksInv

\* What the program forgets is nowhere missed.
LEMMA Forgotten ==
    ASSUME Base, NEW b, Forget(b)
    PROVE  BlocksInv'
<1>1. PICK h : Accounts(h) /\ h \in [1..current -> Boxes]
  BY DEF Base, BlocksInv, Accounts
<1>2. /\ UNCHANGED <<crew, current, freeList, globals, lists, free, handed, marked, pc, snapshot>>
      /\ live' = live \ {b}
  BY DEF Forget
<1>3. BlockTypes' /\ NoRepeats' /\ CrewInv'
  BY <1>2 DEF Base, BlocksInv, BlockTypes, NoRepeats, CrewInv, globals, lists
<1>4. Held(h)'
  BY <1>1, <1>2 DEF Accounts, Held, HeldAt, globals, lists
<1>5. Kept(h)'
  BY <1>1, <1>2 DEF Accounts, Kept
<1> QED  BY <1>1, <1>2, <1>3, <1>4, <1>5 DEF BlocksInv

\* The front of the recyclable blocks is put aside: it is full, or to be
\* evacuated.
LEMMA PutAside ==
    ASSUME Base, NEW t \in Threads, SetAside(t) \/ Exhausted(t)
    PROVE  BlocksInv'
<1>1. PICK h : Accounts(h)
  BY Account
<1>2. BlockTypes /\ NoRepeats /\ CrewInv
  BY DEF Base, BlocksInv
<1>3. /\ UNCHANGED <<crew, current, freeList, globals, eva, toReturn, flags, pc, snapshot>>
      /\ recyclable[t] # <<>> /\ pc[t] # "sweep"
      /\ recyclable' = [recyclable EXCEPT ![t] = Tail(@)]
      /\ unavailable' = [unavailable EXCEPT ![t] = @ \cup {Head(recyclable[t])}]
  BY DEF SetAside, Exhausted, FrontUsable, Allocating
<1>4. PICK q \in Seq(Nat) : q = recyclable[t]
  BY <1>2 DEF BlockTypes
<1>5. PICK b : b = Head(q)
  OBVIOUS
<1>6. /\ b \in Range(q) /\ Tail(q) \in Seq(Nat) /\ Distinct(Tail(q))
      /\ Range(Tail(q)) = Range(q) \ {b}
  <2>1. q # <<>> /\ Distinct(q)
    BY <1>2, <1>3, <1>4 DEF NoRepeats
  <2> QED  BY <1>5, <2>1, TailDistinct
<1>7. /\ recyclable'[t] = Tail(q) /\ unavailable'[t] = unavailable[t] \cup {b}
      /\ \A u \in Threads \ {t} : recyclable'[u] = recyclable[u] /\ unavailable'[u] = unavailable[u]
  BY <1>2, <1>3, <1>4, <1>5 DEF BlockTypes
<1>8. /\ h \in [1 .. current -> Boxes]
      /\ \A x : x \in Range(freeList) <=> x \in 1..current /\ h[x] = <<"freeList", None>>
      /\ \A x : x \in Range(recycleG) <=> x \in 1..current /\ h[x] = <<"recycleG", None>>
      /\ \A x : x \in unavailG <=> x \in 1..current /\ h[x] = <<"unavailG", None>>
      /\ \A x : /\ x \in Range(q) <=> x \in 1..current /\ h[x] = <<"recyclable", t>>
                /\ x \in unavailable[t] <=> x \in 1..current /\ h[x] = <<"unavailable", t>>
                /\ x \in eva[t] <=> x \in 1..current /\ h[x] = <<"eva", t>>
                /\ x \in toReturn[t] <=> x \in 1..current /\ h[x] = <<"toReturn", t>>
  BY <1>1, <1>4, HeldFacts DEF Accounts
<1>9. b \in 1..current /\ h[b] = <<"recyclable", t>> /\ b \in Nat
  BY <1>2, <1>6, <1>8 DEF BlockTypes
<1>10. PICK g : g = [x \in 1..current |-> IF x = b THEN <<"unavailable", t>> ELSE h[x]]
  OBVIOUS
<1>11. g \in [1..current -> Boxes] /\ g[b] = <<"unavailable", t>> /\ \A x \in 1..current : x # b => g[x] = h[x]
  BY <1>8, <1>9, <1>10 DEF Boxes
<1>12. current' = current /\ freeList' = freeList /\ recycleG' = recycleG /\ unavailG' = unavailG
       /\ eva' = eva /\ toReturn' = toReturn
  BY <1>3 DEF globals
<1>13. Held(g)'
  <2>1. Elsewhere(h, g, t)
    <3>1. \A u \in Threads \ {t}, kind \in Kinds : \A x :
            (x \in 1..current' /\ g[x] = <<kind, u>>) <=> (x \in 1..current /\ h[x] = <<kind, u>>)
      BY <1>9, <1>11, <1>12
    <3> QED  BY <1>7, <1>12, <3>1 DEF Elsewhere
  <2>2. Nobodys(g)
    BY <1>8, <1>9, <1>11, <1>12 DEF Nobodys
  <2>3. Own(g, t)
    <3>1. \A x : x \in Range(recyclable'[t]) <=> (x \in 1..current' /\ g[x] = <<"recyclable", t>>)
      BY <1>6, <1>7, <1>8, <1>9, <1>11, <1>12
    <3>2. \A x : x \in unavailable'[t] <=> (x \in 1..current' /\ g[x] = <<"unavailable", t>>)
      BY <1>7, <1>8, <1>9, <1>11, <1>12
    <3>3. /\ \A x : x \in eva'[t] <=> (x \in 1..current' /\ g[x] = <<"eva", t>>)
          /\ \A x : x \in toReturn'[t] <=> (x \in 1..current' /\ g[x] = <<"toReturn", t>>)
      BY <1>8, <1>9, <1>11, <1>12
    <3> QED  BY <3>1, <3>2, <3>3 DEF Own
  <2>4. Held(h) /\ g \in [1..current' -> Boxes]
    BY <1>1, <1>11, <1>12 DEF Accounts
  <2> QED  BY <2>1, <2>2, <2>3, <2>4, Rearranged
<1>14. Kept(g)'
  <2>1. Kept(h) /\ UNCHANGED <<free, handed, live, marked, pc, current>>
    BY <1>1, <1>3 DEF Accounts, flags
  <2>2. \A x \in 1..current : x \in free <=> g[x][1] \in Waiting \/ x \in handed
    BY <1>9, <1>11, <2>1 DEF Kept, Waiting
  <2>3. \A x \in live \ handed : x \in 1 .. current /\ g[x][1] \in Used
    BY <1>11, <2>1 DEF Kept, Used
  <2>4. ASSUME NEW u \in Threads, NEW x \in live \ handed, pc[u] = "sweep",
               g[x] \in {<<"recyclable", u>>, <<"unavailable", u>>}
        PROVE  x \in marked
    <3>1. x # b
      BY <1>3, <1>11, <2>4
    <3>2. h[x] = g[x]
      BY <1>11, <2>3, <3>1
    <3> QED  BY <2>1, <2>4, <3>2 DEF Kept
  <2> QED  BY <2>1, <2>2, <2>3, <2>4 DEF Kept
<1>15. BlockTypes' /\ NoRepeats' /\ CrewInv'
  <2>1. recyclable' \in [Threads -> Seq(Nat)]
    BY <1>2, <1>3, <1>4, <1>6 DEF BlockTypes
  <2>2. unavailable' \in [Threads -> SUBSET Nat]
    BY <1>2, <1>3, <1>4, <1>5, <1>9 DEF BlockTypes
  <2>3. BlockTypes'
    BY <1>2, <1>3, <1>12, <2>1, <2>2 DEF BlockTypes
  <2>4. NoRepeats'
    BY <1>2, <1>6, <1>7, <1>12 DEF NoRepeats
  <2>5. CrewInv'
    BY <1>2, <1>3 DEF CrewInv
  <2> QED  BY <2>3, <2>4, <2>5
<1> QED  BY <1>3, <1>11, <1>12, <1>13, <1>14, <1>15 DEF BlocksInv

\* What h says of a thread and of what nobody holds.
LEMMA AtHand ==
    ASSUME NEW h, Accounts(h), NEW t \in Threads
    PROVE  /\ h \in [1 .. current -> Boxes]
           /\ \A x : x \in Range(freeList) <=> x \in 1..current /\ h[x] = <<"freeList", None>>
           /\ \A x : x \in Range(recycleG) <=> x \in 1..current /\ h[x] = <<"recycleG", None>>
           /\ \A x : x \in unavailG <=> x \in 1..current /\ h[x] = <<"unavailG", None>>
           /\ \A x : /\ x \in Range(recyclable[t]) <=> x \in 1..current /\ h[x] = <<"recyclable", t>>
                     /\ x \in unavailable[t] <=> x \in 1..current /\ h[x] = <<"unavailable", t>>
                     /\ x \in eva[t] <=> x \in 1..current /\ h[x] = <<"eva", t>>
                     /\ x \in toReturn[t] <=> x \in 1..current /\ h[x] = <<"toReturn", t>>
BY HeldFacts DEF Accounts

\* An ending thread leaves its blocks behind.
LEMMA LeftBehind ==
    ASSUME Base, NEW t \in Threads, Leave(t)
    PROVE  BlocksInv'
<1>1. PICK h : Accounts(h)
  BY Account
<1>2. BlockTypes /\ NoRepeats /\ CrewInv
  BY DEF Base, BlocksInv
<1>3. /\ UNCHANGED <<crew, current, freeList, eva, free, marked, live, snapshot>>
      /\ handed' = handed \cup toReturn[t]
      /\ t \in crew.leavers /\ pc[t] = "run" /\ pc' = [pc EXCEPT ![t] = "leave"]
      /\ recyclable' = [recyclable EXCEPT ![t] = <<>>]
      /\ unavailable' = [unavailable EXCEPT ![t] = {}]
      /\ toReturn' = [toReturn EXCEPT ![t] = {}]
      /\ unavailG' = unavailG \cup unavailable[t]
  BY DEF Leave, Goto
<1>4. CrewInv' /\ pc' \in [Threads -> Lists]
  <2>1. t \in crew.threads
    BY <1>2, <1>3 DEF CrewInv
  <2> QED  BY <1>2, <1>3, <2>1, CrewStep DEF Base, Lists
<1>5. PICK q \in Seq(Nat) : q = recyclable[t]
  BY <1>2 DEF BlockTypes
<1>6. PICK r : r = Ascending(toReturn[t])
  OBVIOUS
<1>7. /\ h \in [1 .. current -> Boxes]
      /\ \A x : x \in Range(freeList) <=> x \in 1..current /\ h[x] = <<"freeList", None>>
      /\ \A x : x \in Range(recycleG) <=> x \in 1..current /\ h[x] = <<"recycleG", None>>
      /\ \A x : x \in unavailG <=> x \in 1..current /\ h[x] = <<"unavailG", None>>
      /\ \A x : /\ x \in Range(q) <=> x \in 1..current /\ h[x] = <<"recyclable", t>>
                /\ x \in unavailable[t] <=> x \in 1..current /\ h[x] = <<"unavailable", t>>
                /\ x \in eva[t] <=> x \in 1..current /\ h[x] = <<"eva", t>>
                /\ x \in toReturn[t] <=> x \in 1..current /\ h[x] = <<"toReturn", t>>
  BY <1>1, <1>5, AtHand
<1>8. r \in Seq(Nat) /\ Distinct(r) /\ Range(r) = toReturn[t]
  <2>1. toReturn[t] \in SUBSET (1..current) /\ current \in Nat
    BY <1>2, <1>7 DEF BlockTypes
  <2> QED  BY <1>6, <2>1, AscendingLists
<1>9. /\ recycleG' \in Seq(Nat) /\ Distinct(recycleG')
      /\ Range(recycleG') = Range(recycleG) \cup Range(q) \cup toReturn[t]
  <2>1. recycleG' = (recycleG \o q) \o r
    BY <1>5, <1>6 DEF Leave
  <2>2. recycleG \in Seq(Nat) /\ Distinct(recycleG) /\ Distinct(q) /\ Range(recycleG) \cap Range(q) = {}
    BY <1>2, <1>5, <1>7 DEF BlockTypes, NoRepeats
  <2>3. PICK p : p = recycleG \o q
    OBVIOUS
  <2>4. p \in Seq(Nat) /\ Distinct(p) /\ Range(p) = Range(recycleG) \cup Range(q)
    BY <2>2, <2>3, ConcatDistinct
  <2>5. Range(p) \cap Range(r) = {}
    BY <1>7, <1>8, <2>4
  <2>6. recycleG' = p \o r
    BY <2>1, <2>3
  <2>7. recycleG' \in Seq(Nat) /\ Distinct(recycleG') /\ Range(recycleG') = Range(p) \cup Range(r)
    BY <1>8, <2>4, <2>5, <2>6, ConcatDistinct
  <2> QED  BY <1>8, <2>4, <2>7
<1>10. PICK g : g = [x \in 1..current |->
                        IF h[x] = <<"recyclable", t>> \/ h[x] = <<"toReturn", t>> THEN <<"recycleG", None>>
                        ELSE IF h[x] = <<"unavailable", t>> THEN <<"unavailG", None>> ELSE h[x]]
  OBVIOUS
<1>11. /\ g \in [1..current -> Boxes]
       /\ \A x \in 1..current :
            /\ h[x] \in {<<"recyclable", t>>, <<"toReturn", t>>} => g[x] = <<"recycleG", None>>
            /\ h[x] = <<"unavailable", t>> => g[x] = <<"unavailG", None>>
            /\ h[x] \notin {<<"recyclable", t>>, <<"toReturn", t>>, <<"unavailable", t>>} => g[x] = h[x]
  BY <1>7, <1>10 DEF Boxes
<1>12. /\ recyclable'[t] = <<>> /\ unavailable'[t] = {} /\ toReturn'[t] = {}
       /\ \A u \in Threads \ {t} : /\ recyclable'[u] = recyclable[u] /\ unavailable'[u] = unavailable[u]
                                   /\ toReturn'[u] = toReturn[u]
       /\ eva' = eva /\ current' = current /\ freeList' = freeList /\ Range(<<>>) = {}
  BY <1>2, <1>3 DEF BlockTypes, Range
<1>13. Held(g)'
  <2>1. Elsewhere(h, g, t)
    <3>1. \A u \in Threads \ {t}, kind \in Kinds : \A x :
            (x \in 1..current' /\ g[x] = <<kind, u>>) <=> (x \in 1..current /\ h[x] = <<kind, u>>)
      BY <1>11, <1>12 DEF Kinds
    <3> QED  BY <1>12, <3>1 DEF Elsewhere
  <2>2. Nobodys(g)
    <3>1. \A x : x \in Range(freeList') <=> (x \in 1..current' /\ g[x] = <<"freeList", None>>)
      BY <1>7, <1>11, <1>12
    <3>2. \A x : x \in Range(recycleG') <=> (x \in 1..current' /\ g[x] = <<"recycleG", None>>)
      <4>1. \A x : x \in Range(recycleG') <=>
                    x \in 1..current /\ h[x] \in {<<"recycleG", None>>, <<"recyclable", t>>, <<"toReturn", t>>}
        BY <1>7, <1>9
      <4>2. ASSUME NEW x \in 1..current
            PROVE  h[x] \in {<<"recycleG", None>>, <<"recyclable", t>>, <<"toReturn", t>>} <=> g[x] = <<"recycleG", None>>
        <5>1. CASE h[x] = <<"unavailable", t>>
          BY <1>11, <5>1
        <5>2. CASE h[x] # <<"unavailable", t>>
          BY <1>11, <5>2
        <5> QED  BY <5>1, <5>2
      <4> QED  BY <1>12, <4>1, <4>2
    <3>3. \A x : x \in unavailG' <=> (x \in 1..current' /\ g[x] = <<"unavailG", None>>)
      BY <1>3, <1>7, <1>11, <1>12
    <3> QED  BY <3>1, <3>2, <3>3 DEF Nobodys
  <2>3. Own(g, t)
    <3>1. \A x \in 1..current : g[x] # <<"recyclable", t>> /\ g[x] # <<"unavailable", t>> /\ g[x] # <<"toReturn", t>>
      <4>1. ASSUME NEW x \in 1..current
            PROVE  g[x] # <<"recyclable", t>> /\ g[x] # <<"unavailable", t>> /\ g[x] # <<"toReturn", t>>
        <5>1. CASE h[x] \in {<<"recyclable", t>>, <<"toReturn", t>>}
          BY <1>11, <5>1
        <5>2. CASE h[x] = <<"unavailable", t>>
          BY <1>11, <5>2
        <5>3. CASE h[x] \notin {<<"recyclable", t>>, <<"toReturn", t>>, <<"unavailable", t>>}
          BY <1>11, <5>3
        <5> QED  BY <5>1, <5>2, <5>3
      <4> QED  BY <4>1
    <3>2. \A x : x \in eva'[t] <=> (x \in 1..current' /\ g[x] = <<"eva", t>>)
      BY <1>7, <1>11, <1>12
    <3> QED  BY <1>12, <3>1, <3>2 DEF Own
  <2>4. Held(h) /\ g \in [1..current' -> Boxes]
    BY <1>1, <1>11, <1>12 DEF Accounts
  <2> QED  BY <2>1, <2>2, <2>3, <2>4, Rearranged
<1>14. BlockTypes' /\ NoRepeats'
  <2>1. /\ recyclable' \in [Threads -> Seq(Nat)] /\ unavailable' \in [Threads -> SUBSET Nat]
        /\ toReturn' \in [Threads -> SUBSET Nat] /\ unavailG' \in SUBSET Nat
    <3>1. <<>> \in Seq(Nat)
      OBVIOUS
    <3> QED  BY <1>2, <1>3, <3>1 DEF BlockTypes
  <2>2. BlockTypes'
    BY <1>2, <1>3, <1>4, <1>9, <2>1 DEF BlockTypes
  <2>3. Distinct(<<>>)
    BY DEF Distinct
  <2>4. \A u \in Threads : Distinct(recyclable'[u])
    BY <1>2, <1>12, <2>3 DEF NoRepeats
  <2> QED  BY <1>2, <1>9, <1>12, <2>2, <2>4 DEF NoRepeats
<1>15. Kept(g)'
  <2>1. Kept(h) /\ UNCHANGED <<free, live, marked, current>>
    BY <1>1, <1>3 DEF Accounts
  <2>2. \A x : x \in toReturn[t] <=> x \in 1..current /\ h[x] = <<"toReturn", t>>
    BY <1>7
  <2>3. ASSUME NEW x \in 1..current
        PROVE  x \in free <=> g[x][1] \in Waiting \/ x \in handed'
    <3>1. CASE h[x] = <<"toReturn", t>>
      BY <1>3, <2>1, <2>2, <3>1 DEF Kept, Waiting
    <3>2. CASE h[x] # <<"toReturn", t>>
      <4>1. h[x][1] \in Waiting <=> g[x][1] \in Waiting
        BY <1>11, <3>2 DEF Waiting
      <4>2. x \in handed' <=> x \in handed
        BY <1>3, <2>2, <3>2
      <4> QED  BY <2>1, <4>1, <4>2 DEF Kept
    <3> QED  BY <3>1, <3>2
  <2>4. \A x \in live \ handed' : x \in live \ handed /\ x \in 1..current
    BY <1>3, <2>1 DEF Kept
  <2>5. \A x \in live \ handed' : g[x][1] \in Used
    BY <1>11, <2>1, <2>4 DEF Kept, Used
  <2>6. ASSUME NEW u \in Threads, NEW x \in live \ handed', pc'[u] = "sweep",
               g[x] \in {<<"recyclable", u>>, <<"unavailable", u>>}
        PROVE  x \in marked
    <3>1. u # t /\ pc[u] = "sweep"
      BY <1>2, <1>3, <2>6 DEF BlockTypes
    <3>2. h[x] = g[x]
      BY <1>11, <2>4, <2>6, <3>1
    <3> QED  BY <2>1, <2>4, <2>6, <3>1, <3>2 DEF Kept
  <2>7. \A x \in free \cup handed' \cup live : x \in 1..current
    BY <1>3, <2>1, <2>2 DEF Kept
  <2> QED  BY <2>1, <2>3, <2>5, <2>6, <2>7 DEF Kept
<1> QED  BY <1>4, <1>11, <1>12, <1>13, <1>14, <1>15 DEF BlocksInv

\* An ending thread pushes a block of its head room: nobody changed the free
\* list since it loaded the cursor.
LEMMA Pushed ==
    ASSUME Base, NEW t \in Threads, PushStore(t)
    PROVE  BlocksInv'
<1>1. PICK h : Accounts(h)
  BY Account
<1>2. BlockTypes /\ NoRepeats /\ CrewInv
  BY DEF Base, BlocksInv
<1>3. PICK b \in eva[t] : freeList' = Append(snapshot[t], b) /\ eva' = [eva EXCEPT ![t] = @ \ {b}]
  BY DEF PushStore
<1>4. /\ UNCHANGED <<crew, current, recycleG, unavailG, recyclable, unavailable, toReturn, flags>>
      /\ pc[t] = "push" /\ pc' = [pc EXCEPT ![t] = "leave"]
      /\ snapshot' = [snapshot EXCEPT ![t] = <<>>]
  BY DEF PushStore, Goto, globals
<1>5. t \in crew.threads /\ t \in crew.leavers /\ snapshot[t] = freeList
  BY <1>2, <1>4 DEF CrewInv
<1>6. CrewInv' /\ pc' \in [Threads -> Lists]
  BY <1>2, <1>4, <1>5, CrewStep DEF Base, Lists
<1>7. /\ h \in [1 .. current -> Boxes]
      /\ \A x : x \in Range(freeList) <=> x \in 1..current /\ h[x] = <<"freeList", None>>
      /\ \A x : x \in Range(recycleG) <=> x \in 1..current /\ h[x] = <<"recycleG", None>>
      /\ \A x : x \in unavailG <=> x \in 1..current /\ h[x] = <<"unavailG", None>>
      /\ \A x : /\ x \in Range(recyclable[t]) <=> x \in 1..current /\ h[x] = <<"recyclable", t>>
                /\ x \in unavailable[t] <=> x \in 1..current /\ h[x] = <<"unavailable", t>>
                /\ x \in eva[t] <=> x \in 1..current /\ h[x] = <<"eva", t>>
                /\ x \in toReturn[t] <=> x \in 1..current /\ h[x] = <<"toReturn", t>>
  BY <1>1, AtHand
<1>8. b \in 1..current /\ h[b] = <<"eva", t>> /\ b \in Nat /\ b \notin Range(freeList)
  BY <1>2, <1>3, <1>7 DEF BlockTypes
<1>9. freeList' \in Seq(Nat) /\ Distinct(freeList') /\ Range(freeList') = Range(freeList) \cup {b}
  <2>1. freeList \in Seq(Nat) /\ Distinct(freeList) /\ freeList' = Append(freeList, b)
    BY <1>2, <1>3, <1>5 DEF BlockTypes, NoRepeats
  <2> QED  BY <1>8, <2>1, AppendDistinct
<1>10. PICK g : g = [x \in 1..current |-> IF x = b THEN <<"freeList", None>> ELSE h[x]]
  OBVIOUS
<1>11. /\ g \in [1..current -> Boxes] /\ g[b] = <<"freeList", None>>
       /\ \A x \in 1..current : x # b => g[x] = h[x]
  BY <1>7, <1>8, <1>10 DEF Boxes
<1>12. /\ current' = current /\ recycleG' = recycleG /\ unavailG' = unavailG
       /\ recyclable' = recyclable /\ unavailable' = unavailable /\ toReturn' = toReturn
       /\ eva'[t] = eva[t] \ {b} /\ \A u \in Threads \ {t} : eva'[u] = eva[u]
  BY <1>2, <1>3, <1>4 DEF BlockTypes
<1>13. Held(g)'
  <2>1. Elsewhere(h, g, t)
    <3>1. \A u \in Threads \ {t}, kind \in Kinds : \A x :
            (x \in 1..current' /\ g[x] = <<kind, u>>) <=> (x \in 1..current /\ h[x] = <<kind, u>>)
      BY <1>8, <1>11, <1>12 DEF Kinds
    <3> QED  BY <1>12, <3>1 DEF Elsewhere
  <2>2. Nobodys(g)
    <3>1. \A x : x \in Range(freeList') <=> (x \in 1..current' /\ g[x] = <<"freeList", None>>)
      BY <1>7, <1>8, <1>9, <1>11, <1>12
    <3>2. /\ \A x : x \in Range(recycleG') <=> (x \in 1..current' /\ g[x] = <<"recycleG", None>>)
          /\ \A x : x \in unavailG' <=> (x \in 1..current' /\ g[x] = <<"unavailG", None>>)
      BY <1>7, <1>8, <1>11, <1>12
    <3> QED  BY <3>1, <3>2 DEF Nobodys
  <2>3. Own(g, t)
    BY <1>7, <1>8, <1>11, <1>12 DEF Own
  <2>4. Held(h) /\ g \in [1..current' -> Boxes]
    BY <1>1, <1>11, <1>12 DEF Accounts
  <2> QED  BY <2>1, <2>2, <2>3, <2>4, Rearranged
<1>14. BlockTypes' /\ NoRepeats'
  <2>1. eva' \in [Threads -> SUBSET Nat]
    BY <1>2, <1>3 DEF BlockTypes
  <2>2. snapshot' \in [Threads -> Seq(Nat)]
    <3>1. <<>> \in Seq(Nat)
      OBVIOUS
    <3> QED  BY <1>2, <1>4, <3>1 DEF BlockTypes
  <2>3. BlockTypes'
    BY <1>2, <1>6, <1>9, <1>12, <2>1, <2>2 DEF BlockTypes
  <2> QED  BY <1>2, <1>9, <1>12, <2>3 DEF NoRepeats
<1>15. Kept(g)'
  <2>1. Kept(h) /\ UNCHANGED <<free, handed, live, marked, current>>
    BY <1>1, <1>4 DEF Accounts, flags
  <2>2. \A x \in 1..current : x \in free <=> g[x][1] \in Waiting \/ x \in handed
    BY <1>8, <1>11, <2>1 DEF Kept, Waiting
  <2>3. \A x \in live \ handed : x \in 1..current /\ g[x] = h[x]
    BY <1>8, <1>11, <2>1 DEF Kept, Used
  <2>4. \A u \in Threads : pc'[u] = "sweep" => pc[u] = "sweep"
    BY <1>2, <1>4 DEF BlockTypes
  <2> QED  BY <2>1, <2>2, <2>3, <2>4 DEF Kept
<1> QED  BY <1>6, <1>11, <1>12, <1>13, <1>14, <1>15 DEF BlocksInv

\* A thread inherits what the threads that ended left.
LEMMA Inherited ==
    ASSUME Base, NEW t \in Threads, GetMoreWorks(t)
    PROVE  BlocksInv'
<1>1. PICK h : Accounts(h)
  BY Account
<1>2. BlockTypes /\ NoRepeats /\ CrewInv
  BY DEF Base, BlocksInv
<1>3. /\ UNCHANGED <<crew, current, freeList, eva, toReturn, free, handed, marked, live, snapshot>>
      /\ pc[t] = "stopped" /\ pc' = [pc EXCEPT ![t] = "work"]
      /\ \A u \in Threads : pc[u] # "sweep"
      /\ recyclable' = [recyclable EXCEPT ![t] = @ \o recycleG]
      /\ unavailable' = [unavailable EXCEPT ![t] = @ \cup unavailG]
      /\ recycleG' = <<>> /\ unavailG' = {}
  BY DEF GetMoreWorks, Goto
<1>4. /\ CrewInv' /\ pc' \in [Threads -> Lists]
      /\ pc'[t] = "work" /\ \A u \in Threads \ {t} : pc'[u] = pc[u]
  <2>1. t \in crew.threads
    BY <1>2, <1>3 DEF CrewInv
  <2> QED  BY <1>2, <1>3, <2>1, CrewStep DEF Base, Lists
<1>5. PICK q \in Seq(Nat) : q = recyclable[t]
  BY <1>2 DEF BlockTypes
<1>6. /\ h \in [1 .. current -> Boxes]
      /\ \A x : x \in Range(freeList) <=> x \in 1..current /\ h[x] = <<"freeList", None>>
      /\ \A x : x \in Range(recycleG) <=> x \in 1..current /\ h[x] = <<"recycleG", None>>
      /\ \A x : x \in unavailG <=> x \in 1..current /\ h[x] = <<"unavailG", None>>
      /\ \A x : /\ x \in Range(q) <=> x \in 1..current /\ h[x] = <<"recyclable", t>>
                /\ x \in unavailable[t] <=> x \in 1..current /\ h[x] = <<"unavailable", t>>
                /\ x \in eva[t] <=> x \in 1..current /\ h[x] = <<"eva", t>>
                /\ x \in toReturn[t] <=> x \in 1..current /\ h[x] = <<"toReturn", t>>
  BY <1>1, <1>5, AtHand
<1>7. PICK r : r = q \o recycleG
  OBVIOUS
<1>8. r \in Seq(Nat) /\ Distinct(r) /\ Range(r) = Range(q) \cup Range(recycleG)
  <2>1. recycleG \in Seq(Nat) /\ Distinct(recycleG) /\ Distinct(q) /\ Range(q) \cap Range(recycleG) = {}
    BY <1>2, <1>5, <1>6 DEF BlockTypes, NoRepeats
  <2> QED  BY <1>7, <2>1, ConcatDistinct
<1>9. PICK g : g = [x \in 1..current |->
                        IF h[x] = <<"recycleG", None>> THEN <<"recyclable", t>>
                        ELSE IF h[x] = <<"unavailG", None>> THEN <<"unavailable", t>> ELSE h[x]]
  OBVIOUS
<1>10. /\ g \in [1..current -> Boxes]
       /\ \A x \in 1..current :
            /\ h[x] = <<"recycleG", None>> => g[x] = <<"recyclable", t>>
            /\ h[x] = <<"unavailG", None>> => g[x] = <<"unavailable", t>>
            /\ h[x] \notin {<<"recycleG", None>>, <<"unavailG", None>>} => g[x] = h[x]
  BY <1>6, <1>9 DEF Boxes
<1>11. /\ recyclable'[t] = r /\ unavailable'[t] = unavailable[t] \cup unavailG
       /\ \A u \in Threads \ {t} : recyclable'[u] = recyclable[u] /\ unavailable'[u] = unavailable[u]
       /\ current' = current /\ freeList' = freeList /\ eva' = eva /\ toReturn' = toReturn
       /\ Range(recycleG') = {} /\ unavailG' = {}
  <2>1. Range(<<>>) = {}
    BY DEF Range
  <2> QED  BY <1>2, <1>3, <1>5, <1>7, <2>1 DEF BlockTypes
<1>12. Held(g)'
  <2>1. Elsewhere(h, g, t)
    <3>1. \A u \in Threads \ {t}, kind \in Kinds : \A x :
            (x \in 1..current' /\ g[x] = <<kind, u>>) <=> (x \in 1..current /\ h[x] = <<kind, u>>)
      <4>1. ASSUME NEW u \in Threads \ {t}, NEW kind \in Kinds, NEW x \in 1..current
            PROVE  g[x] = <<kind, u>> <=> h[x] = <<kind, u>>
        <5>1. CASE h[x] = <<"recycleG", None>>
          BY <1>10, <5>1 DEF Kinds
        <5>2. CASE h[x] = <<"unavailG", None>>
          BY <1>10, <5>2 DEF Kinds
        <5>3. CASE h[x] \notin {<<"recycleG", None>>, <<"unavailG", None>>}
          BY <1>10, <5>3
        <5> QED  BY <5>1, <5>2, <5>3
      <4> QED  BY <1>11, <4>1
    <3> QED  BY <1>11, <3>1 DEF Elsewhere
  <2>2. Nobodys(g)
    <3>1. \A x : x \in Range(freeList') <=> (x \in 1..current' /\ g[x] = <<"freeList", None>>)
      BY <1>6, <1>10, <1>11
    <3>2. \A x \in 1..current : g[x] # <<"recycleG", None>> /\ g[x] # <<"unavailG", None>>
      <4>1. ASSUME NEW x \in 1..current
            PROVE  g[x] # <<"recycleG", None>> /\ g[x] # <<"unavailG", None>>
        <5>1. CASE h[x] = <<"recycleG", None>>
          BY <1>10, <5>1
        <5>2. CASE h[x] = <<"unavailG", None>>
          BY <1>10, <5>2
        <5>3. CASE h[x] \notin {<<"recycleG", None>>, <<"unavailG", None>>}
          BY <1>10, <5>3
        <5> QED  BY <5>1, <5>2, <5>3
      <4> QED  BY <4>1
    <3> QED  BY <1>11, <3>1, <3>2 DEF Nobodys
  <2>3. Own(g, t)
    <3>1. \A x : x \in Range(recyclable'[t]) <=> (x \in 1..current' /\ g[x] = <<"recyclable", t>>)
      BY <1>6, <1>8, <1>10, <1>11
    <3>2. \A x : x \in unavailable'[t] <=> (x \in 1..current' /\ g[x] = <<"unavailable", t>>)
      BY <1>6, <1>10, <1>11
    <3>3. /\ \A x : x \in eva'[t] <=> (x \in 1..current' /\ g[x] = <<"eva", t>>)
          /\ \A x : x \in toReturn'[t] <=> (x \in 1..current' /\ g[x] = <<"toReturn", t>>)
      BY <1>6, <1>10, <1>11
    <3> QED  BY <3>1, <3>2, <3>3 DEF Own
  <2>4. Held(h) /\ g \in [1..current' -> Boxes]
    BY <1>1, <1>10, <1>11 DEF Accounts
  <2> QED  BY <2>1, <2>2, <2>3, <2>4, Rearranged
<1>13. Kept(g)'
  <2>1. Kept(h) /\ UNCHANGED <<free, handed, live, marked, current>>
    BY <1>1, <1>3 DEF Accounts
  <2>2. \A x \in 1..current : /\ h[x][1] \in Waiting <=> g[x][1] \in Waiting
                              /\ h[x][1] \in Used => g[x][1] \in Used
    BY <1>10 DEF Waiting, Used
  <2>3. \A u \in Threads : pc'[u] # "sweep"
    BY <1>3, <1>4
  <2> QED  BY <2>1, <2>2, <2>3 DEF Kept
<1>14. BlockTypes' /\ NoRepeats'
  <2>1. recyclable' \in [Threads -> Seq(Nat)] /\ unavailable' \in [Threads -> SUBSET Nat]
    BY <1>2, <1>3, <1>5, <1>7, <1>8 DEF BlockTypes
  <2>2. recycleG' \in Seq(Nat) /\ Distinct(recycleG')
    BY <1>3 DEF Distinct
  <2>3. BlockTypes'
    BY <1>2, <1>3, <1>4, <2>1, <2>2 DEF BlockTypes
  <2> QED  BY <1>2, <1>8, <1>11, <2>2, <2>3 DEF NoRepeats
<1> QED  BY <1>3, <1>4, <1>10, <1>11, <1>12, <1>13, <1>14 DEF BlocksInv

\* A thread gives back what the last collection freed.
LEMMA GivenBack ==
    ASSUME Base, NEW t \in Threads, ReturnPrevFreeBlocks(t)
    PROVE  BlocksInv'
<1>1. PICK h : Accounts(h)
  BY Account
<1>2. BlockTypes /\ NoRepeats /\ CrewInv
  BY DEF Base, BlocksInv
<1>3. /\ UNCHANGED <<crew, current, recycleG, unavailG, recyclable, unavailable, eva, flags, snapshot>>
      /\ pc[t] = "work" /\ pc' = [pc EXCEPT ![t] = "mark"]
      /\ toReturn' = [toReturn EXCEPT ![t] = {}]
  BY DEF ReturnPrevFreeBlocks, Goto, globals
<1>4. /\ CrewInv' /\ pc' \in [Threads -> Lists]
      /\ pc'[t] = "mark" /\ \A u \in Threads \ {t} : pc'[u] = pc[u]
  <2>1. t \in crew.threads
    BY <1>2, <1>3 DEF CrewInv
  <2> QED  BY <1>2, <1>3, <2>1, CrewStep DEF Base, Lists
<1>5. /\ h \in [1 .. current -> Boxes]
      /\ \A x : x \in Range(freeList) <=> x \in 1..current /\ h[x] = <<"freeList", None>>
      /\ \A x : x \in Range(recycleG) <=> x \in 1..current /\ h[x] = <<"recycleG", None>>
      /\ \A x : x \in unavailG <=> x \in 1..current /\ h[x] = <<"unavailG", None>>
      /\ \A x : /\ x \in Range(recyclable[t]) <=> x \in 1..current /\ h[x] = <<"recyclable", t>>
                /\ x \in unavailable[t] <=> x \in 1..current /\ h[x] = <<"unavailable", t>>
                /\ x \in eva[t] <=> x \in 1..current /\ h[x] = <<"eva", t>>
                /\ x \in toReturn[t] <=> x \in 1..current /\ h[x] = <<"toReturn", t>>
  BY <1>1, AtHand
<1>6. PICK r : r = Ascending(toReturn[t])
  OBVIOUS
<1>7. r \in Seq(Nat) /\ Distinct(r) /\ Range(r) = toReturn[t]
  <2>1. toReturn[t] \in SUBSET (1..current) /\ current \in Nat
    BY <1>2, <1>5 DEF BlockTypes
  <2> QED  BY <1>6, <2>1, AscendingLists
<1>8. /\ freeList' \in Seq(Nat) /\ Distinct(freeList')
      /\ Range(freeList') = Range(freeList) \cup toReturn[t]
  <2>1. freeList \in Seq(Nat) /\ Distinct(freeList) /\ Range(freeList) \cap Range(r) = {}
    BY <1>2, <1>5, <1>7 DEF BlockTypes, NoRepeats
  <2>2. freeList' = freeList \o r
    BY <1>6 DEF ReturnPrevFreeBlocks
  <2>3. freeList' \in Seq(Nat) /\ Distinct(freeList') /\ Range(freeList') = Range(freeList) \cup Range(r)
    BY <1>7, <2>1, <2>2, ConcatDistinct
  <2> QED  BY <1>7, <2>3
<1>9. PICK g : g = [x \in 1..current |-> IF h[x] = <<"toReturn", t>> THEN <<"freeList", None>> ELSE h[x]]
  OBVIOUS
<1>10. /\ g \in [1..current -> Boxes]
       /\ \A x \in 1..current : /\ h[x] = <<"toReturn", t>> => g[x] = <<"freeList", None>>
                                /\ h[x] # <<"toReturn", t>> => g[x] = h[x]
  BY <1>5, <1>9 DEF Boxes
<1>11. /\ current' = current /\ recycleG' = recycleG /\ unavailG' = unavailG
       /\ recyclable' = recyclable /\ unavailable' = unavailable /\ eva' = eva
       /\ toReturn'[t] = {} /\ \A u \in Threads \ {t} : toReturn'[u] = toReturn[u]
  BY <1>2, <1>3 DEF BlockTypes
<1>12. Held(g)'
  <2>1. Elsewhere(h, g, t)
    <3>1. \A u \in Threads \ {t}, kind \in Kinds : \A x :
            (x \in 1..current' /\ g[x] = <<kind, u>>) <=> (x \in 1..current /\ h[x] = <<kind, u>>)
      BY <1>10, <1>11 DEF Kinds
    <3> QED  BY <1>11, <3>1 DEF Elsewhere
  <2>2. Nobodys(g)
    <3>1. \A x : x \in Range(freeList') <=> (x \in 1..current' /\ g[x] = <<"freeList", None>>)
      BY <1>5, <1>8, <1>10, <1>11
    <3>2. /\ \A x : x \in Range(recycleG') <=> (x \in 1..current' /\ g[x] = <<"recycleG", None>>)
          /\ \A x : x \in unavailG' <=> (x \in 1..current' /\ g[x] = <<"unavailG", None>>)
      BY <1>5, <1>10, <1>11
    <3> QED  BY <3>1, <3>2 DEF Nobodys
  <2>3. Own(g, t)
    BY <1>5, <1>10, <1>11 DEF Own
  <2>4. Held(h) /\ g \in [1..current' -> Boxes]
    BY <1>1, <1>10, <1>11 DEF Accounts
  <2> QED  BY <2>1, <2>2, <2>3, <2>4, Rearranged
<1>13. Kept(g)'
  <2>1. Kept(h) /\ UNCHANGED <<free, handed, live, marked, current>>
    BY <1>1, <1>3 DEF Accounts, flags
  <2>2. \A x \in 1..current : /\ h[x][1] \in Waiting <=> g[x][1] \in Waiting
                              /\ h[x][1] \in Used => g[x] = h[x]
    BY <1>10 DEF Waiting, Used
  <2>3. \A u \in Threads : pc'[u] = "sweep" => pc[u] = "sweep"
    BY <1>4
  <2>4. \A x \in live \ handed : x \in 1..current /\ g[x] = h[x]
    BY <2>1, <2>2 DEF Kept
  <2> QED  BY <2>1, <2>2, <2>3, <2>4 DEF Kept
<1>14. BlockTypes' /\ NoRepeats'
  <2>1. toReturn' \in [Threads -> SUBSET Nat]
    BY <1>2, <1>3 DEF BlockTypes
  <2>2. BlockTypes'
    BY <1>2, <1>3, <1>4, <1>8, <2>1 DEF BlockTypes
  <2> QED  BY <1>2, <1>8, <1>11, <2>2 DEF NoRepeats
<1> QED  BY <1>3, <1>4, <1>10, <1>11, <1>12, <1>13, <1>14 DEF BlocksInv

\* A thread sorts its blocks into those it goes on with, its head room, and
\* those to return.
LEMMA Swept ==
    ASSUME Base, Returned, NEW t \in Threads, Sweep(t)
    PROVE  BlocksInv'
<1>1. PICK h : Accounts(h)
  BY Account
<1>2. BlockTypes /\ NoRepeats /\ CrewInv
  BY DEF Base, BlocksInv
<1>3. PICK owned : owned = Range(recyclable[t]) \cup unavailable[t]
  OBVIOUS
<1>4. PICK kept : kept = owned \cap marked
  OBVIOUS
<1>5. PICK freed : freed = owned \ marked
  OBVIOUS
<1>6. PICK open \in SUBSET kept, room \in SUBSET (eva[t] \cup freed) :
        LET rest == (eva[t] \cup freed) \ room
            first == IF open = {} /\ rest # {} THEN {Max(rest)} ELSE {}
        IN  /\ recyclable' = [recyclable EXCEPT ![t] = Ascending(open \cup first)]
            /\ unavailable' = [unavailable EXCEPT ![t] = kept \ open]
            /\ eva' = [eva EXCEPT ![t] = room]
            /\ toReturn' = [toReturn EXCEPT ![t] = rest \ first]
            /\ free' = (free \cup room \cup rest) \ first
            /\ handed' = handed \ first
            /\ marked' = marked \ owned
            /\ Goto(t, IF open \cup first = {} THEN "refill" ELSE "run")
  <2> DEFINE Sorted(o, k, f) ==
               \E open \in SUBSET k, room \in SUBSET (eva[t] \cup f) :
                 LET rest == (eva[t] \cup f) \ room
                     first == IF open = {} /\ rest # {} THEN {Max(rest)} ELSE {}
                 IN  /\ recyclable' = [recyclable EXCEPT ![t] = Ascending(open \cup first)]
                     /\ unavailable' = [unavailable EXCEPT ![t] = k \ open]
                     /\ eva' = [eva EXCEPT ![t] = room]
                     /\ toReturn' = [toReturn EXCEPT ![t] = rest \ first]
                     /\ free' = (free \cup room \cup rest) \ first
                     /\ handed' = handed \ first
                     /\ marked' = marked \ o
                     /\ Goto(t, IF open \cup first = {} THEN "refill" ELSE "run")
             mine == Range(recyclable[t]) \cup unavailable[t]
  <2>1. Sorted(mine, mine \cap marked, mine \ marked)
    BY DEF Sweep
  <2>2. owned = mine /\ kept = mine \cap marked /\ freed = mine \ marked
    BY <1>3, <1>4, <1>5
  <2>3. Sorted(owned, kept, freed)
    <3> HIDE DEF Sorted, mine
    <3> QED  BY <2>1, <2>2
  <2> QED  BY <2>3
<1>7. PICK rest : rest = (eva[t] \cup freed) \ room
  OBVIOUS
<1>8. PICK first : first = IF open = {} /\ rest # {} THEN {Max(rest)} ELSE {}
  OBVIOUS
<1>9. PICK r : r = Ascending(open \cup first)
  OBVIOUS
<1>10. /\ UNCHANGED <<crew, current, freeList, recycleG, unavailG, live, snapshot>>
       /\ pc[t] = "sweep" /\ toReturn[t] = {}
       /\ \E where \in {"refill", "run"} : pc' = [pc EXCEPT ![t] = where]
       /\ recyclable' = [recyclable EXCEPT ![t] = r]
       /\ unavailable' = [unavailable EXCEPT ![t] = kept \ open]
       /\ eva' = [eva EXCEPT ![t] = room]
       /\ toReturn' = [toReturn EXCEPT ![t] = rest \ first]
       /\ free' = (free \cup room \cup rest) \ first
       /\ handed' = handed \ first
       /\ marked' = marked \ owned
  <2>1. UNCHANGED <<crew, current, freeList, recycleG, unavailG, live, snapshot>> /\ pc[t] = "sweep"
    BY DEF Sweep, globals
  <2>2. toReturn[t] = {}
    BY <2>1 DEF Returned
  <2> QED  BY <1>6, <1>7, <1>8, <1>9, <2>1, <2>2 DEF Goto
<1>11. /\ CrewInv' /\ pc' \in [Threads -> Lists]
       /\ pc'[t] # "sweep" /\ \A u \in Threads \ {t} : pc'[u] = pc[u]
  <2>1. t \in crew.threads
    BY <1>2, <1>10 DEF CrewInv
  <2>2. PICK where \in {"refill", "run"} : pc' = [pc EXCEPT ![t] = where]
    BY <1>10
  <2> QED  BY <1>2, <1>10, <2>1, <2>2, CrewStep DEF Base, Lists
<1>12. /\ h \in [1 .. current -> Boxes]
       /\ \A x : x \in Range(freeList) <=> x \in 1..current /\ h[x] = <<"freeList", None>>
       /\ \A x : x \in Range(recycleG) <=> x \in 1..current /\ h[x] = <<"recycleG", None>>
       /\ \A x : x \in unavailG <=> x \in 1..current /\ h[x] = <<"unavailG", None>>
       /\ \A x : /\ x \in Range(recyclable[t]) <=> x \in 1..current /\ h[x] = <<"recyclable", t>>
                 /\ x \in unavailable[t] <=> x \in 1..current /\ h[x] = <<"unavailable", t>>
                 /\ x \in eva[t] <=> x \in 1..current /\ h[x] = <<"eva", t>>
                 /\ x \in toReturn[t] <=> x \in 1..current /\ h[x] = <<"toReturn", t>>
  BY <1>1, AtHand
<1>13. first \subseteq rest
  <2>1. rest \subseteq 1..current /\ current \in Nat
    BY <1>2, <1>3, <1>5, <1>7, <1>12 DEF BlockTypes
  <2>2. CASE rest = {}
    BY <1>8, <2>2
  <2>3. CASE rest # {}
    <3>1. Max(rest) \in rest
      BY <2>1, <2>3, MaxIsMember
    <3> QED  BY <1>8, <3>1
  <2> QED  BY <2>2, <2>3
<1> DEFINE Mine == {<<"recyclable", t>>, <<"unavailable", t>>, <<"eva", t>>}
\* What t has is now at one of four places.
<1>14. /\ \A x : (x \in 1..current /\ h[x] \in Mine)
                   <=> (x \in open \cup first \/ x \in kept \ open \/ x \in room \/ x \in rest \ first)
       /\ \A x \in open \cup first : x \notin kept \ open /\ x \notin room /\ x \notin rest \ first
       /\ \A x \in kept \ open : x \notin room /\ x \notin rest \ first
       /\ \A x \in room : x \notin rest \ first
  <2>1. \A x : (x \in 1..current /\ h[x] \in Mine) <=> (x \in kept \/ x \in freed \/ x \in eva[t])
    BY <1>3, <1>4, <1>5, <1>12
  <2>2. \A x \in kept : x \notin freed /\ x \notin eva[t]
    BY <1>3, <1>4, <1>5, <1>12
  <2>3. \A x : (x \in freed \/ x \in eva[t]) <=> (x \in room \/ x \in rest)
    BY <1>7
  <2>4. \A x \in room : x \notin rest
    BY <1>7
  <2>5. \A x \in open : x \in kept
    OBVIOUS
  <2>6. \A x \in first : x \in rest
    BY <1>13
  <2> HIDE DEF Mine
  <2> QED  BY <2>1, <2>2, <2>3, <2>4, <2>5, <2>6
<1>15. r \in Seq(Nat) /\ Distinct(r) /\ Range(r) = open \cup first
  <2>1. (open \cup first) \in SUBSET (1..current) /\ current \in Nat
    BY <1>2, <1>14 DEF BlockTypes
  <2>2. PICK S : S = open \cup first
    OBVIOUS
  <2> QED  BY <1>9, <2>1, <2>2, AscendingLists
<1>16. PICK g : g = [x \in 1..current |-> CASE x \in open \cup first -> <<"recyclable", t>>
                                            [] x \in kept \ open -> <<"unavailable", t>>
                                            [] x \in room -> <<"eva", t>>
                                            [] x \in rest \ first -> <<"toReturn", t>>
                                            [] OTHER -> h[x]]
  OBVIOUS
<1>17. /\ \A x \in 1..current : /\ x \in open \cup first => g[x] = <<"recyclable", t>>
                                /\ x \in kept \ open => g[x] = <<"unavailable", t>>
                                /\ x \in room => g[x] = <<"eva", t>>
                                /\ x \in rest \ first => g[x] = <<"toReturn", t>>
                                /\ h[x] \notin Mine => g[x] = h[x]
  <2> HIDE DEF Mine
  <2> QED  BY <1>14, <1>16
<1>18. g \in [1..current -> Boxes]
  <2>1. \A x \in 1..current : g[x] \in Boxes
    <3>1. ASSUME NEW x \in 1..current PROVE g[x] \in Boxes
      <4>1. CASE h[x] \in Mine
        <5> HIDE DEF Mine
        <5>1. g[x] \in {<<"recyclable", t>>, <<"unavailable", t>>, <<"eva", t>>, <<"toReturn", t>>}
          BY <1>14, <1>17, <4>1
        <5> QED  BY <5>1 DEF Boxes
      <4>2. CASE h[x] \notin Mine
        <5> HIDE DEF Mine
        <5> QED  BY <1>12, <1>17, <4>2
      <4> QED  BY <4>1, <4>2
    <3> QED  BY <3>1
  <2> QED  BY <1>16, <2>1
<1>19. /\ current' = current /\ recycleG' = recycleG /\ unavailG' = unavailG /\ freeList' = freeList
       /\ recyclable'[t] = r /\ unavailable'[t] = kept \ open /\ eva'[t] = room /\ toReturn'[t] = rest \ first
       /\ \A u \in Threads \ {t} : /\ recyclable'[u] = recyclable[u] /\ unavailable'[u] = unavailable[u]
                                   /\ eva'[u] = eva[u] /\ toReturn'[u] = toReturn[u]
  BY <1>2, <1>10 DEF BlockTypes
<1>20. \A x \in 1..current : \/ h[x] \in Mine /\ g[x] \in {<<"recyclable", t>>, <<"unavailable", t>>, <<"eva", t>>, <<"toReturn", t>>}
                             \/ h[x] \notin Mine /\ g[x] = h[x]
  <2> HIDE DEF Mine
  <2> QED  BY <1>14, <1>17
<1>21. Held(g)'
  <2>1. Elsewhere(h, g, t)
    <3>1. \A u \in Threads \ {t}, kind \in Kinds : \A x :
            (x \in 1..current' /\ g[x] = <<kind, u>>) <=> (x \in 1..current /\ h[x] = <<kind, u>>)
      BY <1>19, <1>20 DEF Kinds
    <3> QED  BY <1>19, <3>1 DEF Elsewhere
  <2>2. Nobodys(g)
    <3>1. \A x \in 1..current : /\ g[x] = <<"freeList", None>> <=> h[x] = <<"freeList", None>>
                                /\ g[x] = <<"recycleG", None>> <=> h[x] = <<"recycleG", None>>
                                /\ g[x] = <<"unavailG", None>> <=> h[x] = <<"unavailG", None>>
      BY <1>20
    <3> QED  BY <1>12, <1>19, <3>1 DEF Nobodys
  <2>3. Own(g, t)
    <3>1. \A x \in 1..current : h[x] \notin Mine => h[x] # <<"toReturn", t>>
      BY <1>10, <1>12
    <3>2. ASSUME NEW x
          PROVE  /\ x \in open \cup first <=> (x \in 1..current /\ g[x] = <<"recyclable", t>>)
                 /\ x \in kept \ open <=> (x \in 1..current /\ g[x] = <<"unavailable", t>>)
                 /\ x \in room <=> (x \in 1..current /\ g[x] = <<"eva", t>>)
                 /\ x \in rest \ first <=> (x \in 1..current /\ g[x] = <<"toReturn", t>>)
      <4>1. CASE x \in 1..current /\ h[x] \in Mine
        <5>1. x \in open \cup first \/ x \in kept \ open \/ x \in room \/ x \in rest \ first
          BY <1>14, <4>1
        <5>2. CASE x \in open \cup first
          BY <1>14, <1>17, <4>1, <5>2
        <5>3. CASE x \in kept \ open
          BY <1>14, <1>17, <4>1, <5>3
        <5>4. CASE x \in room
          BY <1>14, <1>17, <4>1, <5>4
        <5>5. CASE x \in rest \ first
          BY <1>14, <1>17, <4>1, <5>5
        <5> QED  BY <5>1, <5>2, <5>3, <5>4, <5>5
      <4>2. CASE x \in 1..current /\ h[x] \notin Mine
        <5>1. g[x] = h[x] /\ g[x] \notin Mine /\ g[x] # <<"toReturn", t>>
          BY <1>17, <3>1, <4>2
        <5>2. x \notin open \cup first /\ x \notin kept \ open /\ x \notin room /\ x \notin rest \ first
          <6> HIDE DEF Mine
          <6> QED  BY <1>14, <4>2
        <5> QED  BY <5>1, <5>2
      <4>3. CASE x \notin 1..current
        <5> HIDE DEF Mine
        <5> QED  BY <1>14, <4>3
      <4> QED  BY <4>1, <4>2, <4>3
    <3> QED  BY <1>15, <1>19, <3>2 DEF Own
  <2>4. Held(h) /\ g \in [1..current' -> Boxes]
    BY <1>1, <1>18, <1>19 DEF Accounts
  <2> QED  BY <2>1, <2>2, <2>3, <2>4, Rearranged
<1>22. Kept(g)'
  <2>1. Kept(h) /\ UNCHANGED <<live, current>>
    BY <1>1, <1>10 DEF Accounts
  <2>2. \A x \in free' \cup handed' \cup live' : x \in 1..current
    <3>1. \A x : x \in free \/ x \in handed \/ x \in live => x \in 1..current
      BY <2>1 DEF Kept
    <3>2. \A x : x \in room \/ x \in rest => x \in 1..current
      BY <1>13, <1>14
    <3> QED  BY <1>10, <3>1, <3>2
  <2>3. ASSUME NEW x \in 1..current
        PROVE  x \in free' <=> g[x][1] \in Waiting \/ x \in handed'
    <3>1. x \in free <=> h[x][1] \in Waiting \/ x \in handed
      BY <2>1 DEF Kept
    <3>2. /\ x \in free' <=> x \notin first /\ (x \in free \/ x \in room \/ x \in rest)
          /\ x \in handed' <=> x \notin first /\ x \in handed
      BY <1>10
    <3>3. CASE h[x] \in Mine
      <4>1. x \in open \cup first \/ x \in kept \ open \/ x \in room \/ x \in rest \ first
        BY <1>14, <3>3
      <4>2. CASE x \in first
        BY <1>17, <3>2, <4>2 DEF Waiting
      <4>3. CASE x \in kept
        <5>1. x \in owned
          BY <1>4, <4>3
        <5>2. h[x] \in {<<"recyclable", t>>, <<"unavailable", t>>}
          BY <1>3, <1>12, <5>1
        <5>3. x \in free <=> x \in handed
          BY <3>1, <5>2 DEF Waiting
        <5>4. x \notin room /\ x \notin rest \ first /\ x \notin first
          <6>1. x \in open \/ x \in kept \ open
            BY <4>3
          <6>2. x \notin rest
            BY <1>3, <1>4, <1>5, <1>7, <1>12, <4>3
          <6> QED  BY <1>13, <1>14, <6>1, <6>2
        <5>5. g[x] = <<"recyclable", t>> \/ g[x] = <<"unavailable", t>>
          BY <1>17, <4>3
        <5> QED  BY <3>2, <5>3, <5>4, <5>5 DEF Waiting
      <4>4. CASE x \in room
        <5>1. g[x] = <<"eva", t>> /\ x \notin first
          BY <1>14, <1>17, <4>4
        <5> QED  BY <3>2, <4>4, <5>1 DEF Waiting
      <4>5. CASE x \in rest \ first
        <5>1. g[x] = <<"toReturn", t>>
          BY <1>17, <4>5
        <5> QED  BY <3>2, <4>5, <5>1 DEF Waiting
      <4> QED  BY <4>1, <4>2, <4>3, <4>4, <4>5
    <3>4. CASE h[x] \notin Mine
      <4>1. g[x] = h[x]
        BY <1>17, <3>4
      <4>2. x \notin first /\ x \notin room /\ x \notin rest
        <5> HIDE DEF Mine
        <5> QED  BY <1>14, <3>4
      <4> QED  BY <3>1, <3>2, <4>1, <4>2
    <3> QED  BY <3>3, <3>4
  \* What is not handed over stays so: first was not marked, or in reserve.
  <2>4. ASSUME NEW x \in live \ handed', x \notin first PROVE x \in live \ handed /\ x \in 1..current
    BY <1>10, <2>1, <2>4 DEF Kept
  <2>5. ASSUME NEW x \in live \ handed, x \in owned PROVE x \in kept
    <3>1. h[x] \in {<<"recyclable", t>>, <<"unavailable", t>>}
      BY <1>3, <1>12, <2>5
    <3>2. x \in marked
      BY <1>10, <2>1, <3>1 DEF Kept
    <3> QED  BY <1>4, <2>5, <3>2
  <2>6. ASSUME NEW x \in live \ handed' PROVE g[x][1] \in Used
    <3>1. CASE x \in first
      <4>1. x \in 1..current
        BY <1>13, <1>14, <3>1
      <4> QED  BY <1>17, <3>1, <4>1 DEF Used
    <3>2. CASE x \notin first
      <4>1. x \in live \ handed /\ x \in 1..current /\ h[x][1] \in Used
        BY <2>1, <2>4, <3>2 DEF Kept
      <4>2. CASE h[x] \in Mine
        <5>1. h[x] # <<"eva", t>>
          BY <4>1 DEF Used
        <5>2. x \in owned
          BY <1>3, <1>12, <4>1, <4>2, <5>1
        <5>3. x \in kept
          BY <2>5, <4>1, <5>2
        <5> QED  BY <1>17, <4>1, <5>3 DEF Used
      <4>3. CASE h[x] \notin Mine
        BY <1>17, <4>1, <4>3
      <4> QED  BY <4>2, <4>3
    <3> QED  BY <3>1, <3>2
  <2>7. ASSUME NEW u \in Threads, NEW x \in live \ handed', pc'[u] = "sweep",
               g[x] \in {<<"recyclable", u>>, <<"unavailable", u>>}
        PROVE  x \in marked'
    <3>1. u # t /\ pc[u] = "sweep" /\ x \in 1..current
      BY <1>11, <2>1, <2>7 DEF Kept
    <3>2. h[x] = g[x] /\ h[x] \notin Mine
      BY <1>20, <2>7, <3>1
    <3>3. x \notin first
      <4> HIDE DEF Mine
      <4> QED  BY <1>14, <3>2
    <3>4. x \in live \ handed
      BY <2>4, <3>3
    <3>5. x \in marked
      BY <2>1, <2>7, <3>1, <3>2, <3>4 DEF Kept
    <3>6. x \notin owned
      BY <1>3, <1>12, <3>2
    <3> QED  BY <1>10, <3>5, <3>6
  <2> QED  BY <2>1, <2>2, <2>3, <2>6, <2>7 DEF Kept
<1>23. BlockTypes' /\ NoRepeats'
  <2>1. room \in SUBSET Nat /\ rest \ first \in SUBSET Nat /\ kept \ open \in SUBSET Nat
    <3>1. \A x : x \in room \/ x \in rest \ first \/ x \in kept \ open => x \in 1..current
      BY <1>14
    <3>2. \A x \in 1..current : x \in Nat
      BY <1>2 DEF BlockTypes
    <3> QED  BY <3>1, <3>2
  <2>2. BlockTypes'
    BY <1>2, <1>10, <1>11, <1>15, <2>1 DEF BlockTypes
  <2> QED  BY <1>2, <1>15, <1>19, <2>2 DEF NoRepeats
<1> QED  BY <1>10, <1>11, <1>18, <1>19, <1>21, <1>22, <1>23 DEF BlocksInv

LEMMA ReturnedKept ==
    ASSUME BlockTypes, Returned, Next
    PROVE  Returned'
<1>1. pc \in [Threads -> Lists] /\ toReturn \in [Threads -> SUBSET Nat]
  BY DEF BlockTypes
<1>2. SUFFICES ASSUME NEW u \in Threads, pc'[u] \in {"mark", "evacuate", "carveEvacuate", "sweep"}
               PROVE  toReturn'[u] = {}
  BY DEF Returned
<1>3. ASSUME NEW t \in Threads,
             \/ StartAlloc(t) \/ SetAside(t) \/ Exhausted(t) \/ Fits(t) \/ CheckHeapEnd(t)
             \/ OutOfMemory(t) \/ Join(t) \/ PushLoad(t) \/ PushStore(t) \/ Left(t) \/ Stop(t)
             \/ GetMoreWorks(t) \/ \E b \in live : MarkInPlace(t, b) \/ Evacuate(t, b)
      PROVE  toReturn'[u] = {}
  <2>1. toReturn' = toReturn
    BY <1>3 DEF StartAlloc, SetAside, Exhausted, Fits, CheckHeapEnd, OutOfMemory, Join, PushLoad, PushStore,
                Left, Stop, GetMoreWorks, MarkInPlace, Evacuate, lists
  <2>2. \/ pc' = pc
        \/ \E where : pc' = [pc EXCEPT ![t] = where]
                      /\ (where \in {"mark", "evacuate", "carveEvacuate", "sweep"}
                            => pc[t] \in {"mark", "evacuate"})
    BY <1>3 DEF StartAlloc, SetAside, Exhausted, Fits, FrontUsable, Allocating, CheckHeapEnd, WantsBlock, CarveTo,
                OutOfMemory, Join, PushLoad, PushStore, Left, Stop, GetMoreWorks, MarkInPlace, Evacuate, Resume, Goto
  <2> QED  BY <1>1, <1>2, <2>1, <2>2 DEF Returned
<1>4. ASSUME NEW t \in Threads, FromHeadRoom(t) \/ FromToReturn(t) \/ FromFreeList(t) \/ Carve(t)
      PROVE  toReturn'[u] = {}
  <2>1. toReturn'[u] \subseteq toReturn[u]
    BY <1>1, <1>4 DEF FromHeadRoom, FromToReturn, FromFreeList, Carve
  <2>2. \E where : pc' = [pc EXCEPT ![t] = where]
                   /\ (where \in {"mark", "evacuate", "carveEvacuate", "sweep"}
                         => pc[t] \in {"evacuate", "carveEvacuate"})
    <3>1. pc[t] \in Taking
      BY <1>4 DEF FromHeadRoom, FromToReturn, FromFreeList, Carve, WantsBlock, FrontUsable, Allocating, Taking
    <3>2. PICK b : TakeBlock(t, b)
      BY <1>4 DEF FromHeadRoom, FromToReturn, FromFreeList, Carve
    <3>3. Resume(t)
      BY <3>2 DEF TakeBlock, Place
    <3>4. CASE pc[t] \in {"alloc", "carveAlloc", "refill", "carveRefill"}
      <4>1. pc' = [pc EXCEPT ![t] = "run"]
        BY <3>3, <3>4 DEF Resume, Goto
      <4>2. "run" \notin {"mark", "evacuate", "carveEvacuate", "sweep"}
        OBVIOUS
      <4> QED  BY <4>1, <4>2, Zenon
    <3>5. CASE pc[t] \in {"evacuate", "carveEvacuate"}
      <4>1. pc' = [pc EXCEPT ![t] = "mark"]
        BY <3>3, <3>5 DEF Resume, Goto
      <4> QED  BY <3>5, <4>1
    <3> QED  BY <3>1, <3>4, <3>5 DEF Taking
  <2> QED  BY <1>1, <1>2, <2>1, <2>2 DEF Returned
<1>5. ASSUME NEW t \in Threads, Leave(t) \/ ReturnPrevFreeBlocks(t) \/ Sweep(t)
      PROVE  toReturn'[u] = {}
  <2>1. CASE Leave(t) \/ ReturnPrevFreeBlocks(t)
    BY <1>1, <1>2, <2>1 DEF Leave, ReturnPrevFreeBlocks, Goto, Returned
  <2>2. CASE Sweep(t)
    <3>1. \E where \in {"refill", "run"} : pc' = [pc EXCEPT ![t] = where]
      BY <2>2 DEF Sweep, Goto
    <3>2. \E S : toReturn' = [toReturn EXCEPT ![t] = S]
      BY <2>2 DEF Sweep
    <3> QED  BY <1>1, <1>2, <3>1, <3>2 DEF Returned
  <2> QED  BY <1>5, <2>1, <2>2
<1>6. ASSUME EndMarking \/ \E b \in live : Forget(b)
      PROVE  toReturn'[u] = {}
  <2>1. CASE EndMarking
    BY <1>1, <1>2, <2>1 DEF EndMarking, lists, Returned
  <2>2. CASE \E b \in live : Forget(b)
    BY <1>1, <1>2, <2>2 DEF Forget, lists, Returned
  <2> QED  BY <1>6, <2>1, <2>2
<1> QED  BY <1>3, <1>4, <1>5, <1>6 DEF Next

-----------------------------------------------------------------------
(* The theorems.                                                         *)

LEMMA Started ==
    ASSUME Init
    PROVE  Inv
<1>1. /\ crew \in Crews /\ current = 0 /\ freeList = <<>> /\ recycleG = <<>> /\ unavailG = {}
      /\ \A t \in Threads : /\ recyclable[t] = <<>> /\ unavailable[t] = {} /\ eva[t] = {} /\ toReturn[t] = {}
                            /\ pc[t] = "out"
      /\ free = {} /\ handed = {} /\ live = {}
  BY DEF Init
<1>2. Range(<<>>) = {} /\ Distinct(<<>>) /\ <<>> \in Seq(Nat) /\ 1..0 = {}
  BY DEF Range, Distinct
<1>3. BlockTypes
  BY <1>2 DEF Init, BlockTypes, Lists
<1>4. NoRepeats /\ CrewInv /\ Returned
  BY <1>1, <1>2 DEF NoRepeats, CrewInv, Returned
<1>5. PICK h \in [1..0 -> Boxes] : TRUE
  <2>1. [x \in 1..0 |-> <<"freeList", None>>] \in [1..0 -> Boxes]
    BY DEF Boxes
  <2> QED  BY <2>1
<1>6. Held(h)
  BY <1>1, <1>2, <1>5 DEF Held, HeldAt
<1>7. Kept(h)
  BY <1>1, <1>2 DEF Kept
<1> QED  BY <1>1, <1>3, <1>4, <1>5, <1>6, <1>7 DEF Inv, BlocksInv

LEMMA Step ==
    ASSUME Inv, [Next]_vars
    PROVE  Inv'
<1>1. CASE UNCHANGED vars
  <2>1. UNCHANGED <<current, freeList, recycleG, unavailG, recyclable, unavailable, eva, toReturn,
                    free, handed, marked, live, pc, snapshot, crew>>
    BY <1>1 DEF vars, globals, lists, flags
  <2>2. BlockTypes' = BlockTypes /\ NoRepeats' = NoRepeats /\ CrewInv' = CrewInv /\ Returned' = Returned
    BY <2>1 DEF BlockTypes, NoRepeats, CrewInv, Returned
  <2>3. \A h : Held(h)' = Held(h) /\ Kept(h)' = Kept(h)
    BY <2>1 DEF Held, HeldAt, Kept
  <2> QED  BY <2>1, <2>2, <2>3 DEF Inv, BlocksInv, Orderly
<1>2. CASE Next
  <2>1. crew' = crew
    BY <1>2 DEF Next, StartAlloc, SetAside, Exhausted, Fits, FromHeadRoom, FromToReturn, FromFreeList,
                CheckHeapEnd, Carve, OutOfMemory, Join, Leave, PushLoad, PushStore, Left, Stop,
                GetMoreWorks, ReturnPrevFreeBlocks, Sweep, MarkInPlace, Evacuate, Forget, EndMarking
  <2>2. SUFFICES ASSUME Orderly PROVE BlocksInv' /\ Returned'
    BY <2>1 DEF Inv, Orderly
  <2>3. Base /\ Returned
    BY <2>2 DEF Inv, Base
  <2>4. Returned'
    BY <1>2, <2>3, ReturnedKept DEF Base, BlocksInv
  <2>5. ASSUME NEW t \in Threads, SetAside(t) \/ Exhausted(t) PROVE BlocksInv'
    BY <2>3, <2>5, PutAside
  <2>6. ASSUME NEW t \in Threads, FromHeadRoom(t) PROVE BlocksInv'
    BY <2>3, <2>6, TakesHeadRoom
  <2>7. ASSUME NEW t \in Threads, FromToReturn(t) PROVE BlocksInv'
    BY <2>3, <2>7, TakesToReturn
  <2>8. ASSUME NEW t \in Threads, FromFreeList(t) PROVE BlocksInv'
    BY <2>3, <2>8, TakesFromList
  <2>9. ASSUME NEW t \in Threads, Carve(t) PROVE BlocksInv'
    BY <2>3, <2>9, TakesNew
  <2>10. ASSUME NEW t \in Threads, Leave(t) PROVE BlocksInv'
    BY <2>3, <2>10, LeftBehind
  <2>11. ASSUME NEW t \in Threads, PushStore(t) PROVE BlocksInv'
    BY <2>3, <2>11, Pushed
  <2>12. ASSUME NEW t \in Threads, GetMoreWorks(t) PROVE BlocksInv'
    BY <2>3, <2>12, Inherited
  <2>13. ASSUME NEW t \in Threads, ReturnPrevFreeBlocks(t) PROVE BlocksInv'
    BY <2>3, <2>13, GivenBack
  <2>14. ASSUME NEW t \in Threads, Sweep(t) PROVE BlocksInv'
    BY <2>3, <2>14, Swept
  <2>15. ASSUME NEW t \in Threads,
                \/ StartAlloc(t) \/ Fits(t) \/ CheckHeapEnd(t) \/ OutOfMemory(t)
                \/ Join(t) \/ PushLoad(t) \/ Left(t) \/ Stop(t)
                \/ \E b \in live : MarkInPlace(t, b) \/ Evacuate(t, b)
         PROVE  BlocksInv'
    BY <2>3, <2>15, NothingMoves
  <2>16. ASSUME NEW b \in live, Forget(b) PROVE BlocksInv'
    BY <2>3, <2>16, Forgotten
  <2>17. ASSUME EndMarking PROVE BlocksInv'
    BY <2>3, <2>17, MarkingEnded
  <2> QED  BY <1>2, <2>4, <2>5, <2>6, <2>7, <2>8, <2>9, <2>10, <2>11, <2>12, <2>13, <2>14,
              <2>15, <2>16, <2>17 DEF Next
<1> QED  BY <1>1, <1>2

\* Wherever blocks go, there is a function that says where each one is.
THEOREM HolderInvariant == Spec => []Inv
<1>1. Init => Inv
  BY Started
<1>2. Inv /\ [Next]_vars => Inv'
  BY Step
<1> QED  BY <1>1, <1>2, PTL DEF Spec

One(S) == \E p : S = {p}

LEMMA OnePair ==
    ASSUME NEW box, NEW W
    PROVE  /\ One(W) => One({box} \X W)
           /\ W = {} => {box} \X W = {}
<1>1. ASSUME One(W) PROVE One({box} \X W)
  <2>1. PICK i : W = {i}
    BY <1>1 DEF One
  <2>2. {box} \X {i} = {<<box, i>>}
    OBVIOUS
  <2>3. {box} \X W = {<<box, i>>}
    BY <2>1, <2>2
  <2> QED  BY <2>3 DEF One
<1> QED  BY <1>1

LEMMA OneOfFour ==
    ASSUME NEW A, NEW B, NEW C, NEW D,
           \/ One(A) /\ B = {} /\ C = {} /\ D = {}
           \/ A = {} /\ One(B) /\ C = {} /\ D = {}
           \/ A = {} /\ B = {} /\ One(C) /\ D = {}
           \/ A = {} /\ B = {} /\ C = {} /\ One(D)
    PROVE  One(A \cup B \cup C \cup D)
<1>1. \A S : S \cup {} = S /\ {} \cup S = S
  OBVIOUS
<1> QED  BY <1>1

LEMMA HeldOnce ==
    ASSUME Inv
    PROVE  OneHolder
<1>1. SUFFICES ASSUME Orderly, NEW b \in 1..current PROVE Cardinality(Places(b)) = 1
  BY DEF OneHolder
<1>2. PICK h : Accounts(h)
  BY <1>1 DEF Inv, BlocksInv, Accounts
<1>3. BlockTypes /\ NoRepeats
  BY <1>1 DEF Inv, BlocksInv
<1>4. /\ h \in [1 .. current -> Boxes]
      /\ b \in Range(freeList) <=> h[b] = <<"freeList", None>>
      /\ b \in Range(recycleG) <=> h[b] = <<"recycleG", None>>
      /\ b \in unavailG <=> h[b] = <<"unavailG", None>>
      /\ \A t \in Threads : /\ b \in Range(recyclable[t]) <=> h[b] = <<"recyclable", t>>
                            /\ b \in unavailable[t] <=> h[b] = <<"unavailable", t>>
                            /\ b \in eva[t] <=> h[b] = <<"eva", t>>
                            /\ b \in toReturn[t] <=> h[b] = <<"toReturn", t>>
  BY <1>2, HeldFacts DEF Accounts
\* A list has at most one place for b, and has it when b is in its range.
<1>5. ASSUME NEW q \in Seq(Nat), Distinct(q)
      PROVE  /\ b \in Range(q) => One(Where(q, b))
             /\ b \notin Range(q) => Where(q, b) = {}
  <2>1. \A i, j \in DOMAIN q : q[i] = q[j] => i = j
    BY <1>5 DEF Distinct
  <2>2. b \in Range(q) <=> \E i \in DOMAIN q : q[i] = b
    BY DEF Range
  <2>3. \A i : i \in Where(q, b) <=> i \in DOMAIN q /\ q[i] = b
    BY DEF Where
  <2>4. ASSUME b \in Range(q) PROVE One(Where(q, b))
    <3>1. PICK i \in DOMAIN q : q[i] = b
      BY <2>2, <2>4
    <3>2. \A j : j \in Where(q, b) <=> j = i
      BY <2>1, <2>3, <3>1
    <3>3. Where(q, b) = {i}
      BY <3>2
    <3> QED  BY <3>3 DEF One
  <2> QED  BY <2>2, <2>3, <2>4
<1>6. ASSUME NEW S PROVE /\ b \in S => One(Member(S, b))
                         /\ b \notin S => Member(S, b) = {}
  <2>1. \A i : i \in Member(S, b) <=> i = 0 /\ b \in S
    BY DEF Member
  <2>2. b \in S => Member(S, b) = {0}
    BY <2>1
  <2>3. b \notin S => Member(S, b) = {}
    BY <2>1
  <2> QED  BY <2>2, <2>3 DEF One
<1> DEFINE F == {<<"freeList", None>>} \X Where(freeList, b)
           R == {<<"recycleG", None>>} \X Where(recycleG, b)
           U == {<<"unavailG", None>>} \X Member(unavailG, b)
           T1(t) == {<<"recyclable", t>>} \X Where(recyclable[t], b)
           T2(t) == {<<"unavailable", t>>} \X Member(unavailable[t], b)
           T3(t) == {<<"eva", t>>} \X Member(eva[t], b)
           T4(t) == {<<"toReturn", t>>} \X Member(toReturn[t], b)
           T(t) == T1(t) \cup T2(t) \cup T3(t) \cup T4(t)
\* The list a block is in gives one place, the others none.
<1>8. /\ (h[b] = <<"freeList", None>> => One(F)) /\ (h[b] # <<"freeList", None>> => F = {})
      /\ (h[b] = <<"recycleG", None>> => One(R)) /\ (h[b] # <<"recycleG", None>> => R = {})
      /\ (h[b] = <<"unavailG", None>> => One(U)) /\ (h[b] # <<"unavailG", None>> => U = {})
  <2>1. freeList \in Seq(Nat) /\ Distinct(freeList) /\ recycleG \in Seq(Nat) /\ Distinct(recycleG)
    BY <1>3 DEF BlockTypes, NoRepeats
  <2>2. (h[b] = <<"freeList", None>> => One(F)) /\ (h[b] # <<"freeList", None>> => F = {})
    BY <1>4, <1>5, <2>1, OnePair
  <2>3. (h[b] = <<"recycleG", None>> => One(R)) /\ (h[b] # <<"recycleG", None>> => R = {})
    BY <1>4, <1>5, <2>1, OnePair
  <2>4. (h[b] = <<"unavailG", None>> => One(U)) /\ (h[b] # <<"unavailG", None>> => U = {})
    BY <1>4, <1>6, OnePair
  <2> QED  BY <2>2, <2>3, <2>4
<1>9. ASSUME NEW t \in Threads
      PROVE  /\ (h[b] = <<"recyclable", t>> => One(T1(t))) /\ (h[b] # <<"recyclable", t>> => T1(t) = {})
             /\ (h[b] = <<"unavailable", t>> => One(T2(t))) /\ (h[b] # <<"unavailable", t>> => T2(t) = {})
             /\ (h[b] = <<"eva", t>> => One(T3(t))) /\ (h[b] # <<"eva", t>> => T3(t) = {})
             /\ (h[b] = <<"toReturn", t>> => One(T4(t))) /\ (h[b] # <<"toReturn", t>> => T4(t) = {})
  <2>1. recyclable[t] \in Seq(Nat) /\ Distinct(recyclable[t])
    BY <1>3 DEF BlockTypes, NoRepeats
  <2>2. (h[b] = <<"recyclable", t>> => One(T1(t))) /\ (h[b] # <<"recyclable", t>> => T1(t) = {})
    BY <1>4, <1>5, <2>1, OnePair
  <2>3. (h[b] = <<"unavailable", t>> => One(T2(t))) /\ (h[b] # <<"unavailable", t>> => T2(t) = {})
    BY <1>4, <1>6, OnePair
  <2>4. (h[b] = <<"eva", t>> => One(T3(t))) /\ (h[b] # <<"eva", t>> => T3(t) = {})
    BY <1>4, <1>6, OnePair
  <2>5. (h[b] = <<"toReturn", t>> => One(T4(t))) /\ (h[b] # <<"toReturn", t>> => T4(t) = {})
    BY <1>4, <1>6, OnePair
  <2> QED  BY <2>2, <2>3, <2>4, <2>5
<1>10. Places(b) = F \cup R \cup U \cup (UNION {T(t) : t \in Threads})
  BY DEF Places
<1> HIDE DEF F, R, U, T1, T2, T3, T4
<1>11. ASSUME NEW t \in Threads
       PROVE  /\ \A kind \in Kinds : h[b] = <<kind, t>> => One(T(t))
              /\ (\A kind \in Kinds : h[b] # <<kind, t>>) => T(t) = {}
  <2>1. ASSUME h[b] = <<"recyclable", t>> PROVE One(T(t))
    <3>1. One(T1(t)) /\ T2(t) = {} /\ T3(t) = {} /\ T4(t) = {}
      BY <1>9, <2>1
    <3> QED  BY <3>1, OneOfFour
  <2>2. ASSUME h[b] = <<"unavailable", t>> PROVE One(T(t))
    <3>1. T1(t) = {} /\ One(T2(t)) /\ T3(t) = {} /\ T4(t) = {}
      BY <1>9, <2>2
    <3> QED  BY <3>1, OneOfFour
  <2>3. ASSUME h[b] = <<"eva", t>> PROVE One(T(t))
    <3>1. T1(t) = {} /\ T2(t) = {} /\ One(T3(t)) /\ T4(t) = {}
      BY <1>9, <2>3
    <3> QED  BY <3>1, OneOfFour
  <2>4. ASSUME h[b] = <<"toReturn", t>> PROVE One(T(t))
    <3>1. T1(t) = {} /\ T2(t) = {} /\ T3(t) = {} /\ One(T4(t))
      BY <1>9, <2>4
    <3> QED  BY <3>1, OneOfFour
  <2>5. ASSUME \A kind \in Kinds : h[b] # <<kind, t>> PROVE T(t) = {}
    <3>1. h[b] # <<"recyclable", t>> /\ h[b] # <<"unavailable", t>> /\ h[b] # <<"eva", t>> /\ h[b] # <<"toReturn", t>>
      BY <2>5 DEF Kinds
    <3>2. T1(t) = {} /\ T2(t) = {} /\ T3(t) = {} /\ T4(t) = {}
      BY <1>9, <3>1
    <3> QED  BY <3>2
  <2> HIDE DEF T
  <2> QED  BY <2>1, <2>2, <2>3, <2>4, <2>5 DEF Kinds
<1> HIDE DEF T
<1>12. One(Places(b))
  <2>1. CASE h[b] \in {<<"freeList", None>>, <<"recycleG", None>>, <<"unavailG", None>>}
    <3>1. \A t \in Threads, kind \in Kinds : h[b] # <<kind, t>>
      BY <2>1 DEF Kinds
    <3>2. \A t \in Threads : T(t) = {}
      BY <1>11, <3>1
    <3>3. Places(b) = F \cup R \cup U \cup {}
      BY <1>10, <3>2
    <3>4. \/ One(F) /\ R = {} /\ U = {}
          \/ F = {} /\ One(R) /\ U = {}
          \/ F = {} /\ R = {} /\ One(U)
      <4> QED  BY <1>8, <2>1
    <3> QED  BY <3>3, <3>4, OneOfFour
  <2>2. ASSUME NEW kind \in Kinds, NEW t \in Threads, h[b] = <<kind, t>> PROVE One(Places(b))
    <3>1. F = {} /\ R = {} /\ U = {}
      <4> QED  BY <1>8, <2>2 DEF Kinds
    <3>2. One(T(t))
      <4> QED  BY <1>11, <2>2
    <3>3. \A u \in Threads \ {t} : T(u) = {}
      <4>1. ASSUME NEW u \in Threads \ {t} PROVE T(u) = {}
        <5>1. \A k \in Kinds : h[b] # <<k, u>>
          BY <2>2
        <5> QED  BY <1>11, <5>1
      <4> QED  BY <4>1
    <3>4. Places(b) = T(t)
      BY <1>10, <3>1, <3>3
    <3> QED  BY <3>2, <3>4
  <2>3. h[b] \in Boxes
    BY <1>4
  <2> QED  BY <2>1, <2>2, <2>3 DEF Boxes, Kinds
<1> QED  BY <1>12, FS_Singleton DEF One

LEMMA AllKept ==
    ASSUME Inv
    PROVE  LiveKept /\ FreeFlagExact
<1>1. SUFFICES ASSUME Orderly
               PROVE  /\ live \ handed \subseteq InUse
                      /\ free = Range(freeList) \cup handed \cup (UNION {eva[t] \cup toReturn[t] : t \in Threads})
  BY DEF LiveKept, FreeFlagExact
<1>2. PICK h : Held(h) /\ Kept(h)
  BY <1>1 DEF Inv, BlocksInv
<1>3. /\ h \in [1 .. current -> Boxes]
      /\ \A b : b \in Range(freeList) <=> b \in 1..current /\ h[b] = <<"freeList", None>>
      /\ \A b : b \in Range(recycleG) <=> b \in 1..current /\ h[b] = <<"recycleG", None>>
      /\ \A b : b \in unavailG <=> b \in 1..current /\ h[b] = <<"unavailG", None>>
      /\ \A t \in Threads : \A b :
                /\ b \in Range(recyclable[t]) <=> b \in 1..current /\ h[b] = <<"recyclable", t>>
                /\ b \in unavailable[t] <=> b \in 1..current /\ h[b] = <<"unavailable", t>>
                /\ b \in eva[t] <=> b \in 1..current /\ h[b] = <<"eva", t>>
                /\ b \in toReturn[t] <=> b \in 1..current /\ h[b] = <<"toReturn", t>>
  BY <1>2, HeldFacts
<1>4. \A b \in 1..current :
        \/ h[b] \in {<<"freeList", None>>, <<"recycleG", None>>, <<"unavailG", None>>}
        \/ \E t \in Threads : h[b] \in {<<"recyclable", t>>, <<"unavailable", t>>, <<"eva", t>>, <<"toReturn", t>>}
  BY <1>3 DEF Boxes
<1>5. ASSUME NEW b \in live \ handed PROVE b \in InUse
  <2>1. b \in 1..current /\ h[b][1] \in Used
    BY <1>2 DEF Kept
  <2>2. \/ h[b] \in {<<"recycleG", None>>, <<"unavailG", None>>}
        \/ \E t \in Threads : h[b] \in {<<"recyclable", t>>, <<"unavailable", t>>}
    BY <1>4, <2>1 DEF Used
  <2>3. \/ b \in Range(recycleG) \/ b \in unavailG
        \/ \E t \in Threads : b \in Range(recyclable[t]) \cup unavailable[t]
    BY <1>3, <2>1, <2>2
  <2> QED  BY <2>3 DEF InUse
<1>6. ASSUME NEW b
      PROVE  b \in free <=> b \in Range(freeList) \/ b \in handed \/ \E t \in Threads : b \in eva[t] \cup toReturn[t]
  <2>1. CASE b \in 1..current
    <3>1. b \in free <=> h[b][1] \in Waiting \/ b \in handed
      BY <1>2, <2>1 DEF Kept
    <3>2. h[b][1] \in Waiting
            <=> h[b] = <<"freeList", None>> \/ \E t \in Threads : h[b] \in {<<"eva", t>>, <<"toReturn", t>>}
      BY <1>4, <2>1 DEF Waiting
    <3> QED  BY <1>3, <2>1, <3>1, <3>2
  <2>2. CASE b \notin 1..current
    BY <1>2, <1>3, <2>2 DEF Kept
  <2> QED  BY <2>1, <2>2
<1> QED  BY <1>5, <1>6

\* No two allocators ever hold one block, and none is forgotten: the doc of
\* Freelist, with any number of threads, as long as no thread ends while
\* another uses the free list.
THEOREM BlocksHeldOnce == Spec => []OneHolder
BY HolderInvariant, HeldOnce, PTL

\* A block the program reaches is in use, in the hands of one thread or left
\* by one that ended: sweep frees only what is not marked. It may be lost only
\* if it was handed over by a thread that ended before it returned it.
THEOREM LiveBlocksKept == Spec => []LiveKept
BY HolderInvariant, AllKept, PTL

\* The free flag, which mark_ptr trusts, is up in every block that waits to be
\* used, and in a block in use only if an ending thread handed it over so.
THEOREM FreeFlagTrue == Spec => []FreeFlagExact
BY HolderInvariant, AllKept, PTL

=======================================================================
