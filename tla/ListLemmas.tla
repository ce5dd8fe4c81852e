------------------------- MODULE ListLemmas ---------------------------
(* Facts that the proofs of several components need: what is in a        *)
(* sequence, wherever it stands, sequences without repetition, the least *)
(* and the greatest of a set of numbers, what holds up to a number, and  *)
(* functions defined by recursion.                                       *)
EXTENDS Naturals, Sequences, FiniteSets, SequencesExt, FiniteSetsExt,
        FiniteSetTheorems, WellFoundedInduction, TLAPS

Distinct(s) == \A i, j \in DOMAIN s : s[i] = s[j] => i = j

LEMMA InRange == ASSUME NEW S, NEW q \in Seq(S)
                 PROVE  /\ \A x : x \in Range(q) <=> \E i \in 1..Len(q) : q[i] = x
                        /\ Range(q) \subseteq S
                        /\ DOMAIN q = 1..Len(q) /\ Len(q) \in Nat
                        /\ q = <<>> <=> Len(q) = 0
BY DEF Range

LEMMA RangeConcat ==
    ASSUME NEW S, NEW p \in Seq(S), NEW q \in Seq(S)
    PROVE  /\ p \o q \in Seq(S)
           /\ Range(p \o q) = Range(p) \cup Range(q)
<1>1. /\ p \o q \in Seq(S) /\ Len(p \o q) = Len(p) + Len(q) /\ Len(p) \in Nat /\ Len(q) \in Nat
      /\ \A i \in 1..Len(p) : (p \o q)[i] = p[i]
      /\ \A i \in 1..Len(q) : (p \o q)[Len(p) + i] = q[i]
  OBVIOUS
<1> DEFINE c == p \o q
<1>2. /\ c \in Seq(S) /\ Len(c) = Len(p) + Len(q) /\ DOMAIN c = 1..Len(c)
      /\ DOMAIN p = 1..Len(p) /\ DOMAIN q = 1..Len(q)
      /\ \A i \in 1..Len(p) : c[i] = p[i]
      /\ \A i \in 1..Len(q) : c[Len(p) + i] = q[i]
  BY <1>1
<1> HIDE DEF c
<1>3. ASSUME NEW i \in 1..Len(c)
      PROVE  \/ i \in 1..Len(p) /\ c[i] = p[i]
             \/ i - Len(p) \in 1..Len(q) /\ c[i] = q[i - Len(p)]
  <2>1. i \in 1..Len(p) \/ (i - Len(p) \in 1..Len(q) /\ i = Len(p) + (i - Len(p)))
    BY <1>1, <1>2
  <2> QED  BY <1>2, <2>1
<1>4. Range(c) = Range(p) \cup Range(q)
  <2>1. ASSUME NEW x \in Range(c) PROVE x \in Range(p) \cup Range(q)
    <3>1. PICK i \in 1..Len(c) : c[i] = x
      BY <1>2, InRange
    <3> QED  BY <1>3, <3>1, InRange
  <2>2. ASSUME NEW x \in Range(p) PROVE x \in Range(c)
    <3>1. PICK i \in 1..Len(p) : p[i] = x
      BY InRange
    <3>2. i \in 1..Len(c) /\ c[i] = x
      BY <1>1, <1>2, <3>1
    <3> QED  BY <1>2, <3>2, InRange
  <2>3. ASSUME NEW x \in Range(q) PROVE x \in Range(c)
    <3>1. PICK i \in 1..Len(q) : q[i] = x
      BY InRange
    <3>2. Len(p) + i \in 1..Len(c) /\ c[Len(p) + i] = x
      BY <1>1, <1>2, <3>1
    <3> QED  BY <1>2, <3>2, InRange
  <2> QED  BY <2>1, <2>2, <2>3
<1> QED  BY <1>2, <1>4 DEF c

LEMMA RangeSplit ==
    ASSUME NEW S, NEW q \in Seq(S), NEW k \in 0..Len(q)
    PROVE  LET p == SubSeq(q, 1, k)  r == SubSeq(q, k + 1, Len(q)) IN
           /\ p \in Seq(S) /\ r \in Seq(S)
           /\ Range(q) = Range(p) \cup Range(r)
<1> DEFINE p == SubSeq(q, 1, k)
           r == SubSeq(q, k + 1, Len(q))
<1>1. /\ p \in Seq(S) /\ Len(p) = k /\ \A i \in 1..k : p[i] = q[i]
      /\ r \in Seq(S) /\ Len(r) = Len(q) - k /\ \A i \in 1..(Len(q) - k) : r[i] = q[k + i]
      /\ Len(q) \in Nat /\ k \in Nat /\ k <= Len(q)
  OBVIOUS
<1>2. ASSUME NEW x \in Range(q) PROVE x \in Range(p) \cup Range(r)
  <2>1. PICK i \in 1..Len(q) : q[i] = x
    BY InRange
  <2>2. CASE i \in 1..k
    <3> HIDE DEF p, r
    <3>1. p[i] = x
      BY <1>1, <2>1, <2>2
    <3> QED  BY <1>1, <2>2, <3>1, InRange
  <2>3. CASE i \notin 1..k
    <3> HIDE DEF p, r
    <3>1. i - k \in 1..(Len(q) - k) /\ i = k + (i - k)
      BY <1>1, <2>3
    <3>2. r[i - k] = x
      BY <1>1, <2>1, <3>1
    <3> QED  BY <1>1, <3>1, <3>2, InRange
  <2> QED  BY <2>2, <2>3
<1>3. ASSUME NEW x \in Range(p) PROVE x \in Range(q)
  <2> HIDE DEF p
  <2>1. PICK i \in 1..k : p[i] = x
    BY <1>1, InRange
  <2>2. i \in 1..Len(q) /\ q[i] = x
    BY <1>1, <2>1
  <2> QED  BY <2>2, InRange
<1>4. ASSUME NEW x \in Range(r) PROVE x \in Range(q)
  <2> HIDE DEF r
  <2>1. PICK i \in 1..(Len(q) - k) : r[i] = x
    BY <1>1, InRange
  <2>2. k + i \in 1..Len(q) /\ q[k + i] = x
    BY <1>1, <2>1
  <2> QED  BY <2>2, InRange
<1> HIDE DEF p, r
<1>5. p \in Seq(S) /\ r \in Seq(S) /\ Range(q) = Range(p) \cup Range(r)
  BY <1>1, <1>2, <1>3, <1>4
<1> QED  BY <1>5 DEF p, r

LEMMA RangeLast ==
    ASSUME NEW S, NEW q \in Seq(S), q # <<>>
    PROVE  /\ Front(q) \in Seq(S) /\ Last(q) \in S
           /\ Range(q) = Range(Front(q)) \cup {Last(q)}
<1>1. Len(q) \in Nat /\ Len(q) # 0 /\ Len(q) - 1 \in 0..Len(q)
  OBVIOUS
<1> DEFINE r == SubSeq(q, Len(q), Len(q))
<1>2. r \in Seq(S) /\ Len(r) = 1 /\ r[1] = Last(q) /\ Last(q) \in S
  BY <1>1 DEF Last
<1>3. Len(q) - 1 + 1 = Len(q)
  BY <1>1
<1>4. Front(q) \in Seq(S) /\ Range(q) = Range(Front(q)) \cup Range(r)
  BY <1>1, <1>3, RangeSplit DEF Front
<1>5. Range(r) = {Last(q)}
  <2> HIDE DEF r
  <2>1. \A x : x \in Range(r) <=> \E i \in 1..1 : r[i] = x
    BY <1>2, InRange
  <2> QED  BY <1>2, <2>1
<1> QED  BY <1>2, <1>4, <1>5

LEMMA RangeOne == ASSUME NEW S, NEW x \in S PROVE <<x>> \in Seq(S) /\ Range(<<x>>) = {x}
BY DEF Range

LEMMA TailDistinct ==
    ASSUME NEW S, NEW q \in Seq(S), q # <<>>, Distinct(q)
    PROVE  /\ Head(q) \in Range(q) /\ Tail(q) \in Seq(S) /\ Distinct(Tail(q))
           /\ Range(Tail(q)) = Range(q) \ {Head(q)}
<1>1. /\ Len(q) \in Nat /\ Len(q) >= 1 /\ DOMAIN q = 1..Len(q)
      /\ Head(q) = q[1] /\ Head(q) \in S
  OBVIOUS
<1> DEFINE t == Tail(q)
<1>2. /\ t \in Seq(S) /\ Len(t) = Len(q) - 1 /\ DOMAIN t = 1..Len(t)
      /\ \A i \in 1..Len(t) : t[i] = q[i + 1]
  BY <1>1
<1>3. Head(q) \in Range(q)
  BY <1>1, InRange
<1> HIDE DEF t
<1>4. Distinct(t)
  <2> SUFFICES ASSUME NEW i \in 1..Len(t), NEW j \in 1..Len(t), t[i] = t[j] PROVE i = j
    BY <1>2 DEF Distinct
  <2>1. i + 1 \in 1..Len(q) /\ j + 1 \in 1..Len(q) /\ q[i + 1] = q[j + 1]
    BY <1>1, <1>2
  <2>2. i + 1 = j + 1
    BY <1>1, <2>1 DEF Distinct
  <2> QED  BY <2>2
<1>5. Range(t) = Range(q) \ {Head(q)}
  <2>1. ASSUME NEW x \in Range(t) PROVE x \in Range(q) /\ x # Head(q)
    <3>1. PICK i \in 1..Len(t) : t[i] = x
      BY <1>2, InRange
    <3>2. i + 1 \in 1..Len(q) /\ q[i + 1] = x /\ i + 1 # 1
      BY <1>1, <1>2, <3>1
    <3> QED  BY <1>1, <3>2, InRange DEF Distinct
  <2>2. ASSUME NEW x \in Range(q), x # Head(q) PROVE x \in Range(t)
    <3>1. PICK i \in 1..Len(q) : q[i] = x
      BY InRange
    <3>2. i - 1 \in 1..Len(t) /\ t[i - 1] = x
      BY <1>1, <1>2, <2>2, <3>1
    <3> QED  BY <1>2, <3>2, InRange
  <2> QED  BY <2>1, <2>2
<1> QED  BY <1>2, <1>3, <1>4, <1>5 DEF t

LEMMA AppendDistinct ==
    ASSUME NEW S, NEW o \in Seq(S), NEW x \in S
    PROVE  /\ Append(o, x) \in Seq(S) /\ Range(Append(o, x)) = Range(o) \cup {x}
           /\ Distinct(o) /\ x \notin Range(o) => Distinct(Append(o, x))
<1>1. Len(o) \in Nat /\ DOMAIN o = 1..Len(o)
  OBVIOUS
<1> DEFINE a == Append(o, x)
<1>2. /\ a \in Seq(S) /\ Len(a) = Len(o) + 1 /\ DOMAIN a = 1..Len(a)
      /\ \A i \in 1..Len(o) : a[i] = o[i]
      /\ a[Len(o) + 1] = x
  BY <1>1
<1> HIDE DEF a
<1>3. Range(a) = Range(o) \cup {x}
  <2>1. ASSUME NEW y \in Range(a) PROVE y \in Range(o) \cup {x}
    <3>1. PICK i \in 1..Len(a) : a[i] = y
      BY <1>2, InRange
    <3>2. i \in 1..Len(o) \/ i = Len(o) + 1
      BY <1>1, <1>2, <3>1
    <3> QED  BY <1>2, <3>1, <3>2, InRange
  <2>2. ASSUME NEW y \in Range(o) PROVE y \in Range(a)
    <3>1. PICK i \in 1..Len(o) : o[i] = y
      BY InRange
    <3>2. i \in 1..Len(a) /\ a[i] = y
      BY <1>1, <1>2, <3>1
    <3> QED  BY <1>2, <3>2, InRange
  <2>3. x \in Range(a)
    <3>1. Len(o) + 1 \in 1..Len(a)
      BY <1>1, <1>2
    <3> QED  BY <1>2, <3>1, InRange
  <2> QED  BY <2>1, <2>2, <2>3
<1>4. ASSUME Distinct(o), x \notin Range(o) PROVE Distinct(a)
  <2> SUFFICES ASSUME NEW i \in 1..Len(a), NEW j \in 1..Len(a), a[i] = a[j] PROVE i = j
    BY <1>2 DEF Distinct
  <2>1. (i \in 1..Len(o) \/ i = Len(o) + 1) /\ (j \in 1..Len(o) \/ j = Len(o) + 1)
    BY <1>1, <1>2
  <2>2. \A k \in 1..Len(o) : a[k] \in Range(o)
    BY <1>2, InRange
  <2> QED  BY <1>1, <1>2, <1>4, <2>1, <2>2 DEF Distinct
<1> QED  BY <1>2, <1>3, <1>4 DEF a

LEMMA FrontDistinct ==
    ASSUME NEW S, NEW q \in Seq(S), q # <<>>, Distinct(q)
    PROVE  /\ Last(q) \in Range(q) /\ Front(q) \in Seq(S) /\ Distinct(Front(q))
           /\ Range(Front(q)) = Range(q) \ {Last(q)}
<1>1. Len(q) \in Nat /\ Len(q) >= 1 /\ DOMAIN q = 1..Len(q) /\ Last(q) = q[Len(q)]
  BY DEF Last
<1> DEFINE f == Front(q)
<1>2. /\ f \in Seq(S) /\ Len(f) = Len(q) - 1 /\ DOMAIN f = 1..Len(f)
      /\ \A i \in 1..Len(f) : f[i] = q[i]
  BY <1>1 DEF Front
<1> HIDE DEF f
<1>3. Last(q) \in Range(q)
  BY <1>1, InRange
<1>4. Distinct(f)
  BY <1>1, <1>2 DEF Distinct
<1>5. Range(f) = Range(q) \ {Last(q)}
  <2>1. ASSUME NEW x \in Range(f) PROVE x \in Range(q) /\ x # Last(q)
    <3>1. PICK i \in 1..Len(f) : f[i] = x
      BY <1>2, InRange
    <3> DEFINE n == Len(q)
    <3> HIDE DEF n
    <3>2. i \in 1..n /\ i # n /\ n \in 1..n
      <4>1. n \in Nat /\ n >= 1 /\ i \in 1..(n - 1)
        BY <1>1, <1>2, <3>1 DEF n
      <4> QED  BY <4>1
    <3>3. q[i] = x
      BY <1>2, <3>1
    <3>4. x # q[Len(q)]
      BY <1>1, <3>2, <3>3 DEF Distinct, n
    <3> QED  BY <1>1, <3>2, <3>3, <3>4, InRange DEF n
  <2>2. ASSUME NEW x \in Range(q), x # Last(q) PROVE x \in Range(f)
    <3>1. PICK i \in 1..Len(q) : q[i] = x
      BY InRange
    <3>2. i \in 1..Len(f) /\ f[i] = x
      BY <1>1, <1>2, <2>2, <3>1
    <3> QED  BY <1>2, <3>2, InRange
  <2> QED  BY <2>1, <2>2
<1> QED  BY <1>2, <1>3, <1>4, <1>5 DEF f

LEMMA ConcatDistinct ==
    ASSUME NEW S, NEW p \in Seq(S), NEW q \in Seq(S), Distinct(p), Distinct(q),
           Range(p) \cap Range(q) = {}
    PROVE  p \o q \in Seq(S) /\ Distinct(p \o q) /\ Range(p \o q) = Range(p) \cup Range(q)
<1>1. /\ p \o q \in Seq(S) /\ Len(p \o q) = Len(p) + Len(q) /\ Len(p) \in Nat /\ Len(q) \in Nat
      /\ \A i \in 1..Len(p) : (p \o q)[i] = p[i]
      /\ \A i \in 1..Len(q) : (p \o q)[Len(p) + i] = q[i]
  OBVIOUS
<1> DEFINE c == p \o q
<1>2. /\ c \in Seq(S) /\ Len(c) = Len(p) + Len(q) /\ DOMAIN c = 1..Len(c)
      /\ DOMAIN p = 1..Len(p) /\ DOMAIN q = 1..Len(q)
      /\ \A i \in 1..Len(p) : c[i] = p[i]
      /\ \A i \in 1..Len(q) : c[Len(p) + i] = q[i]
  BY <1>1
<1> HIDE DEF c
<1>3. ASSUME NEW i \in 1..Len(c)
      PROVE  \/ i \in 1..Len(p) /\ c[i] = p[i]
             \/ i - Len(p) \in 1..Len(q) /\ c[i] = q[i - Len(p)]
  <2>1. i \in 1..Len(p) \/ (i - Len(p) \in 1..Len(q) /\ i = Len(p) + (i - Len(p)))
    BY <1>1, <1>2
  <2> QED  BY <1>2, <2>1
<1>5. Distinct(c)
  <2> SUFFICES ASSUME NEW i \in 1..Len(c), NEW j \in 1..Len(c), c[i] = c[j] PROVE i = j
    BY <1>2 DEF Distinct
  <2>1. (\A k \in 1..Len(p) : p[k] \in Range(p)) /\ (\A k \in 1..Len(q) : q[k] \in Range(q))
    BY InRange
  <2>2. /\ \/ i \in 1..Len(p) /\ c[i] = p[i]
           \/ i - Len(p) \in 1..Len(q) /\ c[i] = q[i - Len(p)]
        /\ \/ j \in 1..Len(p) /\ c[j] = p[j]
           \/ j - Len(p) \in 1..Len(q) /\ c[j] = q[j - Len(p)]
    BY <1>3
  <2>3. CASE i \in 1..Len(p) /\ c[i] = p[i] /\ j \in 1..Len(p) /\ c[j] = p[j]
    BY <1>2, <2>3 DEF Distinct
  <2>4. CASE /\ i - Len(p) \in 1..Len(q) /\ c[i] = q[i - Len(p)]
             /\ j - Len(p) \in 1..Len(q) /\ c[j] = q[j - Len(p)]
    <3>1. i - Len(p) = j - Len(p)
      BY <1>2, <2>4 DEF Distinct
    <3> QED  BY <1>1, <3>1
  <2> QED  BY <2>1, <2>2, <2>3, <2>4
<1> QED  BY <1>2, <1>5, RangeConcat DEF c

\* SetToSeq and SetToSeqs list a finite set, each element once.
LEMMA ListsSet ==
    ASSUME NEW S, IsFiniteSet(S), NEW f \in [1..Cardinality(S) -> S], Distinct(f)
    PROVE  f \in Seq(S) /\ Range(f) = S
<1>1. Cardinality(S) \in Nat
  BY FS_CardinalityType
<1>2. f \in Injection(1..Cardinality(S), S)
  BY DEF Injection, IsInjective, Distinct
<1>3. IsFiniteSet(1..Cardinality(S)) /\ Cardinality(1..Cardinality(S)) = Cardinality(S)
  BY <1>1, FS_Interval
<1>4. f \in Surjection(1..Cardinality(S), S)
  BY <1>2, <1>3, FS_Injection
<1> QED  BY <1>1, <1>4 DEF Surjection, Range

LEMMA AnyOrder ==
    ASSUME NEW S, IsFiniteSet(S), NEW f \in SetToSeqs(S)
    PROVE  f \in Seq(S) /\ Distinct(f) /\ Range(f) = S
<1>1. f \in [1..Cardinality(S) -> S] /\ Distinct(f)
  BY DEF SetToSeqs, Distinct
<1> QED  BY <1>1, ListsSet

LEMMA OneOrder ==
    ASSUME NEW S, IsFiniteSet(S)
    PROVE  SetToSeq(S) \in Seq(S)
<1>1. PICK f \in Bijection(1..Cardinality(S), S) : TRUE
  BY FS_CardinalityType DEF ExistsBijection
<1>2. \E g \in [1..Cardinality(S) -> S] : IsInjective(g)
  BY <1>1 DEF Bijection, Injection
<1>3. SetToSeq(S) \in [1..Cardinality(S) -> S] /\ IsInjective(SetToSeq(S))
  BY <1>2 DEF SetToSeq
<1> QED  BY <1>3, ListsSet DEF IsInjective, Distinct

LEMMA MinIsLeast ==
    ASSUME NEW S, S \subseteq Nat, S # {}
    PROVE  Min(S) \in S /\ \A x \in S : Min(S) <= x
<1>1. PICK x \in S : \A y \in S : <<y, x>> \notin OpToRel(<, Nat)
  BY NatLessThanWellFounded, WFMin, Zenon
<1>2. \A y \in S : ~(y < x)
  BY <1>1, Zenon DEF OpToRel
<1>3. \A y \in S : x <= y
  BY <1>2
<1> QED  BY <1>3 DEF Min

LEMMA MaxIsGreatest ==
    ASSUME NEW n \in Nat, NEW S, S \subseteq 0..n, S # {}
    PROVE  Max(S) \in S /\ \A x \in S : x <= Max(S)
<1> DEFINE Bounds == {m \in Nat : \A x \in S : x <= m}
<1>1. S \subseteq Nat /\ n \in Bounds /\ Bounds \subseteq Nat
  OBVIOUS
<1>2. PICK m \in Bounds : \A k \in Bounds : m <= k
  <2> HIDE DEF Bounds
  <2> QED  BY <1>1, MinIsLeast
<1>3. m \in S
  <2> SUFFICES ASSUME m \notin S PROVE FALSE
    OBVIOUS
  <2>1. m \in Nat /\ \A x \in S : x <= m /\ x # m /\ x \in 0..n
    BY <1>2
  <2>2. m # 0
    <3>1. PICK x \in S : TRUE
      OBVIOUS
    <3>2. x <= m /\ x # m /\ x \in 0..n
      BY <2>1
    <3> QED  BY <2>1, <3>2
  <2>3. m - 1 \in Bounds
    BY <2>1, <2>2
  <2> QED  BY <1>2, <2>1, <2>3
<1>4. \A y \in S : m >= y
  BY <1>2
<1>5. Max(S) \in S /\ \A y \in S : Max(S) >= y
  BY <1>3, <1>4 DEF Max
<1> QED  BY <1>1, <1>5

LEMMA MaxIsMember ==
    ASSUME NEW n \in Nat, NEW S, S \subseteq 1..n, S # {}
    PROVE  Max(S) \in S
<1>1. S \subseteq 0..n
  OBVIOUS
<1> QED  BY <1>1, MaxIsGreatest

\* What holds at 0 and from one number to the next holds up to n.
LEMMA UpTo ==
    ASSUME NEW n \in Nat, NEW S, 0 \in S, \A i \in 0..n - 1 : i \in S => i + 1 \in S
    PROVE  0..n \subseteq S
<1> DEFINE Out == {i \in 0..n : i \notin S}
<1> SUFFICES ASSUME Out # {} PROVE FALSE
  OBVIOUS
<1>1. PICK m \in Out : \A k \in Out : m <= k
  <2>1. Out \subseteq Nat
    OBVIOUS
  <2> HIDE DEF Out
  <2> QED  BY <2>1, MinIsLeast
<1>2. m - 1 \in 0..n - 1 /\ m - 1 \notin Out
  BY <1>1
<1>3. m - 1 \in S
  BY <1>2
<1>4. m - 1 + 1 = m
  OBVIOUS
<1> QED  BY <1>2, <1>3, <1>4

Recursive(W, n, x, F) == W[0] = x /\ \A i \in 1..n : W[i] = F[i - 1][W[i - 1]]
StepFunctions(n, T) == [0..n - 1 -> [T -> T]]

\* A function that is defined by recursion on 0..n exists.
LEMMA Recursion ==
    ASSUME NEW n \in Nat, NEW T, NEW x \in T, NEW F \in StepFunctions(n, T)
    PROVE  \E W \in [0..n -> T] : Recursive(W, n, x, F)
<1> USE DEF Recursive, StepFunctions
<1> DEFINE Defined(k, W) == W[0] = x /\ \A i \in 1..k : W[i] = F[i - 1][W[i - 1]]
           S == {k \in 0..n : \E W \in [0..k -> T] : Defined(k, W)}
<1>1. 0 \in S
  <2> DEFINE W == [i \in 0..0 |-> x]
  <2>1. W \in [0..0 -> T] /\ Defined(0, W)
    OBVIOUS
  <2>2. 0 \in 0..n
    OBVIOUS
  <2> HIDE DEF W, Defined
  <2> QED  BY <2>1, <2>2
<1>2. ASSUME NEW k \in 0..n - 1, k \in S PROVE k + 1 \in S
  <2>1. PICK W \in [0..k -> T] : Defined(k, W)
    BY <1>2
  <2> DEFINE V == [i \in 0..k + 1 |-> IF i <= k THEN W[i] ELSE F[k][W[k]]]
  <2>2. V \in [0..k + 1 -> T] /\ V[0] = x
    BY <2>1
  <2>3. ASSUME NEW i \in 1..k + 1 PROVE V[i] = F[i - 1][V[i - 1]]
    BY <2>1
  <2>4. k + 1 \in 0..n
    OBVIOUS
  <2> QED  BY <2>2, <2>3, <2>4
<1>3. n \in S
  <2> HIDE DEF S
  <2>1. \A k \in 0..n - 1 : k \in S => k + 1 \in S
    BY <1>2
  <2>2. n \in 0..n
    OBVIOUS
  <2> QED  BY <1>1, <2>1, <2>2, UpTo
<1> QED  BY <1>3

=======================================================================
