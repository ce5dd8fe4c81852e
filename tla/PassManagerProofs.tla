------------------------- MODULE PassManagerProofs ------------------------
(***************************************************************************)
(* The pass manager never hands out an analysis of older code, or, for the *)
(* dominance frontiers, of older blocks, whatever the passes make of the   *)
(* code and however many functions it compiles.                            *)
(***************************************************************************)
EXTENDS PassManager, TLAPS

USE PassManagerAssumption

-----------------------------------------------------------------------
(* The order of the passes.                                              *)

\* The analyses that most passes leave with the manager although they change
\* the code, the passes that take one of them, look at one, or drop all.
Lasting == {"liveness", "lifetime"}
Takes(p) == Required(p) \cap Lasting # {}
Looks(p) == Used(p) \cap Lasting # {}
Wipes(p) == Invalidated(p) = Standard

\* Before each pass of s that looks at lifetimes there is one that drops all
\* analyses, and no pass between them takes any; at the start of s it is
\* given as clear whether the manager has none.
Careful(s, clear) ==
  \A i \in DOMAIN s : Looks(s[i]) =>
    \/ clear /\ \A k \in 1 .. i - 1 : ~Takes(s[k])
    \/ \E j \in 1 .. i - 1 : Wipes(s[j]) /\ \A k \in j + 1 .. i - 1 : ~Takes(s[k])

\* mem2reg comes behind ssa, or at the start of s when the frontiers are had.
Prepared(s, had) ==
  \A i \in DOMAIN s : s[i] = "mem2reg" => IF i = 1 THEN had ELSE s[i - 1] = "ssa"

\* The passes one by one.
LEMMA PassTable ==
  ASSUME NEW p
  PROVE  /\ Takes(p) <=> p \in {"analyses", "stack-frame-layout", "instruction-lowering", "callsite-live"}
         /\ Looks(p) <=> p \in {"stack-frame-layout", "callsite-live"}
         /\ p \in {"effect-lowering", "block-layout", "instruction-lowering"} => Wipes(p)
BY DEF Takes, Looks, Wipes, Required, Used, Invalidated, Lasting, Standard

PassNames ==
  {"analyses", "effect-lowering", "constant-folding", "ssa", "mem2reg", "phi-elimination",
   "explicit-jump", "block-layout", "register-allocation", "stack-frame-layout",
   "peephole", "dce", "instruction-lowering", "callsite-live"}

LEMMA PassesCareful ==
  ASSUME NEW level \in Levels
  PROVE  /\ Passes(level) \in Seq(PassNames)
         /\ Careful(Passes(level), FALSE)
         /\ Prepared(Passes(level), FALSE)
<1> DEFINE s == Passes(level)
<1>1. CASE level = "debug"
  <2>1. s = <<"analyses", "explicit-jump", "block-layout", "register-allocation",
              "stack-frame-layout", "instruction-lowering", "callsite-live">>
    BY <1>1 DEF Passes
  <2>2. s \in Seq(PassNames)
    <3> HIDE DEF s
    <3> QED  BY <2>1 DEF PassNames
  <2>3. DOMAIN s = 1 .. 7 /\ Wipes(s[3]) /\ ~Takes(s[4]) /\ Wipes(s[6])
    BY <2>1, PassTable
  <2>4. \A i \in 1 .. 7 : Looks(s[i]) => i = 5 \/ i = 7
    BY <2>1, PassTable
  <2>5. /\ 3 \in 1 .. 5 - 1 /\ \A k \in 3 + 1 .. 5 - 1 : ~Takes(s[k])
        /\ 6 \in 1 .. 7 - 1 /\ \A k \in 6 + 1 .. 7 - 1 : ~Takes(s[k])
    <3> HIDE DEF s
    <3> QED  BY <2>3
  <2>6. \A i \in 1 .. 7 : s[i] # "mem2reg"
    BY <2>1
  <2>7. Careful(s, FALSE)
    <3> HIDE DEF s
    <3> QED  BY <2>3, <2>4, <2>5 DEF Careful
  <2>8. Prepared(s, FALSE)
    <3> HIDE DEF s
    <3> QED  BY <2>3, <2>6 DEF Prepared
  <2> QED  BY <2>2, <2>7, <2>8
<1>2. CASE level = "fast"
  <2>1. s = <<"analyses", "constant-folding", "explicit-jump", "block-layout",
              "register-allocation", "stack-frame-layout", "instruction-lowering",
              "callsite-live">>
    BY <1>2 DEF Passes
  <2>2. s \in Seq(PassNames)
    <3> HIDE DEF s
    <3> QED  BY <2>1 DEF PassNames
  <2>3. DOMAIN s = 1 .. 8 /\ Wipes(s[4]) /\ ~Takes(s[5]) /\ Wipes(s[7])
    BY <2>1, PassTable
  <2>4. \A i \in 1 .. 8 : Looks(s[i]) => i = 6 \/ i = 8
    BY <2>1, PassTable
  <2>5. /\ 4 \in 1 .. 6 - 1 /\ \A k \in 4 + 1 .. 6 - 1 : ~Takes(s[k])
        /\ 7 \in 1 .. 8 - 1 /\ \A k \in 7 + 1 .. 8 - 1 : ~Takes(s[k])
    <3> HIDE DEF s
    <3> QED  BY <2>3
  <2>6. \A i \in 1 .. 8 : s[i] # "mem2reg"
    BY <2>1
  <2>7. Careful(s, FALSE)
    <3> HIDE DEF s
    <3> QED  BY <2>3, <2>4, <2>5 DEF Careful
  <2>8. Prepared(s, FALSE)
    <3> HIDE DEF s
    <3> QED  BY <2>3, <2>6 DEF Prepared
  <2> QED  BY <2>2, <2>7, <2>8
<1>3. CASE level = "balanced"
  <2>1. s = <<"analyses", "effect-lowering", "constant-folding", "ssa", "mem2reg",
              "phi-elimination", "explicit-jump", "block-layout", "register-allocation",
              "stack-frame-layout", "peephole", "dce", "peephole", "instruction-lowering",
              "callsite-live">>
    BY <1>3 DEF Passes
  <2>2. s \in Seq(PassNames)
    <3> HIDE DEF s
    <3> QED  BY <2>1 DEF PassNames
  <2>3. DOMAIN s = 1 .. 15 /\ Wipes(s[8]) /\ ~Takes(s[9]) /\ Wipes(s[14])
    BY <2>1, PassTable
  <2>4. \A i \in 1 .. 15 : Looks(s[i]) => i = 10 \/ i = 15
    BY <2>1, PassTable
  <2>5. /\ 8 \in 1 .. 10 - 1 /\ \A k \in 8 + 1 .. 10 - 1 : ~Takes(s[k])
        /\ 14 \in 1 .. 15 - 1 /\ \A k \in 14 + 1 .. 15 - 1 : ~Takes(s[k])
    <3> HIDE DEF s
    <3> QED  BY <2>3
  <2>6. s[4] = "ssa" /\ \A i \in 1 .. 15 : s[i] = "mem2reg" => i = 5
    BY <2>1
  <2>7. Careful(s, FALSE)
    <3> HIDE DEF s
    <3> QED  BY <2>3, <2>4, <2>5 DEF Careful
  <2>8. Prepared(s, FALSE)
    <3> HIDE DEF s
    <3> QED  BY <2>3, <2>6 DEF Prepared
  <2> QED  BY <2>2, <2>7, <2>8
<1>4. CASE level = "performance"
  <2>1. s = <<"analyses", "effect-lowering", "constant-folding", "ssa", "mem2reg",
              "phi-elimination", "explicit-jump", "block-layout", "register-allocation",
              "stack-frame-layout", "peephole", "dce", "peephole", "constant-folding",
              "dce", "instruction-lowering", "callsite-live">>
    BY <1>4 DEF Passes
  <2>2. s \in Seq(PassNames)
    <3> HIDE DEF s
    <3> QED  BY <2>1 DEF PassNames
  <2>3. DOMAIN s = 1 .. 17 /\ Wipes(s[8]) /\ ~Takes(s[9]) /\ Wipes(s[16])
    BY <2>1, PassTable
  <2>4. \A i \in 1 .. 17 : Looks(s[i]) => i = 10 \/ i = 17
    BY <2>1, PassTable
  <2>5. /\ 8 \in 1 .. 10 - 1 /\ \A k \in 8 + 1 .. 10 - 1 : ~Takes(s[k])
        /\ 16 \in 1 .. 17 - 1 /\ \A k \in 16 + 1 .. 17 - 1 : ~Takes(s[k])
    <3> HIDE DEF s
    <3> QED  BY <2>3
  <2>6. s[4] = "ssa" /\ \A i \in 1 .. 17 : s[i] = "mem2reg" => i = 5
    BY <2>1
  <2>7. Careful(s, FALSE)
    <3> HIDE DEF s
    <3> QED  BY <2>3, <2>4, <2>5 DEF Careful
  <2>8. Prepared(s, FALSE)
    <3> HIDE DEF s
    <3> QED  BY <2>3, <2>6 DEF Prepared
  <2> QED  BY <2>2, <2>7, <2>8
<1> QED  BY <1>1, <1>2, <1>3, <1>4

\* What is left of a careful list is careful.
LEMMA CarefulTail ==
  ASSUME NEW s \in Seq(PassNames), s # <<>>, NEW clear \in BOOLEAN, Careful(s, clear)
  PROVE  Careful(Tail(s), Wipes(Head(s)) \/ (clear /\ ~Takes(Head(s))))
<1> DEFINE t == Tail(s)
           next == Wipes(Head(s)) \/ (clear /\ ~Takes(Head(s)))
<1>1. /\ Len(s) \in Nat /\ Len(s) >= 1 /\ Head(s) = s[1] /\ Len(t) = Len(s) - 1
      /\ DOMAIN s = 1 .. Len(s) /\ DOMAIN t = 1 .. Len(s) - 1
      /\ \A i \in 1 .. Len(s) - 1 : t[i] = s[i + 1]
  OBVIOUS
<1> HIDE DEF t
<1> SUFFICES ASSUME NEW i \in DOMAIN t, Looks(t[i])
             PROVE  \/ next /\ \A k \in 1 .. i - 1 : ~Takes(t[k])
                    \/ \E j \in 1 .. i - 1 : Wipes(t[j]) /\ \A k \in j + 1 .. i - 1 : ~Takes(t[k])
  BY DEF Careful, t
<1>2. i \in Nat /\ i >= 1 /\ i <= Len(s) - 1 /\ i + 1 \in DOMAIN s /\ t[i] = s[i + 1]
  BY <1>1
<1>3. ASSUME NEW j \in 0 .. i - 1, \A k \in j + 2 .. i : ~Takes(s[k])
      PROVE  \A k \in j + 1 .. i - 1 : ~Takes(t[k])
  <2> SUFFICES ASSUME NEW k \in j + 1 .. i - 1 PROVE ~Takes(t[k])
    OBVIOUS
  <2>1. k + 1 \in j + 2 .. i /\ k \in 1 .. Len(s) - 1
    BY <1>2
  <2> QED  BY <1>1, <1>3, <2>1
<1>4. CASE clear /\ \A k \in 1 .. i : ~Takes(s[k])
  <2>1. 1 \in 1 .. i /\ 0 \in 0 .. i - 1 /\ \A k \in 0 + 2 .. i : k \in 1 .. i
    BY <1>2
  <2>2. next /\ \A k \in 0 + 1 .. i - 1 : ~Takes(t[k])
    BY <1>1, <1>3, <1>4, <2>1
  <2> QED  BY <2>2
<1>5. ASSUME NEW j \in 1 .. i, Wipes(s[j]), \A k \in j + 1 .. i : ~Takes(s[k])
      PROVE  \/ next /\ \A k \in 1 .. i - 1 : ~Takes(t[k])
             \/ \E m \in 1 .. i - 1 : Wipes(t[m]) /\ \A k \in m + 1 .. i - 1 : ~Takes(t[k])
  <2>1. j - 1 \in 0 .. i - 1 /\ j - 1 + 2 = j + 1 /\ j - 1 + 1 = j
    BY <1>2
  <2>2. \A k \in j - 1 + 1 .. i - 1 : ~Takes(t[k])
    BY <1>3, <1>5, <2>1
  <2>3. CASE j = 1
    BY <1>1, <1>5, <2>2, <2>3
  <2>4. CASE j # 1
    <3>1. j - 1 \in 1 .. i - 1 /\ j - 1 \in 1 .. Len(s) - 1
      BY <1>2, <2>4
    <3>2. Wipes(t[j - 1])
      BY <1>1, <1>5, <2>1, <3>1
    <3> QED  BY <2>2, <3>1, <3>2
  <2> QED  BY <2>3, <2>4
<1>6. \/ clear /\ \A k \in 1 .. i + 1 - 1 : ~Takes(s[k])
      \/ \E j \in 1 .. i + 1 - 1 : Wipes(s[j]) /\ \A k \in j + 1 .. i + 1 - 1 : ~Takes(s[k])
  BY <1>2 DEF Careful
<1>7. i + 1 - 1 = i
  BY <1>2
<1> QED  BY <1>4, <1>5, <1>6, <1>7

LEMMA PreparedTail ==
  ASSUME NEW s \in Seq(PassNames), s # <<>>, NEW had \in BOOLEAN, Prepared(s, had)
  PROVE  Prepared(Tail(s), Head(s) = "ssa")
<1> DEFINE t == Tail(s)
<1>1. /\ Len(s) \in Nat /\ Len(s) >= 1 /\ Head(s) = s[1] /\ Len(t) = Len(s) - 1
      /\ DOMAIN s = 1 .. Len(s) /\ DOMAIN t = 1 .. Len(s) - 1
      /\ \A i \in 1 .. Len(s) - 1 : t[i] = s[i + 1]
  OBVIOUS
<1> HIDE DEF t
<1>2. ASSUME NEW i \in DOMAIN t, t[i] = "mem2reg"
      PROVE  IF i = 1 THEN Head(s) = "ssa" ELSE t[i - 1] = "ssa"
  <2>1. i + 1 \in DOMAIN s /\ s[i + 1] = "mem2reg" /\ i + 1 # 1 /\ i + 1 - 1 = i
    BY <1>1, <1>2
  <2>2. s[i] = "ssa"
    <3>1. ASSUME NEW k \in DOMAIN s, NEW m, s[k] = "mem2reg", k # 1, m = k - 1
          PROVE  s[m] = "ssa"
      BY <3>1 DEF Prepared
    <3> QED  BY <1>1, <2>1, <3>1
  <2>3. CASE i = 1
    BY <1>1, <2>2, <2>3
  <2>4. CASE i # 1
    <3>1. i - 1 \in 1 .. Len(s) - 1 /\ i - 1 + 1 = i
      BY <1>1, <2>4
    <3> QED  BY <1>1, <2>2, <2>4, <3>1
  <2> QED  BY <2>3, <2>4
<1> QED  BY <1>2 DEF Prepared, t

\* A list that needs no care at its start takes any.
LEMMA CarefulAnyway ==
  ASSUME NEW s, NEW clear, Careful(s, FALSE)
  PROVE  Careful(s, clear)
BY DEF Careful

-----------------------------------------------------------------------
(* The invariant.                                                        *)

Clear == kept \cap Lasting = {}

\* The manager has no lifetimes, or some of older code that nobody will look
\* at; or the next pass takes some, and those the manager has are good.
Ready ==
  \/ Careful(todo, Clear)
  \/ /\ todo # <<>> /\ Takes(Head(todo)) /\ kept \cap Lasting \subseteq good
     /\ Careful(todo, TRUE)

\* The manager has the frontiers, of these blocks.
HasFrontiers == "ssa-construction" \in kept \cap good

\* A graph and the uses are dropped by every pass that changes the code; the
\* frontiers are new when mem2reg comes.
ManagerInv ==
  /\ todo \in Seq(PassNames)
  /\ kept \subseteq Standard \cup OfBlocks /\ good \subseteq Standard \cup OfBlocks
  /\ kept \cap {"cfg", "def-use"} \subseteq good
  /\ Ready
  /\ Prepared(todo, HasFrontiers)
  /\ ~stale

LEMMA InitKeeps == ManagerInit => ManagerInv
<1>1. <<>> \in Seq(PassNames) /\ Careful(<<>>, TRUE) /\ Prepared(<<>>, HasFrontiers)
  BY DEF Careful, Prepared
<1> QED  BY <1>1 DEF ManagerInit, ManagerInv, Ready, Clear

\* An analysis that is made comes after those it is based on.
LEMMA BasesKept ==
  ASSUME NEW p, NEW i \in DOMAIN Analyses, Analyses[i] \in Wanted(p),
         \A j \in 1 .. i - 1 : Analyses[j] \notin Wanted(p)
  PROVE  /\ Analyses[i] \in Standard /\ BasedOn(Analyses[i]) \subseteq kept
         /\ Analyses[i] \in Lasting => Takes(p)
<1>1. /\ Analyses[1] = "cfg" /\ Analyses[2] = "def-use"
      /\ Analyses[3] = "liveness" /\ Analyses[4] = "lifetime"
      /\ i \in 1 .. 4
  BY DEF Analyses
<1>2. PICK a \in Required(p) \ kept : Analyses[i] \in {a} \cup BasedOn(a)
  BY DEF Wanted
<1>3. a \in Standard /\ \A b \in {a} \cup BasedOn(a) : b \in kept \/ b \in Wanted(p)
  <2>1. a \in Standard \cup {"ssa-construction"}
    BY <1>2 DEF Required, Standard
  <2>2. a # "ssa-construction"
    BY <1>1, <1>2 DEF BasedOn
  <2> QED  BY <1>2, <2>1, <2>2 DEF Wanted
<1>4. CASE i \in {1, 2}
  BY <1>1, <1>4 DEF BasedOn, Standard, Lasting
<1>5. CASE i = 3
  <2>1. "cfg" \notin Wanted(p) /\ "def-use" \notin Wanted(p)
    BY <1>1, <1>5
  <2>2. a \in {"liveness", "lifetime"}
    BY <1>1, <1>2, <1>3, <1>5 DEF BasedOn, Standard
  <2>3. "cfg" \in kept /\ "def-use" \in kept
    BY <1>3, <2>1, <2>2 DEF BasedOn
  <2> QED  BY <1>1, <1>2, <1>5, <2>2, <2>3 DEF BasedOn, Standard, Takes, Lasting
<1>6. CASE i = 4
  <2>1. "cfg" \notin Wanted(p) /\ "def-use" \notin Wanted(p) /\ "liveness" \notin Wanted(p)
    BY <1>1, <1>6
  <2>2. a = "lifetime"
    BY <1>1, <1>2, <1>3, <1>6 DEF BasedOn, Standard
  <2>3. "cfg" \in kept /\ "def-use" \in kept /\ "liveness" \in kept
    BY <1>3, <2>1, <2>2 DEF BasedOn
  <2> QED  BY <1>1, <1>2, <1>6, <2>2, <2>3 DEF BasedOn, Standard, Takes, Lasting
<1> QED  BY <1>1, <1>4, <1>5, <1>6

LEMMA MakeAnalysisKeeps ==
  ASSUME ManagerInv, NEW i \in DOMAIN Analyses, MakeAnalysis(i)
  PROVE  ManagerInv'
<1> DEFINE a == Analyses[i]
           p == Head(todo)
<1>1. /\ todo # <<>> /\ kept' = kept \cup {a}
      /\ good' = good \cup IF BasedOn(a) \subseteq good THEN {a} ELSE {}
      /\ todo' = todo /\ stale' = stale
  BY DEF MakeAnalysis
<1>2. a \in Standard /\ BasedOn(a) \subseteq kept /\ (a \in Lasting => Takes(p))
  BY BasesKept DEF MakeAnalysis
<1> HIDE DEF a, p
<1>3. /\ kept' \subseteq Standard \cup OfBlocks
      /\ good \subseteq good' /\ good' \subseteq Standard \cup OfBlocks
  BY <1>1, <1>2 DEF ManagerInv
<1>4. kept' \cap {"cfg", "def-use"} \subseteq good'
  BY <1>1 DEF ManagerInv, BasedOn
<1>5. kept \cap Lasting \subseteq good => kept' \cap Lasting \subseteq good'
  <2> SUFFICES ASSUME kept \cap Lasting \subseteq good, a \in Lasting PROVE a \in good'
    BY <1>1
  <2>1. BasedOn(a) \subseteq {"cfg", "def-use"} \cup Lasting
    BY <1>2 DEF BasedOn, Lasting, Standard
  <2>2. BasedOn(a) \subseteq good
    BY <1>2, <2>1 DEF ManagerInv
  <2> QED  BY <1>1, <2>2
<1>6. Ready'
  <2>1. CASE Careful(todo, Clear) /\ ~Clear
    <3>1. Clear = FALSE /\ Clear' = FALSE
      BY <1>1, <2>1 DEF Clear
    <3>2. Careful(todo, FALSE)
      BY <2>1, <3>1
    <3> QED  BY <1>1, <3>1, <3>2 DEF Ready
  <2>2. CASE Careful(todo, Clear) /\ Clear /\ a \notin Lasting
    <3>1. Clear = TRUE /\ Clear' = TRUE
      BY <1>1, <2>2 DEF Clear
    <3>2. Careful(todo, TRUE)
      BY <2>2, <3>1
    <3> QED  BY <1>1, <3>1, <3>2 DEF Ready
  <2>3. CASE Careful(todo, Clear) /\ Clear /\ a \in Lasting
    <3>1. Clear = TRUE /\ kept \cap Lasting \subseteq good
      BY <2>3 DEF Clear
    <3>2. Careful(todo, TRUE)
      BY <2>3, <3>1
    <3> QED  BY <1>1, <1>2, <1>5, <2>3, <3>1, <3>2 DEF Ready, p
  <2>4. CASE Takes(Head(todo)) /\ kept \cap Lasting \subseteq good /\ Careful(todo, TRUE)
    BY <1>1, <1>5, <2>4 DEF Ready
  <2> QED  BY <2>1, <2>2, <2>3, <2>4 DEF ManagerInv, Ready
<1>7. Prepared(todo', HasFrontiers')
  <2>1. HasFrontiers => HasFrontiers'
    BY <1>1, <1>3 DEF HasFrontiers
  <2> QED  BY <1>1, <2>1 DEF ManagerInv, Prepared
<1> QED  BY <1>1, <1>3, <1>4, <1>6, <1>7 DEF ManagerInv

LEMMA PassKeeps ==
  ASSUME ManagerInv, NEW changed \in BOOLEAN, NEW reshaped \in BOOLEAN, Pass(changed, reshaped)
  PROVE  ManagerInv'
<1> DEFINE p == Head(todo)
<1>1. /\ todo # <<>> /\ Wanted(p) = {} /\ todo' = Tail(todo)
      /\ stale' = (stale \/ ~(Used(p) \subseteq good))
      /\ kept' = Left(p, changed)
      /\ good' = ((good \cup StoredBy(p)) \ Outdated(changed, reshaped)) \cap kept'
      /\ changed => ChangesCode(p)
      /\ reshaped => changed /\ ChangesBlocks(p)
  BY DEF Pass, PerformPass
<1>2. /\ todo \in Seq(PassNames) /\ todo' \in Seq(PassNames)
      /\ p \in PassNames /\ p = todo[1] /\ 1 \in DOMAIN todo
  BY <1>1 DEF ManagerInv
<1> HIDE DEF p
<1>3. /\ kept' \subseteq kept \cup OfBlocks /\ kept' \cap Standard \subseteq kept
      /\ Wipes(p) => kept' \cap Lasting = {}
  BY <1>1 DEF Left, StoredBy, OfBlocks, Wipes, ManagerInv, Standard, Lasting
<1>4. Required(p) \subseteq kept
  BY <1>1 DEF Wanted
<1>5. Used(p) \subseteq good
  <2>1. CASE Looks(p)
    <3>1. Used(p) = {"lifetime"} /\ "lifetime" \in kept \cap Lasting
      BY <1>4, <2>1, PassTable DEF Used, Required, Lasting
    <3>2. ~Careful(todo, Clear)
      <4> SUFFICES ASSUME Careful(todo, Clear) PROVE FALSE
        OBVIOUS
      <4>1. ~Clear
        BY <3>1 DEF Clear
      <4>2. \E j \in 1 .. 1 - 1 : TRUE
        BY <1>2, <2>1, <4>1 DEF Careful
      <4> QED  BY <4>2
    <3> QED  BY <3>1, <3>2 DEF ManagerInv, Ready
  <2>2. CASE p = "mem2reg"
    <3>1. HasFrontiers
      BY <1>2, <2>2 DEF ManagerInv, Prepared
    <3>2. Used(p) = {"cfg", "ssa-construction"} /\ "cfg" \in kept
      BY <1>4, <2>2 DEF Used, Required
    <3> QED  BY <3>1, <3>2 DEF ManagerInv, HasFrontiers
  <2>3. CASE ~Looks(p) /\ p # "mem2reg"
    <3>1. Used(p) \subseteq {"cfg"} /\ Used(p) \subseteq Required(p)
      BY <2>3, PassTable DEF Used, Required
    <3> QED  BY <1>4, <3>1 DEF ManagerInv
  <2> QED  BY <2>1, <2>2, <2>3
<1>6. kept' \cap {"cfg", "def-use"} \subseteq good'
  <2>1. CASE changed
    <3>1. p \notin {"analyses", "callsite-live"}
      BY <1>1, <2>1 DEF ChangesCode
    <3>2. kept' \cap {"cfg", "def-use"} = {}
      BY <1>1, <2>1, <3>1 DEF Left, StoredBy, Invalidated, Standard
    <3> QED  BY <3>2
  <2>2. CASE ~changed
    <3>1. Outdated(changed, reshaped) = {}
      BY <1>1, <2>2 DEF Outdated
    <3>2. kept' \cap {"cfg", "def-use"} \subseteq good
      BY <1>3 DEF ManagerInv, Standard
    <3> QED  BY <1>1, <3>1, <3>2
  <2> QED  BY <2>1, <2>2
<1>8. Prepared(todo', HasFrontiers')
  <2>1. Prepared(todo', p = "ssa")
    <3>1. HasFrontiers \in BOOLEAN
      BY DEF HasFrontiers
    <3> QED  BY <1>1, <1>2, <3>1, PreparedTail DEF ManagerInv, p
  <2>2. ASSUME p = "ssa" PROVE HasFrontiers'
    <3>1. "ssa-construction" \in kept'
      BY <1>1, <2>2 DEF Left, StoredBy, Invalidated, Standard
    <3>2. ~reshaped
      BY <1>1, <2>2 DEF ChangesBlocks
    <3>3. "ssa-construction" \notin Outdated(changed, reshaped)
      BY <3>2 DEF Outdated, Standard
    <3> QED  BY <1>1, <2>2, <3>1, <3>3 DEF HasFrontiers, StoredBy
  <2> QED  BY <2>1, <2>2 DEF Prepared
<1>7. Ready'
  <2> SUFFICES Careful(todo', Clear')
    BY DEF Ready
  <2>1. PICK clear \in BOOLEAN :
          /\ Careful(todo, clear)
          /\ clear /\ ~Takes(p) => Clear
    BY DEF ManagerInv, Ready, Clear, p
  <2>2. Careful(todo', Wipes(p) \/ (clear /\ ~Takes(p)))
    BY <1>1, <1>2, <2>1, CarefulTail DEF p
  <2>3. CASE Wipes(p) \/ (clear /\ ~Takes(p))
    <3>1. Clear'
      BY <1>3, <2>1, <2>3 DEF Clear, Lasting, Standard
    <3>2. Clear' = (Wipes(p) \/ (clear /\ ~Takes(p)))
      BY <2>3, <3>1 DEF Clear
    <3> QED  BY <2>2, <3>2
  <2>4. CASE ~(Wipes(p) \/ (clear /\ ~Takes(p)))
    <3>1. (Wipes(p) \/ (clear /\ ~Takes(p))) = FALSE
      BY <2>4
    <3>2. Careful(todo', FALSE)
      BY <2>2, <3>1
    <3> QED  BY <3>2, CarefulAnyway
  <2> QED  BY <2>3, <2>4
<1>9. kept' \subseteq Standard \cup OfBlocks /\ good' \subseteq Standard \cup OfBlocks
  BY <1>1, <1>3 DEF ManagerInv
<1> QED  BY <1>1, <1>2, <1>5, <1>6, <1>7, <1>8, <1>9 DEF ManagerInv

LEMMA TakeFunctionKeeps ==
  ASSUME ManagerInv, NEW level \in Levels, TakeFunction(level)
  PROVE  ManagerInv'
<1>1. /\ todo' = Passes(level) /\ kept' = kept \ {"cfg", "def-use", "liveness"}
      /\ good' = {} /\ stale' = stale
  BY DEF TakeFunction
<1>2. todo' \in Seq(PassNames) /\ Careful(todo', FALSE) /\ Prepared(todo', FALSE)
  BY <1>1, PassesCareful
<1>3. Careful(todo', Clear')
  BY <1>2, CarefulAnyway
<1>4. Prepared(todo', HasFrontiers')
  BY <1>2 DEF Prepared
<1> QED  BY <1>1, <1>2, <1>3, <1>4 DEF ManagerInv, Ready

\* What the manager does not have of what the next pass requires it can make.
LEMMA RequiredAtHand ==
  ASSUME ManagerInv, todo # <<>>
  PROVE  Wanted(Head(todo)) \subseteq Standard
<1> DEFINE p == Head(todo)
<1>1. p \in PassNames /\ p = todo[1] /\ 1 \in DOMAIN todo
  BY DEF ManagerInv
<1> HIDE DEF p
<1>2. Wanted(p) \subseteq Standard \cup {"ssa-construction"}
  BY DEF Wanted, Required, BasedOn, Standard
<1>3. "ssa-construction" \notin Wanted(p)
  <2>1. CASE p = "mem2reg"
    <3>1. HasFrontiers
      BY <1>1, <2>1 DEF ManagerInv, Prepared
    <3> QED  BY <3>1 DEF HasFrontiers, Wanted
  <2>2. CASE p # "mem2reg"
    BY <2>2 DEF Wanted, Required, BasedOn, Standard
  <2> QED  BY <2>1, <2>2
<1> QED  BY <1>2, <1>3 DEF p

\* At every level, and over any number of functions that each leave their
\* lifetimes with the manager: it has or can make whatever a pass requires, and
\* no pass looks at an analysis that is not about this function's code as it
\* is, or, for the frontiers that the SSA construction computes before it
\* rewrites the code and mem2reg reads, about its blocks as they are
\* (required_analyses and invalidated_analyses of the passes, in the order of
\* the pipelines of pass_registry.rs).
THEOREM AnalysesStayFresh ==
  ASSUME NEW level \in Levels
  PROVE  ManagerSpec(level) => []AnalysesFresh
<1>1. ManagerInit => ManagerInv
  BY InitKeeps
<1>2. ManagerInv /\ [ManagerNext(level)]_managed => ManagerInv'
  <2>1. ASSUME ManagerInv, ManagerNext(level) PROVE ManagerInv'
    BY <2>1, MakeAnalysisKeeps, PassKeeps, TakeFunctionKeeps DEF ManagerNext
  <2>2. ASSUME ManagerInv, UNCHANGED managed PROVE ManagerInv'
    BY <2>2 DEF managed, ManagerInv, Ready, Clear, HasFrontiers
  <2> QED  BY <2>1, <2>2
<1>3. ManagerInv => AnalysesFresh
  BY RequiredAtHand DEF ManagerInv, AnalysesFresh
<1> QED  BY <1>1, <1>2, <1>3, PTL DEF ManagerSpec
============================================================================
