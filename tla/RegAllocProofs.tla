------------------------ MODULE RegAllocProofs ------------------------
(* For any functions, any number of registers and any calling convention *)
(* that keeps the fixed registers apart: no two registers that live at   *)
(* the same time are given one place.                                    *)
EXTENDS RegAlloc, ListLemmas, TLAPS

Tags == {"reg", "slot", "nowhere"}

\* used_physical_regs covers the places given away.
Covered == \A v \in Regs : place[v][1] = "reg" => place[v][2] \in taken

\* The slots in use are bounded, and so there is a next one.
Bounded == \E m \in Nat : \A v \in Regs : Spilled(v) => place[v][2] <= m

AllocInv ==
    /\ phase = "fixed" => fn \in Functions
    /\ place \in [Regs -> Tags \X Nat]
    /\ Covered
    /\ Bounded
    /\ Apart

\* The next slot is beyond every slot in use.
LEMMA NextSlotIsNew ==
    ASSUME place \in [Regs -> Tags \X Nat], Bounded
    PROVE  NextSlot \in Nat /\ \A v \in Regs : Spilled(v) => place[v][2] < NextSlot
<1> DEFINE Used == {0} \cup {place[v][2] : v \in {w \in Regs : Spilled(w)}}
           Bounds == {m \in Nat : \A n \in Used : n <= m}
<1>1. Used \subseteq Nat /\ 0 \in Used
  OBVIOUS
<1>2. Bounds \subseteq Nat /\ Bounds # {}
  <2>1. PICK m \in Nat : \A v \in Regs : Spilled(v) => place[v][2] <= m
    BY DEF Bounded
  <2>2. m \in Bounds
    BY <2>1
  <2> QED  BY <2>2
<1> DEFINE least == Min(Bounds)
<1>3. least \in Bounds /\ \A m \in Bounds : least <= m
  BY <1>2, MinIsLeast
<1> HIDE DEF least
<1>4. least \in Used
  <2>1. SUFFICES ASSUME least \notin Used PROVE FALSE
    OBVIOUS
  <2>2. least \in Nat /\ least # 0 /\ \A n \in Used : n <= least
    BY <1>1, <1>3, <2>1
  <2>3. \A n \in Used : n <= least - 1
    BY <1>1, <2>1, <2>2
  <2>4. least - 1 \in Bounds
    BY <2>2, <2>3
  <2> QED  BY <1>3, <2>2, <2>4
<1>5. \A n \in Used : least >= n
  BY <1>1, <1>3
<1>6. Max(Used) \in Used /\ \A n \in Used : Max(Used) >= n
  BY <1>4, <1>5 DEF Max
<1>7. NextSlot = 1 + Max(Used)
  BY DEF NextSlot
<1> QED  BY <1>1, <1>6, <1>7

\* Parameters have registers or slots of their own, none of them the return
\* register or the one of function registers.
LEMMA ParamPlaces ==
    ASSUME NEW f \in Functions
    PROVE  /\ \A i \in DOMAIN f.params :
                /\ ParamPlace(f, i) \in Tags \X Nat
                /\ ParamPlace(f, i) \notin {In(ReturnReg), In(ResumeTemp), Nowhere}
                /\ ParamPlace(f, i)[1] = "reg" => ParamPlace(f, i)[2] \in FixedTaken(f)
                /\ ParamPlace(f, i)[1] = "slot" => ParamPlace(f, i)[2] <= Len(f.params)
           /\ \A i, j \in DOMAIN f.params : ParamPlace(f, i) = ParamPlace(f, j) => i = j
<1>1. f.params \in Seq(Regs) /\ DOMAIN f.params = 1 .. Len(f.params) /\ Len(f.params) \in Nat
  BY RegAllocAssumption
<1>2. /\ DOMAIN Args = 1 .. Len(Args) /\ Len(Args) \in Nat
      /\ \A i \in DOMAIN Args : Args[i] \in Nat \ {ReturnReg, ResumeTemp}
      /\ \A i, j \in DOMAIN Args : Args[i] = Args[j] => i = j
  BY RegAllocAssumption
<1>3. ASSUME Shifts(f)
      PROVE  /\ SafeReg(f) \in Nat \ {ReturnReg, ResumeTemp}
             /\ SafeReg(f) \notin Passed(f)
  <2>1. Safe(f) \subseteq Nat /\ Safe(f) # {} /\ Safe(f) \subseteq DOMAIN Allocatable
    BY <1>3, RegAllocAssumption DEF Safe, Shifts
  <2>2. Min(Safe(f)) \in Safe(f)
    BY <2>1, MinIsLeast
  <2> QED  BY <2>1, <2>2, RegAllocAssumption DEF SafeReg, Safe
<1>4. \A i \in DOMAIN f.params :
          \/ i \in DOMAIN Args /\ ArgPlace(i) = <<"reg", Args[i]>> /\ Args[i] \in Passed(f)
          \/ i \notin DOMAIN Args /\ ArgPlace(i) = <<"slot", i - Len(Args)>> /\ i - Len(Args) \in 1 .. Len(f.params)
  BY <1>1, <1>2 DEF ArgPlace, In, Slot, Passed
<1>5. Passed(f) \subseteq FixedTaken(f) /\ (Shifts(f) => SafeReg(f) \in FixedTaken(f))
  BY DEF FixedTaken
<1>6. \A i \in DOMAIN f.params :
          \/ ParamPlace(f, i) = ArgPlace(i)
          \/ Shifts(f) /\ ArgPlace(i) = <<"reg", Rdx>> /\ ParamPlace(f, i) = <<"reg", SafeReg(f)>>
  BY DEF ParamPlace, In
<1>7. ASSUME NEW i \in DOMAIN f.params
      PROVE  /\ ParamPlace(f, i) \in Tags \X Nat
             /\ ParamPlace(f, i) \notin {In(ReturnReg), In(ResumeTemp), Nowhere}
             /\ ParamPlace(f, i)[1] = "reg" => ParamPlace(f, i)[2] \in FixedTaken(f)
             /\ ParamPlace(f, i)[1] = "slot" => ParamPlace(f, i)[2] <= Len(f.params)
  BY <1>1, <1>2, <1>3, <1>4, <1>5, <1>6 DEF In, Nowhere, Tags
<1>8. ASSUME NEW i \in DOMAIN f.params, NEW j \in DOMAIN f.params,
             ParamPlace(f, i) = ParamPlace(f, j)
      PROVE  i = j
  BY <1>1, <1>2, <1>3, <1>4, <1>6, <1>8
<1> QED  BY <1>7, <1>8

\* The fixed places: the registers of functions to call share one, all others
\* are different.
LEMMA FixedPlaces ==
    ASSUME AllocInv, AssignFixed
    PROVE  AllocInv'
<1>1. fn \in Functions
  BY DEF AllocInv, AssignFixed
<1>2. \A v \in Regs : IsParam(fn, v) =>
          \E i \in DOMAIN fn.params : fn.params[i] = v
            /\ ParamPlace(fn, CHOOSE n \in DOMAIN fn.params : fn.params[n] = v) = ParamPlace(fn, i)
  BY DEF IsParam, Range
<1>3. \A v \in Regs :
          \/ v \in Callees(fn) /\ FixedPlace(fn, v) = In(ResumeTemp)
          \/ \E i \in DOMAIN fn.params : fn.params[i] = v /\ FixedPlace(fn, v) = ParamPlace(fn, i)
          \/ ~IsParam(fn, v) /\ v = Returned(fn) /\ FixedPlace(fn, v) = In(ReturnReg)
          \/ FixedPlace(fn, v) = Nowhere
  BY <1>2 DEF FixedPlace
<1>4. /\ place' = [v \in Regs |-> FixedPlace(fn, v)]
      /\ taken' = FixedTaken(fn) /\ phase' = "assign"
  BY DEF AssignFixed
<1>5. Callees(fn) # {} => ResumeTemp \in FixedTaken(fn)
  BY DEF FixedTaken
<1>6. \A v \in Regs : ~IsParam(fn, v) /\ v = Returned(fn) => ReturnReg \in FixedTaken(fn)
  BY RegAllocAssumption DEF FixedTaken, IsParam
<1>7. ReturnReg \in Nat /\ ResumeTemp \in Nat /\ ReturnReg # ResumeTemp
  BY RegAllocAssumption
<1>8. (place \in [Regs -> Tags \X Nat])'
  BY <1>1, <1>2, <1>3, <1>4, <1>7, ParamPlaces DEF In, Nowhere, Tags
<1>9. Covered'
  BY <1>1, <1>2, <1>3, <1>4, <1>5, <1>6, ParamPlaces DEF Covered, In, Nowhere
<1>10. Bounded'
  <2>1. Len(fn.params) \in Nat
    BY <1>1, RegAllocAssumption
  <2>2. \A v \in Regs : FixedPlace(fn, v)[1] = "slot" => FixedPlace(fn, v)[2] <= Len(fn.params)
    BY <1>1, <1>2, <1>3, ParamPlaces DEF In, Nowhere
  <2> QED  BY <1>4, <2>1, <2>2 DEF Bounded, Spilled
<1>11. Apart'
  <2>1. SUFFICES ASSUME NEW v \in Regs, NEW w \in Regs, v # w,
                        FixedPlace(fn, v) = FixedPlace(fn, w),
                        FixedPlace(fn, v) # Nowhere, FixedPlace(fn, v) # In(ResumeTemp)
                 PROVE  FALSE
    BY <1>4 DEF Apart
  <2>2. In(ReturnReg) # In(ResumeTemp)
    BY <1>7 DEF In
  <2> QED  BY <1>1, <1>2, <1>3, <2>1, <2>2, ParamPlaces
<1> QED  BY <1>4, <1>8, <1>9, <1>10, <1>11 DEF AllocInv

\* One more register: in a register nobody has, in one whose holders live at
\* other times, or in a slot of its own.
LEMMA OneMore ==
    ASSUME AllocInv, Assign
    PROVE  AllocInv'
<1> DEFINE v == Head(todo)
           usable == {i \in DOMAIN Allocatable : Usable(v, Allocatable[i])}
<1>1. /\ place \in [Regs -> Tags \X Nat] /\ Covered /\ Bounded /\ Apart
      /\ life' = life /\ phase' = "assign"
  BY DEF AllocInv, Assign
<1>2. CASE usable # {}
  <2> DEFINE r == Allocatable[Min(usable)]
  <2>1. place' = [place EXCEPT ![v] = In(r)] /\ taken' = taken \cup {r}
    BY <1>2 DEF Assign
  <2>2. r \in Nat \ {ResumeTemp} /\ Usable(v, r)
    <3>1. usable \subseteq Nat /\ usable \subseteq DOMAIN Allocatable
      BY RegAllocAssumption
    <3>2. Min(usable) \in usable
      BY <1>2, <3>1, MinIsLeast
    <3> QED  BY <3>1, <3>2, RegAllocAssumption
  <2> HIDE DEF r, v, usable
  <2>3. \A w \in Regs : place[w] = In(r) => ~Meet(life[v], life[w]) /\ ~Meet(life[w], life[v])
    BY <1>1, <2>2 DEF Usable, MayShare, Meet, Covered, In
  <2>4. (place \in [Regs -> Tags \X Nat])' /\ Covered'
    BY <1>1, <2>1, <2>2 DEF Covered, In, Tags
  <2>5. Bounded'
    BY <1>1, <2>1 DEF Bounded, Spilled, In
  <2>6. Apart'
    <3>1. SUFFICES ASSUME NEW x \in Regs, NEW y \in Regs, x # y,
                          place'[x] = place'[y], place'[x] # Nowhere
                   PROVE  ~Meet(life[x], life[y]) \/ place'[x] = In(ResumeTemp)
      BY <1>1 DEF Apart
    <3>2. CASE x = v
      BY <1>1, <2>1, <2>3, <3>1, <3>2
    <3>3. CASE y = v
      BY <1>1, <2>1, <2>3, <3>1, <3>3
    <3>4. CASE x # v /\ y # v
      BY <1>1, <2>1, <3>1, <3>4 DEF Apart
    <3> QED  BY <3>2, <3>3, <3>4
  <2> QED  BY <1>1, <2>4, <2>5, <2>6 DEF AllocInv
<1>3. CASE usable = {}
  <2>1. place' = [place EXCEPT ![v] = Slot(NextSlot)] /\ taken' = taken
    BY <1>3 DEF Assign
  <2> HIDE DEF v, usable
  <2>2. NextSlot \in Nat /\ \A w \in Regs : Spilled(w) => place[w][2] < NextSlot
    BY <1>1, NextSlotIsNew
  <2>3. \A w \in Regs : place[w] # Slot(NextSlot)
    BY <1>1, <2>2 DEF Slot, Spilled
  <2>4. (place \in [Regs -> Tags \X Nat])' /\ Covered'
    BY <1>1, <2>1, <2>2 DEF Covered, Slot, Tags
  <2>5. Bounded'
    <3>1. \A w \in Regs : Spilled(w)' => place'[w][2] <= NextSlot
      BY <1>1, <2>1, <2>2 DEF Spilled, Slot
    <3> QED  BY <2>2, <3>1 DEF Bounded
  <2>6. Apart'
    <3>1. SUFFICES ASSUME NEW x \in Regs, NEW y \in Regs, x # y,
                          place'[x] = place'[y], place'[x] # Nowhere
                   PROVE  ~Meet(life[x], life[y]) \/ place'[x] = In(ResumeTemp)
      BY <1>1 DEF Apart
    <3>2. x # v /\ y # v
      BY <1>1, <2>1, <2>3, <3>1
    <3> QED  BY <1>1, <2>1, <3>1, <3>2 DEF Apart
  <2> QED  BY <1>1, <2>4, <2>5, <2>6 DEF AllocInv
<1> QED  BY <1>2, <1>3

\* The invariant is inductive: only these two steps give places away.
THEOREM AllocInvariant == Spec => []AllocInv
<1>1. Init => AllocInv
  <2>1. SUFFICES ASSUME Init PROVE AllocInv
    OBVIOUS
  <2>2. place = [v \in Regs |-> <<"nowhere", 0>>] /\ fn \in Functions
    BY <2>1 DEF Init, Nowhere
  <2>3. place \in [Regs -> Tags \X Nat] /\ Covered /\ Apart
    BY <2>2 DEF Tags, Covered, Apart, Nowhere
  <2>4. Bounded
    BY <2>2 DEF Bounded, Spilled
  <2> QED  BY <2>2, <2>3, <2>4 DEF AllocInv
<1>2. AllocInv /\ [Next]_vars => AllocInv'
  <2>1. SUFFICES ASSUME AllocInv, [Next]_vars PROVE AllocInv'
    OBVIOUS
  <2>2. CASE AssignFixed
    BY <2>1, <2>2, FixedPlaces
  <2>3. CASE Assign
    BY <2>1, <2>3, OneMore
  <2>4. ASSUME UNCHANGED <<fn, life, place, taken>>, phase' = "fixed" => phase = "fixed"
        PROVE  AllocInv'
    BY <2>1, <2>4 DEF AllocInv, Covered, Bounded, Spilled, Apart
  <2>5. CASE Rewrite
    BY <2>4, <2>5 DEF Rewrite
  <2>6. CASE CopyStep \/ Compute \/ Jump \/ Return
    BY <2>4, <2>6 DEF CopyStep, Compute, Jump, Return
  <2>7. CASE UNCHANGED vars
    BY <2>4, <2>7 DEF vars
  <2> QED  BY <2>1, <2>2, <2>3, <2>5, <2>6, <2>7 DEF Next
<1> QED  BY <1>1, <1>2, PTL DEF Spec

\* Two registers in one place never live at once (build_calling_convention_
\* allocation_map, can_reuse_physical_register), whatever the function.
THEOREM LiveRegistersApart == Spec => []Apart
<1>1. AllocInv => Apart
  BY DEF AllocInv
<1> QED  BY <1>1, AllocInvariant, PTL
=======================================================================
