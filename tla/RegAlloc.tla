---------------------------- MODULE RegAlloc --------------------------
(* Register allocation of one LIR function (src/karte-lir/src/pass/      *)
(* register_allocation): lifetimes, the allocation of one register after *)
(* the other, the rewriting with spills, and the run of the result, in   *)
(* which every location remembers whose current value it holds.          *)
(*                                                                       *)
(* An instruction is [op, dst, uses, to]: the register it defines or     *)
(* NoReg, those it uses in order, and a label. A "div" with one use has  *)
(* an immediate divisor. An "icall" uses its function register first.    *)
(* Immediates, flags and memory are left out, and so are the registers   *)
(* of stack addresses, which get no place, and the args of calls, which  *)
(* are dead copies of their arg_operands.                                *)
EXTENDS Integers, SequencesExt, FiniteSetsExt

CONSTANTS
    Regs,          \* virtual registers, by id
    Functions,     \* functions to compile: [params, code]
    Args,          \* argument_registers, then overflow_argument_registers
    Allocatable,   \* get_allocatable_registers, ascending
    Scratch,       \* temp_registers
    ReturnReg,     \* return_register: RAX
    ResumeTemp,    \* effect_resume_temp: RBP
    Rdx,           \* what a division also writes
    DivTemps       \* the temporaries of a division: R9, R8

NoReg == 0

ASSUME RegAllocAssumption ==
    /\ Regs \subseteq Nat \ {NoReg}
    /\ Args \in Seq(Nat) /\ Allocatable \in Seq(Nat)
    /\ \A f \in Functions :
        /\ f.params \in Seq(Regs)
        /\ \A i, j \in DOMAIN f.params : f.params[i] = f.params[j] => i = j
        /\ \A i \in DOMAIN f.code :
            /\ f.code[i].dst \in Regs \cup {NoReg}
            /\ \A k \in DOMAIN f.code[i].uses : f.code[i].uses[k] \in Regs
    /\ \A i, j \in DOMAIN Args : Args[i] = Args[j] => i = j
    /\ \A i \in DOMAIN Args : Args[i] \notin {ReturnReg, ResumeTemp}
    /\ \A i \in DOMAIN Allocatable : Allocatable[i] \notin {ReturnReg, ResumeTemp}
    /\ {ReturnReg, ResumeTemp} \subseteq Nat /\ ReturnReg # ResumeTemp

VARIABLES
    phase,       \* "fixed", "assign", "rewrite", "run", "returned"
    fn,          \* the function
    life,        \* lifetimes, from the function before the allocation
    todo,        \* registers to allocate
    taken,       \* used_physical_regs
    place,       \* allocation_map
    code, pc,    \* the rewritten function and where it runs
    current      \* the locations that hold the current value of a register

vars == <<phase, fn, life, todo, taken, place, code, pc, current>>

In(r) == <<"reg", r>>
Slot(n) == <<"slot", n>>
Saved(r) == <<"saved", r>>
Nowhere == <<"nowhere", 0>>
Spilled(v) == place[v][1] = "slot"

-----------------------------------------------------------------------
(* Lifetimes: analyze_simple.                                            *)

Occurs(v, i) == i.dst = v \/ v \in Range(i.uses)
Occurrences(f, v) == {i \in DOMAIN f.code : Occurs(v, f.code[i])}
IsParam(f, v) == v \in Range(f.params)
Whole(f) == [from |-> 1, to |-> Len(f.code)]

Hull(f, v) ==
    IF IsParam(f, v) THEN Whole(f)
    ELSE IF Occurrences(f, v) = {} THEN [from |-> 0, to |-> 0]
    ELSE [from |-> Min(Occurrences(f, v)), to |-> Max(Occurrences(f, v))]

LabelAt(f, l) == CHOOSE i \in DOMAIN f.code : f.code[i].op = "label" /\ f.code[i].to = l
IsJump(i) == i.op \in {"jump", "branch"}

\* The jumps to a label before them, in the order of the jumps.
BackEdges(f) ==
    LET back == SelectSeq([i \in DOMAIN f.code |-> i],
                          LAMBDA i : IsJump(f.code[i]) /\ LabelAt(f, f.code[i].to) < i)
    IN [k \in DOMAIN back |-> [from |-> LabelAt(f, f.code[back[k]].to), to |-> back[k]]]

Meet(a, b) == a.from <= b.to /\ b.from <= a.to
Cover(a, b) == [from |-> Min({a.from, b.from}), to |-> Max({a.to, b.to})]

\* Mutant: a lifetime ends with its last use, also in a loop.
LoopExtendedBack(interval, edge) ==
    IF Meet(interval, edge) THEN [interval EXCEPT !.from = Min({interval.from, edge.from})] ELSE interval

\* A lifetime that meets a loop covers it.
LoopExtended(interval, edge) == IF Meet(interval, edge) THEN Cover(interval, edge) ELSE interval

\* A register used before it is defined lives from the start on.
Carried(f, v) ==
    LET defs == {i \in Occurrences(f, v) : f.code[i].dst = v} IN
    defs # {} /\ Min(Occurrences(f, v)) < Min(defs)

Lifetime(f, v) ==
    LET extended == FoldLeft(LoopExtended, Hull(f, v), BackEdges(f)) IN
    IF IsParam(f, v) THEN Whole(f)
    ELSE IF BackEdges(f) # <<>> /\ Carried(f, v) THEN [extended EXCEPT !.from = 1]
    ELSE extended
Lifetimes(f) == [v \in Regs |-> Lifetime(f, v)]

-----------------------------------------------------------------------
(* The allocation: build_calling_convention_allocation_map.              *)

Init ==
    /\ phase = "fixed"
    /\ fn \in Functions
    /\ life = [v \in Regs |-> [from |-> 0, to |-> 0]]
    /\ todo = <<>> /\ taken = {}
    /\ place = [v \in Regs |-> Nowhere]
    /\ code = <<>> /\ pc = 0
    /\ current = [v \in Regs |-> {}]

Divides(f) == {i \in DOMAIN f.code : f.code[i].op = "div"}

\* Step 1: parameters stay where the caller puts them, in argument registers
\* and then on the stack, but not in RDX when the function divides.
ArgPlace(i) == IF i <= Len(Args) THEN In(Args[i]) ELSE Slot(i - Len(Args))
Passed(f) == {Args[i] : i \in DOMAIN f.params \cap DOMAIN Args}
Safe(f) == {i \in DOMAIN Allocatable : Allocatable[i] \notin Passed(f) \cup {Rdx}}
Shifts(f) == Divides(f) # {} /\ Rdx \in Passed(f) /\ Safe(f) # {}
SafeReg(f) == Allocatable[Min(Safe(f))]
ParamPlace(f, i) == IF Shifts(f) /\ ArgPlace(i) = In(Rdx) THEN In(SafeReg(f)) ELSE ArgPlace(i)

\* Step 2: the value returned first goes to the return register.
Returns(f) == {i \in DOMAIN f.code : f.code[i].op = "return" /\ f.code[i].uses # <<>>}
Returned(f) == IF Returns(f) = {} THEN NoReg ELSE f.code[Min(Returns(f))].uses[1]

\* Step 3: the function register of an indirect call.
Callees(f) == {f.code[i].uses[1] : i \in {j \in DOMAIN f.code : f.code[j].op = "icall"}}

FixedPlace(f, v) ==
    IF v \in Callees(f) THEN In(ResumeTemp)
    ELSE IF IsParam(f, v) THEN ParamPlace(f, CHOOSE i \in DOMAIN f.params : f.params[i] = v)
    ELSE IF v = Returned(f) THEN In(ReturnReg)
    ELSE Nowhere

Calls(i) == i.op \in {"call", "icall"}

FixedTaken(f) ==
    Passed(f)
    \cup (IF Shifts(f) THEN {SafeReg(f)} ELSE {})
    \cup (IF Callees(f) # {} THEN {ResumeTemp} ELSE {})
    \cup (IF \/ Returned(f) \notin Range(f.params) \cup {NoReg}
             \/ \E i \in DOMAIN f.code : Calls(f.code[i]) /\ f.code[i].dst # NoReg
          THEN {ReturnReg} ELSE {})

\* The move out of RDX stands behind the first label.
Shift(f) == [op |-> "shift", dst |-> NoReg, uses |-> <<>>, to |-> SafeReg(f)]
Shifted(f) ==
    LET at == Min({i \in DOMAIN f.code : f.code[i].op = "label"}) IN
    IF Shifts(f)
    THEN [f EXCEPT !.code = SubSeq(@, 1, at) \o <<Shift(f)>> \o SubSeq(@, at + 1, Len(@))]
    ELSE f

\* The operands of calls, and what is moved into one of them, share with none.
ArgOperands(i) ==
    CASE i.op = "call" -> Range(i.uses)
      [] i.op = "icall" -> Range(Tail(i.uses))
      [] OTHER -> {}
MovedInto(f, protected) ==
    protected \cup UNION {Range(i.uses) : i \in {j \in Range(f.code) : j.op = "move" /\ j.dst \in protected}}
Protected(f) ==
    FoldLeft(LAMBDA set, i : MovedInto(f, set), UNION {ArgOperands(i) : i \in Range(f.code)}, f.code)

\* Each occurrence of a register adds it to the list once more.
Listed(f) ==
    FlattenSeq([i \in DOMAIN f.code |->
        (IF f.code[i].dst = NoReg THEN <<>> ELSE <<f.code[i].dst>>) \o f.code[i].uses])
Remaining(f) ==
    SortSeq(SelectSeq(Listed(f), LAMBDA v : FixedPlace(f, v) = Nowhere),
            LAMBDA v, w : \/ Lifetime(f, v).from < Lifetime(f, w).from
                          \/ Lifetime(f, v).from = Lifetime(f, w).from /\ v < w)

AssignFixed ==
    /\ phase = "fixed"
    /\ phase' = "assign"
    /\ fn' = Shifted(fn)
    /\ life' = Lifetimes(fn)
    /\ todo' = Remaining(fn)
    /\ taken' = FixedTaken(fn)
    /\ place' = [v \in Regs |-> FixedPlace(fn, v)]
    /\ UNCHANGED <<code, pc, current>>

\* Mutant: a lifetime that ends where the other begins is taken for over.
MayShareAtEnds(v, w) ==
    /\ {v, w} \cap Protected(fn) = {}
    /\ life[v].to <= life[w].from \/ life[w].to <= life[v].from

\* can_reuse_physical_register: v and a register that is there already.
MayShare(v, w) ==
    /\ {v, w} \cap Protected(fn) = {}
    /\ ~Meet(life[v], life[w])

\* RDX is not for a lifetime with a division in it. The move out of RDX, if
\* there is one, came behind the positions of both.
SpansDivision(v) ==
    \E i \in Divides(fn) :
        LET at == IF Range(fn.code) \cap {Shift(fn)} # {} THEN i - 1 ELSE i IN
        life[v].from <= at /\ at <= life[v].to

Usable(v, r) ==
    /\ ~(r = Rdx /\ SpansDivision(v))
    /\ r \in taken => \A w \in Regs : place[w] = In(r) => MayShare(v, w)

NextSlot == 1 + Max({0} \cup {place[v][2] : v \in {w \in Regs : Spilled(w)}})

\* Step 4: the first register v can have, or a slot of its own.
Assign ==
    /\ phase = "assign" /\ todo # <<>>
    /\ todo' = Tail(todo)
    /\ LET v == Head(todo)
           usable == {i \in DOMAIN Allocatable : Usable(v, Allocatable[i])}
       IN IF usable # {}
          THEN LET r == Allocatable[Min(usable)] IN
               place' = [place EXCEPT ![v] = In(r)] /\ taken' = taken \cup {r}
          ELSE place' = [place EXCEPT ![v] = Slot(NextSlot)] /\ UNCHANGED taken
    /\ UNCHANGED <<phase, fn, life, code, pc, current>>

-----------------------------------------------------------------------
(* The rewriting: apply_allocation_with_spilling. The rewritten code     *)
(* copies from one location to another, and performs an instruction of   *)
(* the function with the locations of its operands and of its result.    *)

Copy(from, to) == [op |-> "copy", from |-> from, to |-> to]
Perform(i, at, into) == [op |-> "do", i |-> i, at |-> at, into |-> into]

\* The lowering of the call reads its spilled operands from their slots.
SpilledOperands(i) ==
    {v \in (Range(i.uses) \cup {i.dst}) \ ({NoReg} \cup ArgOperands(i)) : Spilled(v)}

\* allocate_temp_registers_for_inst, which asserts that there are enough.
Temp(i, v) ==
    LET held == {place[w] : w \in Range(i.uses)}
        free == SelectSeq(Scratch, LAMBDA r : In(r) \notin held)
        rank == Cardinality({w \in SpilledOperands(i) : w <= v})
    IN IF free = <<>> THEN Scratch[rank] ELSE free[rank]

Location(i, v) == IF v \in SpilledOperands(i) THEN In(Temp(i, v)) ELSE place[v]

LiveAt(lives, k) == {v \in Regs : lives[v].from <= k /\ k <= lives[v].to}
Holds(r, live) == \E v \in live : place[v] = In(r)

\* The temporaries that hold something live, but the register of the result
\* is not saved for an operand.
Saves(i, live) ==
    LET used == {Temp(i, v) : v \in SpilledOperands(i) \cap Range(i.uses)}
        defined == {Temp(i, v) : v \in SpilledOperands(i) \cap {i.dst}}
        kept == IF i.dst # NoReg THEN {place[i.dst]} ELSE {}
    IN SetToSortSeq({r \in used : Holds(r, live) /\ In(r) \notin kept} \cup {r \in defined : Holds(r, live)}, <)

Rewritten(i, k, lives) ==
    LET saves == Saves(i, LiveAt(lives, k))
        loads == SetToSortSeq(SpilledOperands(i) \cap Range(i.uses), <)
        stores == SelectSeq(<<i.dst>>, LAMBDA v : v \in SpilledOperands(i) /\ lives[v].to > k)
        performed ==
            IF i.op = "shift" THEN Copy(In(Rdx), In(i.to))
            ELSE Perform(i, [n \in DOMAIN i.uses |-> Location(i, i.uses[n])],
                         IF i.dst = NoReg THEN Nowhere ELSE Location(i, i.dst))
    IN [n \in DOMAIN saves |-> Copy(In(saves[n]), Saved(saves[n]))]
       \o [n \in DOMAIN loads |-> Copy(place[loads[n]], In(Temp(i, loads[n])))]
       \o <<performed>>
       \o [n \in DOMAIN stores |-> Copy(In(Temp(i, stores[n])), place[stores[n]])]
       \o Reverse([n \in DOMAIN saves |-> Copy(Saved(saves[n]), In(saves[n]))])

\* The caller left the parameters in their registers; the prologue has moved
\* those it left on the stack to their slots.
Entered(f) ==
    [v \in Regs |-> {ArgPlace(i) : i \in {j \in DOMAIN f.params : f.params[j] = v}}]

Rewrite ==
    /\ phase = "assign" /\ todo = <<>>
    /\ phase' = "run"
    /\ LET lives == Lifetimes(fn) IN
        code' = FlattenSeq([k \in DOMAIN fn.code |-> Rewritten(fn.code[k], k, lives)])
    /\ pc' = 1
    /\ current' = Entered(fn)
    /\ UNCHANGED <<fn, life, todo, taken, place>>

-----------------------------------------------------------------------
(* The run of the rewritten code.                                        *)

Written(held, locations) == [v \in Regs |-> held[v] \ locations]
Defined(held, v, location) == [Written(held, {location}) EXCEPT ![v] = {location}]
Copied(held, from, to) ==
    [v \in Regs |-> IF from \in held[v] THEN held[v] \cup {to} ELSE held[v] \ {to}]

\* idiv takes RAX and RDX, and a temporary for a divisor that is an immediate
\* or in RDX (compile_div, compile_mod).
DivTemp(at) == IF at[1] = In(DivTemps[1]) THEN DivTemps[2] ELSE DivTemps[1]
Clobbered(i, at) ==
    IF i.op # "div" THEN {}
    ELSE {In(ReturnReg), In(Rdx)}
         \cup (IF Len(at) = 1 \/ at[2] = In(Rdx) THEN {In(DivTemp(at))} ELSE {})

\* Which operands arrive: a result is written over the second operand before
\* it is read (compile_add, compile_sub, ...), a dividend over a divisor in
\* RAX, and a spilled argument goes through RAX (lower_call).
PassedBefore(m, n) == IF m > Len(Args) THEN n < m ELSE m < n /\ n <= Len(Args)
Arrives(item, n) ==
    LET at == item.at IN
    CASE item.i.op = "op" /\ n = 2 -> at[2] = item.into => at[1] = item.into
      [] item.i.op = "div" /\ n = 2 -> at[2] = In(ReturnReg) => at[1] = In(ReturnReg)
      [] item.i.op = "call" ->
            at[n] = In(ReturnReg) => \A m \in DOMAIN at : at[m][1] = "slot" => ~PassedBefore(m, n)
      [] OTHER -> TRUE

Here == code[pc]
Running == phase = "run"

CopyStep ==
    /\ Running /\ Here.op = "copy"
    /\ pc' = pc + 1
    /\ current' = Copied(current, Here.from, Here.to)
    /\ UNCHANGED <<phase, fn, life, todo, taken, place, code>>

Target(label) == CHOOSE k \in DOMAIN code :
                    code[k].op = "do" /\ code[k].i.op = "label" /\ code[k].i.to = label

\* A call restores the registers it may have written before it defines its result.
Compute ==
    /\ Running /\ Here.op = "do" /\ Here.i.op \notin {"return", "jump"}
    /\ LET held == Written(current, Clobbered(Here.i, Here.at)) IN
        current' = IF Here.i.dst = NoReg THEN held ELSE Defined(held, Here.i.dst, Here.into)
    /\ pc' = pc + 1
    /\ UNCHANGED <<phase, fn, life, todo, taken, place, code>>

Jump ==
    /\ Running /\ Here.op = "do" /\ IsJump(Here.i)
    /\ pc' = Target(Here.i.to)
    /\ UNCHANGED <<phase, fn, life, todo, taken, place, code, current>>

Return ==
    /\ Running /\ Here.op = "do" /\ Here.i.op = "return"
    /\ phase' = "returned"
    /\ UNCHANGED <<fn, life, todo, taken, place, code, pc, current>>

Next == AssignFixed \/ Assign \/ Rewrite \/ CopyStep \/ Compute \/ Jump \/ Return

Spec == Init /\ [][Next]_vars

-----------------------------------------------------------------------
(* What the allocation promises.                                         *)

\* Two registers in one place never live at once. The function registers of
\* indirect calls share one register by decree (can_reuse_physical_register
\* and the fixed places of parameters, results and function registers).
Apart ==
    \A v, w \in Regs :
        v # w /\ place[v] = place[w] /\ place[v] # Nowhere
            => ~Meet(life[v], life[w]) \/ place[v] = In(ResumeTemp)

\* What an instruction finds in the register of an operand, or a load in the
\* slot of a spilled one, is the value that was assigned last: no sharing of
\* registers across loops, borrowed temporary, division or move out of RDX
\* loses it (handle_instruction_with_liveness, "避免破坏活跃寄存器").
PlacesCurrent ==
    Running /\ Here.op = "do" =>
        \A n \in DOMAIN Here.i.uses : Here.at[n] \in current[Here.i.uses[n]]

\* The machine instructions an instruction becomes also read that value.
OperandsArrive ==
    Running /\ Here.op = "do" => \A n \in DOMAIN Here.i.uses : Arrives(Here, n)

=======================================================================
