------------------------- MODULE MCRegAlloc ---------------------------
(* Functions of three shapes, with two or three instructions chosen from *)
(* a list: a straight line, a loop, a loop with an if whose blocks lie   *)
(* behind the exit of the loop, as the blocks are numbered.              *)
(* Registers 1 to 5 are locals, 6 and 7 parameters, 8 the result.        *)
EXTENDS RegAlloc

MCArgs == <<1, 2, 9, 8>>
MCAllocatable == <<1, 2, 3>>
MCScratch == <<1, 2, 9, 8, 0, 3>>
MCDivTemps == <<9, 8>>

I(op, dst, uses) == [op |-> op, dst |-> dst, uses |-> uses, to |-> 0]
L(n) == [op |-> "label", dst |-> NoReg, uses |-> <<>>, to |-> n]
J(n) == [op |-> "jump", dst |-> NoReg, uses |-> <<>>, to |-> n]
B(n) == [op |-> "branch", dst |-> NoReg, uses |-> <<>>, to |-> n]
Const(d) == I("op", d, <<>>)
Result(v) == <<I("move", 8, <<v>>), I("return", NoReg, <<8>>)>>

Straight(s, t, u) ==
    <<L(1), Const(1), Const(2), Const(3), s, t, u, I("op", 2, <<3>>), I("op", 1, <<1, 2>>)>> \o Result(1)
Wide(s, t, u) ==
    <<L(1), Const(1), Const(2), Const(3), Const(4), I("cmp", NoReg, <<1>>), s, t, u, I("op", 2, <<3, 4>>)>> \o Result(2)
Loop(s, t, u) ==
    <<L(1), Const(1), Const(2), J(2), L(2), I("cmp", NoReg, <<1>>), B(4), J(3),
      L(3), s, t, J(2), L(4), u>> \o Result(2)
IfInLoop(s, t, u) ==
    <<L(1), Const(1), Const(2), J(2), L(2), I("cmp", NoReg, <<1, 2>>), B(4),
      L(3), s, B(6), J(5), L(4)>> \o Result(2)
    \o <<L(5), t, J(7), L(6), u, J(7), L(7), I("op", 2, <<1>>), J(2)>>

Picked ==
    {I("op", 4, <<2>>), I("op", 5, <<2, 4>>), I("op", 5, <<4, 1>>), I("op", 3, <<5, 6>>), I("op", 4, <<4, 7>>),
     I("div", 5, <<4, 2>>), I("div", 3, <<7, 1>>), I("call", 5, <<4, 6, 2, 7>>),
     I("icall", 4, <<5, 2>>)}
PickedFirst == {I("op", 4, <<2>>), I("div", 4, <<6>>), I("call", 4, <<1, 2>>)}

-----------------------------------------------------------------------
(* Only functions that assign every register before they use it.         *)

Before(c, k) ==
    {j \in DOMAIN c : \/ j + 1 = k /\ c[j].op \notin {"jump", "return"}
                      \/ IsJump(c[j]) /\ c[k].op = "label" /\ c[j].to = c[k].to}
AssignedIn(c, params) ==
    LET before == [k \in DOMAIN c |-> Before(c, k)]
        start == [k \in DOMAIN c |-> IF k = 1 THEN Range(params) ELSE Regs]
        pass(sets, k) ==
            IF k = 1 THEN sets
            ELSE [sets EXCEPT ![k] = {v \in Regs : \A j \in before[k] : v \in sets[j] \cup {c[j].dst}}]
    IN FoldLeft(LAMBDA sets, n : FoldLeft(pass, sets, [k \in DOMAIN c |-> k]), start, <<1, 2, 3>>)
Assigns(f) ==
    LET sets == AssignedIn(f.code, f.params) IN
    \A k \in DOMAIN f.code : Range(f.code[k].uses) \subseteq sets[k]

Made(shape(_, _, _), paramLists) ==
    {f \in [params : paramLists, code : {shape(s, t, u) : s \in PickedFirst, t, u \in Picked}] : Assigns(f)}

AllFunctions ==
    LET params == {<<>>, <<6>>, <<6, 7>>} IN
    Made(Straight, params) \cup Made(Wide, params) \cup Made(Loop, params) \cup Made(IfInLoop, params)
=======================================================================
