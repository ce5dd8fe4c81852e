------------------------------ MODULE MirLower ------------------------------
(***************************************************************************)
(* The lowering of a function body to MIR (karte-mir/src/lower): how the   *)
(* variables of the source become temporaries in SSA form through if,      *)
(* match, while, for, break, continue and return.                          *)
(*                                                                         *)
(* A program is a sequence of statements, records whose field op names the *)
(* form.  A variable is the declaration it refers to; NameOf gives the     *)
(* name the lowering sees, which two declarations may share.  A value is   *)
(* either computed (Input: a constant, a call, an operation) or read from  *)
(* a variable; results of expressions, closures that capture a variable    *)
(* and reference counting are left out.                                    *)
(***************************************************************************)
EXTENDS Integers, FiniteSets, Sequences, SequencesExt, TLC, MirSource

CONSTANT NameOf(_)  \* the name of a declaration

----------------------------------------------------------------------------
(* LoweringContext.  scopes: innermost last, each a function from names to *)
(* temporaries; blocks: what has been generated; cur: the block statements *)
(* are added to; next, temp: the next free block and temporary; loops: the *)
(* enclosing loops, innermost last; quiet: the body is only analysed.      *)

NewBlock == [body |-> <<>>, phis |-> {}, op |-> "none", to |-> <<>>]

Entry == [scopes |-> << <<>> >>, blocks |-> 0 :> NewBlock, cur |-> 0,
          next |-> 1, temp |-> 1, loops |-> <<>>, quiet |-> FALSE, counters |-> 0]

At(c, b) == [c EXCEPT !.cur = b]

NewBlocks(c, n) ==
  [c EXCEPT !.blocks = @ @@ [b \in c.next .. c.next + n - 1 |-> NewBlock],
            !.next = @ + n]

Terminate(c, op, to) ==
  [c EXCEPT !.blocks[c.cur].op = op, !.blocks[c.cur].to = to]

Goto(c, b) == Terminate(c, "goto", <<b>>)

\* A statement that gives a temporary a value, if the temporary when holds.
Put(c, t, source, when) ==
  [c EXCEPT !.blocks[c.cur].body = Append(@, [t |-> t, s |-> source, when |-> when])]

\* One that gives it to a new temporary; Newest is that temporary.
DefIf(c, source, when) == [Put(c, c.temp, source, when) EXCEPT !.temp = @ + 1]
Def(c, source) == DefIf(c, source, Input)

Newest(c) == c.temp - 1

EnterScope(c) == [c EXCEPT !.scopes = Append(@, <<>>)]
ExitScope(c)  == [c EXCEPT !.scopes = Front(@)]

Bind(c, name, t) == [c EXCEPT !.scopes[Len(c.scopes)] = (name :> t) @@ @]

\* The innermost scope that binds a name.
ScopeOf(c, name) ==
  CHOOSE i \in DOMAIN c.scopes :
    /\ name \in DOMAIN c.scopes[i]
    /\ \A j \in i + 1 .. Len(c.scopes) : name \notin DOMAIN c.scopes[j]

Lookup(c, name) == c.scopes[ScopeOf(c, name)][name]

Update(c, name, t) == [c EXCEPT !.scopes[ScopeOf(c, name)] = (name :> t) @@ @]

\* update_variable for every name of a map of values.
UpdateAll(c, values) ==
  FoldSet(LAMBDA name, d : Update(d, name, values[name]), c, DOMAIN values)

\* The map of values taken of all scopes: the scopes are visited from the
\* inside out and a later one replaces the binding of an earlier one.
Snapshot(c) == FoldLeft(LAMBDA f, g : f @@ g, <<>>, c.scopes)

\* The bindings of a snapshot put back, in every scope that has the name.
Restore(c, values) ==
  LET back(scope) == [name \in DOMAIN scope |->
                        IF name \in DOMAIN values THEN values[name] ELSE scope[name]]
  IN  [c EXCEPT !.scopes = FoldLeft(LAMBDA done, scope : Append(done, back(scope)), <<>>, @)]

\* Fresh temporaries for a set of names.
Fresh(c, names) ==
  FoldSet(LAMBDA name, f : f @@ (name :> c.temp + Cardinality(DOMAIN f)), <<>>, names)

AddPhis(c, phis) == [c EXCEPT !.blocks[c.cur].phis = @ \cup phis]

\* Phi nodes in the current block, one for each name: incoming[name] is a set
\* of pairs of a block and the temporary that holds the value when the block
\* is left.
MergePhis(c, names, incoming) ==
  LET target == Fresh(c, names)
      phis == {[t |-> target[name], in |-> incoming[name]] : name \in names}
      d == [c EXCEPT !.temp = @ + Cardinality(names)]
  IN  UpdateAll(IF c.quiet THEN d ELSE AddPhis(d, phis), target)

----------------------------------------------------------------------------
(* Statements without control flow, and the jumps.                         *)

Read(c, var) == Def(c, Lookup(c, NameOf(var)))

Value(c, from) == IF from = Input THEN Def(c, Input) ELSE Read(c, from)

LowerLet(c, s) ==
  LET d == Value(c, s.from) IN Bind(d, NameOf(s.var), Newest(d))

\* Mutant: the variable is bound to the temporary of the one it is copied from.
LowerAssignAlias(c, s) ==
  IF s.from = Input
    THEN LET d == Value(c, s.from) IN Update(d, NameOf(s.var), Newest(d))
    ELSE LET d == Read(c, s.from) IN Update(d, NameOf(s.var), Lookup(c, NameOf(s.from)))

LowerAssign(c, s) ==
  LET d == Value(c, s.from) IN Update(d, NameOf(s.var), Newest(d))

\* x = a && b: both are evaluated, and b is taken if a holds.
LowerAnd(c, s) ==
  LET d == Read(Read(c, s.a), s.b)
      e == DefIf(d, Newest(d), Newest(d) - 1)
  IN  Update(e, NameOf(s.var), Newest(e))

\* x = min(a, b): a and b are in temporaries t and t + 1, and each of two
\* blocks copies one of them to the temporary of x.
PickFrom(c, s, b, t, x) ==
  LET arm(d, at, from) == Goto(Put(At(d, at), x, from, Input), b + 2)
      d == Terminate(NewBlocks(c, 3), "branch", <<b, b + 1>>)
  IN  Update(At(arm(arm(d, b, t), b + 1, t + 1), b + 2), NameOf(s.var), x)

LowerPick(c, s) ==
  LET d == Def(Read(Read(c, s.a), s.b), Input)
  IN  PickFrom([d EXCEPT !.temp = @ + 1], s, d.next, c.temp, d.temp)

Source(c) == [from |-> c.cur, vars |-> Snapshot(c)]

\* The block after a jump is never executed; lowering goes on in it.
DeadBlock(c) == At(NewBlocks(c, 1), c.next)

LowerBreak(c) ==
  LET loop == Last(c.loops)
      d == [c EXCEPT !.loops[Len(c.loops)].breaks = @ \cup {Source(c)}]
  IN  DeadBlock(Goto(d, loop.exit))

LowerContinue(c) ==
  LET loop == Last(c.loops)
      d == [c EXCEPT !.loops[Len(c.loops)].continues = @ \cup {Source(c)}]
  IN  DeadBlock(Goto(d, loop.again))

LowerReturn(c) == DeadBlock(Terminate(c, "return", <<>>))

----------------------------------------------------------------------------
RECURSIVE Lower(_, _)

LowerBlock(c, body) == ExitScope(FoldLeft(Lower, EnterScope(c), body))

\* Both branches have been lowered, then and else are the contexts where they
\* end; pre has the values before them.
MergeIf(then, else, merge, pre) ==
  LET tv == Snapshot(then)
      ev == Snapshot(else)
      changed == {n \in DOMAIN pre : tv[n] # pre[n] \/ ev[n] # pre[n]}
  IN  MergePhis(At(Goto(else, merge), merge), changed,
                [n \in changed |-> {<<then.cur, tv[n]>>, <<else.cur, ev[n]>>}])

Else(then, s, b, pre) ==
  MergeIf(then, LowerBlock(At(Restore(Goto(then, b + 2), pre), b + 1), s.else), b + 2, pre)

Then(c, s, b) ==
  Else(LowerBlock(At(Terminate(NewBlocks(c, 3), "branch", <<b, b + 1>>), b), s.then),
       s, b, Snapshot(c))

LowerIf(c, s) == LET c1 == Read(c, s.cond) IN Then(c1, s, c1.next)

\* An arm whose first block ends in a return, or in a jump to where an
\* enclosing loop is left or continued, does not reach the merge block.
EndsEarly(c, arm) ==
  /\ c.cur # arm
  /\ \/ c.blocks[arm].op = "return"
     \/ /\ c.blocks[arm].op = "goto"
        /\ \E loop \in ToSet(c.loops) : c.blocks[arm].to[1] \in {loop.again, loop.exit}

\* The arm that begins in a block has been lowered up to c; acc has the ends of
\* the arms before it.
EndArm(acc, c, arm, merge, pre) ==
  LET early == EndsEarly(c, arm)
  IN  [c |-> Restore(IF early THEN c ELSE Goto(c, merge), pre),
       ends |-> IF early THEN acc.ends ELSE acc.ends \cup {Source(c)}]

MergeArms(all, merge, pre) ==
  LET changed == {v \in DOMAIN pre : \E e \in all.ends : e.vars[v] # pre[v]}
  IN  MergePhis(At(all.c, merge), changed,
                [v \in changed |-> {<<e.from, e.vars[v]>> : e \in all.ends}])

\* The arms are lowered in order, into n blocks from b on.
Arms(c, s, b, n, pre) ==
  MergeArms(
    FoldLeft(LAMBDA acc, i : EndArm(acc, LowerBlock(At(acc.c, b + i - 1), s.arms[i]),
                                    b + i - 1, b + n, pre),
             [c |-> Terminate(NewBlocks(c, n + 1), "match", [i \in 1 .. n |-> b + i - 1]),
              ends |-> {}],
             [i \in 1 .. n |-> i]),
    b + n, pre)

LowerMatch(c, s) ==
  LET c1 == Read(c, s.cond) IN Arms(c1, s, c1.next, Len(s.arms), Snapshot(c1))

----------------------------------------------------------------------------
(* Loops                                                                   *)

PushLoop(c, again, exit) ==
  [c EXCEPT !.loops = Append(@, [again |-> again, exit |-> exit,
                                 breaks |-> {}, continues |-> {}])]

PopLoop(c) == [c EXCEPT !.loops = Front(@)]

\* What the body has updated, c being where its analysis ends and before where
\* it began; the values pre are put back.
Analysed(c, before, pre) ==
  LET post == Snapshot(c)
  IN  [updated |-> {n \in DOMAIN pre : post[n] # pre[n]},
       c |-> UpdateAll([c EXCEPT !.quiet = FALSE, !.loops = before.loops,
                                 !.blocks = before.blocks, !.cur = before.cur], pre)]

\* The body is lowered once into blocks that are thrown away, to find the
\* variables it updates; their bindings are put back.
Analyse(c, pre, again, exit, vars, body) ==
  LET c1 == PushLoop(DeadBlock([c EXCEPT !.quiet = TRUE]), again, exit)
  IN  Analysed(LowerBlock(FoldLeft(LAMBDA d, v : [Bind(d, v, d.temp) EXCEPT !.temp = @ + 1],
                                   c1, vars), body), c, pre)

\* Where a loop is left by break: phi nodes for the variables one of them
\* leaves with another value than the head of the loop.
ExitPhis(c, head, phi, breaks) ==
  LET differ == {n \in DOMAIN phi : \E e \in breaks : e.vars[n] # phi[n]}
  IN  MergePhis(c, differ, [n \in differ |-> {<<head, phi[n]>>}
                                      \cup {<<e.from, e.vars[n]>> : e \in breaks}])

\* Mutant: the phi nodes of the head do not know the ends by continue.
WhileHeadNoContinue(start, pre, end, loop, n) ==
  {<<start, pre[n]>>, <<end.cur, Snapshot(end)[n]>>}

\* What the phi node of a variable at the head of a while loop merges.
WhileHead(start, pre, end, loop, n) ==
  {<<start, pre[n]>>, <<end.cur, Snapshot(end)[n]>>}
    \cup {<<e.from, e.vars[n]>> : e \in loop.continues}

\* The head of a while loop, and where it is left.  The body has been lowered,
\* and end is the context where it ends; start is the block before the loop, pre
\* the values there, phi the temporaries of the head.
CloseWhile(end, s, start, head, pre, phi) ==
  LET loop == Last(end.loops)
      c1   == AddPhis(At(Goto(PopLoop(end), head), head),
                      {[t |-> phi[n], in |-> WhileHead(start, pre, end, loop, n)] :
                       n \in DOMAIN phi})
      c2   == Terminate(Read(UpdateAll(c1, phi), s.cond), "branch", <<head + 1, head + 2>>)
  IN  ExitPhis(At(c2, head + 2), head, phi, loop.breaks)

\* The body, whose updates an has found.
OpenWhile(an, s, start, head, pre) ==
  LET phi == Fresh(an.c, an.updated)
      c1  == UpdateAll([an.c EXCEPT !.temp = @ + Cardinality(an.updated)], phi)
  IN  CloseWhile(LowerBlock(PushLoop(At(Goto(c1, head), head + 1), head, head + 2), s.body),
                 s, start, head, pre, phi)

LowerWhile(c, s) ==
  OpenWhile(Analyse(NewBlocks(c, 3), Snapshot(c), c.next, c.next + 2, <<>>, s.body),
            s, c.cur, c.next, Snapshot(c))

\* Mutant: continue goes to the head of the loop, past the increment.
ContinueToHead(head) == head

\* Where continue goes in a for loop: the block of the increment.
ContinueTo(head) == head + 2

\* What the head computes from the counter: the end of a range once more, or
\* the length of an array, and the comparison.
CounterTest(c, s, held, i) ==
  IF s.op = "for" THEN Def(Read(c, s.end), i) ELSE Def(Def(c, held.length), i)

\* What the body begins with: the counter, or the address of the item, what it
\* refers to, and the item.
CounterItem(c, s, held, i) ==
  IF s.op = "for" THEN Def(c, i) ELSE Def(Def(Def(c, held.array), i), Input)

Counter(c) == "for" \o ToString(c.counters)

\* The head of a loop with a counter, and where it is left; c has incremented
\* the counter idx.
CloseCounted(c, start, head, idx, pre, phi, breaks) ==
  LET fin == Snapshot(c)
      c1  == AddPhis(At(Goto(c, head), head),
                {[t |-> phi[n], in |-> {<<start, pre[n]>>, <<head + 2, fin[n]>>}] :
                 n \in DOMAIN phi})
  IN  ExitPhis(At(UpdateAll(c1, phi), head + 3), head,
               [n \in DOMAIN phi \ {idx} |-> phi[n]], breaks)

\* The increment, where what the ends of the body leave is merged.
Increase(c, end, idx, updated, continues) ==
  LET c1 == IF continues = {} THEN c
            ELSE MergePhis(c, updated,
                   [n \in updated |-> {<<end.cur, Snapshot(end)[n]>>}
                              \cup {<<e.from, e.vars[n]>> : e \in continues}])
      c2 == Def(Def(c1, Lookup(c1, idx)), Input)
  IN  Update(c2, idx, Newest(c2))

\* What follows the body, which ends in end.
AfterBody(end, start, head, idx, pre, phi) ==
  LET loop == Last(end.loops)
      inc  == At(Goto(PopLoop(end), head + 2), head + 2)
  IN  CloseCounted(Increase(inc, end, idx, DOMAIN phi \ {idx}, loop.continues),
                   start, head, idx, pre, phi, loop.breaks)

\* The test and the body; c has new temporaries, phi, for what the body updates.
CountedBody(c, s, start, head, idx, held, pre, phi) ==
  LET c1 == CounterTest(At(Goto(c, head), head), s, held, phi[idx])
      c2 == CounterItem(At(Terminate(c1, "branch", <<head + 1, head + 3>>), head + 1),
                        s, held, phi[idx])
      c3 == PushLoop(Bind(c2, NameOf(s.var), Newest(c2)), ContinueTo(head), head + 3)
  IN  AfterBody(LowerBlock(c3, s.body), start, head, idx, pre, phi)

OpenCounted(an, s, start, head, idx, held, pre) ==
  LET vars == an.updated \cup {idx}
      phi  == Fresh(an.c, vars)
      c1   == [Bind(an.c, idx, pre[idx]) EXCEPT !.temp = @ + Cardinality(vars)]
  IN  CountedBody(UpdateAll(c1, phi), s, start, head, idx, held, pre, phi)

\* A loop with the counter idx.  Start is the block where the statement began,
\* head the first of its four blocks, held the array and its length.
Counted(c, s, start, head, idx, held) ==
  OpenCounted(Analyse(c, Snapshot(c), ContinueTo(head), head + 3, <<NameOf(s.var)>>, s.body),
              s, start, head, idx, held, Snapshot(c))

\* The newest temporary is the first value of the counter.
CountedLoop(c, s, start, head, held) ==
  Counted(Bind([c EXCEPT !.counters = @ + 1], Counter(c), Newest(c)),
          s, start, head, Counter(c), held)

\* for var in start..end.  The statements of s.pre are evaluated as part of
\* start; end is evaluated before the loop and again in its head.
LowerFor(c, s) ==
  LET c1 == FoldLeft(Lower, NewBlocks(c, 4), s.pre)
      c2 == Read(Def(c1, Input), s.end)
      c3 == Def(c2, Newest(c2) - 1)
  IN  CountedLoop(c3, s, c.cur, c.next, <<>>)

\* for var in array.  The length is read once; what an address refers to is
\* taken for the address.
LowerForArray(c, s) ==
  LET c1 == Read(NewBlocks(c, 4), s.end)
      c2 == Def(c1, Newest(c1))
      c3 == Def(c2, Input)
  IN  CountedLoop(c3, s, c.cur, c.next, [array |-> Newest(c1), length |-> Newest(c2)])

Lower(c, s) ==
  CASE s.op = "let"      -> LowerLet(c, s)
    [] s.op = "set"      -> LowerAssign(c, s)
    [] s.op = "use"      -> Read(c, s.from)
    [] s.op = "and"      -> LowerAnd(c, s)
    [] s.op = "pick"     -> LowerPick(c, s)
    [] s.op = "block"    -> LowerBlock(c, s.body)
    [] s.op = "if"       -> LowerIf(c, s)
    [] s.op = "match"    -> LowerMatch(c, s)
    [] s.op = "while"    -> LowerWhile(c, s)
    [] s.op = "for"      -> LowerFor(c, s)
    [] s.op = "forarray" -> LowerForArray(c, s)
    [] s.op = "break"    -> LowerBreak(c)
    [] s.op = "continue" -> LowerContinue(c)
    [] s.op = "return"   -> LowerReturn(c)

\* A function: its body is a block, and the block that is current at its end
\* returns unless something has ended it.
LowerFunction(body) ==
  LET c == LowerBlock(Entry, body)
  IN  IF c.blocks[c.cur].op = "none" THEN Terminate(c, "return", <<>>).blocks ELSE c.blocks
============================================================================
