------------------------------ MODULE MirSource ------------------------------
(***************************************************************************)
(* The reference: what the programs of MirLower mean.  A point of an       *)
(* execution is what is left to do, a sequence of statements; Ahead brings *)
(* the next event to its front: a variable that is read or given a value,  *)
(* or a choice between continuations.  Variables are declarations, so a    *)
(* name that is declared again in an inner block names another variable.   *)
(***************************************************************************)
EXTENDS Integers, Sequences

CONSTANT Input      \* what a statement computes anew

Use(var) == [op |-> "use", from |-> var]
Set(var, from) == [op |-> "set", var |-> var, from |-> from]
Choose(alts) == [op |-> "choose", alts |-> alts]

Again(loop) == [op |-> "again", loop |-> loop]
Iterate(loop) == [op |-> "iterate", loop |-> loop]

\* What is left once the innermost loop is at its next iteration, or left.
RECURSIVE AtAgain(_)
AtAgain(k) == IF Head(k).op = "again" THEN k ELSE AtAgain(Tail(k))

\* The variables of a for loop that have no name in the source.
StartOf(loop) == loop.var \o ".start"
EndOf(loop) == loop.var \o ".end"
CounterOf(loop) == loop.var \o ".counter"

\* What a for loop evaluates before it starts, once.
Start(loop) ==
  (IF loop.op = "for"
     THEN loop.pre \o <<Set(StartOf(loop), Input), Set(EndOf(loop), loop.end),
                        Set(CounterOf(loop), StartOf(loop))>>
     ELSE <<Set(StartOf(loop), loop.end), Set(EndOf(loop), StartOf(loop)),
            Set(CounterOf(loop), Input)>>)
  \o <<Iterate(loop)>>

\* The variable of a for loop gets its value.
Item(loop) ==
  IF loop.op = "for" THEN <<Set(loop.var, CounterOf(loop))>>
  ELSE <<Use(StartOf(loop)), Use(CounterOf(loop)), Set(loop.var, Input)>>

\* The test of a loop, and its body if it holds.
Test(loop) ==
  IF loop.op = "while"
    THEN <<Use(loop.cond), Choose(<<Append(loop.body, Again(loop)), <<>> >>)>>
    ELSE <<Use(EndOf(loop)), Use(CounterOf(loop)),
           Choose(<<Item(loop) \o Append(loop.body, Again(loop)), <<>> >>)>>

Increment(loop) == <<Use(CounterOf(loop)), Set(CounterOf(loop), Input)>>

RECURSIVE Ahead(_)
Ahead(k) ==
  IF k = <<>> THEN k
  ELSE LET s == Head(k) IN
    CASE s.op \in {"let", "set", "use", "choose"} -> k
      [] s.op = "block"    -> Ahead(s.body \o Tail(k))
      [] s.op = "if"       -> <<Use(s.cond), Choose(<<s.then, s.else>>)>> \o Tail(k)
      [] s.op = "match"    -> <<Use(s.cond), Choose(s.arms)>> \o Tail(k)
      [] s.op = "pick"     -> <<Use(s.a), Use(s.b), Use(Input),
                                Choose(<< <<Set(s.var, s.a)>>, <<Set(s.var, s.b)>> >>)>> \o Tail(k)
      [] s.op = "and"      -> <<Use(s.a), Use(s.b), Set(s.var, s.b)>> \o Tail(k)
      [] s.op = "while"    -> Test(s) \o Tail(k)
      [] s.op \in {"for", "forarray"} -> Ahead(Start(s) \o Tail(k))
      [] s.op = "iterate"  -> Test(s.loop) \o Tail(k)
      [] s.op = "again"    ->
           IF s.loop.op = "while" THEN Ahead(<<s.loop>> \o Tail(k))
           ELSE Increment(s.loop) \o <<Iterate(s.loop)>> \o Tail(k)
      [] s.op = "break"    -> Ahead(Tail(AtAgain(k)))
      [] s.op = "continue" -> Ahead(AtAgain(k))
      [] s.op = "return"   -> <<>>
============================================================================
