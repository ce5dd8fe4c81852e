----------------------------- MODULE MCPrograms -----------------------------
(***************************************************************************)
(* The programs that are lowered and run: families of small function       *)
(* bodies, each a loop or a choice or one inside the other.                *)
(***************************************************************************)
EXTENDS MirSource

SetTo(v, from) == [op |-> "set", var |-> v, from |-> from]
LetBe(v) == [op |-> "let", var |-> v, from |-> Input]
Pick(v) == [op |-> "pick", var |-> v, a |-> "x", b |-> "y"]
And(v) == [op |-> "and", var |-> v, a |-> "x", b |-> "y"]
If(then, else) == [op |-> "if", cond |-> "c", then |-> then, else |-> else]
Match(a, b) == [op |-> "match", cond |-> "c", arms |-> <<a, b>>]
While(body) == [op |-> "while", cond |-> "y", body |-> body]
ForVar(v, pre, body) ==
  [op |-> "for", var |-> v, pre |-> pre, end |-> "c", body |-> body]
ForArray(body) == [op |-> "forarray", var |-> "i", end |-> "c", body |-> body]
For(pre, body) == ForVar("i", pre, body)
Jump(op) == [op |-> op]

Block(body) == [op |-> "block", body |-> body]

Jumps == <<Jump("break"), Jump("continue"), Jump("return")>>
NewX == SetTo("x", Input)
Swap == <<SetTo("z", "x"), SetTo("x", "y"), SetTo("y", "z")>>

\* All ways to make something of a member of each of two sequences.
Pairs(Make(_, _), a, b) ==
  [k \in 1 .. Len(a) * Len(b) |-> Make(a[((k - 1) \div Len(b)) + 1], b[((k - 1) % Len(b)) + 1])]

Each(Make(_), a) == [i \in DOMAIN a |-> Make(a[i])]

\* What a branch does: nothing, an assignment, a jump, both, two variables.
Plain == <<  <<>>, <<NewX>>, <<SetTo("y", "x")>>, Swap >>
Jumping == Each(LAMBDA j : <<j>>, Jumps)
Both == Each(LAMBDA j : <<NewX, j>>, Jumps)
Branches == Plain \o Jumping \o Both

Ifs(then, else) == Pairs(If, then, else)
Matches(arms) == Pairs(Match, arms, arms)

\* One loop around one choice, with something before and after the choice.
OneChoice == Ifs(Branches, Branches) \o Matches(Plain \o Jumping)
Around == Each(LAMBDA s : <<s, NewX>>, OneChoice)
          \o Each(LAMBDA s : <<SetTo("y", "x"), s>>, OneChoice)
OneLoop == Each(While, Around) \o Each(LAMBDA b : For(<<>>, b), Around)

\* A loop in a loop, a choice in a choice, a loop in an arm, a jump past an arm.
Small == << <<NewX>>, <<SetTo("y", "x")>>, <<NewX, Jump("break")>>, <<Jump("continue")>> >>
Inner == Each(LAMBDA s : While(<<s, SetTo("y", "x")>>), Ifs(Small, Small))
         \o Each(LAMBDA s : ForVar("j", <<>>, <<s, SetTo("x", "j")>>), Ifs(Small, Small))
Nested ==
  Each(LAMBDA s : While(<<s, If(<<NewX, Jump("break")>>, <<>>)>>), Inner)
  \o Each(LAMBDA s : For(<<>>, <<s, SetTo("y", "x")>>), Inner)
  \o Each(LAMBDA s : While(<<If(<<s>>, <<Jump("continue")>>), NewX>>), Inner)
  \o Each(LAMBDA s : Match(<<s>>, <<NewX>>), Inner)
  \o Pairs(LAMBDA s, b : While(<<If(<<s, NewX>>, b), SetTo("y", "x")>>),
           Ifs(Small, Small), Small)
  \o Pairs(LAMBDA s, b : While(<<Match(<<s, NewX>>, b), SetTo("y", "x")>>),
           Ifs(Small, Small), << <<NewX>>, <<Jump("continue")>> >>)

\* Two loops over one variable, loops over an array, a block with a variable
\* of its own.
Others ==
  Each(LAMBDA s : Block(<<For(<<>>, <<s, SetTo("x", "i")>>), For(<<>>, <<SetTo("y", "i")>>)>>),
       Ifs(Small, Small))
  \o Each(LAMBDA s : ForArray(<<s, SetTo("x", "i")>>), Ifs(Branches, Small))
  \o Each(LAMBDA s : While(<<Block(<<LetBe("w"), s, SetTo("x", "w")>>)>>), Ifs(Small, Small))

\* The smaller of two variables, and a conjunction.
Operators == << <<Pick("x")>>, <<Pick("z"), SetTo("x", "z")>>, <<Pick("y"), Jump("continue")>>,
                <<And("x")>>, <<And("z"), NewX, SetTo("y", "z")>>, <<And("y"), Jump("break")>> >>
Choosing ==
  Pairs(LAMBDA b, s : While(b \o <<s>>), Operators, Ifs(Small, Small))
  \o Pairs(LAMBDA b, s : For(<<>>, <<If(b, s)>>), Operators, Operators \o Small)

Body(s) == <<LetBe("c"), LetBe("x"), LetBe("y"), LetBe("z"), s,
             [op |-> "use", from |-> "x"], [op |-> "use", from |-> "y"]>>

AllPrograms == Each(Body, OneLoop \o Nested \o Others \o Choosing)

\* Arms of a match that update a variable and jump.
ArmPrograms ==
  Each(Body, Pairs(LAMBDA m, t : While(<<m, t>>), Matches(Both), <<NewX, SetTo("y", "x")>>))

\* A variable declared again in an inner block.
ShadowPrograms ==
  Each(LAMBDA i : Body(Block(<<[op |-> "let", var |-> "x2", from |-> Input], i,
                               [op |-> "use", from |-> "x2"]>>)), Ifs(Plain, Plain))

\* A start that is a choice.
RangePrograms == <<Body(For(<<If(<<>>, <<>>)>>, <<SetTo("x", "i")>>))>>

\* A body that changes the end.
BoundPrograms == <<Body(For(<<>>, <<SetTo("c", "x")>>))>>

MCNameOf(d) == IF d = "x2" THEN "x" ELSE d
=============================================================================
