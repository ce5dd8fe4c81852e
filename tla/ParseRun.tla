------------------------------ MODULE ParseRun ------------------------------
(***************************************************************************)
(* A program is written down and read by the Parser.  Written is the       *)
(* grammar as karte-parser/README.md gives it, the levels of precedence    *)
(* from line 70 on: a tree as tokens, with a parenthesis only where a      *)
(* level needs it.  The levels of the bit operators are those of           *)
(* docs/plan-karte-unsafe-extensions.md, line 146.  It is written from the *)
(* documents and does not use the parser.                                  *)
(***************************************************************************)
EXTENDS Parser

CONSTANTS Trees,      \* programs: sequences of nodes, with the mode they are for
          Damaged     \* those that are also read with a token missing

Styles == {"plain", "symbols", "words"}

----------------------------------------------------------------------------
(* Levels: 0 what reaches as far to the right as it can, 1 to 9 binary     *)
(* operators, 10 and 11 unary operators, 12 what can be called.            *)

Precedence == <<{"||"}, {"&&"}, {"==", "!=", "<", ">", "<=", ">="}, {"|"}, {"^"}, {"&"}, {"<<", ">>"}, {"+", "-"},
                {"*", "/", "%"}>>
BinaryLevel == [op \in UNION {Precedence[k] : k \in 1..9} |-> CHOOSE k \in 1..9 : op \in Precedence[k]]

Open == {"=", "if", "while", "for", "for ..", "for ..=", "lambda", "return", "handle"}
Unary == {"plus", "neg", "ref", "deref", "~"} \cup Allocating
Called == DOMAIN Keywords \cup DOMAIN Intrinsics

Level(n) ==
  CASE n.op \in Open -> 0
    [] n.op \in DOMAIN BinaryLevel -> BinaryLevel[n.op]
    [] n.op \in Unary \cup Called -> 10
    [] n.op = "not" -> 11
    [] OTHER -> 12

\* A type reaches over a `<` that follows it.
RECURSIVE EndsInType(_)
EndsInType(n) ==
  \/ n.op = "cast"
  \/ n.op \in DOMAIN BinaryLevel \cup Unary \cup {"not"} /\ EndsInType(Last(n.kids))

\* Operands a level would not call for: the parser reads `C(x)` as a
\* constructor with an argument.
Bare(n) == n.op \in {"constructor", "qualified"} /\ Len(n.kids) = (IF n.op = "qualified" THEN 2 ELSE 1)

SignOf == ("plus" :> "+") @@ ("neg" :> "-") @@ ("ref" :> "&") @@ ("deref" :> "*") @@ ("not" :> "!") @@ ("~" :> "~")
WordOf == ("|" :> "bitor") @@ ("^" :> "bitxor") @@ ("&" :> "bitand") @@ ("<<" :> "shl") @@ (">>" :> "shr")
          @@ ("~" :> "bitnot")

\* The tokens of the items one after the other, with commas between them; in
\* words a comma may also follow the last.
Commas(items) ==
  IF items = <<>> THEN <<>> ELSE FoldLeft(LAMBDA a, b : (a \o <<",">>) \o b, Head(items), Tail(items))
Ended(items, style) ==
  Commas(items) \o (IF style = "words" /\ items # <<>> THEN <<",">> ELSE <<>>)

----------------------------------------------------------------------------
RECURSIVE Written(_, _), WrittenType(_, _), WrittenStatement(_, _)

Paren(tokens) == (<<"(">> \o tokens) \o <<")">>
Least(n, level, s) == IF Level(n) < level THEN Paren(Written(n, s)) ELSE Written(n, s)
All(nodes, s) == [k \in DOMAIN nodes |-> Written(nodes[k], s)]

OperatorToken(op, s) == IF s = "words" /\ op \in DOMAIN WordOf THEN WordOf[op] ELSE op

WrittenBinary(n, s) ==
  LET left == n.kids[1]
      level == BinaryLevel[n.op]
  IN ((IF n.op = "<" /\ EndsInType(left) THEN Paren(Written(left, s)) ELSE Least(left, level, s))
      \o <<OperatorToken(n.op, s)>>) \o Least(n.kids[2], level + 1, s)

\* `x = x op e` as `x op= e`.
IsCompound(n) ==
  LET v == n.kids[2]
  IN v.op \in {"+", "-", "*", "/", "&", "|", "^", "<<", ">>"} /\ v.kids[1] = n.kids[1]

WrittenAssignment(n, s) ==
  LET op == n.kids[2].op
      target == Least(n.kids[1], 1, s)
  IN IF s = "plain" \/ ~IsCompound(n) THEN (target \o <<"=">>) \o Written(n.kids[2], s)
     ELSE (target \o (IF s = "words" /\ op \in DOMAIN WordOf THEN <<WordOf[op], "=">> ELSE <<op \o "=">>))
          \o Written(n.kids[2].kids[2], s)

\* The word before a body is left out before a block, but not before an empty
\* one: the parser reads `x { }` as a structure.
Body(n, word, s) ==
  (IF n.op = "block" /\ n.kids # <<Nothing>> /\ s # "words" THEN <<>> ELSE <<word>>) \o Written(n, s)

WrittenIf(n, s) ==
  LET start == (<<"if">> \o Written(n.kids[1], s))
  IN IF Len(n.kids) = 2 THEN start \o Body(n.kids[2], "then", s)
     ELSE start \o (IF Level(n.kids[2]) = 0 THEN <<"then">> \o Paren(Written(n.kids[2], s)) ELSE Body(n.kids[2], "then", s))
                \o <<"else">> \o Written(n.kids[3], s)

\* Arms with the same body are written as one.
RECURSIVE WrittenArms(_, _)
WrittenArms(arms, s) ==
  LET first == Head(arms)
      joined == s # "plain" /\ Len(arms) > 1 /\ arms[2].kids[2] = first.kids[2]
      end == (<<IF s = "words" THEN "=>" ELSE "->">> \o Written(first.kids[2], s))
  IN (CASE joined -> (Written(first.kids[1], s) \o <<"|">>) \o WrittenArms(Tail(arms), s)
        [] ~joined /\ Len(arms) > 1 ->
             (Written(first.kids[1], s) \o end) \o (<<",">> \o WrittenArms(Tail(arms), s))
        [] ~joined /\ Len(arms) = 1 -> Written(first.kids[1], s) \o end \o (IF s = "words" THEN <<",">> ELSE <<>>))

Joined(nodes, between) ==
  FoldLeft(LAMBDA a, n : (a \o <<between>>) \o <<n.op>>, <<Head(nodes).op>>, Tail(nodes))

WrittenBlock(n, s) ==
  LET last == Last(n.kids)
  IN (<<"{">> \o FlattenSeq([k \in DOMAIN Front(n.kids) |-> WrittenStatement(n.kids[k], s)]))
     \o ((IF last = Nothing THEN <<>> ELSE Written(last, s)) \o <<"}">>)

WrittenParam(n, s) ==
  IF Len(n.kids) = 1 THEN <<n.kids[1].op>> ELSE <<n.kids[1].op, ":">> \o WrittenType(n.kids[2], s)

\* name: item of every pair.
Pairs(nodes, s) == [k \in DOMAIN nodes |-> <<nodes[k].kids[1].op, ":">> \o Written(nodes[k].kids[2], s)]
TypedPairs(nodes, s) == [k \in DOMAIN nodes |-> WrittenParam(nodes[k], s)]

WrittenType(n, s) ==
  LET types == [k \in DOMAIN n.kids |-> WrittenType(n.kids[k], s)]
  IN CASE n.op = "ref type" -> <<"&">> \o (IF n.kids[1].op = "fn type" THEN Paren(types[1]) ELSE types[1])
       [] n.op = "tuple type" -> Paren(Commas(types))
       [] n.op = "option type" -> (<<"Option", "<">> \o types[1]) \o <<">">>
       [] n.op = "fn type" -> (IF s = "plain" /\ Len(types) = 2 /\ n.kids[1].kids = <<>> /\ n.kids[1].op # "unit" THEN types[1]
                               ELSE Paren(Commas(Front(types)))) \o (<<"->">> \o Last(types))
       [] n.op = "unit" -> <<"(", ")">>
       [] OTHER -> <<n.op>>

Written(n, s) ==
  LET kids == n.kids
      rest == Tail(kids)
  IN CASE n.op \in DOMAIN BinaryLevel -> WrittenBinary(n, s)
       [] n.op = "=" -> WrittenAssignment(n, s)
       [] n.op \in DOMAIN SignOf -> <<OperatorToken(SignOf[n.op], IF n.op = "~" THEN s ELSE "plain")>>
                                    \o Least(kids[1], IF n.op = "~" THEN 10 ELSE 11, s)
       [] n.op \in Allocating -> <<n.op>> \o Least(kids[1], 11, s)
       [] n.op \in Called -> <<n.op>> \o Paren(Commas(All(kids, s)))
       [] n.op = "call" -> (IF Bare(kids[1]) THEN Paren(Written(kids[1], s)) ELSE Least(kids[1], 12, s))
                           \o Paren(Commas(All(rest, s)))
       [] n.op = "index" -> Least(kids[1], 12, s) \o ((<<"[">> \o Written(kids[2], s)) \o <<"]">>)
       [] n.op = "field" -> Least(kids[1], 12, s) \o <<".", kids[2].op>>
       [] n.op = "cast" -> Least(kids[1], 12, s) \o (<<"as">> \o WrittenType(kids[2], s))
       [] n.op \in {"constructor", "qualified"} ->
            (LET name == IF n.op = "qualified" THEN <<kids[1].op, "::", kids[2].op>> ELSE <<kids[1].op>>
                 args == SubSeq(kids, IF n.op = "qualified" THEN 3 ELSE 2, Len(kids))
             IN IF args = <<>> THEN name ELSE name \o Paren(Commas(All(args, s))))
       [] n.op = "symbol" -> Joined(Front(kids), ".") \o <<"::", Last(kids).op>>
       [] n.op = "literal" -> <<kids[1].op, "{">> \o (Ended(Pairs(rest, s), s) \o <<"}">>)
       [] n.op = "tuple" -> Paren(Commas(All(kids, s)))
       [] n.op = "array" -> (<<"[">> \o Ended(All(kids, s), s)) \o <<"]">>
       [] n.op = "lambda" -> (IF Len(kids) = 1 THEN <<"||">>
                              ELSE (<<"|">> \o Ended(TypedPairs(Front(kids), s), s)) \o <<"|">>) \o Written(Last(kids), s)
       [] n.op = "if" -> WrittenIf(n, s)
       [] n.op = "while" -> (<<"while">> \o Written(kids[1], s)) \o Body(kids[2], "do", s)
       [] n.op = "for" -> (<<"for", kids[1].op, "in">> \o Written(kids[2], s)) \o Body(kids[3], "do", s)
       [] n.op \in {"for ..", "for ..="} ->
            (<<"for", kids[1].op, "in">> \o Written(kids[2], s))
            \o ((<<IF n.op = "for .." THEN ".." ELSE "..=">> \o Written(kids[3], s)) \o Body(kids[4], "do", s))
       [] n.op = "match" -> (<<"match">> \o Written(kids[1], s)) \o ((<<"{">> \o WrittenArms(rest, s)) \o <<"}">>)
       [] n.op = "perform" -> <<"perform", kids[1].op>>
                              \o Paren(IF kids[2].op = "unit" THEN <<>> ELSE Written(kids[2], s))
       [] n.op = "resume" -> <<"resume">> \o Paren(Written(kids[1], s))
       [] n.op = "handle" -> (<<"handle", kids[1].op, "(", kids[2].op, ")", "{">> \o Written(kids[3], s))
                             \o (<<"}", "in">> \o Written(kids[4], s))
       [] n.op = "return" -> <<"return">> \o (IF kids = <<>> THEN <<>> ELSE Written(kids[1], s))
       [] n.op = "block" -> WrittenBlock(n, s)
       [] OTHER -> <<n.op>>

WrittenStatement(n, s) ==
  LET kids == n.kids
      public == IF n.op \in {"pub fn", "pub enum", "pub struct"} THEN <<"pub">> ELSE <<>>
      inner == SubSeq(kids, 2, Len(kids))
      semicolon == IF s = "words" THEN <<";">> ELSE <<>>
  IN CASE n.op = ";" -> Written(kids[1], s) \o <<";">>
       [] n.op = "set" -> Written(Node("=", kids), s) \o <<";">>
       [] n.op = "let" -> (<<"let", kids[1].op, "=">> \o Written(kids[2], s)) \o <<";">>
       [] n.op \in {"enum", "pub enum"} ->
            (public \o <<"enum", kids[1].op, "{">>)
            \o ((Ended([k \in DOMAIN inner |->
                   <<inner[k].kids[1].op>> \o (IF Len(inner[k].kids) = 1 THEN <<>>
                      ELSE Paren(Commas([j \in DOMAIN Tail(inner[k].kids) |-> WrittenType(inner[k].kids[j + 1], s)])))], s)
                 \o <<"}">>) \o semicolon)
       [] n.op \in {"struct", "pub struct"} ->
            (public \o <<"struct", kids[1].op, "{">>) \o ((Ended(TypedPairs(inner, s), s) \o <<"}">>) \o semicolon)
       [] n.op \in {"fn", "pub fn"} ->
            (LET type == kids[Len(kids) - 1]
             IN (public \o <<"fn", kids[1].op>>)
                \o (Paren(Ended(TypedPairs(SubSeq(kids, 2, Len(kids) - 2), s), s))
                    \o ((IF type = Nothing THEN <<>> ELSE <<"->">> \o WrittenType(type, s)) \o WrittenBlock(Last(kids), s))))

\* The module declaration and the imports.
WrittenAlias(n) == IF Last(n.kids).op = "as" THEN <<"as", Last(n.kids).kids[1].op>> ELSE <<>>
WrittenPrelude(n, s) ==
  LET semicolon == IF s = "words" THEN <<";">> ELSE <<>>
      symbols == SelectSeq(n.kids, LAMBDA k : k.op = "import symbol")
      alias == SelectSeq(n.kids, LAMBDA k : k.op = "as")
  IN IF n.op = "module" THEN (<<"module">> \o Joined(n.kids, ".")) \o semicolon
     ELSE ((<<"import">> \o Joined(n.kids[1].kids, ".")) \o (IF alias = <<>> THEN <<>> ELSE <<"as", alias[1].kids[1].op>>))
          \o ((IF symbols = <<>> THEN <<>>
               ELSE (<<"::", "{">> \o Ended([k \in DOMAIN symbols |-> <<symbols[k].kids[1].op>> \o WrittenAlias(symbols[k])], s))
                    \o <<"}">>) \o semicolon)

WrittenBody(n, s) ==
  IF n.op = "program"
  THEN FlattenSeq([k \in DOMAIN Front(n.kids) |-> WrittenStatement(n.kids[k], s)])
       \o (IF Last(n.kids) = Nothing THEN <<>> ELSE Written(Last(n.kids), s))
  ELSE Written(n, s)

WrittenProgram(nodes, s) ==
  FlattenSeq([k \in DOMAIN Front(nodes) |-> WrittenPrelude(nodes[k], s)]) \o WrittenBody(Last(nodes), s)

----------------------------------------------------------------------------
VARIABLES tree,    \* the program and its mode
          tokens,  \* what is read
          result,  \* what Parse makes of the tokens
          state    \* "meant", "read", or "damaged": read with a token missing
vars == <<tree, tokens, result, state>>

Init ==
  /\ tree \in Trees
  /\ tokens = <<>>
  /\ result = Fail
  /\ state = "meant"

\* The program is read as it was written down.
Read ==
  /\ state = "meant"
  /\ \E style \in Styles : tokens' = WrittenProgram(tree.nodes, style)
  /\ result' = Item(tokens', 1, tree.mode)
  /\ state' = "read"
  /\ UNCHANGED tree

\* It is read and one token is missing.
ReadDamaged ==
  /\ state = "meant" /\ tree \in Damaged
  /\ LET whole == WrittenProgram(tree.nodes, "plain")
     IN \E k \in DOMAIN whole : tokens' = RemoveAt(whole, k)
  /\ result' = Item(tokens', 1, tree.mode)
  /\ state' = "damaged"
  /\ UNCHANGED tree

Next == Read \/ ReadDamaged

Spec == Init /\ [][Next]_vars

----------------------------------------------------------------------------
\* What is written with parentheses only where the documented precedence needs
\* them is read as the tree that was meant, in all the notations the parser
\* knows for it.
ReadAsMeant == state = "read" => result.nodes = tree.nodes

\* What need not be there; two bars are also one parameter list,
\* and an import of no symbols is one without a list.
Separators == {"(", ")", ",", "|", "||"}
NoSymbols == <<"::", "{", "}">>
Kept(ts) ==
  LET empty == UNION {k..(k + 2) : k \in {j \in 1..(Len(ts) - 2) : SubSeq(ts, j, j + 2) = NoSymbols}}
      places == SelectSeq([k \in DOMAIN ts |-> k], LAMBDA k : k \notin empty /\ ts[k] \notin Separators)
  IN [k \in DOMAIN places |-> ts[places[k]]]

\* A program that is accepted although a token is missing is another program,
\* not part of one: nothing that was written is passed over or made up.
NothingIgnored ==
  state = "damaged" /\ ~Failed(result) =>
    /\ result.at = Len(tokens) + 1
    /\ Kept(WrittenProgram(result.nodes, "plain")) = Kept(tokens)

============================================================================
