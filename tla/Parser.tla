------------------------------- MODULE Parser -------------------------------
(***************************************************************************)
(* The recursive descent parser (karte-parser/src): expression.rs,         *)
(* statement.rs, pattern.rs, module.rs and lib.rs.  A token is a string: a *)
(* symbol, a keyword, "1" or "s" for a number or string literal, a name.   *)
(* What the lexer does not make a keyword is an identifier: also `let`,    *)
(* `if`, `else` or `as`, which the parser tells apart by their names.      *)
(* A tree is a node with a sequence of children; spans and messages are    *)
(* left out.                                                               *)
(***************************************************************************)
EXTENDS Sequences, Integers, SequencesExt

Lower == {"x", "y", "z"}
Upper == {"C", "D"}

\* Identifiers with a meaning of their own.
Words == {"let", "enum", "struct", "fn", "true", "false", "match", "if", "then", "else", "while", "do", "as",
          "box", "arc", "free", "retain", "release", "len", "abs", "min", "max", "clamp", "str_index", "char_at",
          "substring", "str_contains", "split_count", "to_string", "trim", "module", "import", "Option"}

IsName(t) == t \in Lower \cup Upper \cup Words
IsLiteral(t) == t \in {"1", "s"}

\* is_constructor: a capital letter.
IsConstructor(t) == t \in Upper \cup {"Option"}

Node(op, kids) == [op |-> op, kids |-> kids]
Leaf(op) == Node(op, <<>>)
Nothing == Leaf("nothing")

\* Where parsing goes on, and the nodes that were read; Fail is an error.
Ok(i, nodes) == [at |-> i, nodes |-> nodes]
Fail == Ok(0, <<>>)
Failed(r) == r.at = 0

\* peek.
Peek(ts, i) == IF i \in DOMAIN ts THEN ts[i] ELSE "end"

Build(op, r) == IF Failed(r) THEN Fail ELSE Ok(r.at, <<Node(op, r.nodes)>>)

RECURSIVE Item(_, _, _), Rule(_, _, _), Listed(_, _, _, _), Trailing(_, _, _, _)

\* What stands at a place of a rule: a part of the grammar, or the token itself.
ExpectToken(ts, i, t) == IF Peek(ts, i) = t THEN Ok(i + 1, <<>>) ELSE Fail

ExpectIdentifier(ts, i) ==
  IF IsName(Peek(ts, i)) THEN Ok(i + 1, <<Leaf(ts[i])>>) ELSE Fail

\* The items of a rule one after the other.
Rule(ts, i, items) ==
  IF items = <<>> THEN Ok(i, <<>>)
  ELSE LET first == Item(ts, i, Head(items))
       IN IF Failed(first) THEN Fail
          ELSE LET rest == Rule(ts, first.at, Tail(items))
               IN IF Failed(rest) THEN Fail ELSE Ok(rest.at, first.nodes \o rest.nodes)

\* An item, then more of them after commas.
Listed(ts, i, item, nodes) ==
  LET r == Item(ts, i, item)
  IN IF Failed(r) THEN Fail
     ELSE IF Peek(ts, r.at) = "," THEN Listed(ts, r.at + 1, item, nodes \o r.nodes)
     ELSE Ok(r.at, nodes \o r.nodes)

\* Items up to a closing token, which a comma may precede.
Trailing(ts, i, item, close) ==
  IF Peek(ts, i) = close THEN Ok(i + 1, <<>>)
  ELSE LET r == Item(ts, i, item)
       IN IF Failed(r) THEN Fail
          ELSE IF Peek(ts, r.at) = close THEN Ok(r.at + 1, r.nodes)
          ELSE IF Peek(ts, r.at) # "," THEN Fail
          ELSE LET rest == Trailing(ts, r.at + 1, item, close)
               IN IF Failed(rest) THEN Fail ELSE Ok(rest.at, r.nodes \o rest.nodes)

\* Arguments up to a closing parenthesis, which a comma may not precede.
Arguments(ts, i, item) ==
  IF Peek(ts, i) = ")" THEN Ok(i + 1, <<>>)
  ELSE LET r == Listed(ts, i, item, <<>>)
       IN IF Failed(r) \/ Peek(ts, r.at) # ")" THEN Fail ELSE Ok(r.at + 1, r.nodes)

----------------------------------------------------------------------------
(* Binary operators, level by level (parse_logical_or to parse_term).      *)

LogicalOr == {"||"}
LogicalAnd == {"&&"}
Comparison == {"==", "!=", ">=", "<=", ">", "<"}
BitwiseOr == {"|", "bitor"}
BitwiseXor == {"^", "bitxor"}
BitwiseAnd == {"&", "bitand"}
Shift == {"<<", ">>", "shl", "shr"}
Additive == {"+", "-"}
Term == {"*", "/", "%"}

Levels == <<LogicalOr, LogicalAnd, Comparison, BitwiseOr, BitwiseXor, BitwiseAnd, Shift, Additive, Term>>

\* The operators that are written as words.
SymbolOf == [bitor |-> "|", bitxor |-> "^", bitand |-> "&", shl |-> "<<", shr |-> ">>"]
Symbol(t) == IF t \in DOMAIN SymbolOf THEN SymbolOf[t] ELSE t

\* A word before `=` belongs to a compound assignment.
OfAssignment(ts, i) == Peek(ts, i) \in DOMAIN SymbolOf /\ Peek(ts, i + 1) = "="

RECURSIVE Binary(_, _, _), Chain(_, _, _)
\* Mutant: operators of a level are grouped from the right.
ChainRight(ts, left, level) ==
  IF Failed(left) \/ Peek(ts, left.at) \notin Levels[level] \/ OfAssignment(ts, left.at) THEN left
  ELSE LET right == Binary(ts, left.at + 1, level)
       IN IF Failed(right) THEN Fail ELSE Ok(right.at, <<Node(Symbol(ts[left.at]), left.nodes \o right.nodes)>>)

Binary(ts, i, level) ==
  IF level > Len(Levels) THEN Item(ts, i, "FACTOR") ELSE Chain(ts, Binary(ts, i, level + 1), level)

Chain(ts, left, level) ==
  IF Failed(left) \/ Peek(ts, left.at) \notin Levels[level] \/ OfAssignment(ts, left.at) THEN left
  ELSE LET right == Binary(ts, left.at + 1, level + 1)
       IN IF Failed(right) THEN Fail
          ELSE Chain(ts, Ok(right.at, <<Node(Symbol(ts[left.at]), left.nodes \o right.nodes)>>), level)

\* parse_assignment: right associative; `x op= e` is `x = x op e`.
CompoundOf ==
  ("+=" :> "+") @@ ("-=" :> "-") @@ ("*=" :> "*") @@ ("/=" :> "/") @@ ("&=" :> "&") @@ ("|=" :> "|")
  @@ ("^=" :> "^") @@ ("<<=" :> "<<") @@ (">>=" :> ">>")

Compound(ts, target, op, i) ==
  LET right == Item(ts, i, "EXPR")
  IN IF Failed(right) THEN Fail
     ELSE Ok(right.at, <<Node("=", target \o <<Node(op, target \o right.nodes)>>)>>)

Expression(ts, i) ==
  LET left == Binary(ts, i, 1)
      t == Peek(ts, left.at)
  IN IF Failed(left) THEN Fail
     ELSE IF t \in DOMAIN CompoundOf THEN Compound(ts, left.nodes, CompoundOf[t], left.at + 1)
     ELSE IF OfAssignment(ts, left.at) THEN Compound(ts, left.nodes, Symbol(t), left.at + 2)
     ELSE IF t = "="
          THEN LET value == Item(ts, left.at + 1, "EXPR")
               IN IF Failed(value) THEN Fail ELSE Ok(value.at, <<Node("=", left.nodes \o value.nodes)>>)
     ELSE left

----------------------------------------------------------------------------
(* Unary operators and built-in functions (parse_factor).                  *)

\* The operand is a primary expression.
Allocating == {"box", "arc", "free", "retain", "release"}

UnaryOf == ("+" :> "plus") @@ ("-" :> "neg") @@ ("!" :> "not") @@ ("&" :> "ref") @@ ("*" :> "deref")

\* Keywords of memory access and of the runtime, with the number of arguments.
UnsafeArity == [unsafe_load |-> 1, unsafe_load8 |-> 1, unsafe_load32 |-> 1,
                unsafe_store |-> 2, unsafe_store8 |-> 2, unsafe_store32 |-> 2]
RuntimeArity == [runtime_heap_base |-> 0, runtime_heap_limit |-> 0, runtime_stack_bottom |-> 0,
                 runtime_stack_top |-> 0, runtime_vm_sp |-> 0, gc_push_regs |-> 0, gc_pop_regs |-> 0]

\* Names that are built-in functions where a parenthesis follows.
NumberArity == [len |-> 1, abs |-> 1, min |-> 2, max |-> 2, clamp |-> 3]
StringArity == [str_index |-> 2, char_at |-> 2, substring |-> 3, str_contains |-> 2, split_count |-> 2]
TextArity == [to_string |-> 1, trim |-> 1]

Keywords == UnsafeArity @@ RuntimeArity
Intrinsics == NumberArity @@ StringArity @@ TextArity

\* `(`, as many expressions as the function takes, `)`.
Fixed(ts, i, arity) ==
  Rule(ts, i, IF arity = 0 THEN <<"(", ")">>
              ELSE <<"(">> \o [k \in 1..(2 * arity - 1) |-> IF k % 2 = 1 THEN "EXPR" ELSE ","] \o <<")">>)

Factor(ts, i) ==
  LET t == Peek(ts, i)
  IN CASE t \in Allocating -> Build(t, Item(ts, i + 1, "PRIMARY"))
       [] t \in {"bitnot", "~"} -> Build("~", Item(ts, i + 1, "FACTOR"))
       [] t \in DOMAIN Keywords -> Build(t, Fixed(ts, i + 1, Keywords[t]))
       [] t \in DOMAIN Intrinsics /\ Peek(ts, i + 1) = "(" -> Build(t, Fixed(ts, i + 1, Intrinsics[t]))
       [] t \in DOMAIN UnaryOf -> Build(UnaryOf[t], Item(ts, i + 1, "PRIMARY"))
       [] OTHER -> Item(ts, i, "PRIMARY")

----------------------------------------------------------------------------
(* Types.                                                                  *)

RECURSIVE Generics(_, _, _)
Generics(ts, i, args) ==
  LET r == Item(ts, i, "TYPE")
  IN IF Failed(r) THEN Fail
     ELSE IF Peek(ts, r.at) = "," THEN Generics(ts, r.at + 1, args \o r.nodes)
     ELSE IF Peek(ts, r.at) = ">" THEN Ok(r.at + 1, args \o r.nodes)
     ELSE Fail

\* Only Option keeps its argument.
GenericType(name, r) ==
  IF Failed(r) THEN Fail
  ELSE Ok(r.at, <<IF name = "Option" /\ Len(r.nodes) = 1 THEN Node("option type", r.nodes) ELSE Leaf("unknown type")>>)

Function(params, r) == IF Failed(r) THEN Fail ELSE Ok(r.at, <<Node("fn type", params \o r.nodes)>>)

\* A parenthesis holds the parameters of a function type or the elements of a
\* tuple; one element alone is itself.
ParenthesisedType(ts, r) ==
  IF Failed(r) THEN Fail
  ELSE IF Peek(ts, r.at) = "->" THEN Function(r.nodes, Item(ts, r.at + 1, "TYPE"))
  ELSE Ok(r.at, IF Len(r.nodes) = 1 THEN r.nodes
                ELSE <<IF r.nodes = <<>> THEN Leaf("unit") ELSE Node("tuple type", r.nodes)>>)

BaseType(ts, i) ==
  LET t == Peek(ts, i)
  IN CASE t = "&" -> Build("ref type", Item(ts, i + 1, "BASE"))
       [] t = "(" -> ParenthesisedType(ts, Arguments(ts, i + 1, "TYPE"))
       [] IsName(t) /\ Peek(ts, i + 1) = "<" -> GenericType(t, Generics(ts, i + 2, <<>>))
       [] IsName(t) -> Ok(i + 1, <<Leaf(t)>>)
       [] OTHER -> Fail

TypeExpression(ts, i) ==
  LET base == Item(ts, i, "BASE")
  IN IF ~Failed(base) /\ Peek(ts, base.at) = "->"
     THEN Function(base.nodes, Item(ts, base.at + 1, "TYPE"))
     ELSE base

----------------------------------------------------------------------------
(* Patterns (pattern.rs).  A qualified constructor takes one argument.     *)

Qualified(ts, i, op, item) ==
  LET type == Leaf(ts[i])
      name == ExpectIdentifier(ts, i + 2)
      args == IF Peek(ts, i + 4) = ")" THEN Ok(i + 5, <<>>) ELSE Rule(ts, i + 4, <<item, ")">>)
  IN IF Failed(name) THEN Fail
     ELSE IF Peek(ts, i + 3) # "(" THEN Ok(i + 3, <<Node(op, <<type>> \o name.nodes)>>)
     ELSE IF Failed(args) THEN Fail
     ELSE Ok(args.at, <<Node(op, (<<type>> \o name.nodes) \o args.nodes)>>)

WithArguments(ts, i, op, item) ==
  LET r == Arguments(ts, i + 2, item)
  IN IF Failed(r) THEN Fail ELSE Ok(r.at, <<Node(op, <<Leaf(ts[i])>> \o r.nodes)>>)

Pattern(ts, i) ==
  LET t == Peek(ts, i)
  IN CASE t \in {"_", "1", "true", "false"} -> Ok(i + 1, <<Leaf(t)>>)
       [] IsName(t) /\ t \notin {"true", "false"} ->
            (CASE Peek(ts, i + 1) = "::" -> Qualified(ts, i, "qualified", "PATTERN")
               [] Peek(ts, i + 1) = "(" -> WithArguments(ts, i, "constructor", "PATTERN")
               [] OTHER -> Ok(i + 1, <<IF IsConstructor(t) THEN Node("constructor", <<Leaf(t)>>) ELSE Leaf(t)>>))
       [] OTHER -> Fail

----------------------------------------------------------------------------
(* Primary expressions (parse_primary).                                    *)

\* perform, resume and handle.  A tag is a name, a number or an expression.
Tag(ts, i) ==
  IF IsName(Peek(ts, i)) \/ Peek(ts, i) = "1" THEN Ok(i + 1, <<Leaf(ts[i])>>) ELSE Item(ts, i, "EXPR")

Perform(ts, i) ==
  LET r == Rule(ts, i, <<"perform", "TAG", "(">>)
  IN IF Failed(r) THEN Fail
     ELSE IF Peek(ts, r.at) = ")" THEN Ok(r.at + 1, <<Node("perform", Append(r.nodes, Leaf("unit")))>>)
     ELSE LET payload == Rule(ts, r.at, <<"EXPR", ")">>)
          IN IF Failed(payload) THEN Fail ELSE Ok(payload.at, <<Node("perform", r.nodes \o payload.nodes)>>)

Resume(ts, i) == Build("resume", Rule(ts, i, <<"resume", "(", "EXPR", ")">>))

Handle(ts, i) ==
  Build("handle", Rule(ts, i, <<"handle", "TAG", "(", "NAME", ")", "{", "EXPR", "}", "in", "EXPR">>))

\* preview_module_symbol_access: `a.b::c`.  Where the symbol of a path that
\* goes on at i stands, or 0.
RECURSIVE SymbolAt(_, _, _)
SymbolAt(ts, i, dotted) ==
  IF Peek(ts, i) = "." /\ IsName(Peek(ts, i + 1)) THEN SymbolAt(ts, i + 2, TRUE)
  ELSE IF Peek(ts, i) = "::" /\ ~dotted /\ IsConstructor(ts[i - 1]) THEN 0
  ELSE IF Peek(ts, i) = "::" /\ IsName(Peek(ts, i + 1)) THEN i + 1
  ELSE 0

ModuleSymbolAccess(ts, i, at) ==
  Ok(at + 1, <<Node("symbol", [k \in 1..((at - i) \div 2 + 1) |-> Leaf(ts[i + 2 * (k - 1)])])>>)

\* is_likely_struct_literal.
IsLikelyStructLiteral(ts, i) ==
  \/ Peek(ts, i + 1) = "}"
  \/ IsName(Peek(ts, i + 1)) /\ Peek(ts, i + 2) = ":"

FieldInit(ts, i) == Build("init", Rule(ts, i, <<"NAME", ":", "EXPR">>))

StructLiteral(ts, i) ==
  LET r == Trailing(ts, i + 2, "INIT", "}")
  IN IF Failed(r) THEN Fail ELSE Ok(r.at, <<Node("literal", <<Leaf(ts[i])>> \o r.nodes)>>)

\* A name that is no keyword.
Identifier(ts, i) ==
  LET name == ts[i]
      next == Peek(ts, i + 1)
  IN CASE SymbolAt(ts, i + 1, FALSE) # 0 -> ModuleSymbolAccess(ts, i, SymbolAt(ts, i + 1, FALSE))
       [] SymbolAt(ts, i + 1, FALSE) = 0 /\ next = "::" -> Qualified(ts, i, "qualified", "EXPR")
       [] next = "(" /\ IsConstructor(name) -> WithArguments(ts, i, "constructor", "EXPR")
       [] next = "{" /\ IsLikelyStructLiteral(ts, i + 1) -> StructLiteral(ts, i)
       [] OTHER -> Ok(i + 1, <<IF IsConstructor(name) THEN Node("constructor", <<Leaf(name)>>) ELSE Leaf(name)>>)

\* Patterns with a bar between them.
RECURSIVE Alternatives(_, _)
Alternatives(ts, i) ==
  LET first == Item(ts, i, "PATTERN")
      rest == Alternatives(ts, first.at + 1)
  IN IF Failed(first) \/ Peek(ts, first.at) # "|" THEN first
     ELSE IF Failed(rest) THEN Fail ELSE Ok(rest.at, first.nodes \o rest.nodes)

\* An arm for each of its patterns, with the same body.
Arm(ts, i) ==
  LET patterns == Alternatives(ts, i)
      body == Item(ts, patterns.at + 1, "EXPR")
  IN IF Failed(patterns) \/ Peek(ts, patterns.at) \notin {"->", "=>"} \/ Failed(body) THEN Fail
     ELSE Ok(body.at, [k \in DOMAIN patterns.nodes |-> Node("arm", <<patterns.nodes[k]>> \o body.nodes)])

Match(ts, i) ==
  LET r == Rule(ts, i, <<"match", "EXPR", "{">>)
      arms == Trailing(ts, r.at, "ARM", "}")
  IN IF Failed(r) \/ Failed(arms) THEN Fail ELSE Ok(arms.at, <<Node("match", r.nodes \o arms.nodes)>>)

LambdaNoParams(ts, i) == Build("lambda", Rule(ts, i, <<"||", "EXPR">>))

\* A parameter of a lambda or of a function, with or without a type.
Parameter(ts, i) ==
  IF IsName(Peek(ts, i)) /\ Peek(ts, i + 1) # ":" THEN Ok(i + 1, <<Node("param", <<Leaf(ts[i])>>)>>)
  ELSE Build("param", Rule(ts, i, <<"NAME", ":", "TYPE">>))

Lambda(ts, i) ==
  LET params == Trailing(ts, i + 1, "PARAM", "|")
      body == Item(ts, params.at, "EXPR")
  IN IF Failed(params) \/ Failed(body) THEN Fail ELSE Ok(body.at, <<Node("lambda", params.nodes \o body.nodes)>>)

\* The word before a body, unless the body is a block.
Opening(ts, i, word) == IF Peek(ts, i) = "{" THEN Ok(i, <<>>) ELSE ExpectToken(ts, i, word)

If(ts, i) ==
  LET r == Rule(ts, i, <<"if", "EXPR", "THEN", "EXPR">>)
      other == Item(ts, r.at + 1, "EXPR")
  IN IF Failed(r) \/ Peek(ts, r.at) # "else" THEN Build("if", r)
     ELSE IF Failed(other) THEN Fail ELSE Ok(other.at, <<Node("if", r.nodes \o other.nodes)>>)

While(ts, i) == Build("while", Rule(ts, i, <<"while", "EXPR", "DO", "EXPR">>))

\* Over a range or over an array.
For(ts, i) ==
  LET r == Rule(ts, i, <<"for", "NAME", "in", "EXPR">>)
      range == Rule(ts, r.at + 1, <<"EXPR", "DO", "EXPR">>)
      body == Rule(ts, r.at, <<"DO", "EXPR">>)
  IN IF Failed(r) THEN Fail
     ELSE IF Peek(ts, r.at) \in {"..", "..="}
          THEN IF Failed(range) THEN Fail ELSE Ok(range.at, <<Node("for " \o ts[r.at], r.nodes \o range.nodes)>>)
     ELSE IF Failed(body) THEN Fail ELSE Ok(body.at, <<Node("for", r.nodes \o body.nodes)>>)

Return(ts, i) ==
  IF Peek(ts, i + 1) \in {"}", ";", ",", "end"} THEN Ok(i + 1, <<Leaf("return")>>)
  ELSE Build("return", Item(ts, i + 1, "EXPR"))

\* A parenthesis around an expression, or a tuple.
Parenthesised(ts, i) ==
  LET r == Listed(ts, i + 1, "EXPR", <<>>)
  IN IF Failed(r) \/ Peek(ts, r.at) # ")" THEN Fail
     ELSE Ok(r.at + 1, IF Len(r.nodes) = 1 THEN r.nodes ELSE <<Node("tuple", r.nodes)>>)

ArrayLiteral(ts, i) == Build("array", Trailing(ts, i + 1, "EXPR", "]"))

Simple(ts, i) ==
  LET t == Peek(ts, i)
  IN CASE IsLiteral(t) \/ t \in {"true", "false", "break", "continue"} -> Ok(i + 1, <<Leaf(t)>>)
       [] t = "perform" -> Perform(ts, i)
       [] t = "resume" -> Resume(ts, i)
       [] t = "handle" -> Handle(ts, i)
       [] t = "match" -> Match(ts, i)
       [] t = "if" -> If(ts, i)
       [] t = "while" -> While(ts, i)
       [] IsName(t) /\ t \notin {"true", "false", "match", "if", "while"} -> Identifier(ts, i)
       [] t = "for" -> For(ts, i)
       [] t = "return" -> Return(ts, i)
       [] t = "|" -> Lambda(ts, i)
       [] t = "||" -> LambdaNoParams(ts, i)
       [] t = "(" -> Parenthesised(ts, i)
       [] t = "{" -> Item(ts, i, "BLOCK")
       [] t = "!" -> Item(ts, i, "FACTOR")
       [] t = "[" -> ArrayLiteral(ts, i)
       [] OTHER -> Fail

\* What may follow a primary expression: calls, indices, fields and casts.
Suffix(ts, r) ==
  LET t == Peek(ts, r.at)
      field == Peek(ts, r.at + 1)
  IN CASE t = "(" -> LET args == Arguments(ts, r.at + 1, "EXPR")
                     IN IF Failed(args) THEN Fail ELSE Ok(args.at, <<Node("call", r.nodes \o args.nodes)>>)
       [] t = "[" -> LET index == Rule(ts, r.at + 1, <<"EXPR", "]">>)
                     IN IF Failed(index) THEN Fail ELSE Ok(index.at, <<Node("index", r.nodes \o index.nodes)>>)
       [] t = "." -> IF IsName(field) \/ field = "1"
                     THEN Ok(r.at + 2, <<Node("field", r.nodes \o <<Leaf(field)>>)>>) ELSE Fail
       [] t = "as" -> LET type == Item(ts, r.at + 1, "TYPE")
                      IN IF Failed(type) THEN Fail ELSE Ok(type.at, <<Node("cast", r.nodes \o type.nodes)>>)

RECURSIVE Postfix(_, _)
Postfix(ts, r) ==
  IF Failed(r) \/ Peek(ts, r.at) \notin {"(", "[", ".", "as"} THEN r ELSE Postfix(ts, Suffix(ts, r))

Primary(ts, i) == Postfix(ts, Simple(ts, i))

----------------------------------------------------------------------------
(* Statements (statement.rs).                                              *)

Let(ts, i) == Build("let", Rule(ts, i, <<"let", "NAME", "=", "EXPR", ";">>))

\* A semicolon that may be left out.
OptionalSemicolon(ts, r) == IF ~Failed(r) /\ Peek(ts, r.at) = ";" THEN Ok(r.at + 1, r.nodes) ELSE r

Variant(ts, i) ==
  LET r == ExpectIdentifier(ts, i)
      types == Listed(ts, i + 2, "TYPE", <<>>)
  IN IF Failed(r) \/ Peek(ts, i + 1) # "(" THEN Build("variant", r)
     ELSE IF Failed(types) \/ Peek(ts, types.at) # ")" THEN Fail
     ELSE Ok(types.at + 1, <<Node("variant", r.nodes \o types.nodes)>>)

Enum(ts, i, op) ==
  LET r == Rule(ts, i, <<"enum", "NAME", "{">>)
      variants == OptionalSemicolon(ts, Trailing(ts, r.at, "VARIANT", "}"))
  IN IF Failed(r) \/ Failed(variants) THEN Fail ELSE Ok(variants.at, <<Node(op, r.nodes \o variants.nodes)>>)

FieldDef(ts, i) == Build("def", Rule(ts, i, <<"NAME", ":", "TYPE">>))

Struct(ts, i, op) ==
  LET r == Rule(ts, i, <<"struct", "NAME", "{">>)
      fields == OptionalSemicolon(ts, Trailing(ts, r.at, "DEF", "}"))
  IN IF Failed(r) \/ Failed(fields) THEN Fail ELSE Ok(fields.at, <<Node(op, r.nodes \o fields.nodes)>>)

\* Name, parameters, return type (or none) and body.
FunctionDefinition(ts, i, op) ==
  LET head == Rule(ts, i, <<"fn", "NAME", "(">>)
      params == Trailing(ts, head.at, "PARAM", ")")
      type == IF Peek(ts, params.at) = "->" THEN Item(ts, params.at + 1, "TYPE") ELSE Ok(params.at, <<Nothing>>)
      body == Item(ts, type.at, "BLOCK")
  IN IF Failed(head) \/ Failed(params) \/ Failed(type) \/ Failed(body) THEN Fail
     ELSE Ok(body.at, <<Node(op, ((head.nodes \o params.nodes) \o type.nodes) \o body.nodes)>>)

Declares(t) == t \in {"let", "enum", "struct", "fn"}
IsPublic(ts, i) == Peek(ts, i) = "pub" /\ Peek(ts, i + 1) \in {"fn", "struct", "enum"}

Declaration(ts, i) ==
  CASE Peek(ts, i) = "let" -> Let(ts, i)
    [] Peek(ts, i) = "enum" -> Enum(ts, i, "enum")
    [] Peek(ts, i) = "struct" -> Struct(ts, i, "struct")
    [] Peek(ts, i) = "fn" -> FunctionDefinition(ts, i, "fn")
    [] Peek(ts, i) = "pub" -> (CASE Peek(ts, i + 1) = "enum" -> Enum(ts, i + 1, "pub enum")
                                 [] Peek(ts, i + 1) = "struct" -> Struct(ts, i + 1, "pub struct")
                                 [] Peek(ts, i + 1) = "fn" -> FunctionDefinition(ts, i + 1, "pub fn"))

\* parse_statement: an assignment or an expression, and a semicolon.
Statement(ts, i) ==
  LET r == Rule(ts, i, <<"EXPR", ";">>)
  IN IF Declares(Peek(ts, i)) \/ IsPublic(ts, i) THEN Declaration(ts, i)
     ELSE IF Failed(r) THEN Fail
     ELSE Ok(r.at, <<IF r.nodes[1].op = "=" THEN Node("set", r.nodes[1].kids) ELSE Node(";", r.nodes)>>)

\* Statements up to the closing brace; the last expression has no semicolon.
RECURSIVE Statements(_, _, _)
Statements(ts, i, nodes) ==
  LET r == IF Declares(Peek(ts, i)) THEN Declaration(ts, i) ELSE Item(ts, i, "EXPR")
  IN IF Peek(ts, i) = "}" THEN Ok(i + 1, Append(nodes, Nothing))
     ELSE IF Failed(r) THEN Fail
     ELSE IF Declares(Peek(ts, i)) THEN Statements(ts, r.at, nodes \o r.nodes)
     ELSE IF Peek(ts, r.at) = ";" THEN Statements(ts, r.at + 1, Append(nodes, Node(";", r.nodes)))
     ELSE IF Peek(ts, r.at) = "}" THEN Ok(r.at + 1, nodes \o r.nodes)
     ELSE Fail

Block(ts, i) == IF Peek(ts, i) = "{" THEN Build("block", Statements(ts, i + 1, <<>>)) ELSE Fail

----------------------------------------------------------------------------
(* The module declaration and the imports before the program (module.rs).  *)

\* `as` and another name, or nothing, in an import.
Alias(ts, r) ==
  IF Failed(r) \/ Peek(ts, r.at) # "as" THEN r
  ELSE LET name == ExpectIdentifier(ts, r.at + 1)
       IN IF Failed(name) THEN Fail ELSE Ok(name.at, Append(r.nodes, Node("as", name.nodes)))

ImportSymbol(ts, i) == Build("import symbol", Alias(ts, ExpectIdentifier(ts, i)))

RECURSIVE Path(_, _)
Path(ts, i) ==
  LET first == ExpectIdentifier(ts, i)
      rest == Path(ts, i + 2)
  IN IF Failed(first) \/ Peek(ts, i + 1) # "." THEN first
     ELSE IF Failed(rest) THEN Fail ELSE Ok(rest.at, first.nodes \o rest.nodes)

ModuleDecl(ts, i) == Build("module", OptionalSemicolon(ts, Path(ts, i + 1)))

\* A path, another name for it, and the symbols taken from it.
ImportDecl(ts, i) ==
  LET path == Alias(ts, Build("path", Path(ts, i + 1)))
      symbols == Trailing(ts, path.at + 2, "IMPORTED", "}")
  IN IF Failed(path) \/ Peek(ts, path.at) # "::" THEN Build("import", OptionalSemicolon(ts, path))
     ELSE IF Peek(ts, path.at + 1) # "{" \/ Failed(symbols) THEN Fail
     ELSE Build("import", OptionalSemicolon(ts, Ok(symbols.at, path.nodes \o symbols.nodes)))

----------------------------------------------------------------------------
(* Programs (parse_program).                                               *)

\* An assignment to a name.
SetsName(ts, i) == IsName(Peek(ts, i)) /\ Peek(ts, i + 1) \in {"=", "+=", "-=", "*=", "/="}

\* Statements up to the first expression without a semicolon.
RECURSIVE TopLevel(_, _, _)
TopLevel(ts, i, nodes) ==
  LET whole == Declares(Peek(ts, i)) \/ SetsName(ts, i) \/ IsPublic(ts, i)
      r == IF whole THEN Item(ts, i, "STATEMENT") ELSE Item(ts, i, "EXPR")
  IN IF i > Len(ts) THEN Ok(i, Append(nodes, Nothing))
     ELSE IF Failed(r) THEN Fail
     ELSE IF whole THEN TopLevel(ts, r.at, nodes \o r.nodes)
     ELSE IF Peek(ts, r.at) = ";" THEN TopLevel(ts, r.at + 1, Append(nodes, Node(";", r.nodes)))
     ELSE Ok(r.at, nodes \o r.nodes)

Declarations == {"let", "fn", "pub fn", "struct", "pub struct", "enum", "pub enum"}

\* A project has declarations only.
InProject(r) ==
  /\ Last(r.nodes) = Nothing
  /\ \A n \in ToSet(Front(r.nodes)) : n.op \in Declarations

Program(ts, i, mode) ==
  LET r == Item(ts, i, "PROGRAM")
  IN IF Failed(r) \/ (mode = "project" /\ ~InProject(r)) THEN Fail ELSE Build("program", r)

\* parse_module_prelude.  After an error the parser skips to an operator; the
\* program is then refused whatever follows.
RECURSIVE ModulePrelude(_, _, _)
ModulePrelude(ts, i, nodes) ==
  LET t == Peek(ts, i)
      r == Item(ts, i, IF t = "module" THEN "MODULE" ELSE "IMPORT")
  IN IF t \notin {"module", "import"} \/ ~IsName(Peek(ts, i + 1)) THEN Ok(i, nodes)
     ELSE IF Failed(r) \/ (t = "module" /\ \E n \in ToSet(nodes) : n.op = "module") THEN Fail
     ELSE ModulePrelude(ts, r.at, nodes \o r.nodes)

StartsWithStatement(ts, i) == Declares(Peek(ts, i)) \/ IsPublic(ts, i)

\* Mutant: what follows an expression is passed over.
ParseStart(ts, mode) ==
  LET prelude == ModulePrelude(ts, 1, <<>>)
      body == IF StartsWithStatement(ts, prelude.at) THEN Program(ts, prelude.at, mode)
              ELSE Item(ts, prelude.at, "EXPR")
  IN IF Failed(prelude) \/ prelude.at > Len(ts) \/ Failed(body) THEN Fail
     ELSE Ok(body.at, prelude.nodes \o body.nodes)

\* parse.  A program that does not start with a statement is one expression.
\* Accepted programs have their prelude and their body; others have no nodes.
Parse(ts, mode) ==
  LET prelude == ModulePrelude(ts, 1, <<>>)
      body == IF StartsWithStatement(ts, prelude.at) THEN Program(ts, prelude.at, mode)
              ELSE Item(ts, prelude.at, "EXPR")
  IN IF Failed(prelude) \/ prelude.at > Len(ts) \/ Failed(body)
        \/ (~StartsWithStatement(ts, prelude.at) /\ body.at <= Len(ts))
     THEN Fail
     ELSE Ok(body.at, prelude.nodes \o body.nodes)

\* The parts of the grammar by name.
Item(ts, i, item) ==
  CASE item = "EXPR" -> Expression(ts, i)
    [] item = "NAME" -> ExpectIdentifier(ts, i)
    [] item = "TYPE" -> TypeExpression(ts, i)
    [] item = "PATTERN" -> Pattern(ts, i)
    [] item = "BLOCK" -> Block(ts, i)
    [] item = "TAG" -> Tag(ts, i)
    [] item = "INIT" -> FieldInit(ts, i)
    [] item = "ARM" -> Arm(ts, i)
    [] item = "PARAM" -> Parameter(ts, i)
    [] item = "THEN" -> Opening(ts, i, "then")
    [] item = "DO" -> Opening(ts, i, "do")
    [] item = "VARIANT" -> Variant(ts, i)
    [] item = "DEF" -> FieldDef(ts, i)
    [] item = "IMPORTED" -> ImportSymbol(ts, i)
    [] item = "FACTOR" -> Factor(ts, i)
    [] item = "STATEMENT" -> Statement(ts, i)
    [] item = "PROGRAM" -> TopLevel(ts, i, <<>>)
    [] item \in {"script", "project"} -> Parse(ts, item)
    [] item = "MODULE" -> ModuleDecl(ts, i)
    [] item = "IMPORT" -> ImportDecl(ts, i)
    [] item = "PRIMARY" -> Primary(ts, i)
    [] item = "BASE" -> BaseType(ts, i)
    [] OTHER -> ExpectToken(ts, i, item)

============================================================================
