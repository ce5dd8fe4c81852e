------------------------------- MODULE MCParse -------------------------------
(* The programs of the run: every construct, every construct inside every   *)
(* other, operators three deep, types, patterns, declarations and imports.  *)
EXTENDS ParseRun

x == Leaf("x")
y == Leaf("y")
C == Leaf("C")
Param(n) == Node("param", <<n>>)
Typed(n, t) == Node("param", <<n, t>>)
Def(n, t) == Node("def", <<n, t>>)
BlockOf(statements, last) == Node("block", Append(statements, last))
Do(e) == Node(";", <<e>>)
LetBe(n, e) == Node("let", <<n, e>>)

Binaries(e) == UNION {{Node(op, <<e, y>>), Node(op, <<x, e>>)} : op \in DOMAIN BinaryLevel}
Compounds(e) == {Node("=", <<x, Node(op, <<x, e>>)>>) : op \in {"+", "-", "*", "/", "&", "|", "^", "<<", ">>"}}
Signed(e) == {Node(op, <<e>>) : op \in Unary \cup {"not"}}

\* A call of a built-in function with e among its arguments.
Calls(e) ==
  {Node(f, <<e>>) : f \in {"unsafe_load", "unsafe_load8", "unsafe_load32", "len", "abs", "to_string", "trim"}}
  \cup {Node(f, <<y, e>>) : f \in {"unsafe_store", "unsafe_store8", "unsafe_store32", "min", "max", "str_index", "char_at",
                                   "str_contains", "split_count"}}
  \cup {Node(f, <<x, e, y>>) : f \in {"clamp", "substring"}}

Suffixed(e) ==
  {Node("call", <<e>>), Node("call", <<e, x>>), Node("call", <<x, e>>), Node("call", <<x, y, e>>), Node("index", <<e, y>>),
   Node("index", <<x, e>>), Node("field", <<e, y>>), Node("field", <<e, Leaf("1")>>), Node("cast", <<e, y>>)}

Compositions(e) ==
  {Node("constructor", <<C, e>>), Node("constructor", <<C, x, e>>), Node("qualified", <<C, Leaf("D"), e>>),
   Node("literal", <<x, Node("init", <<y, e>>)>>), Node("literal", <<C, Node("init", <<x, e>>), Node("init", <<y, x>>)>>),
   Node("tuple", <<e, y>>), Node("tuple", <<x, y, e>>), Node("array", <<e>>), Node("array", <<x, e>>)}

Conditionals(e) ==
  {Node("if", <<e, x>>), Node("if", <<x, e>>), Node("if", <<e, x, y>>), Node("if", <<x, e, y>>), Node("if", <<x, y, e>>),
   Node("if", <<e, BlockOf(<<>>, x)>>), Node("if", <<x, BlockOf(<<>>, e), BlockOf(<<>>, y)>>)}

Loops(e) ==
  {Node("while", <<e, x>>), Node("while", <<x, e>>), Node("while", <<e, BlockOf(<<Do(x)>>, Nothing)>>),
   Node("for", <<x, e, y>>), Node("for", <<x, y, e>>), Node("for", <<x, e, BlockOf(<<Do(x)>>, Nothing)>>),
   Node("for ..", <<x, e, y, x>>), Node("for ..", <<x, y, e, BlockOf(<<>>, Nothing)>>), Node("for ..=", <<x, y, x, e>>)}

Matches(e) ==
  {Node("match", <<e, Node("arm", <<Leaf("_"), x>>)>>), Node("match", <<x, Node("arm", <<y, e>>)>>),
   Node("match", <<x, Node("arm", <<Leaf("1"), e>>), Node("arm", <<y, e>>)>>)}

Functional(e) ==
  {Node("lambda", <<e>>), Node("lambda", <<Param(x), e>>), Node("lambda", <<Param(x), Typed(y, C), e>>),
   Node("return", <<e>>), Node("perform", <<x, e>>), Node("perform", <<Leaf("1"), e>>), Node("resume", <<e>>),
   Node("handle", <<x, y, e, x>>), Node("handle", <<x, y, x, e>>)}

Blocks(e) ==
  {BlockOf(<<>>, e), BlockOf(<<Do(e)>>, Nothing), BlockOf(<<Do(x)>>, e), BlockOf(<<LetBe(y, e)>>, y),
   BlockOf(<<Do(e), Do(y)>>, Leaf("return"))}

Around(e) ==
  UNION {Binaries(e), {Node("=", <<x, e>>), Node("=", <<Node("field", <<e, y>>), y>>)}, Compounds(e), Signed(e), Calls(e),
         Suffixed(e), Compositions(e), Conditionals(e), Loops(e), Matches(e), Functional(e), Blocks(e)}

\* One construct of every kind.
Few(e) ==
  UNION {{Node(op, <<e, y>>), Node(op, <<x, e>>)} : op \in {"||", "<", "+", "*"}}
  \cup {Node("=", <<x, e>>), Node("neg", <<e>>), Node("not", <<e>>), Node("~", <<e>>), Node("len", <<e>>),
        Node("call", <<e, x>>), Node("cast", <<e, y>>), Node("if", <<x, e>>), Node("if", <<x, e, y>>), Node("lambda", <<e>>)}

Atoms ==
  {Leaf(t) : t \in {"x", "1", "s", "true", "false", "break", "continue"}}
  \cup {Node("constructor", <<C>>), Node("qualified", <<C, Leaf("D")>>), Node("symbol", <<x, y>>),
        Node("symbol", <<x, y, Leaf("z")>>), Node("symbol", <<C, x, Leaf("z")>>), Node("array", <<>>), BlockOf(<<>>, Nothing),
        Node("literal", <<C>>), Node("perform", <<x, Leaf("unit")>>), Node("lambda", <<Param(x), x>>)}
  \cup {Node(f, <<>>) : f \in DOMAIN RuntimeArity}

----------------------------------------------------------------------------
TypeAtoms == {x, C, Leaf("unit")}
TypesAround(t) ==
  {Node("ref type", <<t>>), Node("tuple type", <<x, t>>), Node("option type", <<t>>), Node("fn type", <<t, x>>),
   Node("fn type", <<x, t>>), Node("fn type", <<t>>), Node("fn type", <<x, t, y>>)}
Types == TypeAtoms \cup UNION {TypesAround(t) : t \in TypeAtoms}

PatternAtoms == {Leaf("_"), Leaf("1"), Leaf("true"), x, Node("constructor", <<C>>), Node("qualified", <<C, Leaf("D")>>)}
PatternsAround(p) ==
  {Node("constructor", <<C, p>>), Node("constructor", <<C, p, x>>), Node("qualified", <<C, Leaf("D"), p>>)}
Patterns == PatternAtoms \cup UNION {PatternsAround(p) : p \in PatternAtoms}

\* Declarations with an expression, a type or two.
Declared(e, t) ==
  {LetBe(x, e), Node("fn", <<x, Nothing, BlockOf(<<>>, e)>>), Node("pub fn", <<x, Param(y), t, BlockOf(<<LetBe(y, e)>>, y)>>),
   Node("fn", <<x, Typed(y, t), Param(Leaf("z")), Nothing, BlockOf(<<>>, e)>>),
   Node("enum", <<C, Node("variant", <<Leaf("D")>>), Node("variant", <<C, t>>)>>),
   Node("pub enum", <<C, Node("variant", <<Leaf("D"), x, t>>)>>), Node("struct", <<C, Def(x, t)>>),
   Node("pub struct", <<C, Def(x, y), Def(y, t)>>)}

Bodies == {Node("program", <<d, Nothing>>) : d \in Declared(y, C)}

Preludes ==
  LET path == Node("path", <<x>>)
      long == Node("path", <<x, y>>)
      other == Node("as", <<Leaf("z")>>)
      symbol == Node("import symbol", <<y>>)
      renamed == Node("import symbol", <<y, other>>)
      imports == {Node("import", <<path>>), Node("import", <<long, other>>), Node("import", <<long, symbol>>),
                  Node("import", <<path, other, renamed, symbol>>)}
      modules == {Node("module", <<x>>), Node("module", <<x, y>>)}
  IN {<<m>> : m \in modules} \cup {<<m, i>> : m \in modules, i \in imports} \cup {<<i, j>> : i, j \in imports}

In(mode, nodes) == [mode |-> mode, nodes |-> nodes]
Program1(d) == <<Node("program", <<d, Nothing>>)>>

Small == Atoms \cup Around(x)
Inner == UNION {Atoms, Few(x), Suffixed(x), Compositions(x), Conditionals(x), Loops(x), Matches(x), Functional(x), Blocks(x)}
Expressions ==
  UNION {Around(e) : e \in Inner} \cup UNION {Binaries(e) : e \in Binaries(x)} \cup Small
  \cup UNION {Few(d) : d \in UNION {Few(e) : e \in Few(x)}}
  \cup {Node("cast", <<x, t>>) : t \in Types}
  \cup {Node("match", <<x, Node("arm", <<p, x>>), Node("arm", <<q, x>>)>>) : p, q \in Patterns}

Projects ==
  {In("project", Program1(d)) : d \in UNION {Declared(e, C) : e \in Small} \cup UNION {Declared(y, t) : t \in Types}}
  \cup {In("project", p \o <<b>>) : p \in Preludes, b \in Bodies}
  \cup {In("project", <<Node("program", <<d, e, Nothing>>)>>) : d, e \in Declared(y, C)}

Scripts ==
  {In("script", <<Node("program", <<LetBe(x, y), s, e>>)>>) :
     s \in {Do(x), Node("set", <<x, y>>), Node("set", <<x, Node("+", <<x, y>>)>>), Do(Node("=", <<Node("field", <<x, y>>), y>>))},
     e \in {Nothing, x, Node("+", <<x, y>>)}}

AllTrees == {In("script", <<e>>) : e \in Expressions} \cup Projects \cup Scripts
SomeDamaged ==
  {In("project", <<e>>) : e \in Small} \cup {In("project", Program1(d)) : d \in Declared(x, Node("fn type", <<x, y>>))}
  \cup {In("project", p \o <<b>>) : p \in Preludes, b \in Bodies}

MCTrees == AllTrees \cup SomeDamaged
MCDamaged == SomeDamaged
==============================================================================
