---------------------------- MODULE PassManager ---------------------------
(***************************************************************************)
(* The pass manager of the LIR (karte-lir/src/pass/pass_manager.rs): it    *)
(* takes a function through the passes of an optimisation level and keeps  *)
(* analyses between them.  An analysis is made when a pass requires it and *)
(* the manager does not have it, and it goes when a pass or the end of the *)
(* function drops it; whether it is still about the code, nobody asks.     *)
(* The SSA construction leaves a result of its own, which Memory2Reg needs *)
(* and no other pass makes: the dominance frontiers, computed before the   *)
(* construction changes the code.                                          *)
(***************************************************************************)
EXTENDS Integers, Sequences

CONSTANT Levels        \* the optimisation levels that are used

ASSUME PassManagerAssumption == Levels \subseteq {"debug", "fast", "balanced", "performance"}

VARIABLES todo,        \* the passes that are left
          kept,        \* the analyses the pass manager has
          good,        \* those that are about the code as it is now
          stale        \* whether a pass has used another

managed == <<todo, kept, good, stale>>

\* The passes of a level, after the standard analyses.  Those that do nothing
\* to the code of a model are in the list for what they require and drop.
Passes(level) ==
  CASE level = "debug" ->
         <<"analyses", "explicit-jump", "block-layout", "register-allocation",
           "stack-frame-layout", "instruction-lowering", "callsite-live">>
    [] level = "fast" ->
         <<"analyses", "constant-folding", "explicit-jump", "block-layout", "register-allocation",
           "stack-frame-layout", "instruction-lowering", "callsite-live">>
    [] level = "balanced" ->
         <<"analyses", "effect-lowering", "constant-folding", "ssa", "mem2reg", "phi-elimination",
           "explicit-jump", "block-layout", "register-allocation", "stack-frame-layout",
           "peephole", "dce", "peephole", "instruction-lowering", "callsite-live">>
    [] level = "performance" ->
         <<"analyses", "effect-lowering", "constant-folding", "ssa", "mem2reg", "phi-elimination",
           "explicit-jump", "block-layout", "register-allocation", "stack-frame-layout",
           "peephole", "dce", "peephole", "constant-folding", "dce",
           "instruction-lowering", "callsite-live">>

\* STANDARD_ANALYSIS_PASSES, and what each is computed from.
Analyses == <<"cfg", "def-use", "liveness", "lifetime">>
Standard == {"cfg", "def-use", "liveness", "lifetime"}

\* What a pass stores itself.  It is about the blocks and the edges between
\* them, whatever the instructions in the blocks.
StoredBy(p) == IF p = "ssa" THEN {"ssa-construction"} ELSE {}
OfBlocks == {"ssa-construction"}

BasedOn(a) ==
  CASE a \in {"cfg", "def-use", "ssa-construction"} -> {}
    [] a = "liveness" -> {"cfg", "def-use"}
    [] a = "lifetime" -> {"cfg", "def-use", "liveness"}

Required(p) ==
  CASE p = "analyses" -> Standard
    [] p \in {"ssa", "phi-elimination", "explicit-jump", "block-layout"} -> {"cfg"}
    [] p = "mem2reg" -> {"cfg", "ssa-construction"}
    [] p \in {"stack-frame-layout", "instruction-lowering", "callsite-live"} -> {"lifetime"}
    [] OTHER -> {}

\* instruction-lowering asks for the lifetimes and does not look at them.
Used(p) == IF p \in {"analyses", "instruction-lowering"} THEN {} ELSE Required(p)

\* Mutant: the graph is kept through the promotion of slots.
InvalidatedTooFew(p) ==
  CASE p \in {"effect-lowering", "block-layout", "instruction-lowering"} -> Standard
    [] p = "explicit-jump" -> {"cfg"}
    [] p \in {"analyses", "callsite-live"} -> {}
    [] p = "mem2reg" -> {"def-use"}
    [] OTHER -> {"cfg", "def-use"}

Invalidated(p) ==
  CASE p \in {"effect-lowering", "block-layout", "instruction-lowering"} -> Standard
    [] p = "explicit-jump" -> {"cfg"}
    [] p \in {"analyses", "callsite-live"} -> {}
    [] OTHER -> {"cfg", "def-use"}

\* What a pass needs that the manager does not have: run_analysis_with_
\* dependencies does not make an analysis again, and fails if it is not one of
\* the standard ones.
Wanted(p) == (UNION {{a} \cup BasedOn(a) : a \in Required(p) \ kept}) \ kept

\* The first of them is made.
MakeAnalysis(i) ==
  LET a == Analyses[i]
      w == Wanted(Head(todo))
  IN
  /\ todo # <<>> /\ a \in w
  /\ \A j \in 1 .. i - 1 : Analyses[j] \notin w
  /\ kept' = kept \cup {a}
  /\ good' = good \cup IF BasedOn(a) \subseteq good THEN {a} ELSE {}
  /\ UNCHANGED <<todo, stale>>

\* The analyses left after a pass.
Left(p, changed) ==
  IF p = "explicit-jump" /\ changed THEN {} ELSE (kept \cup StoredBy(p)) \ Invalidated(p)

\* Those that are not about the code any more.
Outdated(changed, reshaped) ==
  (IF changed THEN Standard ELSE {}) \cup (IF reshaped THEN OfBlocks ELSE {})

\* A pass runs: the code is another one or not, and so are its blocks.
PerformPass(changed, reshaped) ==
  LET p == Head(todo) IN
  /\ todo # <<>> /\ Wanted(p) = {}
  /\ stale' = (stale \/ ~(Used(p) \subseteq good))
  /\ kept' = Left(p, changed)
  /\ good' = ((good \cup StoredBy(p)) \ Outdated(changed, reshaped)) \cap kept'
  /\ todo' = Tail(todo)

\* The next function: cleanup_function_analyses has left the lifetimes.
TakeFunction(level) ==
  /\ todo = <<>>
  /\ todo' = Passes(level)
  /\ kept' = kept \ {"cfg", "def-use", "liveness"}
  /\ good' = {}
  /\ UNCHANGED stale

-----------------------------------------------------------------------
\* The manager on its own, over functions that passes change as they like;
\* analyses and callsite-live never do, and the SSA construction inserts phi
\* nodes and renames registers.
ChangesCode(p) == p \notin {"analyses", "callsite-live"}
ChangesBlocks(p) == ChangesCode(p) /\ p # "ssa"

ManagerInit == todo = <<>> /\ kept = {} /\ good = {} /\ stale = FALSE

Pass(changed, reshaped) ==
  /\ todo # <<>>
  /\ changed => ChangesCode(Head(todo))
  /\ reshaped => changed /\ ChangesBlocks(Head(todo))
  /\ PerformPass(changed, reshaped)

ManagerNext(level) ==
  \/ \E i \in DOMAIN Analyses : MakeAnalysis(i)
  \/ \E changed, reshaped \in BOOLEAN : Pass(changed, reshaped)
  \/ TakeFunction(level)

ManagerSpec(level) == ManagerInit /\ [][ManagerNext(level)]_managed

\* What a pass requires the manager can give it, and it only looks at analyses
\* of this function's code as it is, or, for the frontiers the SSA
\* construction left, of its blocks as they are: whatever the passes before it
\* and the function before this one have left with the pass manager
\* (pass_manager.rs, the required_analyses and invalidated_analyses of each
\* pass).
AnalysesFresh ==
  /\ ~stale
  /\ todo # <<>> => Wanted(Head(todo)) \subseteq Standard
============================================================================
