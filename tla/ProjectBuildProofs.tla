---------------------- MODULE ProjectBuildProofs ----------------------
(* Proofs that the build of a project compiles every module after all it *)
(* depends on, reports a cycle just when there is one, accepts imports   *)
(* only of what it compiled itself and links them, for any manifests,    *)
(* any number of sources and any edits made meanwhile.                   *)
EXTENDS ProjectBuild, ListLemmas, FiniteSetTheorems, TLAPS

\* The dependencies of a module, each time they are named, that are not in a
\* set.
Missing(id, S) == {i \in DOMAIN deps[id] : deps[id][i] \notin S}

-----------------------------------------------------------------------
(* The invariant.                                                        *)

GraphTypes ==
    /\ stage \in Stages
    /\ nodes \in SUBSET Ids /\ deps \in [Ids -> Seq(Ids)]
    /\ indegree \in [Ids -> Int]
    /\ order \in Seq(Ids) /\ queue \in Seq(Ids)
    /\ plan \in SUBSET Ids /\ visited \in SUBSET Ids
    /\ layers \in Seq(SUBSET Ids)

\* The dependencies have been counted.
Counted == order # <<>> \/ queue # <<>> \/ stage \notin {"load", "sort", "missing"}

\* The sorted modules and those in the queue are all that wait for nothing
\* but sorted modules, and indegree says so.
Waiting ==
    /\ Range(order) \subseteq nodes /\ Range(queue) \subseteq nodes
    /\ Range(order) \cap Range(queue) = {}
    /\ Distinct(order) /\ Distinct(queue)
    /\ Counted =>
        \A id \in nodes :
            /\ DepsOf(id) \subseteq nodes
            /\ indegree[id] = Cardinality(Missing(id, Range(order)))
            /\ indegree[id] = 0 <=> id \in Range(order) \cup Range(queue)

\* Whatever is sorted comes after what it depends on.
Sorted ==
    \A k \in DOMAIN order : \A dep \in DepsOf(order[k]) :
        \E j \in DOMAIN order : j < k /\ order[j] = dep

SortStages ==
    /\ stage = "load" => order = <<>>
    /\ stage # "sort" => queue = <<>>
    /\ stage = "cycle" => Len(order) # Cardinality(nodes)
    /\ stage \notin {"load", "sort", "missing", "cycle"} => Len(order) = Cardinality(nodes)

SortInv == Waiting /\ Sorted /\ SortStages

Planned == stage \in {"layers", "compile", "done", "failed"}

PlanInv ==
    /\ plan \subseteq nodes
    /\ ~ Planned => plan = {}
    /\ Planned => Entry \in plan /\ Closed(plan)

\* Every layer depends on the layers before it alone.
LayerInv ==
    /\ \A id \in Ids : id \in visited <=> \E l \in DOMAIN layers : id \in layers[l]
    /\ visited \subseteq plan
    /\ \A l \in DOMAIN layers : \A id \in layers[l] :
        /\ \A dep \in DepsOf(id) : \E k \in DOMAIN layers : k < l /\ dep \in layers[k]
        /\ \A k \in DOMAIN layers : id \in layers[k] => k = l
    /\ ~ Planned => layers = <<>>
    /\ stage \in {"compile", "done", "failed"} => visited = plan

GraphInv == GraphTypes /\ SortInv /\ PlanInv /\ LayerInv

Symbols == [module : Ids, source : Nat, edition : Nat]

BuildTypes ==
    /\ pipeline \in {"entry", "project"}
    /\ \E n \in Sources : sources = [id \in Ids |-> n]
    /\ units \in [Ids -> Seq(Symbols)]
    /\ edition \in [Ids -> [Sources -> Nat]]
    /\ Compiled \subseteq Ids
    /\ task \in [Ids -> {"busy", "done", "failed"}]
    /\ \A import \in imports : import.of.module \in Ids

\* The layers are compiled one after the other, each as a whole.
LayersInTurn ==
    /\ Compiled \subseteq plan
    /\ \A l \in DOMAIN layers : \A id \in layers[l] : id \in Compiled =>
        \A k \in DOMAIN layers : k <= l => layers[k] \subseteq Compiled
    /\ stage \notin {"compile", "done", "failed"} =>
        Compiled = {} /\ imports = {} /\ \A id \in Ids : task[id] = "busy"
    /\ stage = "done" => Compiled = plan

\* An interface tells what the units of its module export.
InterfacesTrue ==
    /\ \A id \in Ids : task[id] = "done" => Len(units[id]) = sources[id]
    /\ \A id \in Compiled :
        /\ Len(units[id]) = sources[id]
        /\ DepsOf(id) \subseteq Compiled
        /\ interfaces[id] = Interface(id)

ImportsTrue ==
    \A import \in imports :
        /\ import.at = "build"
        /\ import.of.module \in Compiled
        /\ import.of \in Range(units[import.of.module])

ProgramTrue ==
    stage = "done" =>
        /\ program = UNION {Linked(id) : id \in plan}
        /\ main = IF pipeline = "entry" THEN 1 ELSE sources[Entry]

BuildInv == BuildTypes /\ LayersInTurn /\ InterfacesTrue /\ ImportsTrue /\ ProgramTrue

Inv == GraphInv /\ BuildInv

-----------------------------------------------------------------------
(* Counting modules.                                                     *)

LEMMA Finite == ASSUME NEW S \in SUBSET Ids PROVE IsFiniteSet(S) /\ Cardinality(S) \in Nat
BY ModuleGraphAssumption, FS_Subset, FS_CardinalityType

\* A sequence that names elements of a set once names them all just when it
\* is as long as the set is large.
LEMMA LongEnough ==
    ASSUME NEW S \in SUBSET Ids, NEW q \in Seq(Ids), Distinct(q), Range(q) \subseteq S
    PROVE  Len(q) = Cardinality(S) <=> Range(q) = S
<1>1. Len(q) \in Nat /\ DOMAIN q = 1..Len(q)
  OBVIOUS
<1>2. q \in [1..Len(q) -> S]
  BY <1>1, InRange
<1>3. q \in Injection(1..Len(q), S)
  BY <1>1, <1>2 DEF Injection, IsInjective, Distinct
<1>4. IsFiniteSet(1..Len(q)) /\ Cardinality(1..Len(q)) = Len(q)
  BY <1>1, FS_Interval
<1>5. Len(q) = Cardinality(S) <=> q \in Surjection(1..Len(q), S)
  BY <1>3, <1>4, Finite, FS_Injection
<1>6. q \in Surjection(1..Len(q), S) <=> Range(q) = S
  BY <1>1, <1>2 DEF Surjection, Range
<1> QED  BY <1>5, <1>6

\* What a module waits for, once one more module is sorted.
LEMMA OneFewer ==
    ASSUME deps \in [Ids -> Seq(Ids)], NEW id \in Ids, NEW S, NEW x, x \notin S
    PROVE  /\ Cardinality(Missing(id, S)) \in Nat
           /\ Cardinality(Missing(id, S)) = 0 <=> DepsOf(id) \subseteq S
           /\ Cardinality(Missing(id, S \cup {x})) =
                Cardinality(Missing(id, S)) - Occurrences(x, id)
           /\ Cardinality(Missing(id, S \cup {x})) \in Nat
           /\ Occurrences(x, id) \in Nat
<1> DEFINE I == DOMAIN deps[id]
           A == Missing(id, S)
           B == Missing(id, S \cup {x})
           C == {i \in I : deps[id][i] = x}
<1>1. IsFiniteSet(I)
  <2>1. I = 1..Len(deps[id]) /\ Len(deps[id]) \in Nat
    OBVIOUS
  <2> QED  BY <2>1, FS_Interval
<1>2. A \subseteq I /\ B \subseteq I /\ C \subseteq I
  BY DEF Missing
<1>3. IsFiniteSet(A) /\ IsFiniteSet(B) /\ IsFiniteSet(C)
  BY <1>1, <1>2, FS_Subset
<1>4. A = B \cup C /\ B \cap C = {}
  BY DEF Missing
<1>5. Cardinality(A) \in Nat /\ Cardinality(B) \in Nat /\ Cardinality(C) \in Nat
  BY <1>3, FS_CardinalityType
<1>6. Cardinality(A) = Cardinality(B) + Cardinality(C)
  <2>1. Cardinality(B \cup C) = Cardinality(B) + Cardinality(C) - Cardinality(B \cap C)
    BY <1>3, FS_Union
  <2> HIDE DEF A, B, C
  <2>2. Cardinality(B \cap C) = 0 /\ Cardinality(A) = Cardinality(B \cup C)
    BY <1>4, FS_EmptySet, Zenon
  <2> QED  BY <1>5, <2>1, <2>2
<1>7. Cardinality(A) = 0 <=> A = {}
  BY <1>3, FS_EmptySet
<1>8. A = {} <=> DepsOf(id) \subseteq S
  <2>1. A = {} <=> \A i \in I : deps[id][i] \in S
    <3>1. \A i : i \in A <=> i \in I /\ deps[id][i] \notin S
      BY DEF Missing
    <3> HIDE DEF A, I
    <3> QED  BY <3>1
  <2>2. DepsOf(id) \subseteq S <=> \A i \in I : deps[id][i] \in S
    BY DEF DepsOf, Range
  <2> QED  BY <2>1, <2>2
<1>9. Cardinality(B) = Cardinality(A) - Cardinality(C)
  <2> HIDE DEF A, B, C
  <2> QED  BY <1>5, <1>6
<1> QED  BY <1>5, <1>7, <1>8, <1>9 DEF Occurrences

-----------------------------------------------------------------------
(* The module graph.                                                     *)

LEMMA DepsAreIds ==
    ASSUME GraphTypes
    PROVE  \A id \in Ids : DepsOf(id) \subseteq Ids
<1> SUFFICES ASSUME NEW id \in Ids PROVE DepsOf(id) \subseteq Ids
  OBVIOUS
<1>1. deps[id] \in Seq(Ids)
  BY DEF GraphTypes
<1> QED  BY <1>1, InRange DEF DepsOf

LEMMA GraphStart == ASSUME GraphInit PROVE GraphInv
<1>1. GraphTypes
  BY DEF GraphInit, GraphTypes, Stages
<1>2. Range(order) = {} /\ Range(queue) = {} /\ DOMAIN order = {} /\ DOMAIN layers = {}
  BY DEF GraphInit, Range
<1>3. SortInv
  BY <1>2 DEF GraphInit, SortInv, Waiting, Sorted, SortStages, Distinct, Counted
<1>4. PlanInv /\ LayerInv
  BY <1>2 DEF GraphInit, PlanInv, LayerInv, Planned
<1> QED  BY <1>1, <1>3, <1>4 DEF GraphInv

\* What the manifest declares, with the standard library or the prelude.
LEMMA Manifest ==
    ASSUME NEW manifest \in Manifests
    PROVE  /\ DOMAIN manifest \in SUBSET Ids /\ Added(manifest) \in SUBSET Ids
           /\ \A id \in DOMAIN manifest : manifest[id] \in Seq(Ids) /\ WithStd(manifest, id) \in Seq(Ids)
           /\ \A id \in Added(manifest) : StdManifest[id] \in Seq(Ids)
<1>1. \A m \in (Manifests \cup {StdManifest}) :
        DOMAIN m \subseteq Ids /\ \A id \in DOMAIN m : m[id] \in Seq(Ids)
  BY ModuleGraphAssumption
<1>2. DOMAIN manifest \subseteq Ids /\ \A id \in DOMAIN manifest : manifest[id] \in Seq(Ids)
  BY <1>1
<1>3. DOMAIN StdManifest \subseteq Ids /\ \A id \in DOMAIN StdManifest : StdManifest[id] \in Seq(Ids)
  BY <1>1
<1>4. Added(manifest) \subseteq DOMAIN StdManifest
  BY DEF Added
<1>5. ASSUME NEW id \in DOMAIN manifest PROVE WithStd(manifest, id) \in Seq(Ids)
  <2> DEFINE more == Added(manifest) \ Range(manifest[id])
  <2>1. more \in SUBSET Ids
    BY <1>3, <1>4
  <2>2. SetToSeq(more) \in Seq(more)
    BY <2>1, Finite, OneOrder
  <2>3. SetToSeq(more) \in Seq(Ids)
    <3> HIDE DEF more
    <3> QED  BY <2>1, <2>2
  <2>4. manifest[id] \o SetToSeq(more) \in Seq(Ids)
    <3> HIDE DEF more
    <3> QED  BY <1>2, <2>3
  <2> QED  BY <1>2, <2>4 DEF WithStd
<1> QED  BY <1>2, <1>3, <1>4, <1>5

LEMMA Loaded ==
    ASSUME GraphInv, stage = "load", stage' = "sort",
           nodes' \in SUBSET Ids, deps' \in [Ids -> Seq(Ids)],
           UNCHANGED <<indegree, queue, order, plan, layers, visited>>
    PROVE  GraphInv'
<1>1. order = <<>> /\ queue = <<>> /\ layers = <<>>
  BY DEF GraphInv, SortInv, SortStages, LayerInv, Planned
<1>2. Range(order) = {} /\ Range(queue) = {} /\ DOMAIN order = {} /\ DOMAIN layers = {}
  BY <1>1 DEF Range
<1>3. plan = {} /\ visited = {}
  BY DEF GraphInv, PlanInv, LayerInv, Planned
<1>4. GraphTypes'
  BY DEF GraphInv, GraphTypes, Stages
<1>5. SortInv'
  <2>1. Range(order') = {} /\ Range(queue') = {} /\ DOMAIN order' = {} /\ DOMAIN queue' = {}
    BY <1>1, <1>2
  <2>2. ~ Counted'
    BY <1>1 DEF Counted
  <2>3. Waiting'
    BY <2>1, <2>2 DEF Waiting, Distinct
  <2>4. Sorted' /\ SortStages'
    BY <1>1, <2>1 DEF Sorted, SortStages
  <2> QED  BY <2>3, <2>4 DEF SortInv
<1>6. PlanInv' /\ LayerInv'
  BY <1>1, <1>2, <1>3 DEF PlanInv, LayerInv, Planned
<1> QED  BY <1>4, <1>5, <1>6 DEF GraphInv

LEMMA LoadWithStdKeeps == ASSUME GraphInv, LoadWithStd PROVE GraphInv'
<1>1. PICK manifest \in Manifests :
        /\ nodes' = DOMAIN manifest \cup Added(manifest)
        /\ deps' = [id \in Ids |-> IF id \in DOMAIN manifest THEN WithStd(manifest, id)
                                   ELSE IF id \in Added(manifest) THEN StdManifest[id]
                                   ELSE <<>>]
  BY DEF LoadWithStd
<1>2. nodes' \in SUBSET Ids
  BY <1>1, Manifest
<1>3. deps' \in [Ids -> Seq(Ids)]
  <2>1. ASSUME NEW id \in Ids
        PROVE  (IF id \in DOMAIN manifest THEN WithStd(manifest, id)
                ELSE IF id \in Added(manifest) THEN StdManifest[id] ELSE <<>>) \in Seq(Ids)
    <3>1. <<>> \in Seq(Ids)
      OBVIOUS
    <3> QED  BY <3>1, Manifest
  <2> QED  BY <1>1, <2>1
<1> QED  BY <1>2, <1>3, Loaded DEF LoadWithStd

LEMMA LoadWithPreludeKeeps == ASSUME GraphInv, LoadWithPrelude PROVE GraphInv'
<1>1. PICK manifest \in Manifests :
        /\ nodes' = DOMAIN manifest \cup {PreludeId}
        /\ deps' = [id \in Ids |-> IF id \in DOMAIN manifest THEN manifest[id] ELSE <<>>]
  BY DEF LoadWithPrelude
<1>2. nodes' \in SUBSET Ids
  BY <1>1, Manifest, ModuleGraphAssumption
<1>3. deps' \in [Ids -> Seq(Ids)]
  <2>1. ASSUME NEW id \in Ids
        PROVE  (IF id \in DOMAIN manifest THEN manifest[id] ELSE <<>>) \in Seq(Ids)
    <3>1. <<>> \in Seq(Ids)
      OBVIOUS
    <3> QED  BY <3>1, Manifest
  <2> QED  BY <1>1, <2>1
<1> QED  BY <1>2, <1>3, Loaded DEF LoadWithPrelude

LEMMA MissingDependencyKeeps == ASSUME GraphInv, MissingDependency PROVE GraphInv'
<1>1. /\ stage = "sort" /\ stage' = "missing" /\ order = <<>> /\ queue = <<>>
      /\ UNCHANGED <<nodes, deps, indegree, queue, order, plan, layers, visited>>
  BY DEF MissingDependency
<1>2. GraphTypes'
  BY <1>1 DEF GraphInv, GraphTypes, Stages
<1>3. SortInv'
  <2>1. ~ Counted /\ ~ Counted'
    BY <1>1 DEF Counted
  <2>2. Waiting'
    BY <1>1, <2>1 DEF GraphInv, SortInv, Waiting, Distinct
  <2>3. Sorted' /\ SortStages'
    BY <1>1 DEF GraphInv, SortInv, Sorted, SortStages, DepsOf
  <2> QED  BY <2>2, <2>3 DEF SortInv
<1>4. PlanInv' /\ LayerInv'
  BY <1>1 DEF GraphInv, PlanInv, LayerInv, Planned, DepsOf
<1> QED  BY <1>2, <1>3, <1>4 DEF GraphInv

\* What is planned and cut into layers does not change before it is.
LEMMA NothingPlanned ==
    ASSUME GraphInv, stage = "sort", stage' \in {"sort", "plan", "cycle"},
           UNCHANGED <<nodes, deps, plan, layers, visited>>
    PROVE  PlanInv' /\ LayerInv'
BY DEF GraphInv, PlanInv, LayerInv, Planned, DepsOf

LEMMA CountDependenciesKeeps == ASSUME GraphInv, CountDependencies PROVE GraphInv'
<1>1. /\ stage = "sort" /\ order = <<>> /\ queue = <<>>
      /\ \A id \in nodes : DepsOf(id) \subseteq nodes
      /\ indegree' = [id \in Ids |-> IF id \in nodes THEN WaitsFor(id) ELSE 0]
      /\ queue' \in SetToSeqs({id \in nodes : indegree'[id] = 0})
      /\ stage' = SortStage(queue', order)
      /\ UNCHANGED <<nodes, deps, order, plan, layers, visited>>
  BY DEF CountDependencies
<1>2. stage' \in {"sort", "plan", "cycle"} /\ (stage' = "sort" <=> queue' # <<>>)
  BY <1>1 DEF SortStage
<1>3. /\ nodes \in SUBSET Ids
      /\ \A id \in Ids : Len(deps[id]) \in Nat /\ DOMAIN deps[id] = 1..Len(deps[id])
  BY DEF GraphInv, GraphTypes
<1>4. /\ indegree' \in [Ids -> Int]
      /\ \A id \in nodes : indegree'[id] = Len(deps[id])
  BY <1>1, <1>3 DEF WaitsFor
<1>5. PICK free \in SUBSET nodes : /\ \A id \in nodes : id \in free <=> indegree'[id] = 0
                                   /\ queue' \in SetToSeqs(free)
  <2>1. {id \in nodes : indegree'[id] = 0} \in SUBSET nodes
    OBVIOUS
  <2> QED  BY <1>1, <2>1
<1>6. queue' \in Seq(free) /\ Distinct(queue') /\ Range(queue') = free
  BY <1>3, <1>5, Finite, AnyOrder
<1>7. queue' \in Seq(Ids)
  BY <1>3, <1>5, <1>6
<1>8. GraphTypes'
  BY <1>1, <1>2, <1>4, <1>7 DEF GraphInv, GraphTypes, Stages
<1>9. order' = <<>> /\ Range(order') = {} /\ DOMAIN order' = {} /\ Len(order') = 0
  BY <1>1 DEF Range
<1>10. Waiting'
  <2>1. \A id \in nodes : DepsOf(id)' = DepsOf(id)
    BY <1>1 DEF DepsOf
  <2>2. ASSUME NEW id \in nodes PROVE indegree'[id] = Cardinality(Missing(id, Range(order)))'
    <3>1. Missing(id, Range(order))' = 1..Len(deps[id])
      BY <1>1, <1>3, <1>9 DEF Missing
    <3>2. Cardinality(1..Len(deps[id])) = Len(deps[id])
      BY <1>3, FS_Interval
    <3> QED  BY <1>4, <3>1, <3>2
  <2> QED  BY <1>1, <1>5, <1>6, <1>9, <2>1, <2>2 DEF Waiting, Distinct
<1>11. Sorted'
  BY <1>9 DEF Sorted
<1>12. SortStages'
  BY <1>1, <1>2 DEF SortStages, SortStage
<1>13. PlanInv' /\ LayerInv'
  BY <1>1, <1>2, NothingPlanned
<1> QED  BY <1>8, <1>10, <1>11, <1>12, <1>13 DEF GraphInv, SortInv

LEMMA SortNextKeeps == ASSUME GraphInv, SortNext PROVE GraphInv'
<1> DEFINE head == Head(queue)
<1>1. /\ stage = "sort" /\ queue # <<>>
      /\ order' = Append(order, head)
      /\ indegree' = [id \in Ids |-> Remaining(id)]
      /\ stage' = SortStage(queue', order')
      /\ UNCHANGED <<nodes, deps, plan, layers, visited>>
  BY DEF SortNext
<1>2. stage' \in {"sort", "plan", "cycle"} /\ (stage' = "sort" <=> queue' # <<>>)
  BY <1>1 DEF SortStage
<1>3. GraphTypes /\ Waiting /\ Sorted /\ Counted
  BY <1>1 DEF GraphInv, SortInv, Counted
<1>4. order \in Seq(Ids) /\ queue \in Seq(Ids) /\ nodes \in SUBSET Ids /\ deps \in [Ids -> Seq(Ids)]
  BY <1>3 DEF GraphTypes
<1>5. /\ Distinct(order) /\ Distinct(queue) /\ Range(order) \cap Range(queue) = {}
      /\ Range(order) \subseteq nodes /\ Range(queue) \subseteq nodes
  BY <1>3 DEF Waiting
<1>6. /\ head \in Range(queue) /\ Tail(queue) \in Seq(Ids) /\ Distinct(Tail(queue))
      /\ Range(Tail(queue)) = Range(queue) \ {head}
      /\ order' \in Seq(Ids) /\ Distinct(order') /\ Range(order') = Range(order) \cup {head}
  <2>1. /\ head \in Range(queue) /\ Tail(queue) \in Seq(Ids) /\ Distinct(Tail(queue))
        /\ Range(Tail(queue)) = Range(queue) \ {head}
    BY <1>1, <1>4, <1>5, TailDistinct
  <2>2. head \in Ids /\ head \notin Range(order)
    BY <1>4, <1>5, <2>1
  <2>3. /\ Append(order, head) \in Seq(Ids) /\ Distinct(Append(order, head))
        /\ Range(Append(order, head)) = Range(order) \cup {head}
    <3> HIDE DEF head
    <3> QED  BY <1>4, <1>5, <2>2, AppendDistinct
  <2> QED  BY <1>1, <2>1, <2>3
<1>7. PICK list : /\ list \in SetToSeqs({id \in nodes : indegree[id] > 0 /\ Remaining(id) = 0})
                  /\ queue' = Tail(queue) \o list
  BY DEF SortNext
<1>8. PICK ready \in SUBSET nodes :
        /\ \A id \in nodes : id \in ready <=> indegree[id] > 0 /\ Remaining(id) = 0
        /\ list \in SetToSeqs(ready)
  <2>1. {id \in nodes : indegree[id] > 0 /\ Remaining(id) = 0} \in SUBSET nodes
    OBVIOUS
  <2> QED  BY <1>7, <2>1
<1>9. list \in Seq(ready) /\ Distinct(list) /\ Range(list) = ready
  BY <1>4, <1>8, Finite, AnyOrder
<1>10. list \in Seq(Ids)
  BY <1>4, <1>8, <1>9
<1> HIDE DEF head
<1>11. \A id \in nodes : /\ indegree[id] = Cardinality(Missing(id, Range(order)))
                         /\ indegree[id] = 0 <=> id \in Range(order) \cup Range(queue)
                         /\ DepsOf(id) \subseteq nodes
  BY <1>3 DEF Waiting
<1>12. head \notin Range(order) /\ head \in nodes
  BY <1>5, <1>6
<1>13. \A id \in nodes :
        /\ indegree[id] \in Nat /\ Remaining(id) \in Nat
        /\ Remaining(id) = Cardinality(Missing(id, Range(order) \cup {head}))
        /\ indegree[id] = 0 => DepsOf(id) \subseteq Range(order) /\ Remaining(id) = 0
  <2> SUFFICES ASSUME NEW id \in nodes
               PROVE  /\ indegree[id] \in Nat /\ Remaining(id) \in Nat
                      /\ Remaining(id) = Cardinality(Missing(id, Range(order) \cup {head}))
                      /\ indegree[id] = 0 => DepsOf(id) \subseteq Range(order) /\ Remaining(id) = 0
    OBVIOUS
  <2>1. /\ Cardinality(Missing(id, Range(order))) \in Nat
        /\ Cardinality(Missing(id, Range(order))) = 0 <=> DepsOf(id) \subseteq Range(order)
        /\ Cardinality(Missing(id, Range(order) \cup {head})) =
             Cardinality(Missing(id, Range(order))) - Occurrences(head, id)
        /\ Cardinality(Missing(id, Range(order) \cup {head})) \in Nat
        /\ Occurrences(head, id) \in Nat
    BY <1>4, <1>12, OneFewer
  <2>2. Remaining(id) = Cardinality(Missing(id, Range(order) \cup {head}))
    BY <1>11, <2>1 DEF Remaining, head
  <2> QED  BY <1>11, <2>1, <2>2
<1>14. ready \cap (Range(order) \cup Range(queue)) = {}
  BY <1>8, <1>11
<1>15. /\ queue' \in Seq(Ids) /\ Distinct(queue')
       /\ Range(queue') = (Range(queue) \ {head}) \cup ready
  <2>1. Range(Tail(queue)) \cap Range(list) = {}
    BY <1>6, <1>9, <1>14
  <2>2. /\ Tail(queue) \o list \in Seq(Ids) /\ Distinct(Tail(queue) \o list)
        /\ Range(Tail(queue) \o list) = Range(Tail(queue)) \cup Range(list)
    <3> DEFINE rest == Tail(queue)
    <3>1. rest \in Seq(Ids) /\ Distinct(rest) /\ Range(rest) \cap Range(list) = {}
      BY <1>6, <2>1
    <3> HIDE DEF rest
    <3>2. rest \o list \in Seq(Ids) /\ Distinct(rest \o list) /\ Range(rest \o list) = Range(rest) \cup Range(list)
      BY <1>9, <1>10, <3>1, ConcatDistinct
    <3> QED  BY <3>2 DEF rest
  <2> QED  BY <1>6, <1>7, <1>9, <2>2
<1>16. indegree' \in [Ids -> Int] /\ \A id \in Ids : indegree'[id] = Remaining(id)
  <2>1. ASSUME NEW id \in Ids PROVE Remaining(id) \in Int
    <3>2. Occurrences(Head(queue), id) \in Nat
      BY <1>4, <1>12, OneFewer DEF head
    <3>3. indegree[id] \in Int
      BY <1>3 DEF GraphTypes
    <3> QED  BY <3>2, <3>3 DEF Remaining
  <2> QED  BY <1>1, <2>1
<1>17. GraphTypes'
  BY <1>1, <1>2, <1>3, <1>6, <1>15, <1>16 DEF GraphTypes, Stages
<1>18. Waiting'
  <2>1. /\ Range(order') \subseteq nodes' /\ Range(queue') \subseteq nodes'
        /\ Range(order') \cap Range(queue') = {}
    BY <1>1, <1>5, <1>6, <1>8, <1>12, <1>14, <1>15
  <2>2. ASSUME NEW id \in nodes
        PROVE  /\ DepsOf(id)' \subseteq nodes'
               /\ indegree'[id] = Cardinality(Missing(id, Range(order)))'
               /\ indegree'[id] = 0 <=> id \in Range(order') \cup Range(queue')
    <3>1. DepsOf(id)' = DepsOf(id) /\ nodes' = nodes
      BY <1>1 DEF DepsOf
    <3>2. Missing(id, Range(order))' = Missing(id, Range(order) \cup {head})
      BY <1>1, <1>6 DEF Missing
    <3>3. indegree'[id] = Cardinality(Missing(id, Range(order)))'
      BY <1>4, <1>13, <1>16, <3>2
    <3>4. indegree'[id] = Remaining(id)
      BY <1>4, <1>16
    <3>5. Remaining(id) = 0 <=> id \in Range(order) \cup Range(queue) \cup ready
      BY <1>8, <1>11, <1>13
    <3>6. Range(order') \cup Range(queue') = Range(order) \cup Range(queue) \cup ready
      BY <1>6, <1>15
    <3> QED  BY <1>11, <3>1, <3>3, <3>4, <3>5, <3>6
  <2> QED  BY <1>1, <1>6, <1>15, <2>1, <2>2 DEF Waiting
<1>19. Sorted'
  <2>1. /\ DOMAIN order = 1..Len(order) /\ Len(order) \in Nat
        /\ DOMAIN order' = 1..(Len(order) + 1)
        /\ \A k \in 1..Len(order) : order'[k] = order[k]
        /\ order'[Len(order) + 1] = head
    BY <1>1, <1>4 DEF head
  <2>2. ASSUME NEW k \in DOMAIN order', NEW dep \in DepsOf(order'[k])
        PROVE  \E j \in DOMAIN order' : j < k /\ order'[j] = dep
    <3>1. CASE k \in 1..Len(order)
      <4>1. PICK j \in DOMAIN order : j < k /\ order[j] = dep
        BY <1>3, <2>1, <2>2, <3>1 DEF Sorted
      <4> QED  BY <2>1, <4>1
    <3>2. CASE k = Len(order) + 1
      <4>1. dep \in Range(order)
        BY <1>6, <1>11, <1>12, <1>13, <2>1, <2>2, <3>2
      <4>2. PICK j \in 1..Len(order) : order[j] = dep
        BY <1>4, <4>1, InRange
      <4> QED  BY <2>1, <3>2, <4>2
    <3> QED  BY <2>1, <3>1, <3>2
  <2>3. \A id : DepsOf(id)' = DepsOf(id)
    BY <1>1 DEF DepsOf
  <2> QED  BY <2>2, <2>3 DEF Sorted
<1>20. SortStages'
  BY <1>1, <1>2 DEF SortStages, SortStage
<1>21. PlanInv' /\ LayerInv'
  BY <1>1, <1>2, NothingPlanned
<1> QED  BY <1>17, <1>18, <1>19, <1>20, <1>21 DEF GraphInv, SortInv

\* Steps that leave the sorted graph as it is.
LEMMA StaysSorted ==
    ASSUME GraphInv, UNCHANGED <<nodes, deps, indegree, queue, order>>,
           stage \notin {"load", "sort", "missing", "cycle"},
           stage' \notin {"load", "sort", "missing", "cycle"}
    PROVE  SortInv'
<1>1. Waiting /\ Sorted /\ SortStages /\ Counted
  BY DEF GraphInv, SortInv, Counted
<1>2. \A id, S : DepsOf(id)' = DepsOf(id) /\ Missing(id, S)' = Missing(id, S)
  BY DEF DepsOf, Missing
<1>3. Waiting'
  <2>1. \A id \in nodes : Missing(id, Range(order))' = Missing(id, Range(order))
    BY DEF Missing
  <2> QED  BY <1>1, <1>2, <2>1 DEF Waiting
<1>4. Sorted'
  BY <1>1, <1>2 DEF Sorted
<1>5. SortStages'
  BY <1>1 DEF SortStages
<1> QED  BY <1>3, <1>4, <1>5 DEF SortInv

\* A graph that is sorted as a whole.
LEMMA AllSorted ==
    ASSUME GraphInv, stage \notin {"load", "sort", "missing", "cycle"}
    PROVE  /\ nodes \in SUBSET Ids /\ order \in Seq(Ids) /\ Distinct(order)
           /\ Len(order) = Cardinality(nodes) /\ Range(order) = nodes
           /\ \A id \in nodes : DepsOf(id) \subseteq nodes
           /\ Sorted
<1>1. GraphTypes /\ Waiting /\ Sorted /\ SortStages /\ Counted
  BY DEF GraphInv, SortInv, Counted
<1>2. /\ nodes \in SUBSET Ids /\ order \in Seq(Ids) /\ Distinct(order) /\ Range(order) \subseteq nodes
      /\ Len(order) = Cardinality(nodes) /\ \A id \in nodes : DepsOf(id) \subseteq nodes
  BY <1>1 DEF GraphTypes, Waiting, SortStages
<1>3. Range(order) = nodes
  BY <1>2, LongEnough
<1> QED  BY <1>1, <1>2, <1>3

LEMMA PlanForEntryKeeps == ASSUME GraphInv, PlanForEntry PROVE GraphInv'
<1>1. /\ stage = "plan" /\ UNCHANGED <<nodes, deps, indegree, queue, order, layers, visited>>
      /\ \/ Entry \in nodes /\ plan' = Range(order) \cap Reachable /\ stage' = "layers"
         \/ stage' = "noEntry" /\ plan' = plan
  BY DEF PlanForEntry
<1>2. /\ nodes \in SUBSET Ids /\ Range(order) = nodes /\ \A id \in nodes : DepsOf(id) \subseteq nodes
  BY <1>1, AllSorted
<1>3. SortInv'
  BY <1>1, StaysSorted
<1>4. plan = {} /\ layers = <<>> /\ visited = {}
  BY <1>1 DEF GraphInv, PlanInv, LayerInv, Planned
<1>5. plan' \subseteq nodes
  BY <1>1, <1>2, <1>4
<1>6. GraphTypes'
  BY <1>1, <1>2, <1>5 DEF GraphInv, GraphTypes, Stages
<1>7. PlanInv'
  <2>1. ASSUME Entry \in nodes, plan' = Range(order) \cap Reachable
        PROVE  Entry \in plan' /\ \A id \in plan' : DepsOf(id) \subseteq plan'
    <3>1. Entry \in Reachable
      BY ModuleGraphAssumption DEF Reachable
    <3>2. ASSUME NEW id \in Reachable, NEW dep \in DepsOf(id), dep \in Ids PROVE dep \in Reachable
      BY <3>2 DEF Reachable, Closed
    <3> QED  BY <1>2, <2>1, <3>1, <3>2
  <2>2. \A id : DepsOf(id)' = DepsOf(id)
    BY <1>1 DEF DepsOf
  <2>3. CASE stage' = "layers"
    BY <1>1, <1>5, <2>1, <2>2, <2>3 DEF PlanInv, Planned, Closed
  <2>4. CASE stage' = "noEntry"
    BY <1>1, <1>4, <2>4 DEF PlanInv, Planned
  <2> QED  BY <1>1, <2>3, <2>4
<1>8. LayerInv'
  BY <1>1, <1>4 DEF LayerInv, Planned
<1> QED  BY <1>3, <1>6, <1>7, <1>8 DEF GraphInv

\* Of any modules, the one that is sorted first depends on none of them.
LEMMA FirstSorted ==
    ASSUME GraphInv, stage \notin {"load", "sort", "missing", "cycle"},
           NEW S \in SUBSET nodes, S # {}
    PROVE  \E id \in S : DepsOf(id) \cap S = {}
<1>1. order \in Seq(Ids) /\ Range(order) = nodes /\ Sorted
  BY AllSorted
<1> DEFINE K == {k \in 1..Len(order) : order[k] \in S}
<1>2. K # {} /\ K \subseteq Nat
  <2>1. PICK id \in S : TRUE
    OBVIOUS
  <2>2. PICK k \in 1..Len(order) : order[k] = id
    BY <1>1, <2>1, InRange
  <2> QED  BY <2>1, <2>2
<1>3. PICK k \in K : \A j \in K : k <= j
  <2> HIDE DEF K
  <2> QED  BY <1>2, MinIsLeast
<1>4. ASSUME NEW dep \in DepsOf(order[k]) PROVE dep \notin S
  <2>1. PICK j \in DOMAIN order : j < k /\ order[j] = dep
    BY <1>1, <1>3, <1>4 DEF Sorted
  <2>2. j \in 1..Len(order) /\ j \in Nat /\ k \in Nat
    BY <1>1, <1>3, <2>1
  <2>3. j \notin K
    BY <1>3, <2>1, <2>2
  <2> QED  BY <2>1, <2>2, <2>3
<1> QED  BY <1>3, <1>4

\* The round of schedule_layers that finds no module to compile never comes.
LEMMA SomeReady ==
    ASSUME GraphInv, stage = "layers", Remainder # {}
    PROVE  \E id \in Remainder : Satisfied(id)
<1>1. Remainder \in SUBSET nodes
  BY DEF GraphInv, PlanInv, Remainder
<1>2. PICK id \in Remainder : DepsOf(id) \cap Remainder = {}
  BY <1>1, FirstSorted
<1> QED  BY <1>2 DEF Satisfied, Remainder

LEMMA NextLayerKeeps == ASSUME GraphInv, NextLayer PROVE GraphInv'
<1>1. /\ stage = "layers" /\ Remainder # {}
      /\ UNCHANGED <<stage, nodes, deps, indegree, queue, order, plan>>
  BY DEF NextLayer
<1>2. PICK ready \in SUBSET Remainder :
        /\ \A id \in Remainder : id \in ready <=> Satisfied(id)
        /\ layers' = Append(layers, ready) /\ visited' = visited \cup ready
  <2> DEFINE R == {id \in Remainder : Satisfied(id)}
  <2>1. R # {}
    BY <1>1, SomeReady
  <2>2. layers' = Append(layers, R) /\ visited' = visited \cup R
    BY <2>1 DEF NextLayer
  <2>3. R \in SUBSET Remainder /\ \A id \in Remainder : id \in R <=> Satisfied(id)
    OBVIOUS
  <2> HIDE DEF R
  <2> QED  BY <2>2, <2>3
<1>3. GraphTypes /\ PlanInv /\ LayerInv
  BY DEF GraphInv
<1>4. /\ plan \in SUBSET Ids /\ visited \in SUBSET Ids /\ layers \in Seq(SUBSET Ids)
      /\ Closed(plan) /\ Planned /\ Planned'
  BY <1>1, <1>3 DEF GraphTypes, PlanInv, Planned
<1>5. ready \subseteq plan /\ ready \cap visited = {}
  BY <1>2 DEF Remainder
<1>6. /\ layers' \in Seq(SUBSET Ids) /\ DOMAIN layers = 1..Len(layers) /\ Len(layers) \in Nat
      /\ DOMAIN layers' = 1..(Len(layers) + 1)
      /\ \A l \in 1..Len(layers) : layers'[l] = layers[l]
      /\ layers'[Len(layers) + 1] = ready
  BY <1>2, <1>4, <1>5
<1>7. GraphTypes'
  BY <1>1, <1>2, <1>3, <1>4, <1>5, <1>6 DEF GraphTypes
<1>8. SortInv'
  BY <1>1, StaysSorted
<1>9. PlanInv'
  BY <1>1, <1>3 DEF PlanInv, Planned, Closed, DepsOf
<1>10. LayerInv'
  <2>1. /\ \A id \in Ids : id \in visited <=> \E l \in DOMAIN layers : id \in layers[l]
        /\ visited \subseteq plan
    BY <1>3 DEF LayerInv
  <2>2. \A id \in Ids : id \in visited' <=> \E l \in DOMAIN layers' : id \in layers'[l]
    <3> SUFFICES ASSUME NEW id \in Ids
                 PROVE  id \in visited' <=> \E l \in DOMAIN layers' : id \in layers'[l]
      OBVIOUS
    <3>1. CASE id \in ready
      BY <1>2, <1>6, <3>1
    <3>2. CASE id \notin ready
      <4>1. id \in visited' <=> id \in visited
        BY <1>2, <3>2
      <4>2. (\E l \in DOMAIN layers' : id \in layers'[l]) <=> (\E l \in DOMAIN layers : id \in layers[l])
        BY <1>6, <3>2
      <4> QED  BY <2>1, <4>1, <4>2
    <3> QED  BY <3>1, <3>2
  <2>3. visited' \subseteq plan'
    BY <1>1, <1>2, <1>5, <2>1
  <2>4. ASSUME NEW l \in DOMAIN layers', NEW id \in layers'[l]
        PROVE  /\ \A dep \in DepsOf(id) : \E k \in DOMAIN layers' : k < l /\ dep \in layers'[k]
               /\ \A k \in DOMAIN layers' : id \in layers'[k] => k = l
    <3>1. CASE l \in 1..Len(layers)
      <4>1. /\ \A dep \in DepsOf(id) : \E k \in DOMAIN layers : k < l /\ dep \in layers[k]
            /\ \A k \in DOMAIN layers : id \in layers[k] => k = l
        BY <1>3, <1>6, <2>4, <3>1 DEF LayerInv
      <4>2. id \notin ready
        <5>1. layers[l] \in SUBSET Ids
          BY <1>4, <3>1
        <5>2. id \in visited
          BY <1>6, <2>1, <2>4, <3>1, <5>1
        <5> QED  BY <1>5, <5>2
      <4> QED  BY <1>6, <4>1, <4>2
    <3>2. CASE l = Len(layers) + 1
      <4>1. id \in ready
        BY <1>6, <2>4, <3>2
      <4>2. ASSUME NEW dep \in DepsOf(id)
            PROVE  \E k \in DOMAIN layers' : k < l /\ dep \in layers'[k]
        <5>1. dep \in plan
          BY <1>4, <1>5, <4>1 DEF Closed
        <5>2. Satisfied(id)
          BY <1>2, <4>1
        <5>3. dep \in visited
          BY <5>1, <5>2 DEF Satisfied
        <5>4. PICK k \in DOMAIN layers : dep \in layers[k]
          BY <1>4, <2>1, <5>3
        <5>5. k \in DOMAIN layers' /\ k < l /\ dep \in layers'[k]
          BY <1>6, <3>2, <5>4
        <5> QED  BY <5>5
      <4>3. \A k \in 1..Len(layers) : id \notin layers[k]
        BY <1>4, <1>5, <1>6, <2>1, <4>1
      <4>4. \A k \in DOMAIN layers' : id \in layers'[k] => k = l
        BY <1>6, <3>2, <4>3
      <4> QED  BY <4>2, <4>4
    <3> QED  BY <1>6, <3>1, <3>2
  <2>5. \A id : DepsOf(id)' = DepsOf(id)
    BY <1>1 DEF DepsOf
  <2>6. stage' = "layers"
    BY <1>1
  <2> QED  BY <1>4, <2>2, <2>3, <2>4, <2>5, <2>6 DEF LayerInv
<1> QED  BY <1>7, <1>8, <1>9, <1>10 DEF GraphInv

\* The stages after the layers: the graph stays, and all of it is in layers.
LEMMA StaysPlanned ==
    ASSUME GraphInv, UNCHANGED <<nodes, deps, indegree, queue, order, plan, layers, visited>>,
           Planned, stage' \in {"layers", "compile", "done", "failed"},
           stage' # "layers" => visited = plan
    PROVE  GraphInv'
<1>1. SortInv'
  BY StaysSorted DEF Planned
<1>2. GraphTypes'
  BY DEF GraphInv, GraphTypes, Stages
<1>3. PlanInv' /\ LayerInv'
  BY DEF GraphInv, PlanInv, LayerInv, Planned, Closed, DepsOf
<1> QED  BY <1>1, <1>2, <1>3 DEF GraphInv

LEMMA LayersDoneKeeps == ASSUME GraphInv, LayersDone PROVE GraphInv'
<1>1. visited = plan
  BY DEF LayersDone, Remainder, GraphInv, LayerInv
<1> QED  BY <1>1, StaysPlanned DEF LayersDone, Planned

LEMMA GraphStep == ASSUME GraphInv, GraphNext PROVE GraphInv'
BY LoadWithStdKeeps, LoadWithPreludeKeeps, MissingDependencyKeeps, CountDependenciesKeeps,
   SortNextKeeps, PlanForEntryKeeps, NextLayerKeeps, LayersDoneKeeps DEF GraphNext

-----------------------------------------------------------------------
(* What the invariant of the graph says of the order and of the layers.  *)

LEMMA SortedExactly == ASSUME GraphInv PROVE SortExact
<1>1. ASSUME stage \in Stages \ {"load", "sort", "missing", "cycle"}
      PROVE  /\ Len(order) = Cardinality(nodes) /\ Range(order) = nodes
             /\ \A id \in nodes : \A dep \in DepsOf(id) : Place(dep) < Place(id)
  <2>1. /\ order \in Seq(Ids) /\ Distinct(order) /\ Len(order) = Cardinality(nodes)
        /\ Range(order) = nodes /\ \A id \in nodes : DepsOf(id) \subseteq nodes
        /\ Sorted
    BY <1>1, AllSorted
  <2>2. ASSUME NEW id \in nodes
        PROVE  Place(id) \in DOMAIN order /\ order[Place(id)] = id
    <3>1. \E k \in DOMAIN order : order[k] = id
      BY <2>1, InRange
    <3> QED  BY <3>1 DEF Place
  <2>3. ASSUME NEW id \in nodes, NEW dep \in DepsOf(id) PROVE Place(dep) < Place(id)
    <3>1. Place(id) \in DOMAIN order /\ order[Place(id)] = id
      BY <2>2
    <3>2. PICK j \in DOMAIN order : j < Place(id) /\ order[j] = dep
      BY <2>1, <2>3, <3>1 DEF Sorted
    <3>3. Place(dep) \in DOMAIN order /\ order[Place(dep)] = dep
      BY <2>1, <2>2, <2>3
    <3>4. Place(dep) = j
      BY <2>1, <3>2, <3>3 DEF Distinct
    <3> QED  BY <3>2, <3>4
  <2> QED  BY <2>1, <2>3
<1>2. ASSUME stage = "cycle" PROVE Cyclic
  <2>1. /\ GraphTypes /\ Waiting /\ Counted /\ queue = <<>> /\ Len(order) # Cardinality(nodes)
    BY <1>2 DEF GraphInv, SortInv, SortStages, Counted
  <2> DEFINE rest == nodes \ Range(order)
  <2>2. rest # {}
    <3>1. nodes \in SUBSET Ids /\ order \in Seq(Ids) /\ Distinct(order) /\ Range(order) \subseteq nodes
      BY <2>1 DEF GraphTypes, Waiting
    <3>2. Range(order) # nodes
      BY <2>1, <3>1, LongEnough
    <3> QED  BY <3>1, <3>2
  <2>3. ASSUME NEW id \in rest PROVE DepsOf(id) \cap rest # {}
    <3>1. Range(queue) = {}
      BY <2>1 DEF Range
    <3>2. /\ DepsOf(id) \subseteq nodes /\ indegree[id] = Cardinality(Missing(id, Range(order)))
          /\ indegree[id] # 0
      BY <2>1, <2>3, <3>1 DEF Waiting
    <3>3. id \in Ids /\ deps \in [Ids -> Seq(Ids)]
      BY <2>1, <2>3 DEF GraphTypes
    <3>4. ~ DepsOf(id) \subseteq Range(order)
      <4>1. PICK x : x \notin Range(order)
        BY <2>3
      <4> QED  BY <3>2, <3>3, <4>1, OneFewer
    <3> QED  BY <3>2, <3>4
  <2> HIDE DEF rest
  <2>4. rest \in (SUBSET nodes) \ {{}}
    BY <2>2 DEF rest
  <2> QED  BY <2>3, <2>4 DEF Cyclic
<1>3. ASSUME stage \in {"plan", "layers", "compile", "done"}, Cyclic PROVE FALSE
  <2>1. PICK S \in (SUBSET nodes) \ {{}} : \A id \in S : DepsOf(id) \cap S # {}
    BY <1>3 DEF Cyclic
  <2> QED  BY <1>3, <2>1, FirstSorted
<1> QED  BY <1>1, <1>2, <1>3 DEF SortExact

LEMMA LayersAreSound == ASSUME GraphInv PROVE LayersSound
<1> SUFFICES ASSUME stage \in {"compile", "done", "failed"}
             PROVE  /\ UNION Range(layers) = plan /\ Entry \in plan
                    /\ \A l \in DOMAIN layers : \A id \in layers[l] :
                        /\ DepsOf(id) \subseteq UNION {layers[k] : k \in 1 .. l - 1}
                        /\ \A k \in DOMAIN layers : id \in layers[k] => k = l
  BY DEF LayersSound
<1>1. GraphTypes /\ PlanInv /\ LayerInv /\ Planned
  BY DEF GraphInv, Planned
<1>2. /\ layers \in Seq(SUBSET Ids) /\ DOMAIN layers = 1..Len(layers) /\ Len(layers) \in Nat
      /\ visited = plan /\ visited \subseteq Ids /\ Entry \in plan
  BY <1>1 DEF GraphTypes, LayerInv, PlanInv
<1>3. UNION Range(layers) = plan
  <2>1. \A id : id \in UNION Range(layers) <=> \E l \in DOMAIN layers : id \in layers[l]
    BY DEF Range
  <2>2. \A l \in DOMAIN layers : layers[l] \subseteq Ids
    BY <1>2
  <2>3. \A id \in Ids : id \in visited <=> \E l \in DOMAIN layers : id \in layers[l]
    BY <1>1 DEF LayerInv
  <2> QED  BY <1>2, <2>1, <2>2, <2>3
<1>4. ASSUME NEW l \in DOMAIN layers, NEW id \in layers[l]
      PROVE  /\ DepsOf(id) \subseteq UNION {layers[k] : k \in 1 .. l - 1}
             /\ \A k \in DOMAIN layers : id \in layers[k] => k = l
  <2>1. /\ \A dep \in DepsOf(id) : \E k \in DOMAIN layers : k < l /\ dep \in layers[k]
        /\ \A k \in DOMAIN layers : id \in layers[k] => k = l
    BY <1>1, <1>4 DEF LayerInv
  <2>2. ASSUME NEW dep \in DepsOf(id) PROVE dep \in UNION {layers[k] : k \in 1 .. l - 1}
    <3>1. PICK k \in DOMAIN layers : k < l /\ dep \in layers[k]
      BY <2>1, <2>2
    <3>2. k \in 1 .. l - 1
      BY <1>2, <1>4, <3>1
    <3> QED  BY <3>1, <3>2
  <2> QED  BY <2>1, <2>2
<1> QED  BY <1>2, <1>3, <1>4

-----------------------------------------------------------------------
(* The build.                                                            *)

LEMMA InterfaceParts ==
    \A id : /\ Interface(id).exports = Range(units[id])
            /\ Interface(id).hash[3] = {interfaces[dep].hash : dep \in DepsOf(id) \cap Compiled}
BY DEF Interface

LEMMA BuildStart == ASSUME Init PROVE BuildInv
<1>1. Compiled = {} /\ DOMAIN layers = {} /\ stage = "load"
  BY DEF Init, GraphInit, Compiled
<1>2. BuildTypes
  <2>1. units \in [Ids -> Seq(Symbols)]
    <3>1. <<>> \in Seq(Symbols)
      OBVIOUS
    <3> QED  BY <3>1 DEF Init
  <2>2. edition \in [Ids -> [Sources -> Nat]]
    BY DEF Init
  <2> QED  BY <1>1, <2>1, <2>2 DEF Init, BuildTypes
<1>3. LayersInTurn /\ InterfacesTrue /\ ImportsTrue /\ ProgramTrue
  BY <1>1 DEF Init, LayersInTurn, InterfacesTrue, ImportsTrue, ProgramTrue
<1> QED  BY <1>2, <1>3 DEF BuildInv

\* The modules that are compiled side by side: none of them is compiled, and
\* all they depend on are.
LEMMA LayerIsNext ==
    ASSUME Inv, Layer # {}
    PROVE  /\ stage = "compile" /\ Layer \subseteq plan /\ Layer \subseteq Ids
           /\ Layer \cap Compiled = {}
           /\ \A id \in Layer : DepsOf(id) \subseteq Compiled
           /\ \E l \in DOMAIN layers : /\ layers[l] = Layer
                                       /\ \A k \in DOMAIN layers : k < l => layers[k] \subseteq Compiled
<1>1. stage = "compile" /\ Pending # {} /\ Layer = layers[Min(Pending)]
  BY DEF Layer
<1>2. GraphTypes /\ LayerInv /\ LayersInTurn /\ plan \subseteq Ids
  BY DEF Inv, GraphInv, BuildInv, GraphTypes
<1>3. layers \in Seq(SUBSET Ids) /\ DOMAIN layers = 1..Len(layers) /\ Len(layers) \in Nat
  BY <1>2 DEF GraphTypes
<1>4. Pending \subseteq Nat /\ Pending \subseteq DOMAIN layers
  BY <1>3 DEF Pending
<1>5. PICK l \in Pending : l = Min(Pending) /\ \A k \in Pending : l <= k
  BY <1>1, <1>4, MinIsLeast
<1>6. layers[l] = Layer /\ l \in DOMAIN layers /\ ~ layers[l] \subseteq Compiled
  BY <1>1, <1>4, <1>5 DEF Pending
<1>7. ASSUME NEW k \in DOMAIN layers, k < l PROVE layers[k] \subseteq Compiled
  <2>1. k \notin Pending
    BY <1>3, <1>4, <1>5, <1>7
  <2> QED  BY <1>7, <2>1 DEF Pending
<1>8. Layer \subseteq Ids
  BY <1>3, <1>6
<1>9. Layer \subseteq plan
  BY <1>2, <1>6, <1>8 DEF LayerInv
<1>10. Layer \cap Compiled = {}
  <2>1. l <= l
    BY <1>3, <1>6
  <2> QED  BY <1>2, <1>6, <2>1 DEF LayersInTurn
<1>11. ASSUME NEW id \in Layer, NEW dep \in DepsOf(id) PROVE dep \in Compiled
  <2>1. PICK k \in DOMAIN layers : k < l /\ dep \in layers[k]
    BY <1>2, <1>6, <1>11 DEF LayerInv
  <2> QED  BY <1>7, <2>1
<1> QED  BY <1>1, <1>6, <1>7, <1>8, <1>9, <1>10, <1>11

LEMMA BusyInLayer ==
    ASSUME Inv, NEW id \in Busy
    PROVE  /\ id \in Layer /\ id \in Ids /\ id \notin Compiled /\ stage = "compile"
           /\ DepsOf(id) \subseteq Compiled
<1>1. id \in Layer /\ Layer # {}
  BY DEF Busy
<1> QED  BY <1>1, LayerIsNext

\* The planning and the layers come before anything is compiled.
LEMMA GraphStepBuilds == ASSUME Inv, GraphInv', GraphNext, UNCHANGED buildVars PROVE BuildInv'
<1>1. stage \in {"load", "sort", "plan", "layers"} /\ stage' \notin {"done", "failed"}
  BY DEF GraphNext, LoadWithStd, LoadWithPrelude, MissingDependency, CountDependencies, SortNext,
         PlanForEntry, NextLayer, LayersDone, SortStage
<1>2. BuildTypes /\ LayersInTurn /\ UNCHANGED buildVars
  BY DEF Inv, BuildInv
<1>3. /\ Compiled = {} /\ imports = {} /\ \A id \in Ids : task[id] = "busy"
  BY <1>1, <1>2 DEF LayersInTurn
<1>4. Compiled' = {} /\ imports' = {} /\ \A id \in Ids : task'[id] = "busy"
  BY <1>2, <1>3 DEF buildVars, Compiled
<1>5. BuildTypes'
  BY <1>2 DEF BuildTypes, buildVars, Compiled
<1>6. LayersInTurn' /\ InterfacesTrue' /\ ImportsTrue' /\ ProgramTrue'
  BY <1>1, <1>4 DEF LayersInTurn, InterfacesTrue, ImportsTrue, ProgramTrue
<1> QED  BY <1>5, <1>6 DEF BuildInv

\* Where validate_module_imports looks a dependency up.
LEMMA FoundInBuild ==
    ASSUME Inv, NEW dep \in Compiled
    PROVE  /\ Found(dep).at = "build"
           /\ Found(dep).interface.exports = Range(units[dep])
<1>1. Found(dep).at = "build" /\ Found(dep).interface = interfaces[dep]
  BY DEF Found
<1>2. interfaces[dep] = Interface(dep)
  BY DEF Inv, BuildInv, InterfacesTrue
<1> QED  BY <1>1, <1>2, InterfaceParts

\* Steps of the tasks of a layer: no interface is entered.
LEMMA TaskStep ==
    ASSUME Inv, UNCHANGED <<graphVars, pipeline, sources, interfaces, program, main>>,
           stage = "compile",
           units' \in [Ids -> Seq(Symbols)], edition' \in [Ids -> [Sources -> Nat]],
           task' \in [Ids -> {"busy", "done", "failed"}],
           \A id \in Compiled : units'[id] = units[id],
           \A id \in Ids : task'[id] = "done" => Len(units'[id]) = sources[id],
           \A import \in imports' : \/ import \in imports
                                    \/ /\ import.at = "build" /\ import.of.module \in Compiled
                                       /\ import.of \in Range(units[import.of.module])
    PROVE  Inv'
<1>1. UNCHANGED graphVars
  OBVIOUS
<1>2. GraphInv'
  BY <1>1, StaysPlanned DEF Inv, GraphInv, LayerInv, Planned, graphVars
<1>3. BuildTypes /\ LayersInTurn /\ InterfacesTrue /\ ImportsTrue
  BY DEF Inv, BuildInv
<1>4. Compiled' = Compiled /\ interfaces' = interfaces /\ sources' = sources /\ stage' = "compile"
  BY <1>1 DEF Compiled, graphVars
<1>5. BuildTypes'
  BY <1>3, <1>4 DEF BuildTypes
<1>6. LayersInTurn'
  BY <1>1, <1>3, <1>4 DEF LayersInTurn, graphVars
<1>7. InterfacesTrue'
  <2>1. \A id : DepsOf(id)' = DepsOf(id)
    BY <1>1 DEF DepsOf, graphVars
  <2>2. \A id \in Compiled : Interface(id)' = Interface(id)
    BY <1>4, <2>1 DEF Interface
  <2> QED  BY <1>3, <1>4, <2>1, <2>2 DEF InterfacesTrue
<1>8. ImportsTrue'
  BY <1>3, <1>4 DEF ImportsTrue
<1>9. ProgramTrue'
  BY <1>4 DEF ProgramTrue
<1> QED  BY <1>2, <1>5, <1>6, <1>7, <1>8, <1>9 DEF Inv, BuildInv

LEMMA CompileSourceKeeps == ASSUME Inv, NEW id \in Ids, CompileSource(id) PROVE Inv'
<1>1. /\ id \in Busy /\ Len(units[id]) < sources[id]
      /\ units' = [units EXCEPT ![id] = Append(units[id], Unit(id))]
      /\ UNCHANGED <<graphVars, pipeline, sources, edition, task, interfaces, program, main>>
  BY DEF CompileSource
<1>2. /\ id \notin Compiled /\ stage = "compile" /\ DepsOf(id) \subseteq Compiled
  BY <1>1, BusyInLayer
<1>3. /\ units \in [Ids -> Seq(Symbols)] /\ edition \in [Ids -> [Sources -> Nat]]
      /\ task \in [Ids -> {"busy", "done", "failed"}] /\ Compiled \subseteq Ids
      /\ sources[id] \in Sources
      /\ \A other \in Ids : task[other] = "done" => Len(units[other]) = sources[other]
  BY DEF Inv, BuildInv, BuildTypes, InterfacesTrue
<1>4. Unit(id) \in Symbols
  <2>1. Len(units[id]) \in Nat /\ MaxSources \in Nat
    BY <1>3, BuildAssumption
  <2>2. Len(units[id]) + 1 \in Sources /\ Len(units[id]) + 1 \in Nat
    BY <1>1, <1>3, <2>1 DEF Sources
  <2>3. edition[id][Len(units[id]) + 1] \in Nat
    BY <1>3, <2>2
  <2> QED  BY <2>2, <2>3 DEF Unit, Symbol, Symbols
<1>5. /\ units' \in [Ids -> Seq(Symbols)]
      /\ \A other \in Ids \ {id} : units'[other] = units[other]
  <2>1. Append(units[id], Unit(id)) \in Seq(Symbols)
    BY <1>3, <1>4
  <2> QED  BY <1>1, <1>3, <2>1
<1>6. task[id] = "busy"
  BY <1>1 DEF Busy
<1>7. ASSUME NEW import \in imports'
      PROVE  \/ import \in imports
             \/ /\ import.at = "build" /\ import.of.module \in Compiled
                /\ import.of \in Range(units[import.of.module])
  <2>1. SUFFICES ASSUME NEW dep \in Ids, NEW i, NEW e, Accepts(id, Symbol(dep, i, e)),
                        import = [by |-> Unit(id), of |-> Symbol(dep, i, e), at |-> Found(dep).at]
                 PROVE  /\ import.at = "build" /\ import.of.module \in Compiled
                        /\ import.of \in Range(units[import.of.module])
    <3>1. \/ imports' = imports
          \/ \E dep \in Ids, i \in Sources, e \in 0 .. Edits + 1 :
                /\ Accepts(id, Symbol(dep, i, e))
                /\ imports' = imports \cup
                    {[by |-> Unit(id), of |-> Symbol(dep, i, e), at |-> Found(dep).at]}
      BY DEF CompileSource
    <3> QED  BY <2>1, <3>1
  <2>2. Symbol(dep, i, e).module = dep
    BY DEF Symbol
  <2>3. dep \in DepsOf(id) /\ Symbol(dep, i, e) \in Found(dep).interface.exports
    BY <2>1, <2>2 DEF Accepts
  <2>4. dep \in Compiled
    BY <1>2, <2>3
  <2>5. Found(dep).at = "build" /\ Found(dep).interface.exports = Range(units[dep])
    BY <2>4, FoundInBuild
  <2> QED  BY <2>1, <2>2, <2>3, <2>4, <2>5
<1> QED  BY <1>1, <1>2, <1>3, <1>5, <1>6, <1>7, TaskStep

LEMMA RejectSourceKeeps == ASSUME Inv, NEW id \in Ids, RejectSource(id) PROVE Inv'
<1>1. /\ id \in Busy /\ task' = [task EXCEPT ![id] = "failed"]
      /\ UNCHANGED <<graphVars, pipeline, sources, edition, units, interfaces, imports, program, main>>
  BY DEF RejectSource
<1>2. stage = "compile"
  BY <1>1, BusyInLayer
<1>3. /\ units \in [Ids -> Seq(Symbols)] /\ edition \in [Ids -> [Sources -> Nat]]
      /\ task \in [Ids -> {"busy", "done", "failed"}]
      /\ \A other \in Ids : task[other] = "done" => Len(units[other]) = sources[other]
  BY DEF Inv, BuildInv, BuildTypes, InterfacesTrue
<1> QED  BY <1>1, <1>2, <1>3, TaskStep

LEMMA FinishModuleKeeps == ASSUME Inv, NEW id \in Ids, FinishModule(id) PROVE Inv'
<1>1. /\ id \in Busy /\ Len(units[id]) = sources[id] /\ task' = [task EXCEPT ![id] = "done"]
      /\ UNCHANGED <<graphVars, pipeline, sources, edition, units, interfaces, imports, program, main>>
  BY DEF FinishModule
<1>2. stage = "compile"
  BY <1>1, BusyInLayer
<1>3. /\ units \in [Ids -> Seq(Symbols)] /\ edition \in [Ids -> [Sources -> Nat]]
      /\ task \in [Ids -> {"busy", "done", "failed"}]
      /\ \A other \in Ids : task[other] = "done" => Len(units[other]) = sources[other]
  BY DEF Inv, BuildInv, BuildTypes, InterfacesTrue
<1> QED  BY <1>1, <1>2, <1>3, TaskStep

LEMMA EditKeeps == ASSUME Inv, NEW id \in Ids, NEW i \in Sources, Edit(id, i) PROVE Inv'
<1>1. /\ stage = "compile" /\ edition' = [edition EXCEPT ![id][i] = @ + 1]
      /\ UNCHANGED <<graphVars, pipeline, sources, units, task, interfaces, imports, program, main>>
  BY DEF Edit
<1>2. /\ units \in [Ids -> Seq(Symbols)] /\ edition \in [Ids -> [Sources -> Nat]]
      /\ task \in [Ids -> {"busy", "done", "failed"}]
      /\ \A other \in Ids : task[other] = "done" => Len(units[other]) = sources[other]
  BY DEF Inv, BuildInv, BuildTypes, InterfacesTrue
<1>3. edition' \in [Ids -> [Sources -> Nat]]
  BY <1>1, <1>2
<1> QED  BY <1>1, <1>2, <1>3, TaskStep

\* A layer that is compiled as a whole.
LEMMA EndLayerKeeps == ASSUME Inv, EndLayer PROVE Inv'
<1>1. /\ Layer # {} /\ Ended
      /\ UNCHANGED <<nodes, deps, indegree, queue, order, plan, layers, visited,
                     pipeline, sources, edition, units, task, imports, program, main>>
  BY DEF EndLayer
<1>2. /\ stage = "compile" /\ Layer \subseteq plan /\ Layer \subseteq Ids /\ Layer \cap Compiled = {}
      /\ \A id \in Layer : DepsOf(id) \subseteq Compiled
  BY <1>1, LayerIsNext
<1>3. BuildTypes /\ LayersInTurn /\ InterfacesTrue /\ ImportsTrue
  BY DEF Inv, BuildInv
<1>4. stage' \in {"compile", "failed"}
  BY <1>2 DEF EndLayer
<1>5. GraphInv'
  BY <1>1, <1>2, <1>4, StaysPlanned DEF Inv, GraphInv, LayerInv, Planned
<1>6. CASE \E id \in Layer : task[id] = "failed"
  <2>1. stage' = "failed" /\ interfaces' = interfaces /\ Compiled' = Compiled
    BY <1>6 DEF EndLayer, Compiled
  <2>2. \A id : DepsOf(id)' = DepsOf(id)
    BY <1>1 DEF DepsOf
  <2>3. \A id : Interface(id)' = Interface(id)
    BY <1>1, <2>1, <2>2 DEF Interface
  <2>4. BuildTypes' /\ LayersInTurn'
    BY <1>1, <1>2, <1>3, <2>1 DEF BuildTypes, LayersInTurn
  <2>5. InterfacesTrue' /\ ImportsTrue' /\ ProgramTrue'
    BY <1>1, <1>3, <2>1, <2>2, <2>3 DEF InterfacesTrue, ImportsTrue, ProgramTrue
  <2> QED  BY <1>5, <2>4, <2>5 DEF Inv, BuildInv
<1>7. CASE ~ \E id \in Layer : task[id] = "failed"
  <2>1. /\ stage' = "compile"
        /\ interfaces' = [id \in Compiled \cup Layer |->
                            IF id \in Layer THEN Interface(id) ELSE interfaces[id]]
    BY <1>2, <1>7 DEF EndLayer
  <2>2. /\ Compiled' = Compiled \cup Layer
        /\ \A id \in Compiled : interfaces'[id] = interfaces[id]
        /\ \A id \in Layer : interfaces'[id] = Interface(id)
    BY <1>2, <2>1 DEF Compiled
  <2>3. \A id : DepsOf(id)' = DepsOf(id)
    BY <1>1 DEF DepsOf
  <2>4. ASSUME NEW id \in Compiled' PROVE DepsOf(id) \subseteq Compiled /\ Interface(id)' = Interface(id)
    <3>1. DepsOf(id) \subseteq Compiled
      BY <1>2, <1>3, <2>2, <2>4 DEF InterfacesTrue
    <3>2. DepsOf(id)' \cap Compiled' = DepsOf(id) \cap Compiled
      BY <2>2, <2>3, <3>1
    <3>3. {interfaces'[dep].hash : dep \in DepsOf(id)' \cap Compiled'} =
          {interfaces[dep].hash : dep \in DepsOf(id) \cap Compiled}
      BY <2>2, <3>2
    <3> QED  BY <1>1, <3>1, <3>3 DEF Interface
  <2>5. \A id \in Layer : task[id] = "done"
    <3>1. \A id \in Layer : task[id] \in {"busy", "done", "failed"}
      BY <1>2, <1>3 DEF BuildTypes
    <3>2. \A id \in Layer : task[id] # "busy"
      BY <1>1 DEF Ended, Busy
    <3> QED  BY <1>7, <3>1, <3>2
  <2>6. BuildTypes'
    BY <1>1, <1>2, <1>3, <2>2 DEF BuildTypes
  <2>7. LayersInTurn'
    <3>1. Compiled' \subseteq plan'
      BY <1>1, <1>2, <1>3, <2>2 DEF LayersInTurn
    <3>2. ASSUME NEW m \in DOMAIN layers, NEW id \in layers[m], id \in Compiled',
                 NEW k \in DOMAIN layers, k <= m
          PROVE  layers[k] \subseteq Compiled'
      <4>1. CASE id \in Compiled
        BY <1>3, <2>2, <3>2, <4>1 DEF LayersInTurn
      <4>2. CASE id \in Layer
        <5>1. PICK l \in DOMAIN layers :
                /\ layers[l] = Layer
                /\ \A j \in DOMAIN layers : j < l => layers[j] \subseteq Compiled
          BY <1>1, LayerIsNext
        <5>2. m = l
          BY <3>2, <4>2, <5>1 DEF Inv, GraphInv, LayerInv
        <5>3. k \in Nat /\ l \in Nat
          BY <5>1 DEF Inv, GraphInv, GraphTypes
        <5>4. k < l \/ k = l
          BY <3>2, <5>2, <5>3
        <5> QED  BY <2>2, <5>1, <5>4
      <4> QED  BY <2>2, <3>2, <4>1, <4>2
    <3> QED  BY <1>1, <2>1, <3>1, <3>2 DEF LayersInTurn
  <2>8. InterfacesTrue'
    <3>1. ASSUME NEW id \in Compiled'
          PROVE  Len(units[id]) = sources[id] /\ interfaces'[id] = Interface(id)
      BY <1>2, <1>3, <2>2, <2>5, <3>1 DEF InterfacesTrue
    <3> QED  BY <1>1, <1>3, <2>2, <2>3, <2>4, <3>1 DEF InterfacesTrue
  <2>9. ImportsTrue' /\ ProgramTrue'
    BY <1>1, <1>3, <2>1, <2>2 DEF ImportsTrue, ProgramTrue
  <2> QED  BY <1>5, <2>6, <2>7, <2>8, <2>9 DEF Inv, BuildInv
<1> QED  BY <1>6, <1>7

LEMMA LinkKeeps == ASSUME Inv, Link PROVE Inv'
<1>1. /\ stage = "compile" /\ Pending = {} /\ stage' = "done"
      /\ program' = UNION {Linked(id) : id \in plan}
      /\ main' = IF pipeline = "entry" THEN 1 ELSE sources[Entry]
      /\ UNCHANGED <<nodes, deps, indegree, queue, order, plan, layers, visited,
                     pipeline, sources, edition, disk, units, task, interfaces, imports>>
  BY DEF Link
<1>2. GraphInv'
  BY <1>1, StaysPlanned DEF Inv, GraphInv, LayerInv, Planned
<1>3. BuildTypes /\ LayersInTurn /\ InterfacesTrue /\ ImportsTrue
  BY DEF Inv, BuildInv
<1>4. Compiled' = Compiled
  BY <1>1 DEF Compiled
<1>5. \A id : DepsOf(id)' = DepsOf(id)
  BY <1>1 DEF DepsOf
<1>6. \A id : Interface(id)' = Interface(id) /\ Linked(id)' = Linked(id)
  BY <1>1, <1>4, <1>5 DEF Interface, Linked
<1>7. plan \subseteq Compiled
  <2>1. \A l \in DOMAIN layers : layers[l] \subseteq Compiled
    BY <1>1 DEF Pending
  <2>2. plan \subseteq Ids /\ visited = plan /\ \A id \in Ids : id \in visited <=> \E l \in DOMAIN layers : id \in layers[l]
    BY <1>1 DEF Inv, GraphInv, GraphTypes, LayerInv
  <2> QED  BY <2>1, <2>2
<1>8. BuildTypes' /\ LayersInTurn'
  BY <1>1, <1>3, <1>4, <1>7 DEF BuildTypes, LayersInTurn
<1>9. InterfacesTrue' /\ ImportsTrue'
  BY <1>1, <1>3, <1>4, <1>5, <1>6 DEF InterfacesTrue, ImportsTrue
<1>10. ProgramTrue'
  <2>1. program' = UNION {Linked(id)' : id \in plan'}
    BY <1>1, <1>6
  <2> QED  BY <1>1, <2>1 DEF ProgramTrue
<1> QED  BY <1>2, <1>8, <1>9, <1>10 DEF Inv, BuildInv

-----------------------------------------------------------------------
(* The theorems.                                                         *)

LEMMA InvStep == ASSUME Inv, [Next]_vars PROVE Inv'
<1>1. CASE GraphNext /\ UNCHANGED buildVars
  <2>1. GraphInv'
    BY <1>1, GraphStep DEF Inv
  <2> QED  BY <1>1, <2>1, GraphStepBuilds DEF Inv
<1>2. CASE BuildNext
  BY <1>2, CompileSourceKeeps, RejectSourceKeeps, FinishModuleKeeps, EndLayerKeeps, LinkKeeps DEF BuildNext
<1>3. CASE \E id \in Ids, i \in Sources : Edit(id, i)
  BY <1>3, EditKeeps
<1>4. CASE UNCHANGED vars
  <2>1. UNCHANGED graphVars /\ UNCHANGED buildVars
    BY <1>4 DEF vars
  <2>2. \A id, S : DepsOf(id)' = DepsOf(id) /\ Missing(id, S)' = Missing(id, S)
    BY <2>1 DEF DepsOf, Missing, graphVars
  <2>3. \A id : Missing(id, Range(order))' = Missing(id, Range(order))
    BY <2>1 DEF Missing, graphVars
  <2>4. SortInv'
    BY <2>1, <2>2, <2>3 DEF Inv, GraphInv, SortInv, Waiting, Sorted, SortStages, Counted, graphVars
  <2>5. GraphTypes' /\ PlanInv' /\ LayerInv'
    BY <2>1, <2>2 DEF Inv, GraphInv, GraphTypes, PlanInv, LayerInv, Planned, Closed, graphVars
  <2>6. Compiled' = Compiled
    BY <2>1 DEF Compiled, buildVars
  <2>7. \A id : Interface(id)' = Interface(id) /\ Linked(id)' = Linked(id)
    BY <2>1, <2>2, <2>6 DEF Interface, Linked, buildVars
  <2>8. UNION {Linked(id) : id \in plan} = UNION {Linked(id)' : id \in plan'}
    BY <2>1, <2>7 DEF graphVars
  <2>9. BuildTypes' /\ LayersInTurn' /\ InterfacesTrue' /\ ImportsTrue' /\ ProgramTrue'
    BY <2>1, <2>2, <2>6, <2>7, <2>8
    DEF Inv, BuildInv, BuildTypes, LayersInTurn, InterfacesTrue, ImportsTrue, ProgramTrue, graphVars, buildVars
  <2> QED  BY <2>4, <2>5, <2>9 DEF Inv, GraphInv, BuildInv
<1> QED  BY <1>1, <1>2, <1>3, <1>4 DEF Next, Step

THEOREM BuildInvariant == Spec => []Inv
<1>1. Init => Inv
  BY GraphStart, BuildStart DEF Init, Inv
<1>2. Inv /\ [Next]_vars => Inv'
  BY InvStep
<1> QED  BY <1>1, <1>2, PTL DEF Spec

\* topological_sort, over any manifests: a sorted order names every module
\* once and after all it depends on, and a cycle is reported just when there
\* is one.
THEOREM OrderIsExact == Spec => []SortExact
<1>1. Inv => SortExact
  BY SortedExactly DEF Inv
<1> QED  BY <1>1, BuildInvariant, PTL

\* schedule_layers: every module of the plan is in one layer, after all it
\* depends on, and the round that gives up is never reached.
THEOREM LayersInOrder == Spec => []LayersSound
<1>1. Inv => LayersSound
  BY LayersAreSound DEF Inv
<1> QED  BY <1>1, BuildInvariant, PTL

\* validate_module_imports: no import is accepted on the word of a file of
\* an earlier build, whatever is on the disk and is edited meanwhile.
THEOREM NothingStaleImported == Spec => []ImportsFresh
<1>1. Inv => ImportsFresh
  BY DEF Inv, BuildInv, ImportsTrue, ImportsFresh
<1> QED  BY <1>1, BuildInvariant, PTL

\* finalize: the hash of an interface covers those of all dependencies.
THEOREM HashesCascade == Spec => []HashCascades
<1>1. Inv => HashCascades
  <2> SUFFICES ASSUME Inv, NEW id \in Compiled
               PROVE  /\ DepsOf(id) \subseteq Compiled
                      /\ interfaces[id].hash[3] = {interfaces[dep].hash : dep \in DepsOf(id)}
    BY DEF HashCascades
  <2>1. DepsOf(id) \subseteq Compiled /\ interfaces[id] = Interface(id)
    BY DEF Inv, BuildInv, InterfacesTrue
  <2>2. DepsOf(id) \cap Compiled = DepsOf(id)
    BY <2>1
  <2>3. Interface(id).hash[3] = {interfaces[dep].hash : dep \in DepsOf(id)}
    BY <2>2, InterfaceParts
  <2> QED  BY <2>1, <2>3
<1> QED  BY <1>1, BuildInvariant, PTL

\* compile_entry_file, and the other pipeline when the modules have one
\* source each: every symbol that was imported is in the linked program.
THEOREM LinkDefinesImports == Spec => []ImportsLinked
<1>1. Inv => ImportsLinked
  <2> SUFFICES ASSUME Inv, stage = "done", pipeline = "entry" \/ sources[Entry] = 1
               PROVE  main = 1 /\ \A import \in imports : import.of \in program
    BY DEF ImportsLinked
  <2>1. /\ program = UNION {Linked(id) : id \in plan}
        /\ main = IF pipeline = "entry" THEN 1 ELSE sources[Entry]
        /\ Compiled \subseteq plan /\ plan \subseteq Ids
    BY DEF Inv, BuildInv, ProgramTrue, LayersInTurn, GraphInv, GraphTypes
  <2>2. ASSUME NEW import \in imports PROVE import.of \in program
    <3> DEFINE id == import.of.module
    <3>1. id \in Compiled /\ import.of \in Range(units[id])
      BY DEF Inv, BuildInv, ImportsTrue
    <3>2. id \in plan /\ id \in Ids /\ Len(units[id]) = sources[id] /\ units[id] \in Seq(Symbols)
      BY <2>1, <3>1 DEF Inv, BuildInv, InterfacesTrue, BuildTypes
    <3>3. import.of \in Linked(id)
      <4>1. CASE pipeline = "entry"
        BY <3>1, <4>1 DEF Linked
      <4>2. CASE pipeline # "entry" /\ sources[Entry] = 1
        <5>1. sources[id] = 1
          <6>1. PICK n \in Sources : sources = [other \in Ids |-> n]
            BY DEF Inv, BuildInv, BuildTypes
          <6> QED  BY <3>2, <4>2, <6>1, ModuleGraphAssumption
        <5>2. PICK i \in 1..Len(units[id]) : units[id][i] = import.of
          BY <3>1, <3>2, InRange
        <5>3. i = 1 /\ Len(units[id]) = 1
          BY <3>2, <5>1, <5>2
        <5> HIDE DEF id
        <5>4. Linked(id) = {units[id][Len(units[id])]}
          BY <4>2 DEF Linked
        <5> QED  BY <5>2, <5>3, <5>4
      <4> QED  BY <4>1, <4>2
    <3> HIDE DEF id
    <3> QED  BY <2>1, <3>2, <3>3
  <2> QED  BY <2>1, <2>2
<1> QED  BY <1>1, BuildInvariant, PTL

=======================================================================
