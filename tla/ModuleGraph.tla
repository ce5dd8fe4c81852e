-------------------------- MODULE ModuleGraph -------------------------
(* The module graph of a project (src/karte-module-system/src/lib.rs):   *)
(* the manifest is read and the standard library added to it, the        *)
(* modules are sorted, the part an entry file needs is planned, and the  *)
(* plan is cut into layers whose modules are compiled side by side.      *)
(*                                                                       *)
(* The maps of the code have no order: wherever it iterates over one,    *)
(* any order may come.                                                   *)
EXTENDS Naturals, Sequences, FiniteSets, SequencesExt, FiniteSetsExt, Functions

CONSTANTS
    Ids,         \* module ids that occur in a manifest
    StdIds,      \* the ids that start with "std."
    StdManifest, \* std/karte.mod.toml: the dependencies of its modules
    PreludeId,   \* the module KARTE_PRELUDE_PATH names
    Manifests,   \* the manifests of projects: dependencies of the declared ids
    Entry        \* the module the entry file belongs to

ASSUME ModuleGraphAssumption ==
    /\ StdIds \subseteq Ids /\ PreludeId \in Ids /\ Entry \in Ids
    /\ IsFiniteSet(Ids)
    /\ \A m \in (Manifests \cup {StdManifest}) :
        DOMAIN m \subseteq Ids /\ \A id \in DOMAIN m : m[id] \in Seq(Ids)

VARIABLES
    stage,       \* what load_for_entry, plan_for_entry and schedule_layers have done
    nodes,       \* ModuleGraph.nodes: the ids,
    deps,        \*   and their dependencies
    indegree, queue, order,
    plan,        \* the modules of ModulePlan.sequence, which stay sorted as in order
    layers,
    visited

graphVars == <<stage, nodes, deps, indegree, queue, order, plan, layers, visited>>

Stages == {"load", "sort", "plan", "layers", "compile", "done",
           "missing", "cycle", "noEntry", "failed"}
Stopped == {"done", "missing", "cycle", "noEntry", "failed"}

GraphInit ==
    /\ stage = "load" /\ nodes = {} /\ deps = [id \in Ids |-> <<>>]
    /\ indegree = [id \in Ids |-> 0] /\ queue = <<>> /\ order = <<>>
    /\ plan = {} /\ layers = <<>> /\ visited = {}

-----------------------------------------------------------------------
(* from_manifest, inject_prelude_module.                                 *)

\* "skip modules the project declares itself": the std modules added.
Added(manifest) == DOMAIN StdManifest \ DOMAIN manifest

\* Every module that is not a std module depends on all that were added.
WithStd(manifest, id) ==
    IF id \in StdIds THEN manifest[id]
    ELSE manifest[id] \o SetToSeq(Added(manifest) \ Range(manifest[id]))

LoadWithStd ==
    /\ stage = "load"
    /\ \E manifest \in Manifests :
        /\ nodes' = DOMAIN manifest \cup Added(manifest)
        /\ deps' = [id \in Ids |-> IF id \in DOMAIN manifest THEN WithStd(manifest, id)
                                   ELSE IF id \in Added(manifest) THEN StdManifest[id]
                                   ELSE <<>>]
    /\ stage' = "sort"
    /\ UNCHANGED <<indegree, queue, order, plan, layers, visited>>

\* With KARTE_PRELUDE_PATH only that module is added, and nothing depends on
\* it but what declares so.
LoadWithPrelude ==
    /\ stage = "load"
    /\ \E manifest \in Manifests :
        /\ nodes' = DOMAIN manifest \cup {PreludeId}
        /\ deps' = [id \in Ids |-> IF id \in DOMAIN manifest THEN manifest[id] ELSE <<>>]
    /\ stage' = "sort"
    /\ UNCHANGED <<indegree, queue, order, plan, layers, visited>>

-----------------------------------------------------------------------
(* topological_sort.                                                     *)

DepsOf(id) == Range(deps[id])
Occurrences(dep, id) == Cardinality({i \in DOMAIN deps[id] : deps[id][i] = dep})

\* No dependency may lack a module.
MissingDependency ==
    /\ stage = "sort" /\ order = <<>> /\ queue = <<>>
    /\ \E id \in nodes : ~ DepsOf(id) \subseteq nodes
    /\ stage' = "missing"
    /\ UNCHANGED <<nodes, deps, indegree, queue, order, plan, layers, visited>>

\* The loop goes on while there is something in the queue; then every module
\* is sorted, or the rest holds a cycle.
SortStage(waiting, sorted) ==
    IF waiting # <<>> THEN "sort"
    ELSE IF Len(sorted) = Cardinality(nodes) THEN "plan" ELSE "cycle"

\* What a module waits for: a dependency counts as often as it is named.
WaitsFor(id) == Len(deps[id])

\* The modules without dependencies enter the queue.
CountDependencies ==
    /\ stage = "sort" /\ order = <<>> /\ queue = <<>>
    /\ \A id \in nodes : DepsOf(id) \subseteq nodes
    /\ indegree' = [id \in Ids |-> IF id \in nodes THEN WaitsFor(id) ELSE 0]
    /\ queue' \in SetToSeqs({id \in nodes : indegree'[id] = 0})
    /\ stage' = SortStage(queue', order)
    /\ UNCHANGED <<nodes, deps, order, plan, layers, visited>>

\* Mutant: a module enters the queue with its first sorted dependency.
RemainingFirst(id) == IF Occurrences(Head(queue), id) > 0 THEN 0 ELSE indegree[id]

\* The dependencies a module waits for once the head of the queue is sorted.
Remaining(id) == indegree[id] - Occurrences(Head(queue), id)

\* pop_front: the head is sorted, its dependents may follow.
SortNext ==
    /\ stage = "sort" /\ queue # <<>>
    /\ order' = Append(order, Head(queue))
    /\ indegree' = [id \in Ids |-> Remaining(id)]
    /\ \E ready \in SetToSeqs({id \in nodes : indegree[id] > 0 /\ Remaining(id) = 0}) :
        queue' = Tail(queue) \o ready
    /\ stage' = SortStage(queue', order')
    /\ UNCHANGED <<nodes, deps, plan, layers, visited>>

-----------------------------------------------------------------------
(* plan_for_entry and schedule_layers.                                   *)

\* collect_dependencies: what the entry depends on, directly or not.
Closed(S) == \A id \in S : DepsOf(id) \subseteq S
Reachable == {id \in Ids : \A S \in SUBSET Ids : Entry \in S /\ Closed(S) => id \in S}

PlanForEntry ==
    /\ stage = "plan"
    /\ IF Entry \in nodes
       THEN /\ plan' = Range(order) \cap Reachable
            /\ stage' = "layers"
       ELSE stage' = "noEntry" /\ UNCHANGED plan
    /\ UNCHANGED <<nodes, deps, indegree, queue, order, layers, visited>>

Remainder == plan \ visited

\* Mutant: a module of the remainder does not wait for one of the same layer.
SatisfiedByPlan(id) == DepsOf(id) \subseteq plan

\* deps_satisfied
Satisfied(id) == \A dep \in DepsOf(id) : dep \in visited \/ dep \notin plan

\* One round of the loop: the modules that can be compiled now, or, when
\* there is none, all that are left.
NextLayer ==
    /\ stage = "layers" /\ Remainder # {}
    /\ LET ready == {id \in Remainder : Satisfied(id)} IN
        IF ready # {}
        THEN layers' = Append(layers, ready) /\ visited' = visited \cup ready
        ELSE layers' = Append(layers, Remainder) /\ visited' = plan
    /\ UNCHANGED <<stage, nodes, deps, indegree, queue, order, plan>>

LayersDone ==
    /\ stage = "layers" /\ Remainder = {}
    /\ stage' = "compile"
    /\ UNCHANGED <<nodes, deps, indegree, queue, order, plan, layers, visited>>

GraphNext ==
    \/ LoadWithStd \/ LoadWithPrelude
    \/ MissingDependency \/ CountDependencies \/ SortNext
    \/ PlanForEntry \/ NextLayer \/ LayersDone

=======================================================================
