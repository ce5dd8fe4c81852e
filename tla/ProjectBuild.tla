------------------------- MODULE ProjectBuild -------------------------
(* The build of a project (src/karte-module-system/src/project.rs,       *)
(* interface.rs, import_validation.rs): the modules of a layer are       *)
(* compiled side by side against the interfaces of the layers before,    *)
(* their interfaces are written to target/.karte-cache, and the units    *)
(* are linked, by compile_entry_file or by compile_project_with_context. *)
(* Meanwhile the sources may be edited.                                  *)
(*                                                                       *)
(* The text of a source exports one symbol, known by the module, the     *)
(* source and its edition, and imports at most one. Hashes are taken to  *)
(* be free of collisions. What a build stores in the compilation cache   *)
(* is left out: no build reads it back.                                  *)
EXTENDS ModuleGraph

CONSTANTS
    MaxSources,    \* bound: sources of a module
    Edits,         \* bound: how often a source is edited during the build
    MaxImports,    \* bound: imports in all
    NoInterface

ASSUME BuildAssumption == MaxSources \in Nat \ {0} /\ Edits \in Nat /\ MaxImports \in Nat

VARIABLES
    pipeline,    \* "entry": compile_entry_file, "project": compile_project_with_context
    sources,     \* how many sources each module has
    edition,     \* the edition of each source in the file system
    disk,        \* the interface files, of this build or of an earlier one
    units,       \* compiled_artifacts of each module: what its sources export
    task,        \* compile_module_in_layer: "busy", or how it ended
    interfaces,  \* interface_artifacts and interface_hashes
    imports,     \* the imports accepted: by whom, of what, and where it was looked up
    program,     \* the symbols the linked program defines
    main         \* the source the main function of the program comes from

buildVars == <<pipeline, sources, edition, disk, units, task, interfaces, imports, program, main>>
vars == <<graphVars, buildVars>>

Sources == 1 .. MaxSources
Symbol(id, i, e) == [module |-> id, source |-> i, edition |-> e]

\* The interface an earlier build may have left: of a text there was before.
OldInterface(id) == [exports |-> {Symbol(id, 1, 0)}, hash |-> <<id>>]

Init ==
    /\ GraphInit
    /\ pipeline \in {"entry", "project"}
    /\ \E n \in Sources : sources = [id \in Ids |-> n]
    /\ edition = [id \in Ids |-> [i \in Sources |-> 1]]
    /\ disk \in {[id \in Ids |-> NoInterface], [id \in Ids |-> OldInterface(id)]}
    /\ units = [id \in Ids |-> <<>>] /\ task = [id \in Ids |-> "busy"]
    /\ interfaces = [id \in {} |-> NoInterface]
    /\ imports = {} /\ program = {} /\ main = 0

-----------------------------------------------------------------------
(* compile_module_in_layer.                                              *)

Compiled == DOMAIN interfaces
Pending == {l \in DOMAIN layers : ~ layers[l] \subseteq Compiled}
Layer == IF stage = "compile" /\ Pending # {} THEN layers[Min(Pending)] ELSE {}

\* The tasks of the layer that still run; rayon starts them in any order.
Busy == {id \in Layer : task[id] = "busy"}

\* Where validate_module_imports finds the interface of a dependency: among
\* those of this build, else in the file system.
Found(dep) ==
    IF dep \in Compiled THEN [at |-> "build", interface |-> interfaces[dep]]
    ELSE [at |-> "disk", interface |-> disk[dep]]

\* One source is read, as it is now, and compiled.
Unit(id) == LET i == Len(units[id]) + 1 IN Symbol(id, i, edition[id][i])

\* Mutant: whatever has an interface can be imported.
AcceptsUndeclared(id, symbol) ==
    /\ Found(symbol.module).interface # NoInterface
    /\ symbol \in Found(symbol.module).interface.exports

Accepts(id, symbol) ==
    /\ symbol.module \in DepsOf(id)
    /\ Found(symbol.module).interface # NoInterface
    /\ symbol \in Found(symbol.module).interface.exports

CompileSource(id) ==
    /\ id \in Busy /\ Len(units[id]) < sources[id]
    /\ units' = [units EXCEPT ![id] = Append(@, Unit(id))]
    /\ \/ UNCHANGED imports
       \/ /\ Cardinality(imports) < MaxImports
          /\ \E dep \in Ids, i \in Sources, e \in 0 .. Edits + 1 :
              /\ Accepts(id, Symbol(dep, i, e))
              /\ imports' = imports \cup
                    {[by |-> Unit(id), of |-> Symbol(dep, i, e), at |-> Found(dep).at]}
    /\ UNCHANGED <<graphVars, pipeline, sources, edition, disk, task, interfaces, program, main>>

\* An error in the source, or an import validate_module_imports refuses; the
\* sources after it are not read.
RejectSource(id) ==
    /\ id \in Busy /\ Len(units[id]) < sources[id]
    /\ task' = [task EXCEPT ![id] = "failed"]
    /\ UNCHANGED <<graphVars, pipeline, sources, edition, disk, units, interfaces, imports, program, main>>

\* Mutant: the hash covers the module alone.
InterfaceOfModule(id) == [exports |-> Range(units[id]), hash |-> <<id, Range(units[id]), {}>>]

\* finalize: the hash covers the exports and the hashes of the dependencies
\* that are known.
Interface(id) ==
    [exports |-> Range(units[id]),
     hash |-> <<id, Range(units[id]), {interfaces[dep].hash : dep \in DepsOf(id) \cap Compiled}>>]

\* The interface is written beside the file and renamed over it; an error
\* there is a warning.
FinishModule(id) ==
    /\ id \in Busy /\ Len(units[id]) = sources[id]
    /\ task' = [task EXCEPT ![id] = "done"]
    /\ \/ disk' = [disk EXCEPT ![id] = Interface(id)]
       \/ UNCHANGED disk
    /\ UNCHANGED <<graphVars, pipeline, sources, edition, units, interfaces, imports, program, main>>

-----------------------------------------------------------------------
(* compile_entry_file and compile_project_with_context.                  *)

\* Mutant: a task that failed is waited for.
EndedWell == \A id \in Layer : task[id] = "done"

\* collect: all tasks of the layer have ended.
Ended == Busy = {}

\* Their results are entered, or the build ends with the first error.
EndLayer ==
    /\ Layer # {} /\ Ended
    /\ IF \E id \in Layer : task[id] = "failed"
       THEN stage' = "failed" /\ UNCHANGED interfaces
       ELSE /\ interfaces' = [id \in Compiled \cup Layer |->
                    IF id \in Layer THEN Interface(id) ELSE interfaces[id]]
            /\ UNCHANGED stage
    /\ UNCHANGED <<nodes, deps, indegree, queue, order, plan, layers, visited,
                   pipeline, sources, edition, disk, units, task, imports, program, main>>

\* Mutant: of every module, the unit compiled last.
LinkedLast(id) == {units[id][Len(units[id])]}

\* merge_module_artifacts merges every unit; the other pipeline keeps, of
\* every module, the unit that was inserted last.
Linked(id) == IF pipeline = "entry" THEN Range(units[id]) ELSE {units[id][Len(units[id])]}

\* The main function is that of the entry file, which is the first source
\* of its module, or that of the unit inserted last.
Link ==
    /\ stage = "compile" /\ Pending = {}
    /\ program' = UNION {Linked(id) : id \in plan}
    /\ main' = IF pipeline = "entry" THEN 1 ELSE sources[Entry]
    /\ stage' = "done"
    /\ UNCHANGED <<nodes, deps, indegree, queue, order, plan, layers, visited,
                   pipeline, sources, edition, disk, units, task, interfaces, imports>>

\* Somebody saves a source.
Edit(id, i) ==
    /\ stage = "compile" /\ edition[id][i] <= Edits /\ i <= sources[id] /\ id \in nodes
    /\ \A other \in Ids, j \in Sources : edition[other][j] = 1 \/ <<other, j>> = <<id, i>>
    /\ edition' = [edition EXCEPT ![id][i] = @ + 1]
    /\ UNCHANGED <<graphVars, pipeline, sources, disk, units, task, interfaces, imports, program, main>>

BuildNext ==
    \/ \E id \in Ids : CompileSource(id) \/ RejectSource(id) \/ FinishModule(id)
    \/ EndLayer \/ Link

Step == (GraphNext /\ UNCHANGED buildVars) \/ BuildNext

Next == Step \/ \E id \in Ids, i \in Sources : Edit(id, i)

\* The build is a loop over a finite list, its tasks are run by rayon.
Spec == Init /\ [][Next]_vars /\ WF_vars(Step)

-----------------------------------------------------------------------
(* What the module graph and the build of a project promise.         *)

Place(id) == CHOOSE k \in DOMAIN order : order[k] = id
Cyclic == \E S \in (SUBSET nodes) \ {{}} : \A id \in S : DepsOf(id) \cap S # {}

\* topological_sort, which counts a dependency as often as the manifest names
\* it: a sorted order names every module once, after all it depends on; and
\* a cycle is reported just when there is one, the edges that the injected
\* standard library adds included.
SortExact ==
    /\ stage \in Stages \ {"load", "sort", "missing", "cycle"} =>
        /\ Len(order) = Cardinality(nodes) /\ Range(order) = nodes
        /\ \A id \in nodes : \A dep \in DepsOf(id) : Place(dep) < Place(id)
    /\ stage = "cycle" => Cyclic
    /\ stage \in {"plan", "layers", "compile", "done"} => ~ Cyclic

\* schedule_layers: the layers of a build partition its plan, nothing a
\* module depends on is in its own layer or a later one, and the plan holds
\* all that its modules depend on: the round that gives up is never reached.
LayersSound ==
    stage \in {"compile", "done", "failed"} =>
        /\ UNION Range(layers) = plan /\ Entry \in plan
        /\ \A l \in DOMAIN layers : \A id \in layers[l] :
            /\ DepsOf(id) \subseteq UNION {layers[k] : k \in 1 .. l - 1}
            /\ \A k \in DOMAIN layers : id \in layers[k] => k = l

\* validate_module_imports falls back on the interface file in the file
\* system, which can be of an older build: no import is accepted on its
\* word, and every symbol that was imported is one this build compiled.
ImportsFresh ==
    \A import \in imports :
        /\ import.at = "build"
        /\ import.of \in Range(units[import.of.module])

\* finalize passes over a dependency whose hash is not known: it never meets
\* one, so the hash of every interface covers those of all its dependencies
\* and changes with each of them, whatever was edited meanwhile.
HashCascades ==
    \A id \in Compiled :
        /\ DepsOf(id) \subseteq Compiled
        /\ interfaces[id].hash[3] = {interfaces[dep].hash : dep \in DepsOf(id)}

\* What is imported is linked: when compile_entry_file succeeds, or a project
\* whose modules have one source each is built, the program defines every
\* symbol that was imported, and its main is that of the entry file.
ImportsLinked ==
    stage = "done" /\ (pipeline = "entry" \/ sources[Entry] = 1) =>
        main = 1 /\ \A import \in imports : import.of \in program

\* Every build ends, with a program or with an error.
BuildEnds == <>(stage \in Stopped)

=======================================================================
