# A verification of Karte's runtime in TLA+

Karte is a language with a compiler, a virtual machine with a JIT, an
ahead-of-time compiler and a concurrent, moving garbage collector. This
directory holds models of its parts as TLA+ modules, configurations under which
TLC checks them, and theorems that TLAPS proves. Everything is modelled from the
code under `src/`; `PROJECT.json` names the lines behind every definition, the
runs, the hazards and the disagreements between code and documentation found on
the way.

    tlc -workers 2 -config GCSync.cfg GCSync.tla     # any run, see below
    tlapm GCSyncProofs.tla                           # the proofs

## 1. Inventory

The pipeline is lexer → parser → HIR (types) → MIR → LIR → codegen (VM and JIT)
or AOT; `karte-module-system` drives it over the modules of a project, and the
generated code runs on `karte-rt` and the Immix collector in `karte-gc/immix`.

| part | state it keeps | operations | what is hard | what makes it correct |
|---|---|---|---|---|
| immix: handshake (`collector.rs`, `lib.rs`) | `GC_COLLECTOR_COUNT` (registered, arrived), `GC_MARKING`, `GC_RUNNING`, `GC_SWEEPING`, `GC_SWEEPPING_NUM`, `SWEEP_MUTEX`, two condition variables | `Collector::new`, drop, `collect`, `safepoint`, `alloc`, `mark_fast_unwind`, `sweep`, `stuck`/`unstuck` | threads join and leave at barriers, wakeups, the next collection starts while some still sweep, a nanny stands in for a thread in native code | nobody runs while anybody marks; a collection marks only after everyone swept the last one; every thread gets out again |
| immix: marking (`collector.rs`) | mark and forward bits, worker queues with stealers, slots | `mark_ptr`, `mark_conservative`, `correct_ptr`, `mark_queue` | two threads copy the same object, slots are corrected by several, end detection by counting idle queues | each object copied once; everything reachable marked; no slot left at an old address; marking ends |
| immix: big objects (`big_obj_allocator.rs`, `global_allocator.rs`) | free chunks, `big_objs` | `get_chunk`, `return_chunk`, `get_big_obj`, `sweep_big_objs` | swept after the other threads run again; chunks merged by address | reachable objects kept |
| immix: blocks (`global_allocator.rs`, `thread_local_allocator.rs`, `global_freelist.rs`) | seven lists of blocks, flags of a block, the end of the carved heap | `alloc`, `get_new_block`, `sweep`, `return_prev_free_blocks`, `get_more_works`, thread exit | a lock-free pop, check-then-add, blocks inherited from threads that ended | a block has one holder; a block with a reachable object is in use |
| immix: line map of a block (`block.rs`, `immix_obj.rs`) | line headers, cursor, hole, header bytes | `alloc`, `alloc_slow`, `bump_next_hole`, `mark_conservative`, `get_head_ptr`, `correct_header` | holes at the edges of a block, medium objects over several lines, stale headers of dead objects | an object never overlaps another one; every object is found from each of its words and no dead one is |
| karte-module-system (`lib.rs`, `project.rs`, `interface.rs`, `import_validation.rs`) | module graph, compiled units, interface files | `load`, `topological_sort`, `plan_for_entry`, `schedule_layers`, `compile_project_with_context`, `compile_entry_file` | cycles, parallel layers, interface files of an earlier build, sources edited meanwhile | a module is compiled after what it imports and against what this build made of it; what is imported is linked |
| karte-mir (`lower/`) | scopes, loop contexts, blocks with phi nodes | `lower_expression`, `lower_statement` | bindings snapshot around branches, phi nodes for breaks and continues | the lowered function reads the values and takes the branches of the source |
| karte-lir (`lower/`, `pass/`) | instructions, control flow graph, liveness, lifetimes, register map, pass manager's cached analyses | SSA construction, `memory2reg`, phi elimination, explicit jumps, block layout, dead code, peephole, stack slot coloring, register allocation | parallel copies as sequential moves, stores of several paths, blocks merged, analyses kept too long, spilling | every pass keeps what the function reads and where it goes; live intervals never share a register |
| karte-lir, karte-common: calls (`instruction_lowering_pass.rs`, `calling_convention.rs`) | frames, registers of arguments, saved registers | calls, prologues and epilogues of functions as loads, stores and moves | which registers a call may overwrite, arguments that are in each other's registers | a call changes nothing but its result |
| karte-codegen: code generators (`jit/*_compiler.rs`) | code buffer, labels, what the last comparison compared | an encoder for each LIR instruction, calls of the runtime, prologue and epilogue of the entry | two-address machines, fixed registers of division and shifts, temporaries, immediates that do not fit | after each instruction the machine holds what the program has computed |
| karte-codegen: virtual machine | code cache, code memory, VM heap, stack frames | insert, evict, enter, leave, link | limits, page permissions, nesting | sizes add up, blocks are disjoint, `leave_function` undoes `enter_function` |
| karte-parser | position in the tokens, mode | one function for each construct of the grammar | precedence, generic arguments against `<`, struct literals against blocks, expressions that end a statement without `;` | a program is read as the documented grammar says, and no token is passed over |
| karte-escape-analysis | graph of variables, escape states | edges for statements, propagation to a fixpoint, suggestions | aliases, identifiers that collide | what lives longer than its frame is allocated on the heap |
| karte-aot | sections, labels, relocations | layout of functions, patching of jumps, addresses and calls | ranges of offsets, order of functions | a label is where it is looked for |
| lexer, HIR, karte-rt, IR codec and derive, CLI, LSP, diagnostics, common, syscall | — | translation of text and trees, wrappers | — | not modelled: see section 8 |

How they interact. Threads of a program call the collector at allocations and
safepoints. The handshake decides when marking and sweeping happen; marking
calls the allocators to copy objects, the sweep of a thread works on the blocks
of its own `ThreadLocalAllocator`, and at thread exit the blocks pass through
the `GlobalAllocator` to another thread. A block keeps its own map of lines.
The nanny of a stuck thread runs the stuck thread's collector from a thread
pool. The compiler parts share no state with these: they hand trees to each
other. The module system decides in which order, and against which interfaces,
the sources of a project go through the front end; MIR lowering gives functions
in SSA form to LIR lowering, whose result the pass manager takes through the
passes of an optimisation level. The last passes give it registers and make its
calls explicit; a code generator then writes it for one of three processors.

## 2. Modules

| module | what it is |
|---|---|
| `StopTheWorld` | abstract specification of a collection: a fixed team marks, each member sweeps once |
| `GCSync` | the handshake, one action per critical section; its properties, the refinement mapping, the inductive invariant |
| `GCSyncProofs` | the theorems about it |
| `ParallelMark`, `ParallelMarkProofs` | one marking phase |
| `BigObjects` | big objects |
| `Blocks`, `BlocksProofs` | the lists a block goes through |
| `ObjectStore` | abstract specification of a block: objects that share no cell, found from their words, collected when unreachable |
| `LineMap`, `LineMapProofs` | the inside of one block, the mapping to `ObjectStore`; the theorems about it |
| `ModuleGraph` | manifest, sort, plan and layers of a project |
| `ProjectBuild`, `ProjectBuildProofs` | the build over that graph: interfaces, parallel layers, edits, linking; the theorems about both |
| `ListLemmas` | what a sequence loses and gains when a member is taken, put or moved; greatest and least numbers, functions defined by recursion; used by the proofs |
| `Parser` | the parser, one operator for each of its functions |
| `ParseRun` | the grammar of the documents as trees and what they look like; programs written and read |
| `MirSource` | what a program of the source means |
| `MirLower` | its lowering to MIR, as operators on a lowering context |
| `MirRun` | the lowered function run beside its source |
| `Lir` | LIR code and its analyses: control flow, liveness, lifetimes of slots |
| `LirLower` | the lowering of a MIR function to LIR |
| `Memory2Reg`, `LirPasses` | the passes, each an operator from code to code |
| `PassManager`, `PassManagerProofs` | which analyses the pass manager keeps between the passes of a level; the theorem about it |
| `LirPipeline` | a function under the pass manager, and the result run beside the MIR |
| `RegAlloc` | register allocation of a function: places, rewriting with spills, the run of the result |
| `RegAllocProofs` | the theorems about it |
| `JitMachine` | the processors, as far as generated code uses them, and which instructions call the runtime |
| `JitLower` | calling conventions, and the pass that makes calls explicit |
| `JitX86`, `JitArm`, `JitRiscv` | the code generators |
| `JitLink` | from the code of functions to a program in memory: the layout and patches of the JIT and of the ahead-of-time compiler |
| `JitRun` | a program in LIR and its machine code, side by side |
| `JitPrograms` | the programs for them |
| `MCPrograms` | the programs `MCMirRun` and `MCLirPipeline` share |
| `MC…` | small instances for TLC |

A definition that begins with the comment *Mutant* is a plausible bug; it is
used in none of the specifications. Each property of a passing run is violated
when the definition it mutates is replaced by it (`PROJECT.json`, `mutants`).

### GCSync

`pc[t]` is where the collector of thread `t` is; the nanny of a stuck thread
moves the same `pc`, since it uses the same collector. Each critical section of
`GC_COLLECTOR_COUNT` is one action. A `wait_while` is a membership of `asleep`:
a thread in it runs again only after a `notify_all` of the right condition
variable, and then looks at its condition anew, so a missing notification shows.
`ticket` is the local copy of the count that decides who opens the barrier.
`Runtime(t)` collects the steps the collector takes by itself, `Program(t)` what
the program chooses: register, end, collect, get stuck, return.

### ParallelMark

Memory is a function from slots to addresses; an address is an object and the
place it is at (its home or the copy a thread made). The queue holds slots to
mark and addresses to scan. `mark_ptr` is cut where another thread can
interfere: the load of the header, the compare-and-swap, the copy, the
correction of the slot, the publication of the forward bit, and the spin of the
thread that lost. The first word of a forwarded body is the forwarding pointer
and the corrected slot is written by compare-and-swap, as in the code.

### BigObjects

Addresses and sizes are numbers of cells. A step is one critical section of the
allocator's lock. Marking is one step, which the handshake justifies; the sweep
is not, because it runs after the barrier.

### Blocks

`recyclable`, `unavailable`, `eva` and `toReturn` are the lists of a thread,
`recycleG`, `unavailG` and `freeList` those of the global allocator. A block
holds one object or none; whether an object fits the front block and which
blocks have free lines after a sweep is left open. `pc` follows a thread through
an allocation (which the evacuation of an object uses as well), the two steps of
carving a new block, the two of a push on the free list, and a collection. What
is reachable is `live`; `Forget` is the program. `handed` is a history variable,
which the code does not keep: the blocks an ended thread was about to return,
which its heirs get as blocks in use with the free flag still up, until
something lowers the flag or a sweep returns them.

### LineMap

Cells of eight bytes in lines. `hdr` is what the header cell of an object says:
used, marked, the size; a header stays behind when its object dies, until the
lines are allocated again. `Target(p)` is what conservative marking makes of a
word: the cursor test, the walk back over the lines of a medium object, the
header test. Allocation takes the hole, looks for the next one, or opens an
overflow hole for a medium object; a collection marks the live objects one by
one and `correct_header` rebuilds lines, hole and counts. `Store`
reads the sizes of objects off their headers and what pointers lead to off
`Target`; lines, hole, cursor and marks have no counterpart in `ObjectStore`.

### ModuleGraph and ProjectBuild

Stages of one build. The maps of the code have no order, so wherever the code
iterates over one, any order may come. A layer's modules compile in any
interleaving; each looks at the interfaces, validates its imports against them
or against the file of an earlier build, and publishes an interface whose hash
covers those of its dependencies. An edit changes a source between the moment
its fingerprint is taken and the moment it is compiled.

### MirSource, MirLower, MirRun

A function body is a sequence of statements: `let`, assignment, use, `if`,
`match`, `while`, `for` over a range and over an array, blocks, `break`,
`continue`, `return`, and two operators that merge values (the smaller of two
variables, a conjunction). `MirLower` has an operator per kind of expression,
with the snapshots of bindings, the bodies analysed in advance, and the phi
nodes at heads and exits of loops. `MirSource` brings the next event of the
source to the front; `MirRun` runs both, taking the same branches. Values are 0
and 1: each computation gives 0, but for one that TLC chooses, which gives 1, so
two reads of different computations differ in some run.

### Lir, LirLower, Memory2Reg, LirPasses, PassManager, LirPipeline

The lowered function continues: each temporary gets a slot, phi nodes become
stores, and the passes of the level `debug`, `balanced` or `performance` run in
the order of `pass_registry.rs`. `PassManager` has what the manager does between
them: `kept` are the analyses it holds, `good` those that are about the code as
it is. Each pass takes what is kept, so a missing invalidation shows as a wrong
result or in `stale`. The dominance frontiers that the SSA construction stores,
and mem2reg reads from the manager after the code has been renamed, are about
the blocks of the code: `PerformPass` is told whether a pass has changed the
code and whether it has changed its blocks, and in `LirPipeline` both are read
off the code. Registers that several blocks define (the word a conjunction
leaves in both its parts) get phi nodes and versions in `ConstructSsa`, which
goes down the dominator tree as `rename_block_recursive` does, with what its
version stack leaves behind. Where a pass iterates over a hash set or map
(`up`), two orders are tried, ascending and descending. `ManagerSpec` is the
manager over functions that its passes change as they like; in `LirPipeline` the
same steps (`MakeAnalysis`, `PerformPass`, `TakeFunction`) are joined to the
analyses and the passes themselves. The result runs beside the MIR; the runs
meet at events (calls, tests, the return), and code that makes no event for
longer than it has instructions has strayed.

### RegAlloc

`place` is the register map: fixed places for parameters, result and function
registers, then one lifetime after the other in the order the linear scan meets
them. `code` is the rewritten function: saves, loads and restores of spilled
operands around each instruction, and, on x86-64, which registers an instruction
writes besides its result. `current[v]` are the locations that hold the value
assigned to `v` last.

### Parser, ParseRun

A parsing function is an operator from a position to a tree and the position
behind it, or a failure; the recursion is that of the code. A token is its
kind. `ParseRun` writes a tree down as the documented grammar has it, with
parentheses only where the documented precedence needs them, and compares what
the parser makes of the text with the tree.

### JitLower, JitX86, JitArm, JitRiscv, JitLink, JitRun

`JitLower` gives the lowered code of a function, the generators a sequence of
machine instructions for each instruction of it. `JitLink` puts the functions
into memory, the JIT in whatever order its map of functions has
(`allocate_function_memory`), the ahead-of-time compiler by name behind its
runtime (`Appended`), collects the addresses of labels, and patches jumps,
addresses of labels and calls of the runtime as each target encodes them
(`X86Jump`, `X86ImageJump`, `ArmJump`, `ArmAddress`, `RiscvJump`, …); `code` is
the result. `m` is the machine: registers,
memory, flags, what is left to execute. A step of `JitRun` is one instruction of
the lowered code, executed by the program and by the machine; the program knows
its registers by number and its calls by frame, the machine has one stack. The
machine is scaled down: a byte has three bits, a word 24, an immediate operand
12.

## 3. Runs

| run | question | answer |
|---|---|---|
| `gc_handshake` | Does the handshake stop the world, lose no wakeup, implement `StopTheWorld` and let everyone out? | yes, three threads, a pool worker for each |
| `parallel_mark` | Are objects copied once, everything marked, all slots corrected? Does it end? | yes |
| `big_sweep` | Does the sweep keep every reachable big object? | no: one registered between the barrier and the sweep has no mark |
| `blocks` | Does every block have one holder, is every reachable object kept, is the free flag exact? | yes, but for blocks an ended thread was about to return: two threads that stay, and one that ends, is joined again and inherits its own blocks |
| `line_map` | Is a block a store of objects: do they stay apart, is each found from all its words and no dead one, does only the unreachable go? Are lines and holes exact after a sweep? | yes |
| `project_build` | Are cycles found, layers independent, imports fresh, hashes complete, imports linked, and does the build end? | yes, with one source per module where the whole project is linked |
| `mir_lower` | Does the lowered function read the values and take the branches of its source? | yes, for 1048 programs without shadowing |
| `reg_alloc` | Are live registers apart, and does every operand hold the value assigned last? | yes, for 839 functions |
| `reg_arrive` | Do the machine instructions read that value, too? | no: the register of the result is written before a reloaded second operand is read |
| `lir_pipeline` | Do the passes keep reads and branches, define what is read on every path, and look at analyses of the code as it is? | yes, for 43 programs, twice, at three levels, in two orders of hash sets |
| `jit` | Does the machine code compute what the LIR says, go where it goes, pass arguments, and give the host its registers back? | yes, for 3499 programs on three processors, linked by the JIT in every order or into an image |
| `parse` | Is a program read as the documents say, and is no token passed over? | yes, for 18,986 programs |

The two runs that end in a violation belong to the `findings` of
`PROJECT.json`, which quote the line of the comment or documentation.

### Bounds

* `gc_handshake`: three threads are needed for one that marks last, one that
  sleeps and one that registers or leaves; every counter is bounded by the
  threads, so the state space is finite without a constraint. Deadlock is
  checked.
* `parallel_mark`: two threads with a root each and a global root, three objects
  of two words in three graphs (a cycle all threads enter at the same object, a
  diamond, self references), of which all, two or one move. A third thread adds
  no new pair of interfering steps.
* `big_sweep`: four cells, size one.
* `blocks`: a head room of half of the blocks (`HeadShare = 2`; the code has 40,
  so that a head room appears only with forty blocks, which the ratio brings
  into reach), and three crews: two threads that stay and share two blocks, one
  thread with three blocks, and one with three that may end, be joined again and
  inherit what it left. With two blocks each thread can hold one and both want
  the last one; with three, one thread has blocks in several lists at once when
  it sweeps. `Permutations` of the threads as symmetry. `current` can exceed
  `crew.heap` by one, see the hazard of `alloc_block`. Deadlock is not checked:
  a full heap is a panic in a collection. A second thread beside one that ends
  is left out, since there the properties are false, see below.
* `line_map`: four lines of three cells, sizes two (two objects share a line and
  straddle it), four and seven (medium, over two and three lines). Every subset
  of the objects may survive a collection.
* `project_build`: two modules of the project and two of the standard library,
  up to two sources (`MaxSources`) each;
  eight manifests, among them a dependency named twice, two cycles, a missing
  module and a project that brings its own `std` module; one edit, one import.
* `mir_lower`: all choices of plain, jumping and mixed branches in one loop, and
  a smaller choice for loops in loops, choices in choices and arms with loops.
* `lir_pipeline`: every 40th of those programs, and every ninth of those with
  operators that merge values; once with calls only, once with constants.
* `reg_alloc`: three registers to give away, functions with up to three
  parameters in four shapes: a straight line, a wide one that spills, a loop,
  and a loop with an `if` whose blocks lie behind the loop's exit.
* `jit`: each instruction with every choice of three registers (on x86-64 one of
  them RCX, on each one that calls keep), with and without immediates, loads and
  stores with offsets; and programs with branches, loops, calls with up to
  thirteen arguments (RISC-V: eleven), spilled operands, recursion and calls of
  the runtime. Programs for x86-64 and AArch64 are linked by the JIT, those with
  jumps, calls and memory into an image as well, those for RISC-V into an image
  only, as the code does. With two or three functions the JIT is tried with each
  of their orders; for AArch64 some have half a page of idle code in between, so
  that addresses are in this page, in the next and in the one before. Code
  addresses are not scaled down; an instruction that refers to no label counts
  as four bytes, and the ends of 32-bit offsets are out of reach. The stack has
  1024 cells instead of 65536. What a generator is known to compile wrongly is
  left out by the conditions in `JitPrograms` and listed in section 7. Deadlock
  is not checked: the machine stops when it returns to the host.
* `parse`: every construct inside every other, binary operators three deep, types,
  patterns, declarations and imports; three notations (plain, with the symbols and
  with the words an operator or a separator has), and each program of a smaller
  set with any one token missing. The trees put parentheses around what the
  parser is known to read otherwise, see section 7. `NothingIgnored` does not
  compare brackets, commas, bars and empty lists of imports, which a tree does
  not keep. Deadlock is not checked: a program is read once.

### Fairness

`gc_handshake`: weak fairness of every step the collector takes by itself
(`Runtime`), of a woken `Register`, and strong fairness of `JoinAtSafepoint`: a
thread that keeps running reaches a safepoint, since `auto_gc` is a default
feature and every allocation is one. Programs that neither allocate nor call a
safepoint are excluded by this, as they are by the collector's design. Nothing is
assumed of registering, collecting, or getting stuck. `parallel_mark`: weak
fairness of each thread; `MarkingEnds` is conditional on threads not passing a
job to and fro for ever (`StealingStops`), which crossbeam's deques do not
exclude. `StopTheWorld` has weak fairness of ending a marking phase and of each
sweep, and `ImplementsStopTheWorld` includes it. `project_build`: weak fairness
of the build's own steps; edits owe nothing.

## 4. What the properties say

* **WorldStopped**: if any thread marks, every registered thread is between the
  two barriers. **NoLostWakeup**: whoever sleeps has somebody awake to move.
  **ImplementsStopTheWorld**: with `registered`, `marking` and `unswept` read
  off the variables, the handshake is a stop-the-world collector: no one joins or
  leaves while marking, and a collection starts marking only when all have swept.
  **CollectionsReturn**, **UnstuckReturns**: liveness.
* **EvacuatedOnce**: one copy of an object, and no panic of the compare-and-swap.
  **MarkComplete**: after marking, all that is reachable is marked and at its
  final place. **KeepsItsObject**: a slot never comes to denote another object.
* **ReachableKept**, of big objects.
* **OneHolder**: each carved block is in one list exactly once, as long as no
  thread ends while another uses the free list (`Orderly`).
  **LiveKept**: reachable objects are in blocks in use. **FreeFlagExact**: the
  flag `mark_ptr` trusts is up in exactly the blocks that wait to be used. Both
  speak of threads that end as well, and name what an end breaks: a block in
  `handed` has the flag up though it is in use, and a sweep may free it with an
  object the program reaches. No other block is lost or wrongly flagged, then or
  later.
* **ObjectsFound**, **DeadStayDead**, **LinesCover**, **SweptHolesExact**: what
  one block owes the collector over many cycles, in which headers of dead
  objects stay behind. **ImplementsStore** is what it owes the program:
  an allocation takes cells of no object, nothing moves or changes its size, a
  collection takes only what is not reached, and a pointer leads to the object
  it points into or to nothing.
* **SortExact**, **LayersSound**: the sort ends with a cycle exactly if there is
  one, counting dependencies named twice; the layers partition the plan.
  **ImportsFresh**: no import is checked against an older build. **HashCascades**:
  a hash covers those of all dependencies. **ImportsLinked**: a program that is
  linked defines what was imported. **BuildEnds**: whatever fails.
* **ReadsAgree**, **FlowsAgree** (MIR against source), **ReadsKept**,
  **FlowKept** (LIR after its passes against MIR): data flow and control flow
  survive. **PhiStoresCommute**: the stores of the phi nodes of a block may be
  made one by one. **AnalysesFresh**: the manager can make what a pass requires,
  and no pass sees an analysis of older code or of older blocks.
  **SsaForm**: between the SSA construction and the elimination of phi nodes,
  with the promotion of slots in between, an instruction reads what is defined on
  every path to it, and a register is defined once. What a phi node names is
  excepted, and the second half for functions with unreachable blocks: in both
  the code does otherwise, see section 7.
* **Apart**: registers that live at once have different places.
  **PlacesCurrent**: what is in the place of an operand is the value assigned
  last. **OperandsArrive** (violated): also in the middle of the machine code.
* **RegistersRight**, **MemoryRight**: between two instructions of the lowered
  code the machine holds, in registers and in memory, what the program has
  computed. **ArgumentsArrive**: a function and the runtime find their arguments
  where their conventions say. **GoesOn**: the machine is where the program is.
  **HostServed**: at the end the registers and the stack of the host are what
  they were, and the result is the program's.
* **ReadAsMeant**: the tree the parser builds is the tree that was written.
  **NothingIgnored**: with a token missing a program is refused, or what was
  read, written down again, is the text that was there.

## 5. Proofs

`GCSyncProofs` proves, for every finite set of threads and every pool size,

* `TypeCorrect`: `Spec => []TypeOK`;
* `StopsTheWorld`: `Spec => []WorldStopped`;
* `ImplementsSafety`: `Spec => Abstract!Safe`, the safety part of
  `ImplementsStopTheWorld`;
* `WakeupsArrive`: `Spec => []NoLostWakeup`.

Assumptions: `ThreadsAssumption` (the set of threads is finite) and
`PoolAssumption` (the size of the pool is a number). Neither the size of the pool
nor fairness matters to safety.

None of these is inductive. `WorldStopped` speaks of threads while the code looks
at counters; `HandshakeInv` connects the two: `CountersExact` (the counters of
`GC_COLLECTOR_COUNT` are the cardinalities of the registered and of the arrived
threads), `MarkingHolds` (while `GC_MARKING` is up, all registered threads are in
the barrier or behind it, and each owes a sweep; otherwise no ticket exceeds the
arrivals), `SweepHolds` (`SWEEP_MUTEX` is up until the sweeps are paid off, and
then one thread closes). Each action has a lemma that it preserves the invariant
(`RegisterStep`, `ArriveStep`, …), with lemmas about cardinalities of a set that
gains or loses a thread. The refinement has a lemma per abstract action in
`AbstractStep`. `WakeupsArrive` rests on a second invariant, `SleepersWait`: the
condition each sleeper waits for has not come true, the ticket of a sleeper at
the first barrier is not the count, and the last thread to have arrived there is
still in front of its `notify_all`.

`ParallelMarkProofs` proves, for every finite set of threads, every sequence of
roots, every graph of objects with bodies of at least one word and every choice
of objects that move,

* `OneEvacuation`: `Spec => []EvacuatedOnce`;
* `MarkingCompletes`: `Spec => []MarkComplete`;
* `PointersKeepObjects`: `Spec => KeepsItsObject`;
* `MarkInvariant`: `Spec => []MarkInv`, which they follow from.

`MarkInv` says who copies what (`EvacuationInv`: the thread that has won the
compare-and-swap of an object is the only one between it and the publication of
the forward bit), which places are known (`PlacesInv`), what is true of the
address and the header a thread has loaded and still holds while others go on
(`TaskInv`, `StillTrue`), what the queues hold (`JobsInv`), and that nothing is
forgotten (`NothingForgotten`: a word of a marked object is marked itself, or in
a queue, or in the hands of a thread, or in a copy that is yet to be scanned).
What can be reached is the intersection of all sets that are closed under
pointers and hold the roots, so that completeness needs no induction: the marked
objects are such a set.

`ProjectBuildProofs` proves, for every set of manifests, any number of sources
and any edits made meanwhile,

* `OrderIsExact`: `Spec => []SortExact`, and `LayersInOrder`: `Spec =>
  []LayersSound`;
* `NothingStaleImported`: `Spec => []ImportsFresh`;
* `HashesCascade`: `Spec => []HashCascades`;
* `LinkDefinesImports`: `Spec => []ImportsLinked`;
* `BuildInvariant`: `Spec => []Inv`, which they follow from.

Assumptions: `ModuleGraphAssumption` (finite manifests whose dependencies are
sequences of ids, the entry among the ids) and `BuildAssumption` (the bounds are
numbers). `SortInv` counts: the indegree of a module is the number of its
dependencies, each as often as it is named, that are not yet sorted, and a
module is sorted or queued exactly when that is zero. `PlanInv` says the plan is
closed under dependencies, `LayerInv` that each layer depends on earlier ones,
and the parts of `BuildInv` that layers are compiled in turn and that an
interface tells what this build compiled. A cycle is a set each of whose members
depends on a member: what is left when the sort stops is one, and none can ever
have been sorted (by taking its first member in the order).

`BlocksProofs` proves, for any number of blocks and crews,

* `BlocksHeldOnce`: `Spec => []OneHolder`;
* `LiveBlocksKept`: `Spec => []LiveKept`, and `FreeFlagTrue`: `Spec =>
  []FreeFlagExact`, for threads that end, too;
* `HolderInvariant`: `Spec => []Inv`, which they follow from.

Assumption: `CrewsAssumption` (who may end is one of the crew). The invariant
says that there is a function from the blocks to boxes, a box being a list of a
thread or of the global allocator or a thread's hands, with which every list and
flag agrees and by which no list repeats a block (`Held`). `Kept` says of each
block that its flag is up if it waits to be used (`Waiting`) or is in `handed`,
and that a block that is reached, and not in `handed`, is in one of the lists of
blocks in use (`Used`) and marked when its thread sweeps; so what an ended thread
hands over is the only way for a block to be lost. `Takes` is the one lemma about
a block that passes from a box to the hands of a thread, cited for each of its
four sources. `ListLemmas` has the facts about sequences that lose or gain a
member.

`LineMapProofs` proves, for any length and number of lines and any sizes of
objects that fit a block,

* `ObjectsApart`: `Spec => []NoOverlap`;
* `PointersFindObjects`: `Spec => []ObjectsFound`, and `ReclaimedStaysDead`:
  `Spec => []DeadStayDead`;
* `SurvivorsCovered`: `Spec => []LinesCover`;
* `SweepIsExact`: `Spec => SweptHolesExact`, an action property;
* `BlockIsStore`: `Spec => ImplementsStore`, the refinement of `ObjectStore`;
* `BlockInvariant`: `Spec => []LineInv`, which they follow from.

Assumption: `LineMapAssumption` (lines have cells, blocks have lines, an object
has at least two cells and leaves one free). Of a header that stays behind, the
code knows nothing; `LineInv` says where one can be. `HoleOpen`: the hole ends at
the beginning of a line and none of its lines is used. `StaleBeyond`: a header
that no object has is at or beyond the cursor, in a line that is not used, where
conservative marking does not look. `Whole`: an object is inside the block and
no header is inside an object. `Placed`: all lines of a survivor are used, and
an object allocated since ends before the cursor. `MarksReal`: what a collection
has marked is an object, and its lines are marked. The walk of `correct_header`
over the cells and the two over the lines are recursive functions; a lemma says
what each has computed up to a place (`HeadersCorrected`, `HolesScanned`,
`CountedType`), by induction up to it, which `UpTo` of `ListLemmas` proves from
the least counterexample. TLC's instance suggested that the cursor stays below
the end of the hole after an allocation; that is false for an object that fills
a hole of one line between used ones, which four lines never leave, and the
invariant allows it.

`BlockIsStore` needs two things of the invariant. `Exact`: what `Target` makes of
a word is `Owners`, so that `found` is a function of the objects and every step
that leaves their sizes alone maps to a stutter or to a `Collect`. The lemmas of
the single actions say which those are: an allocation is `Put`, one more
object in cells of none, and the sweep, a mark and an allocation that fails
(which moves the hole and clears headers) have `SizesKept`. `StoreStep` puts
them together, one step per action. No run checks `NoOverlap` by
itself: `ImplementsStore` contains it.

`PassManagerProofs` proves, for any number of functions and whatever the passes
make of their code and of their blocks, except that the SSA construction leaves
the blocks alone (in `LirPipeline` that is computed from the code),

* `AnalysesStayFresh`: `ManagerSpec(level) => []AnalysesFresh` for each of the
  four levels, `fast` among them, which no run compiles at.

Assumption: `PassManagerAssumption` (levels are those of `pass_registry.rs`).
Passes do not drop everything they spoil: the lifetimes and the liveness of a
function are left with the manager by phi elimination, dead code elimination and
even the end of the function (`cleanup_function_analyses` forgets them). That no
pass looks at them is a fact about the lists of passes, `Careful`: in front of
each pass that looks at lifetimes there is one that drops all analyses, with
none in between that takes any. `PassesCareful` reads it off the four lists,
`CarefulTail` says it lasts while the list is worked off, and the invariant
`ManagerInv` adds that the graph and the uses are never kept beyond a change.
The frontiers `mem2reg` takes are about the blocks as they are because it comes
right behind the pass that stores them (`Prepared`): no pass declares them
invalid, and after another function they are still there. A pass put between
`block-layout` and `stack-frame-layout` that asks for lifetimes would break
`Careful`, and the theorem with it.

`RegAllocProofs` proves, for every set of functions, registers and arguments
that satisfies `RegAllocAssumption` (parameters and argument registers do not
repeat, and the registers of the result and of functions to call are different
from each other, from those of arguments and from those to give away),

* `LiveRegistersApart`: `Spec => []Apart`.

`Apart` is not inductive: the allocation of one register looks at registers and
slots in use, not at places. `AllocInv` adds that places are typed, that every
register given to anyone is in `taken` (`Covered`), and that slots are numbered
without gaps (`Bounded`). `MinIsLeast` and `NextSlotIsNew` are about the choice of
a register and of a slot, `ParamPlaces` and `FixedPlaces` about the fixed places,
`OneMore` about one more lifetime.

Only model-checked, because they are out of the prover's reach: liveness and
`ENABLED` (`CollectionsReturn`, `UnstuckReturns`, `MarkingEnds`, `BuildEnds`,
and with them the fair half of `ImplementsStopTheWorld`); what recursive
definitions compute for every input, where they recur over trees and code (MIR
and LIR lowering, the passes, the parser, all with `RECURSIVE` operators: the
properties of `mir_lower` and `parse`, and `ReadsKept`, `FlowKept` and `SsaForm`
of `lir_pipeline`); and the code generators, whose bit operations come from
`Bitwise` (all of `jit`). `PlacesCurrent` is not a theorem: of the functions the
assumptions allow it is false. Lifetimes are intervals from the first to the
last occurrence, stretched over the back edges they meet, which is right for
nested loops; with back edges from 6 to 3 and from 9 to 5 a value can be live
where its interval is not. And a division by an immediate takes R9 and R8 as
temporaries whoever holds them, see section 7. The run has loops that nest, and
parameters few enough to leave both alone. `big_sweep` and `reg_arrive` are
violated.

## 6. Plan

Done: the collector in five modules, the build of a project, the parser, the way
of a function from its source to machine code.

Next, in this order:

1. `CodeCache`, `VMHeap`, `StackManager`: the JIT's managers: sizes add up, blocks
   disjoint, `leave_function` undoes `enter_function`.
2. Escape analysis: the points-to graph and its fixpoint against a run.
3. Effects: the handler stack through push, perform, resume and pop.
4. `Registry`: the counters of `karte-rt` against its records.
5. A composition of `GCSync` and `Blocks`, so that the barrier the latter assumes
   is the former's.

Proofs: every safety property of the runs of the collector, the build, the
pass manager and the register allocation that is true of all the code the
assumptions allow, and needs no induction over it, is proved. Next: the modules
of the list above, each with its invariant.

## 7. Simplifications

* `exit_block` of the C interface, which nothing calls, is left out of `GCSync`.
* `GCSync` has no heap: whether a collection is due is open at every allocation.
* A memory access is one step, and the model is sequentially consistent.
* `Blocks`: an object fills a block; the heap of big objects, `heap_size` and the
  block bitmap are not in it. When the free list's cursor has dropped below -1 by
  several failed pops, that means the same as -1. Marking a block is marking its
  objects. That the copy of an object is itself reached is left to `ParallelMark`.
* `ProjectBuild`: a single file without a manifest is left out; the compilation
  cache is stored but no build reads it back (`DEVELOPMENT_HUB.md:89` describes a
  reuse that nothing does, and its key leaves out the optimisation level,
  `interface.rs:163`); function names are unique in a source; the module
  `KARTE_PRELUDE_PATH` names is one of the standard library.
* `MirLower`: results of expressions, closures that capture variables, structs,
  patterns, effects and reference counting are left out; a value is computed
  anew or read from a variable.
* `LirLower` and the passes: a call stands for every operation on values;
  structs, heap, closures, effect handlers and spill code are left out; what
  `InstructionLowering` does is in `JitLower`; the passes that do nothing to
  these programs (constant folding, effect lowering) are listed in the order of
  the pipeline and change nothing. Of the orders of a hash set or map two are
  taken, in the block layout and the SSA construction, where the result depends
  on it; new registers are numbered in ascending order of the old ones. Program
  1 is compiled by a fresh manager, the others find what the clean-up behind the
  last function leaves.
* `Parser`: spans, messages and the recovery after an error are left out, and so
  are the identifier spellings of `perform`, `resume` and `handle`
  (`expression.rs:1249` on), which the lexer never produces.
* The convention of a target takes the registers of further arguments from the
  machine that compiles: AArch64 code is compiled on AArch64, x86-64 and RISC-V
  code on x86-64.
* `JitLower` and the generators: instructions are records, not bytes; a call of
  the runtime is answered with an arbitrary value and overwrites what its
  convention allows; effects, reference counting and the copies for the
  collector's registers are left out.
* `JitLink`: the protection of pages and the code cache are left out, and so is
  the code of the runtime in front of an image: a call of one of its functions is
  answered as one of the host's is. What `JitPrograms` does not link (global
  variables in the JIT and in AArch64 images, the runtime in AArch64 images,
  functions the images do not have) is modelled, see below.
* `RegAlloc`: memory, flags, immediates and addresses of the stack are left out;
  so are effects, and the copies of arguments that nothing reads. A call keeps
  what is not caller-saved.

### Seen while modelling, in no run

* With fewer pool workers than stuck threads a nanny waits for ever, and everyone
  for it; `safepoint()` of a nanny starts a collection when `should_gc()` holds
  although its comment asks it only to join one (`collector.rs:1569`, `1597`).
* Merging big chunks compares with the size of the wrong chunk
  (`big_obj_allocator.rs:126`).
* An inherited block keeps its free flag, so its objects are not marked, and a
  sweep returns it while the program reaches into it (`handed` in `Blocks`; the
  run `blocks` gets there); the
  lock-free pop of the free list races with pushes of threads that end.
* A function in two sources of a module: linking MIR keeps the last, linking LIR
  the first (`project.rs:591`); sources of a module share one cache key.
* `&&` and `||` evaluate both sides (`expr.rs:357`, `stmt.rs:269`), although the
  test at `karte-tests/src/logical_operators_tests.rs:70` expects a short cut.
* The range of a `for` with control flow in it, a body that changes what the end
  of the range is computed from, and an arm of a `match` that updates a variable
  and breaks lose values (`RangePrograms`, `BoundPrograms`, `ArmPrograms` of
  `MCPrograms` reproduce them in `MirRun`).
* Variables that are declared again inside a branch: the snapshot of bindings
  around it takes the outer one for the inner one (`expr.rs:395`, whose comment
  says inner bindings come first; `ShadowPrograms` reproduces it).

* The phi node at the head of a loop takes, for the edge into the loop, the
  register itself, of which no definition is left (`ssa_construction.rs:639`);
  the elimination of phi nodes copies it. `pipeline_invariants.rs:13` says
  otherwise. Nothing reads the copy before it is overwritten: `ReadsKept` holds.
* A block nothing leads to (behind a `break`) is dominated by itself only, so the
  join it leads to has no dominator either (`ssa_construction.rs:147`): renaming
  stops in front of it, and registers in there are defined twice, against
  `pipeline_invariants.rs:14`. A conjunction is read in the part it is made in,
  so reads stay right (first half of `SsaForm`).
* The versions of a register that had none at the entry of a block are not taken
  off the stack behind it (`ssa_construction.rs:691`), so a sibling may see them,
  depending on the order of a hash map; only inputs of phi nodes nobody reads
  change.

Of the code generators, besides what `JitPrograms` leaves out:

* The result register of an instruction that is also its second operand but not
  its first (x86-64, RISC-V); immediates that do not fit 32 bits, which `as i32`
  cuts; on RISC-V constants whose low 12 bits are 2048 or more.
* x86-64: a shift by a register other than RCX overwrites RCX; `shl` by RAX does
  not move it; `bitnot` of a register from R8 on negates another one;
  `compare_set` of three equal registers uses RCX; a cast from 64 to 32 bits
  keeps all of them; 32-bit accesses with a register from R8 on are 64 bits wide;
  R9 or R8, which may hold a parameter, are temporaries of a division by an
  immediate; the eleventh argument uses R12, the effect stack pointer.
* AArch64: `mvn` is encoded as `orr`, SBFM without its N bit; `mul`, `div`, `mod`
  and comparisons of two immediates are refused, `mod` of an immediate by the
  result register is wrong; offsets of 8- and 32-bit accesses that
  are negative or too large for 12 bits; X15 may
  hold the target of an indirect call while it is its temporary.
* RISC-V: the result register, used as a temporary by the lowering of calls, is
  the first argument register too (`instruction_lowering_pass.rs:1022`); the
  registers of arguments beyond the eighth are those of the machine that
  compiles (`calling_convention.rs:564`), and the twelfth's is the fourth's as
  well; results of the runtime are lost; shifts by an immediate are encoded
  wrongly; there is no `IntCast`; `lw` extends with the sign where the other
  targets do not.
* `shift_right` is arithmetic on AArch64 and logical elsewhere; a division by zero
  is a fault, 0 or −1.
* The result of the lowering is dropped for functions without memory accesses and
  calls, so that a RISC-V or AArch64 function keeps the frame of its caller.

Of the linking of code (`karte-aot/src/compiler.rs`, `jit/code_buffer.rs`):

* An AArch64 `ADRP` is patched wrongly when its target is in another page, and
  calls of the runtime are never patched, since the pattern looked for has a fixed
  length and what is emitted has not.
* Jumps to unknown labels are only warned about by the ahead-of-time compiler;
  the JIT maps RISC-V `Greater` to `BGE` and `LessEqual` to `BLTU`.

Of the parser:

* Text behind an expression without `;` is dropped in script mode
  (`statement.rs:102`); project mode takes a lone expression although
  `docs/LANGUAGE_MODES.md:17` forbids it.
* `-len(x)` is a call of an ordinary function `len`; `len(x).f` and `len(x)[0]`
  are refused; unary operators do not nest except `!` and `~`; `if flag {}` reads
  `flag {}` as a struct literal; `x as T < y` reads `<` as the start of generic
  arguments; `Option<Option<T>>` fails at `>>`.

Of the escape analysis: aliases are lost in copies, stores through pointers,
struct literals and closures are not followed, and identifiers of variables
collide.

## 8. What is not modelled, and why

Lexer and type checker are functions on text and large trees: small instances
would say little, and no two actors meet. So are the text formats of the
intermediate languages. The ahead-of-time compiler shares the code generators
with the JIT; its linking is in `JitLink`, the machine code of its runtimes and
the ELF writer are not modelled.
The language server analyses its document anew on every change. Stack maps and
frame walking depend on LLVM and the machine. System calls and `mmap` are assumed
to work. `karte-gc` and most of `karte-rt` only hand calls on.
