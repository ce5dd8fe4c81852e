-------------------------- MODULE BigObjects --------------------------
(* Big objects of the Immix collector: the chunks of                     *)
(* allocator/big_obj_allocator.rs, the registry big_objs of              *)
(* allocator/global_allocator.rs, and their sweep, which one thread does *)
(* after mark_fast_unwind has let the other threads go.                  *)
(*                                                                       *)
(* Addresses and sizes are in units of some big object; a size includes  *)
(* the header. Marking is one step: the handshake stops every thread     *)
(* meanwhile. Each access under BigObjAllocator.lock is a step.          *)
EXTENDS Naturals, Sequences, FiniteSets, SequencesExt

CONSTANTS
    Threads,
    Sizes,     \* the sizes asked for
    HeapEnd,   \* heap_end, of a heap that starts at 0
    None       \* no thread, no chunk

VARIABLES
    size,      \* the size field in the header at an address
    unused,    \* BigObjAllocator.unused_chunks
    current,   \* BigObjAllocator.current
    bigObjs,   \* GlobalAllocator.big_objs
    marked,    \* addresses whose header has the mark bit
    held,      \* what the program reaches: address and length of objects
    chunk,     \* the chunk a thread in get_big_obj is about to register
    sweeper,   \* the thread that is to call sweep_big_objs
    todo       \* what sweep_big_objs still has to look at, None outside it

vars == <<size, unused, current, bigObjs, marked, held, chunk, sweeper, todo>>

Init ==
    /\ size = [a \in 0 .. HeapEnd - 1 |-> 0]
    /\ unused = <<>> /\ bigObjs = <<>>
    /\ current = 0
    /\ marked = {} /\ held = {}
    /\ chunk = [t \in Threads |-> None]
    /\ sweeper = None /\ todo = None

-----------------------------------------------------------------------
(* Allocation.                                                           *)

\* The chunk first fit takes, an index into unused, or 0.
FirstFit(n) == SelectInSeq(unused, LAMBDA u : size[u] >= n)

\* get_chunk: a chunk of that size, the end of a larger one, or a new one
\* at the end of the heap. An exhausted heap is a panic and stops here.
GetChunk(t, n) ==
    /\ chunk[t] = None /\ t # sweeper
    /\ LET i == FirstFit(n)  u == unused[i]  rest == size[u] - n IN
         \/ /\ i # 0 /\ rest = 0
            /\ unused' = RemoveAt(unused, i)
            /\ chunk' = [chunk EXCEPT ![t] = u]
            /\ UNCHANGED <<size, current>>
         \/ /\ i # 0 /\ rest # 0
            /\ size' = [size EXCEPT ![u] = rest, ![u + rest] = n]
            /\ chunk' = [chunk EXCEPT ![t] = u + rest]
            /\ UNCHANGED <<unused, current>>
         \/ /\ i = 0 /\ current + n < HeapEnd
            /\ size' = [size EXCEPT ![current] = n]
            /\ chunk' = [chunk EXCEPT ![t] = current]
            /\ current' = current + n
            /\ UNCHANGED unused
    /\ UNCHANGED <<bigObjs, marked, held, sweeper, todo>>

\* The end of get_big_obj, which waits for the lock of big_objs.
Register(t) ==
    /\ chunk[t] # None /\ todo = None
    /\ bigObjs' = Append(bigObjs, chunk[t])
    /\ held' = held \cup {[at |-> chunk[t], length |-> size[chunk[t]]]}
    /\ chunk' = [chunk EXCEPT ![t] = None]
    /\ UNCHANGED <<size, unused, current, marked, sweeper, todo>>

\* The program forgets an object.
Forget(o) ==
    /\ o \in held
    /\ held' = held \ {o}
    /\ UNCHANGED <<size, unused, current, bigObjs, marked, chunk, sweeper, todo>>

-----------------------------------------------------------------------
(* Collection.                                                           *)

\* With every thread at a safepoint: mark, and choose who comes last to
\* the barrier behind marking.
Mark(t) ==
    /\ sweeper = None /\ \A u \in Threads : chunk[u] = None
    /\ marked' = {o.at : o \in held} \cap Range(bigObjs)
    /\ sweeper' = t
    /\ UNCHANGED <<size, unused, current, bigObjs, held, chunk, todo>>

\* sweep_big_objs takes the lock of big_objs; the other threads run again.
SweepBegin ==
    /\ sweeper # None /\ todo = None
    /\ todo' = bigObjs
    /\ bigObjs' = <<>>
    /\ UNCHANGED <<size, unused, current, marked, held, chunk, sweeper>>

\* return_chunk: obj is appended to the chunk that ends where it begins, or
\* the chunk that begins where it ends is appended to it. The loop goes over
\* the positions of the list while it changes the list.
Merge(acc, i, obj, n) ==
    LET u == acc.list[i] IN
    IF u = obj + n
      THEN [list |-> Append(RemoveAt(acc.list, i), obj),
            size |-> [acc.size EXCEPT ![obj] = @ + acc.size[u]], merged |-> TRUE]
    ELSE IF u + n = obj
      THEN [acc EXCEPT !.size[u] = @ + n, !.merged = TRUE]
    ELSE acc

ReturnChunk(obj) ==
    LET end == FoldLeftDomain(LAMBDA acc, i : Merge(acc, i, obj, size[obj]),
                              [list |-> unused, size |-> size, merged |-> FALSE],
                              unused)
    IN  /\ size' = end.size
        /\ unused' = IF end.merged THEN end.list ELSE Append(end.list, obj)

\* One object of sweep_big_objs: kept and unmarked, or given back.
SweepOne ==
    /\ todo # None /\ todo # <<>>
    /\ IF Head(todo) \in marked
         THEN bigObjs' = Append(bigObjs, Head(todo)) /\ UNCHANGED <<size, unused>>
         ELSE ReturnChunk(Head(todo)) /\ UNCHANGED bigObjs
    /\ marked' = marked \ {Head(todo)}
    /\ todo' = Tail(todo)
    /\ UNCHANGED <<current, held, chunk, sweeper>>

SweepEnd ==
    /\ todo = <<>>
    /\ sweeper' = None /\ todo' = None
    /\ UNCHANGED <<size, unused, current, bigObjs, marked, held, chunk>>

-----------------------------------------------------------------------
Next ==
    \/ \E t \in Threads : (\E n \in Sizes : GetChunk(t, n)) \/ Register(t) \/ Mark(t)
    \/ \E o \in held : Forget(o)
    \/ SweepBegin \/ SweepOne \/ SweepEnd

Spec == Init /\ [][Next]_vars

-----------------------------------------------------------------------
(* What the program expects of BigObjects.                           *)

\* The objects sweep_big_objs has in its hands or in the registry.
Registered == Range(bigObjs) \cup (IF todo = None THEN {} ELSE Range(todo))

\* Collector::sweep: "since we did synchronization in mark, we don't need to
\* do synchronization again in sweep". What the program reaches is never
\* given back: it stays in the registry of big objects.
ReachableKept == \A o \in held : o.at \in Registered
=======================================================================
