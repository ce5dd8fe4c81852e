---------------------------- MODULE Blocks ----------------------------
(* The life of a 32 KB block of the Immix heap                           *)
(* (src/karte-gc/immix/src/allocator): carved from the heap, owned by a  *)
(* thread's ThreadLocalAllocator, evacuated, swept, kept in reserve,     *)
(* given back to GlobalAllocator, inherited from a thread that left.     *)
(*                                                                       *)
(* A block is all full of one object or empty: what matters is whether   *)
(* the program reaches something in it. Whether an allocation fits the   *)
(* first recyclable block, and which blocks keep free lines, is open.    *)
(* The stop-the-world handshake is that of module GCSync; heap_size,     *)
(* which only decides when a collection is asked for, is left out.       *)
EXTENDS Naturals, Sequences, FiniteSets, SequencesExt, FiniteSetsExt

CONSTANTS
    Threads,
    HeadShare,    \* 1 / EVA_BLOCK_PROPORTION, 40 in the code
    Crews,        \* [threads, leavers, heap]: who is there, who may end, and the
                  \* blocks between heap_start and heap_end
    None

ASSUME CrewsAssumption ==
    \A c \in Crews : c.threads \subseteq Threads /\ c.leavers \subseteq c.threads /\ c.heap \in Nat

VARIABLES
    current,      \* GlobalAllocator.current, in blocks from heap_start
    freeList,     \* free_blocks up to its cursor
    recycleG,     \* GlobalAllocator.recycle_blocks
    unavailG,     \* GlobalAllocator.unavailable_blocks
    recyclable,   \* per thread: recyclable_blocks,
    unavailable,  \*   unavailable_blocks,
    eva,          \*   eva_blocks,
    toReturn,     \*   blocks_to_return
    free,         \* blocks whose free flag is set
    handed,       \* of these, what an ended thread was about to return: other
                  \* threads get them as blocks in use (the code keeps no such set)
    marked,       \* blocks whose marked flag is set
    candidate,    \* blocks whose eva_target flag is set
    live,         \* blocks that hold an object the program reaches
    pc,
    from,         \* the block an evacuated object comes from
    snapshot,     \* the free list as a push loaded its cursor
    crew          \* never changes

globals == <<recycleG, unavailG>>
lists == <<recyclable, unavailable, eva, toReturn>>
flags == <<free, handed, marked, candidate, live>>
vars == <<current, freeList, globals, lists, flags, pc, from, snapshot, crew>>

\* The blocks of a set by address.
Ascending(S) == [i \in 1 .. Cardinality(S) |-> CHOOSE b \in S : Cardinality({c \in S : c <= b}) = i]

Goto(t, where) == pc' = [pc EXCEPT ![t] = where]

Init ==
    /\ crew \in Crews
    /\ current = 0 /\ freeList = <<>>
    /\ recycleG = <<>> /\ unavailG = {}
    /\ recyclable = [t \in Threads |-> <<>>]
    /\ unavailable = [t \in Threads |-> {}]
    /\ eva = [t \in Threads |-> {}]
    /\ toReturn = [t \in Threads |-> {}]
    /\ free = {} /\ handed = {} /\ marked = {} /\ candidate = {} /\ live = {}
    /\ pc = [t \in Threads |-> "out"]
    /\ from = [t \in Threads |-> None]
    /\ snapshot = [t \in Threads |-> <<>>]

-----------------------------------------------------------------------
(* Allocation: normal_alloc for the program and for evacuation.          *)

Allocating(t) == pc[t] \in {"alloc", "evacuate"}

\* Where t goes on when it has what it asked for.
Resume(t) == Goto(t, CASE pc[t] \in {"alloc", "carveAlloc"} -> "run"
                       [] pc[t] \in {"evacuate", "carveEvacuate"} -> "mark"
                       [] pc[t] \in {"refill", "carveRefill"} -> "run")

\* The object is placed in b: a new one, or a copy, which is marked.
Place(t, b) ==
    /\ live' = IF pc[t] \in {"refill", "carveRefill"} THEN live ELSE (live \ {from[t]}) \cup {b}
    /\ marked' = IF pc[t] \in {"evacuate", "carveEvacuate"} THEN marked \cup {b} ELSE marked \ {b}
    /\ from' = [from EXCEPT ![t] = None]
    /\ Resume(t)

StartAlloc(t) ==
    /\ pc[t] = "run"
    /\ Goto(t, "alloc")
    /\ UNCHANGED <<crew, current, freeList, globals, lists, flags, from, snapshot>>

\* While collecting, candidates at the front are put aside.
SetAside(t) ==
    /\ pc[t] = "evacuate" /\ recyclable[t] # <<>> /\ Head(recyclable[t]) \in candidate
    /\ recyclable' = [recyclable EXCEPT ![t] = Tail(@)]
    /\ unavailable' = [unavailable EXCEPT ![t] = @ \cup {Head(recyclable[t])}]
    /\ UNCHANGED <<crew, current, freeList, globals, eva, toReturn, flags, pc, from, snapshot>>

\* Block::alloc answers Exhausted, or the object fits.
FrontUsable(t) ==
    /\ Allocating(t) /\ recyclable[t] # <<>>
    /\ pc[t] = "evacuate" => Head(recyclable[t]) \notin candidate

Exhausted(t) ==
    /\ FrontUsable(t)
    /\ recyclable' = [recyclable EXCEPT ![t] = Tail(@)]
    /\ unavailable' = [unavailable EXCEPT ![t] = @ \cup {Head(recyclable[t])}]
    /\ UNCHANGED <<crew, current, freeList, globals, eva, toReturn, flags, pc, from, snapshot>>

Fits(t) ==
    /\ FrontUsable(t)
    /\ live' = (live \ {from[t]}) \cup {Head(recyclable[t])}
    /\ marked' = IF pc[t] = "evacuate" THEN marked \cup {Head(recyclable[t])} ELSE marked
    /\ from' = [from EXCEPT ![t] = None]
    /\ Resume(t)
    /\ UNCHANGED <<crew, current, freeList, globals, lists, free, handed, candidate, snapshot>>

\* Mutant: the free flag stays up.
TakeBlockStillFree(t, b) ==
    /\ recyclable' = [recyclable EXCEPT ![t] = Append(@, b)]
    /\ free' = free /\ handed' = handed \ {b}
    /\ candidate' = candidate \ {b}
    /\ Place(t, b)

\* A new block, its header reset, is appended to the recyclable blocks.
TakeBlock(t, b) ==
    /\ recyclable' = [recyclable EXCEPT ![t] = Append(@, b)]
    /\ free' = free \ {b} /\ handed' = handed \ {b}
    /\ candidate' = candidate \ {b}
    /\ Place(t, b)

\* get_new_block is called when nothing is recyclable (also by the sweep),
\* and by overflow_alloc when a medium object does not fit the front.
WantsBlock(t) == \/ pc[t] = "refill"
                 \/ Allocating(t) /\ recyclable[t] = <<>>
                 \/ FrontUsable(t)

Collecting(t) == pc[t] \in {"evacuate", "refill"}

\* Its sources in turn: the head room (while collecting), the blocks not
\* yet returned, the free list, and the untouched rest of the heap.
FromHeadRoom(t) ==
    /\ WantsBlock(t) /\ Collecting(t)
    /\ \E b \in eva[t] : eva' = [eva EXCEPT ![t] = @ \ {b}] /\ TakeBlock(t, b)
    /\ UNCHANGED <<crew, current, freeList, globals, unavailable, toReturn, snapshot>>

NoHeadRoom(t) == Collecting(t) => eva[t] = {}

FromToReturn(t) ==
    /\ WantsBlock(t) /\ NoHeadRoom(t) /\ toReturn[t] # {}
    /\ toReturn' = [toReturn EXCEPT ![t] = @ \ {Max(toReturn[t])}]
    /\ TakeBlock(t, Max(toReturn[t]))
    /\ UNCHANGED <<crew, current, freeList, globals, unavailable, eva, snapshot>>

\* Freelist::pop is one fetch_sub; below -1 the cursor means the same.
FromFreeList(t) ==
    /\ WantsBlock(t) /\ NoHeadRoom(t) /\ toReturn[t] = {} /\ freeList # <<>>
    /\ freeList' = Front(freeList)
    /\ TakeBlock(t, Last(freeList))
    /\ UNCHANGED <<crew, current, globals, unavailable, eva, toReturn, snapshot>>

\* alloc_block compares with heap_end, then adds. A full heap is a null, for
\* which the program collects or panics.
CarveTo(t) == CASE pc[t] = "alloc" -> "carveAlloc"
                [] pc[t] = "evacuate" -> "carveEvacuate"
                [] pc[t] = "refill" -> "carveRefill"

CheckHeapEnd(t) ==
    /\ WantsBlock(t) /\ NoHeadRoom(t) /\ toReturn[t] = {} /\ freeList = <<>>
    /\ current + 1 <= crew.heap
    /\ Goto(t, CarveTo(t))
    /\ UNCHANGED <<crew, current, freeList, globals, lists, flags, from, snapshot>>

Carve(t) ==
    /\ pc[t] \in {"carveAlloc", "carveEvacuate", "carveRefill"}
    /\ current' = current + 1
    /\ TakeBlock(t, current + 1)
    /\ UNCHANGED <<crew, freeList, globals, unavailable, eva, toReturn, snapshot>>

OutOfMemory(t) ==
    /\ WantsBlock(t) /\ pc[t] = "alloc" /\ toReturn[t] = {} /\ freeList = <<>>
    /\ current + 1 > crew.heap
    /\ Goto(t, "run")
    /\ UNCHANGED <<crew, current, freeList, globals, lists, flags, from, snapshot>>

\* The program drops its last reference to what is in b.
Forget(b) ==
    /\ b \in live /\ \A t \in Threads : pc[t] \notin {"work", "mark", "evacuate", "carveEvacuate"}
    /\ live' = live \ {b}
    /\ UNCHANGED <<crew, current, freeList, globals, lists, free, handed, marked, candidate, pc, from, snapshot>>

-----------------------------------------------------------------------
(* Threads come and go. Both take GC_COLLECTOR_COUNT.                    *)

InMarking == \E t \in Threads : pc[t] \in {"work", "mark", "evacuate", "carveEvacuate"}
LockFree == \A t \in Threads : pc[t] \notin {"leave", "push"}

Join(t) ==
    /\ t \in crew.threads /\ pc[t] = "out" /\ ~InMarking /\ LockFree
    /\ Goto(t, "run")
    /\ UNCHANGED <<crew, current, freeList, globals, lists, flags, from, snapshot>>

\* Drop: the blocks with objects, and with them those that were about to be
\* returned, go to the global lists; the head room goes to the free list.
Leave(t) ==
    /\ t \in crew.leavers /\ pc[t] = "run" /\ LockFree
    /\ recycleG' = recycleG \o recyclable[t] \o Ascending(toReturn[t])
    /\ unavailG' = unavailG \cup unavailable[t]
    /\ recyclable' = [recyclable EXCEPT ![t] = <<>>]
    /\ unavailable' = [unavailable EXCEPT ![t] = {}]
    /\ toReturn' = [toReturn EXCEPT ![t] = {}]
    /\ handed' = handed \cup toReturn[t]
    /\ Goto(t, "leave")
    /\ UNCHANGED <<crew, current, freeList, eva, free, marked, candidate, live, from, snapshot>>

\* Freelist::push loads the cursor ...
PushLoad(t) ==
    /\ pc[t] = "leave" /\ eva[t] # {}
    /\ snapshot' = [snapshot EXCEPT ![t] = freeList]
    /\ Goto(t, "push")
    /\ UNCHANGED <<crew, current, freeList, globals, lists, flags, from>>

\* ... and stores the one after it, with the block written there.
PushStore(t) ==
    /\ pc[t] = "push"
    /\ \E b \in eva[t] :
         /\ freeList' = Append(snapshot[t], b)
         /\ eva' = [eva EXCEPT ![t] = @ \ {b}]
    /\ snapshot' = [snapshot EXCEPT ![t] = <<>>]
    /\ Goto(t, "leave")
    /\ UNCHANGED <<crew, current, globals, recyclable, unavailable, toReturn, flags, from>>

Left(t) ==
    /\ pc[t] = "leave" /\ eva[t] = {}
    /\ Goto(t, "out")
    /\ UNCHANGED <<crew, current, freeList, globals, lists, flags, from, snapshot>>

-----------------------------------------------------------------------
(* Collection.                                                           *)

\* collect_fast_unwind chooses candidates among the recyclable blocks and
\* waits for the others.
Stop(t) ==
    /\ pc[t] = "run"
    /\ \E chosen \in SUBSET Range(recyclable[t]) :
         candidate' = (candidate \ Range(recyclable[t])) \cup chosen
    /\ Goto(t, "stopped")
    /\ UNCHANGED <<crew, current, freeList, globals, lists, free, handed, marked, live, from, snapshot>>

\* Behind the first barrier, get_more_works inherits what others left.
GetMoreWorks(t) ==
    /\ pc[t] = "stopped"
    /\ \A u \in Threads : pc[u] \in {"out", "stopped", "work", "mark", "evacuate", "carveEvacuate"}
    /\ recyclable' = [recyclable EXCEPT ![t] = @ \o recycleG]
    /\ unavailable' = [unavailable EXCEPT ![t] = @ \cup unavailG]
    /\ candidate' = candidate \ (Range(recycleG) \cup unavailG)
    /\ recycleG' = <<>> /\ unavailG' = {}
    /\ Goto(t, "work")
    /\ UNCHANGED <<crew, current, freeList, eva, toReturn, free, handed, marked, live, from, snapshot>>

\* Mutant: the blocks given back are kept as well.
ReturnPrevFreeBlocksCopies(t) ==
    /\ pc[t] = "work"
    /\ freeList' = freeList \o Ascending(toReturn[t])
    /\ Goto(t, "mark")
    /\ UNCHANGED <<crew, current, globals, lists, flags, from, snapshot>>

\* return_prev_free_blocks, under the write lock of free_list_mtx.
ReturnPrevFreeBlocks(t) ==
    /\ pc[t] = "work"
    /\ freeList' = freeList \o Ascending(toReturn[t])
    /\ toReturn' = [toReturn EXCEPT ![t] = {}]
    /\ Goto(t, "mark")
    /\ UNCHANGED <<crew, current, globals, recyclable, unavailable, eva, flags, from, snapshot>>

\* mark_ptr returns at once for an object in a block whose free flag is set.
Seen(b) == b \in live /\ b \notin free /\ b \notin marked

\* The object stays: no candidate, or pinned.
MarkInPlace(t, b) ==
    /\ pc[t] = "mark" /\ Seen(b) /\ \A u \in Threads : from[u] # b
    /\ marked' = marked \cup {b}
    /\ UNCHANGED <<crew, current, freeList, globals, lists, free, handed, candidate, live, pc, from, snapshot>>

\* The object of a candidate is copied by one thread.
Evacuate(t, b) ==
    /\ pc[t] = "mark" /\ Seen(b) /\ b \in candidate /\ \A u \in Threads : from[u] # b
    /\ from' = [from EXCEPT ![t] = b]
    /\ Goto(t, "evacuate")
    /\ UNCHANGED <<crew, current, freeList, globals, lists, flags, snapshot>>

\* Mutant: the threads do not wait for what is still to be marked.
EndMarkingEarly ==
    /\ \E t \in Threads : pc[t] = "mark"
    /\ \A t \in Threads : pc[t] \in {"out", "mark"}
    /\ pc' = [t \in Threads |-> IF pc[t] = "mark" THEN "sweep" ELSE pc[t]]
    /\ UNCHANGED <<crew, current, freeList, globals, lists, flags, from, snapshot>>

\* The second barrier: all threads are done.
EndMarking ==
    /\ \E t \in Threads : pc[t] = "mark"
    /\ \A t \in Threads : pc[t] \in {"out", "mark"}
    /\ \A b \in live : ~Seen(b)
    /\ pc' = [t \in Threads |-> IF pc[t] = "mark" THEN "sweep" ELSE pc[t]]
    /\ UNCHANGED <<crew, current, freeList, globals, lists, flags, from, snapshot>>

\* The head room is brought to its share of the blocks, out of the freed
\* ones or back to them.
HeadRoom(t, kept, freed, room) ==
    LET size == (Cardinality(kept) + Cardinality(eva[t])) \div HeadShare IN
    /\ room \subseteq eva[t] \cup freed
    /\ IF Cardinality(eva[t]) > size
         THEN room \subseteq eva[t] /\ Cardinality(room) = size
         ELSE eva[t] \subseteq room /\ Cardinality(room) = Min({size, Cardinality(eva[t] \cup freed)})

\* ThreadLocalAllocator::sweep. Without a recyclable block it ends with one
\* of the freed blocks, or goes on to get_new_block.
Sweep(t) ==
    /\ pc[t] = "sweep"
    /\ LET owned == Range(recyclable[t]) \cup unavailable[t]
           kept == owned \cap marked
           freed == owned \ marked
       IN \E open \in SUBSET kept, room \in SUBSET (eva[t] \cup freed) :
            LET rest == (eva[t] \cup freed) \ room
                first == IF open = {} /\ rest # {} THEN {Max(rest)} ELSE {}
            IN  /\ HeadRoom(t, kept, freed, room)
                /\ recyclable' = [recyclable EXCEPT ![t] = Ascending(open \cup first)]
                /\ unavailable' = [unavailable EXCEPT ![t] = kept \ open]
                /\ eva' = [eva EXCEPT ![t] = room]
                /\ toReturn' = [toReturn EXCEPT ![t] = rest \ first]
                /\ free' = (free \cup room \cup rest) \ first
                /\ handed' = handed \ first
                /\ marked' = marked \ owned
                /\ candidate' = candidate \ (kept \cup first)
                /\ Goto(t, IF open \cup first = {} THEN "refill" ELSE "run")
    /\ UNCHANGED <<crew, current, freeList, globals, live, from, snapshot>>

-----------------------------------------------------------------------
Next ==
    \/ \E t \in Threads :
         \/ StartAlloc(t) \/ SetAside(t) \/ Exhausted(t) \/ Fits(t)
         \/ FromHeadRoom(t) \/ FromToReturn(t) \/ FromFreeList(t)
         \/ CheckHeapEnd(t) \/ Carve(t) \/ OutOfMemory(t)
         \/ Join(t) \/ Leave(t) \/ PushLoad(t) \/ PushStore(t) \/ Left(t)
         \/ Stop(t) \/ GetMoreWorks(t) \/ ReturnPrevFreeBlocks(t) \/ Sweep(t)
         \/ \E b \in live : MarkInPlace(t, b) \/ Evacuate(t, b)
    \/ \E b \in live : Forget(b)
    \/ EndMarking

Spec == Init /\ [][Next]_vars

-----------------------------------------------------------------------
(* What the allocators of Blocks guarantee, and what leaving threads *)
(* break.                                                            *)

Lists == {"out", "run", "alloc", "carveAlloc", "leave", "push", "stopped", "work", "mark",
          "evacuate", "carveEvacuate", "sweep", "refill", "carveRefill"}

\* Where a block is held: at a place of a list, or in a set.
Where(s, b) == {i \in DOMAIN s : s[i] = b}
Member(S, b) == {i \in {0} : b \in S}
Places(b) ==
    ({<<"freeList", None>>} \X Where(freeList, b))
    \cup ({<<"recycleG", None>>} \X Where(recycleG, b))
    \cup ({<<"unavailG", None>>} \X Member(unavailG, b))
    \cup (UNION {({<<"recyclable", t>>} \X Where(recyclable[t], b))
                 \cup ({<<"unavailable", t>>} \X Member(unavailable[t], b))
                 \cup ({<<"eva", t>>} \X Member(eva[t], b))
                 \cup ({<<"toReturn", t>>} \X Member(toReturn[t], b)) : t \in Threads})

\* No thread ends while another uses the free list: Freelist::push is not
\* guarded against them.
Orderly == crew.leavers = {} \/ \E t \in Threads : crew.threads = {t}

\* Every block carved from the heap is held exactly once: no two threads
\* allocate in one block, and no block is forgotten for good. Only what the
\* doc of Freelist asks for makes this true: "they only return the block to
\* the global allocator at the beginning of the next GC mark phase. So we
\* can avoid lock completely".
OneHolder == Orderly => \A b \in 1 .. current : Cardinality(Places(b)) = 1

\* The blocks objects may be in.
InUse == (UNION {Range(recyclable[t]) \cup unavailable[t] : t \in Threads})
            \cup Range(recycleG) \cup unavailG

\* sweep: "if a block is not marked, free it". A block the program reaches an
\* object of is always among the blocks in use: it was marked. Nothing keeps
\* an object in a block that a thread, when it ended, was about to return and
\* that was not taken as a free block since.
LiveKept == Orderly => live \ handed \subseteq InUse

\* mark_ptr takes the free flag as proof that nothing in the block is alive:
\* it is up in the blocks that wait to be used, and besides only in those
\* which a thread, when it ended, handed over with its flag up.
FreeFlagExact ==
    Orderly => free = Range(freeList) \cup handed \cup (UNION {eva[t] \cup toReturn[t] : t \in Threads})
=======================================================================
