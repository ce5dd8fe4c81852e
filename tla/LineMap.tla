---------------------------- MODULE LineMap ---------------------------
(* The inside of one 32 KB block (src/karte-gc/immix/src/block.rs and    *)
(* block/immix_obj.rs): objects are bumped into holes between used       *)
(* lines, the collector finds an object from any word that may point     *)
(* into it and marks the lines it covers, and correct_header turns the   *)
(* marks into the holes of the next cycle.                               *)
(*                                                                       *)
(* A cell is 8 bytes, the first cell of line 0 is the first one after    *)
(* the three lines of metadata. A cell holds a valid header or not: the  *)
(* contents of bodies and headers that only look valid are left out. The *)
(* caller of alloc zeroes the body (karte-rt/src/ffi.rs); an evacuated   *)
(* object is copied over it.                                             *)
EXTENDS Integers, FiniteSets, FiniteSetsExt

CONSTANTS
    LINE,    \* cells of a line, 16 in the code
    LINES,   \* lines of a block without the metadata, 253 in the code
    Sizes    \* sizes of objects in cells, the header included

ASSUME LineMapAssumption ==
    /\ LINE \in Nat \ {0} /\ LINES \in Nat \ {0}
    /\ \A n \in Sizes : n \in 2 .. LINES * LINE - 1

VARIABLES
    cursor, holeEnd,     \* the hole objects are bumped into
    used, lineMarked,    \* bits 0 and 1 of line_map
    available, holes,    \* available_line_num, hole_num
    hdr,                 \* the header each cell holds
    marked,              \* Block.marked
    open,                \* the block is among recyclable_blocks
    marking,             \* a collection marks
    real,                \* objects allocated and not reclaimed
    live                 \* those the program reaches

hole == <<cursor, holeEnd, available, holes>>
vars == <<hole, used, lineMarked, hdr, marked, open, marking, real, live>>

End == LINES * LINE
Cells == 0 .. End - 1
Lines == 0 .. LINES - 1
LineOf(c) == c \div LINE
AlignUp(c) == ((c + LINE - 1) \div LINE) * LINE

\* A header that is_valid rejects.
NoHeader == [size |-> 0, used |-> FALSE, marked |-> FALSE]
Headers == {NoHeader} \cup [size : Sizes, used : BOOLEAN, marked : BOOLEAN]
Body(o) == o + 1 .. o + hdr[o].size - 1
Clear(h, cells) == [c \in Cells |-> IF c \in cells THEN NoHeader ELSE h[c]]

Init ==
    /\ cursor = 0 /\ holeEnd = End /\ used = {} /\ lineMarked = {}
    /\ available = LINES /\ holes = 1
    /\ hdr = [c \in Cells |-> NoHeader]
    /\ marked = FALSE /\ open = TRUE /\ marking = FALSE /\ real = {} /\ live = {}

-----------------------------------------------------------------------
(* Allocation.                                                           *)

NoHole == [from |-> End, to |-> 0]

\* bump_next_hole: the hole after one that ends at line to.
NextHole(to) ==
    LET unused == {l \in Lines : l >= LineOf(to)} \ used IN
    IF to >= End \/ unused = {} THEN NoHole
    ELSE LET first == Min(unused)
             after == {l \in used : l > first}
         IN [from |-> first * LINE, to |-> Min(after \cup {LINES}) * LINE]

Small(n) == n <= LINE

\* The hole a request finds first, and the one it takes when it does not
\* fit: an object that ends where the hole ends does not fit.
FirstHole == IF cursor >= holeEnd THEN NextHole(holeEnd) ELSE [from |-> cursor, to |-> holeEnd]
Fits(n, h) == h.from + n < h.to
TakenHole(n) ==
    IF FirstHole = NoHole \/ Fits(n, FirstHole) THEN FirstHole ELSE NextHole(FirstHole.to)

\* bump_next_hole zeroes what is left of the hole it leaves.
LeftOver(n) ==
    IF FirstHole = NoHole \/ Fits(n, FirstHole) THEN {} ELSE FirstHole.from .. FirstHole.to - 1

\* Mutant: only the line in which a small object starts is marked.
LinesToMarkOwn(o, n) ==
    IF Small(n) THEN {LineOf(o)}
    ELSE LineOf(o) .. LineOf(o) + (AlignUp(o + n) - AlignUp(o)) \div LINE

\* Mutant: a line the end of a medium object only begins to cover is left out.
LinesToMarkWhole(o, n) ==
    IF Small(n) THEN {LineOf(o)} \cup ({LineOf(o) + 1} \ {LINES})
    ELSE LineOf(o) .. LineOf(o) + (o + n - AlignUp(o)) \div LINE

\* The lines mark_ptr marks for an object of n cells at o: the line of a
\* small one and the next, or the line of a medium one and one more for
\* every line boundary before its end. Index LINES is the byte after
\* line_map.
LinesToMark(o, n) ==
    IF Small(n) THEN {LineOf(o)} \cup ({LineOf(o) + 1} \ {LINES})
    ELSE LineOf(o) .. LineOf(o) + (AlignUp(o + n) - AlignUp(o)) \div LINE

\* Success. During a collection the object is a copy of one that is
\* evacuated, and it is marked with its lines.
AllocAt(n, h, zeroed) ==
    LET at == h.from
        new == [size |-> n, used |-> FALSE, marked |-> marking]
    IN
    /\ cursor' = at + n
    /\ holeEnd' = h.to
    /\ hdr' = [Clear(hdr, zeroed \cup (at .. at + n - 1)) EXCEPT ![at] = new]
    /\ real' = real \cup {at}
    /\ live' = live \cup {at}
    /\ IF marking
       THEN marked' = TRUE /\ lineMarked' = lineMarked \cup LinesToMark(at, n)
       ELSE UNCHANGED <<marked, lineMarked>>
    /\ UNCHANGED <<available, holes, used, open, marking>>

AllocSmall(n) ==
    /\ open /\ Small(n)
    /\ TakenHole(n) # NoHole
    /\ AllocAt(n, TakenHole(n), LeftOver(n))

AllocMedium(n) ==
    /\ open /\ ~Small(n)
    /\ FirstHole # NoHole /\ Fits(n, FirstHole)
    /\ AllocAt(n, FirstHole, {})

\* A medium object that does not fit goes to another block; this one may
\* have moved to its next hole.
AllocFail(n) ==
    /\ open /\ ~Small(n)
    /\ FirstHole # NoHole /\ ~Fits(n, FirstHole)
    /\ cursor' = FirstHole.from
    /\ holeEnd' = FirstHole.to
    /\ UNCHANGED <<available, holes, used, lineMarked, hdr, marked, open, marking, real, live>>

\* Exhausted: the block goes to unavailable_blocks.
AllocExhausted(n) ==
    /\ open
    /\ \/ FirstHole = NoHole
       \/ Small(n) /\ TakenHole(n) = NoHole
    /\ open' = FALSE
    /\ hdr' = Clear(hdr, LeftOver(n))
    /\ UNCHANGED <<hole, used, lineMarked, marked, marking, real, live>>

\* The program drops its last path to an object.
Drop(o) ==
    /\ ~marking /\ o \in live
    /\ live' = live \ {o}
    /\ UNCHANGED <<hole, used, lineMarked, hdr, marked, open, marking, real>>

-----------------------------------------------------------------------
(* A collection.                                                         *)

\* count_holes_and_avai_lines: one pass over the lines from the cursor.
CountLine(count, l) ==
    IF l * LINE < AlignUp(cursor) \/ l \in used THEN [count EXCEPT !.open = FALSE]
    ELSE [open |-> TRUE, lines |-> count.lines + 1,
          holes |-> count.holes + (IF count.open THEN 0 ELSE 1)]
Counts[l \in 0 .. LINES] ==
    IF l = 0 THEN [open |-> FALSE, lines |-> 0, holes |-> 0] ELSE CountLine(Counts[l - 1], l - 1)
Counted == Counts[LINES]

\* correct_cursor, for the block at the front of recyclable_blocks.
StartMark ==
    /\ ~marking
    /\ marking' = TRUE
    /\ IF open
       THEN available' = Counted.lines /\ holes' = Counted.holes
       ELSE UNCHANGED <<available, holes>>
    /\ UNCHANGED <<cursor, holeEnd, used, lineMarked, hdr, marked, open, real, live>>

\* from_unaligned_ptr: back to the nearest valid header, whose body p must
\* be in.
Find(p) ==
    LET before == {c \in 0 .. p - 1 : hdr[c].size > 0} IN
    IF before # {} /\ p \in Body(Max(before)) THEN {Max(before)} ELSE {}

\* Mutant: everything from the cursor on counts as unallocated.
UnallocatedFromCursor(p, o) == p >= cursor

\* "when ptr >= cursor and the space is not used, we should not mark it"
Unallocated(p, o) ==
    /\ p >= cursor
    /\ \/ LineOf(o) \notin used
       \/ cursor % LINE # 0 /\ p < AlignUp(cursor)

\* What mark_ptr marks for a word that points to cell p.
Target(p) == {o \in Find(p) : ~Unallocated(p, o)}

\* mark_ptr on a pointer of the program, or on any word of a stack that
\* looks like one, in a block that is not evacuated.
Mark(p) ==
    /\ marking
    /\ \E o \in Target(p) :
        /\ marked' = TRUE
        /\ hdr' = [hdr EXCEPT ![o].marked = TRUE]
        /\ lineMarked' =
            IF hdr[o].marked THEN lineMarked ELSE lineMarked \cup LinesToMark(o, hdr[o].size)
    /\ UNCHANGED <<hole, used, open, marking, real, live>>

\* Mutant: the headers of dead objects in a marked line stay.
CorrectCellKeepDead(walk, c) ==
    LET h == walk.hdr[c] IN
    IF LineOf(c) \in lineMarked /\ c >= walk.offset /\ h.marked /\ (c < cursor \/ h.used)
    THEN [hdr |-> [walk.hdr EXCEPT ![c] = [size |-> h.size, used |-> TRUE, marked |-> FALSE]],
          offset |-> c + h.size]
    ELSE walk

\* correct_header, the walk over the cells of a marked line: a marked object
\* keeps its header, any other header is cleared.
CorrectCell(walk, c) ==
    LET h == walk.hdr[c] IN
    IF LineOf(c) \notin lineMarked \/ c < walk.offset THEN walk
    ELSE IF h.size > 0 /\ h.marked /\ (c < cursor \/ h.used)
    THEN [hdr |-> [walk.hdr EXCEPT ![c] = [size |-> h.size, used |-> TRUE, marked |-> FALSE]],
          offset |-> c + h.size]
    ELSE [walk EXCEPT !.hdr[c] = NoHeader]
Walk[c \in 0 .. End] ==
    IF c = 0 THEN [hdr |-> hdr, offset |-> 0] ELSE CorrectCell(Walk[c - 1], c - 1)
CorrectedHeaders == Walk[End].hdr

\* Mutant: a used line does not end the hole for the count.
ScanLineNeverClose(scan, l) ==
    IF l \in lineMarked
    THEN [scan EXCEPT !.end = IF scan.cursor < End /\ scan.end = End THEN l * LINE ELSE @]
    ELSE [scan EXCEPT !.open = TRUE,
                      !.holes = IF scan.open THEN @ ELSE @ + 1,
                      !.cursor = IF @ = End THEN l * LINE ELSE @]

\* correct_header, the scan of the lines for holes.
ScanLine(scan, l) ==
    IF l \in lineMarked
    THEN [scan EXCEPT !.open = FALSE,
                      !.end = IF scan.cursor < End /\ scan.end = End THEN l * LINE ELSE @]
    ELSE [scan EXCEPT !.open = TRUE,
                      !.holes = IF scan.open THEN @ ELSE @ + 1,
                      !.cursor = IF @ = End THEN l * LINE ELSE @]
Scan[l \in 0 .. LINES] ==
    IF l = 0 THEN [open |-> FALSE, holes |-> 0, cursor |-> End, end |-> End]
    ELSE ScanLine(Scan[l - 1], l - 1)
Scanned == Scan[LINES]

\* sweep of a marked block, once everything the program reaches is marked.
Sweep ==
    /\ marking /\ marked
    /\ \A o \in live : hdr[o].marked
    /\ used' = lineMarked \cap Lines
    /\ lineMarked' = {}
    /\ hdr' = CorrectedHeaders
    /\ cursor' = Scanned.cursor
    /\ holeEnd' = Scanned.end
    /\ available' = LINES - Cardinality(lineMarked \cap Lines)
    /\ holes' = Scanned.holes
    /\ marked' = FALSE
    /\ open' = (lineMarked \cap Lines # Lines)
    /\ marking' = FALSE
    /\ real' = {o \in real : hdr[o].marked}
    /\ UNCHANGED live

\* A block without a mark is free; get_new_block hands it out again with
\* reset_header, which leaves the old headers where they are.
Reset ==
    /\ marking /\ ~marked /\ live = {}
    /\ cursor' = 0 /\ holeEnd' = End /\ used' = {} /\ lineMarked' = {}
    /\ available' = LINES /\ holes' = 1
    /\ open' = TRUE /\ marking' = FALSE /\ real' = {}
    /\ UNCHANGED <<hdr, marked, live>>

Next ==
    \/ \E n \in Sizes : AllocSmall(n) \/ AllocMedium(n) \/ AllocFail(n) \/ AllocExhausted(n)
    \/ \E o \in Cells : Drop(o)
    \/ StartMark
    \/ \E p \in Cells : Mark(p)
    \/ Sweep
    \/ Reset

Spec == Init /\ [][Next]_vars

-----------------------------------------------------------------------
(* What allocation, marking and sweeping of a block owe each other.  *)

Extent(o) == o .. o + hdr[o].size - 1

\* Every variable of a block has its type.
TypeOK ==
    /\ cursor \in 0 .. End /\ holeEnd \in 0 .. End
    /\ used \subseteq Lines /\ lineMarked \subseteq 0 .. LINES
    /\ available \in 0 .. LINES /\ holes \in 0 .. LINES
    /\ hdr \in [Cells -> Headers]
    /\ {marked, open, marking} \subseteq BOOLEAN
    /\ real \subseteq Cells /\ live \subseteq real

\* The words of two objects are never shared: a hole contains no cell of an
\* object that survived, also after a long series of collections that each
\* moved the cursor and the holes.
NoOverlap ==
    /\ \A o \in real : Extent(o) \subseteq Cells
    /\ \A o1, o2 \in real : o1 # o2 => Extent(o1) \cap Extent(o2) = {}
    /\ cursor < holeEnd => \A o \in real : Extent(o) \cap (cursor .. holeEnd - 1) = {}

\* The collector finds every object from every pointer into it, fresh or
\* old, before and behind the cursor: the walk back from the pointer meets
\* no older header first, and the cursor test lets it through.
ObjectsFound == \A o \in real : \A p \in Body(o) : Target(p) = {o}

\* mark_ptr: "the uninitialized stack space may contain some heap pointers
\* that are previously collected, since they are already dead, we should not
\* mark them". No word whatever makes the collector mark an object that was
\* reclaimed.
DeadStayDead == \A p \in Cells : Target(p) \subseteq real

\* The lines of an object that survived a collection are used: the space
\* beyond the cursor is free of objects exactly where no line is used.
LinesCover == \A o \in real : hdr[o].used => {LineOf(c) : c \in Extent(o)} \subseteq used

\* What evacuation reads after a sweep: hole_num and available_line_num are
\* the number of holes and of their lines, and the cursor stands in the
\* first of them.
HoleStarts == {l \in Lines \ used : l = 0 \/ l - 1 \in used}
HolesExact ==
    /\ holes = Cardinality(HoleStarts)
    /\ available = Cardinality(Lines \ used)
    /\ HoleStarts # {} => cursor = Min(HoleStarts) * LINE
    /\ HoleStarts = {} => cursor = End
SweptHolesExact == [][marking /\ ~marking' => HolesExact']_vars

-----------------------------------------------------------------------
(* The block implements a store of objects.                              *)

Store == INSTANCE ObjectStore WITH
    size <- [o \in real |-> hdr[o].size],
    found <- [p \in Cells |-> Target(p)]

\* Whatever is allocated, marked and swept, the block is a store of objects:
\* memory handed out belongs to nobody, a pointer leads to the object it
\* points into and to no other, objects keep their places and sizes, and a
\* collection takes only what the program does not reach (Block::alloc,
\* from_unaligned_ptr, correct_header).
ImplementsStore == Store!Spec
=======================================================================
