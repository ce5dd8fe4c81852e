------------------------- MODULE LineMapProofs ------------------------
(* Proofs about LineMap, for any size of lines, blocks and objects.      *)
EXTENDS LineMap, ListLemmas

USE LineMapAssumption

-----------------------------------------------------------------------
(* Lines and cells.                                                      *)

\* Line l starts at cell Start(l).
Start(l) == l * LINE

\* A cell is in the line that starts last before it.
LEMMA CellInLine ==
    ASSUME NEW c \in Nat
    PROVE  LineOf(c) \in Nat /\ Start(LineOf(c)) <= c /\ c < Start(LineOf(c)) + LINE
BY DEF LineOf, Start

\* Lines follow one another.
LEMMA LineStarts ==
    ASSUME NEW l \in Nat
    PROVE  /\ Start(l) \in Nat /\ Start(l + 1) = Start(l) + LINE /\ Start(0) = 0
           /\ \A m \in Nat : l < m => Start(l) + LINE <= Start(m)
<1>1. Start(l) \in Nat /\ Start(l + 1) = Start(l) + LINE /\ Start(0) = 0
  BY DEF Start
<1>2. ASSUME NEW m \in Nat, l < m PROVE Start(l) + LINE <= Start(m)
  <2>1. PICK d \in Nat : m = l + 1 + d
    <3>1. m - l - 1 \in Nat /\ m = l + 1 + (m - l - 1)
      BY <1>2
    <3> QED  BY <3>1
  <2>2. Start(m) = l * LINE + LINE + d * LINE /\ d * LINE >= 0
    BY <2>1 DEF Start
  <2> QED  BY <2>2 DEF Start
<1> QED  BY <1>1, <1>2


LEMMA InLine ==
    ASSUME NEW c \in Nat, NEW l \in Nat
    PROVE  /\ Start(l) <= c /\ c < Start(l) + LINE => LineOf(c) = l
           /\ c < Start(l) <=> LineOf(c) < l
<1> DEFINE k == LineOf(c)
<1>1. k \in Nat /\ Start(k) <= c /\ c < Start(k) + LINE
  BY CellInLine
<1>2. /\ Start(l) \in Nat /\ Start(k) \in Nat
      /\ l < k => Start(l) + LINE <= Start(k)
      /\ k < l => Start(k) + LINE <= Start(l)
  <2> HIDE DEF k
  <2> QED  BY <1>1, LineStarts
<1> HIDE DEF k
<1>3. Start(l) <= c /\ c < Start(l) + LINE => k = l
  BY <1>1, <1>2
<1>4. c < Start(l) <=> k < l
  <2>1. CASE k < l
    BY <2>1, <1>1, <1>2
  <2>2. CASE k = l
    BY <2>2, <1>1, <1>2
  <2>3. CASE l < k
    BY <2>3, <1>1, <1>2
  <2> QED  BY <2>1, <2>2, <2>3, <1>1
<1> QED  BY <1>3, <1>4 DEF k

LEMMA LineOrder ==
    ASSUME NEW c \in Nat, NEW d \in Nat, c <= d
    PROVE  LineOf(c) <= LineOf(d)
<1>1. LineOf(c) \in Nat /\ LineOf(d) \in Nat
  BY CellInLine
<1>2. ~(d < Start(LineOf(c)))
  <2>1. Start(LineOf(c)) <= c /\ Start(LineOf(c)) \in Nat
    BY <1>1, CellInLine, LineStarts
  <2> QED  BY <2>1
<1>3. ~(LineOf(d) < LineOf(c))
  BY <1>1, <1>2, InLine
<1> QED  BY <1>1, <1>3

LEMMA StartIsInLine ==
    ASSUME NEW l \in Nat
    PROVE  Start(l) \in Nat /\ LineOf(Start(l)) = l
<1>1. Start(l) \in Nat
  BY LineStarts
<1> QED  BY <1>1, InLine

LEMMA Block ==
    /\ End \in Nat /\ End = Start(LINES) /\ LineOf(End) = LINES
    /\ Cells = {c \in Nat : c < End} /\ Lines = {l \in Nat : l < LINES}
    /\ \A c \in Cells : LineOf(c) \in Lines
    /\ \A l \in Lines : Start(l) \in Cells /\ Start(l + 1) <= End
<1>1. End = Start(LINES)
  BY DEF End, Start
<1>2. End \in Nat /\ LineOf(End) = LINES
  BY <1>1, StartIsInLine
<1>3. Cells = {c \in Nat : c < End} /\ Lines = {l \in Nat : l < LINES}
  BY <1>2 DEF Cells, Lines
<1>4. ASSUME NEW c \in Cells PROVE LineOf(c) \in Lines
  BY <1>1, <1>3, CellInLine, InLine
<1>5. ASSUME NEW l \in Lines PROVE Start(l) \in Cells /\ Start(l + 1) <= End
  <2>1. Start(l) \in Nat /\ Start(l + 1) = Start(l) + LINE /\ Start(l) + LINE <= Start(LINES)
    BY <1>3, LineStarts
  <2> QED  BY <2>1, <1>1, <1>2, <1>3
<1> QED  BY <1>1, <1>2, <1>3, <1>4, <1>5

LEMMA TwoLines ==
    ASSUME NEW l \in Nat
    PROVE  /\ Start(l) \in Nat /\ Start(l + 1) = Start(l) + LINE
           /\ Start(l + 1 + 1) = Start(l + 1) + LINE
<1>1. l + 1 \in Nat
  OBVIOUS
<1>2. Start(l) \in Nat /\ Start(l + 1) = Start(l) + LINE
  BY LineStarts
<1>3. Start(l + 1 + 1) = Start(l + 1) + LINE
  BY <1>1, LineStarts
<1> QED  BY <1>2, <1>3

\* AlignUp is the first start of a line that is not before a cell.
LEMMA AlignedUp ==
    ASSUME NEW c \in Nat
    PROVE  \E l \in Nat : /\ AlignUp(c) = Start(l)
                          /\ c <= Start(l) /\ Start(l) < c + LINE
                          /\ LineOf(c) <= l /\ l <= LineOf(c) + 1
<1> DEFINE d == c + LINE - 1
           l == LineOf(d)
<1>1. d \in Nat /\ c <= d
  OBVIOUS
<1>2. AlignUp(c) = Start(l)
  BY DEF AlignUp, Start, LineOf
<1>3. l \in Nat /\ Start(l) <= d /\ d < Start(l) + LINE /\ Start(l) \in Nat
  <2> HIDE DEF d
  <2> QED  BY <1>1, CellInLine, LineStarts
<1>4. c <= Start(l) /\ Start(l) < c + LINE
  <2> HIDE DEF l
  <2> QED  BY <1>3
<1>5. LineOf(c) \in Nat /\ c < Start(LineOf(c)) + LINE /\ Start(LineOf(c) + 1) = Start(LineOf(c)) + LINE
      /\ Start(LineOf(c) + 1 + 1) = Start(LineOf(c)) + LINE + LINE /\ Start(LineOf(c)) \in Nat
  BY CellInLine, TwoLines
<1>6. LineOf(c) <= l
  <2> HIDE DEF d
  <2> QED  BY <1>1, LineOrder
<1>7. d < Start(LineOf(c) + 1 + 1)
  BY <1>5
<1>8. l < LineOf(c) + 1 + 1
  <2> HIDE DEF d
  <2> QED  BY <1>1, <1>5, <1>7, InLine
<1> HIDE DEF l
<1>9. l <= LineOf(c) + 1
  BY <1>3, <1>5, <1>8
<1> QED  BY <1>2, <1>3, <1>4, <1>6, <1>9

-----------------------------------------------------------------------
(* Marking a line.                                                       *)

\* mark_ptr marks every line an object covers, and never more than the
\* byte after line_map.
LEMMA MarkedLines ==
    ASSUME NEW o \in Nat, NEW n \in Nat, 0 < n, o + n <= End
    PROVE  /\ LineOf(o) \in LinesToMark(o, n)
           /\ \A c \in o .. o + n - 1 : LineOf(c) \in LinesToMark(o, n)
           /\ LinesToMark(o, n) \subseteq 0 .. LINES
<1> DEFINE k == LineOf(o)
<1>1. k \in Lines /\ k \in Nat /\ o < Start(k) + LINE /\ Start(k) <= o
  BY Block, CellInLine
<1>2. ASSUME NEW c \in o .. o + n - 1
      PROVE  c \in Nat /\ LineOf(c) \in Nat /\ k <= LineOf(c) /\ LineOf(c) < LINES
             /\ Start(LineOf(c)) <= c /\ Start(LineOf(c)) \in Nat
  <2>1. c \in Nat /\ o <= c /\ c < End
    BY Block
  <2> QED  BY <2>1, LineOrder, CellInLine, Block, LineStarts
<1>3. CASE Small(n)
  <2>1. n <= LINE
    BY <1>3 DEF Small
  <2>2. ASSUME NEW c \in o .. o + n - 1 PROVE LineOf(c) \in {k} \cup ({k + 1} \ {LINES})
    <3>1. Start(k) \in Nat /\ Start(k + 1) = Start(k) + LINE /\ Start(k + 1 + 1) = Start(k + 1) + LINE
      BY <1>1, TwoLines
    <3>2. c \in Nat /\ c < Start(k + 1 + 1)
      BY <1>1, <1>2, <2>1, <3>1
    <3>3. LineOf(c) < k + 1 + 1
      BY <1>1, <3>2, InLine
    <3> QED  BY <1>1, <1>2, <3>3
  <2>3. LinesToMark(o, n) = {k} \cup ({k + 1} \ {LINES})
    BY <1>3 DEF LinesToMark
  <2> HIDE DEF k
  <2>4. k \in 0 .. LINES /\ (k + 1) \in 0 .. LINES
    BY <1>1, Block
  <2> QED  BY <2>2, <2>3, <2>4 DEF k
<1>4. CASE ~Small(n)
  <2>1. LINE < n
    BY <1>4 DEF Small
  <2>2. PICK a \in Nat : AlignUp(o) = Start(a) /\ Start(a) < o + LINE /\ k <= a /\ a <= k + 1
    BY AlignedUp
  <2>3. PICK b \in Nat : AlignUp(o + n) = Start(b) /\ o + n <= Start(b) /\ Start(b) < o + n + LINE
    <3>1. o + n \in Nat
      OBVIOUS
    <3> HIDE DEF k
    <3> QED  BY <3>1, AlignedUp
  <2>4. Start(a) \in Nat /\ Start(b) \in Nat /\ (b < a => Start(b) + LINE <= Start(a))
    BY LineStarts
  <2>5. a <= b
    BY <2>1, <2>2, <2>3, <2>4
  <2>6. (AlignUp(o + n) - AlignUp(o)) \div LINE = b - a
    <3>1. b - a \in Nat
      BY <2>5
    <3>2. Start(b) - Start(a) = Start(b - a)
      BY <2>5 DEF Start
    <3>3. LineOf(Start(b - a)) = b - a
      BY <3>1, StartIsInLine
    <3> QED  BY <2>2, <2>3, <3>2, <3>3 DEF LineOf
  <2>7. LinesToMark(o, n) = k .. k + (b - a)
    BY <1>4, <2>6 DEF LinesToMark
  <2>8. ASSUME NEW c \in o .. o + n - 1 PROVE LineOf(c) \in k .. k + (b - a)
    <3>1. c < Start(b) /\ c \in Nat
      BY <1>2, <2>3, <2>4
    <3>2. LineOf(c) < b
      BY <3>1, InLine
    <3> QED  BY <1>1, <1>2, <2>2, <2>5, <3>2
  <2>9. b <= LINES
    <3>1. Start(b) < Start(LINES) + LINE /\ Start(LINES) \in Nat /\ LINES \in Nat
      BY <2>3, <2>4, Block
    <3>2. LINES < b => Start(LINES) + LINE <= Start(b)
      BY LineStarts
    <3> QED  BY <3>1, <3>2, <2>4
  <2> QED  BY <1>1, <2>2, <2>5, <2>7, <2>8, <2>9
<1> QED  BY <1>3, <1>4

-----------------------------------------------------------------------
(* The invariant.                                                        *)

\* The hole ends where a line ends, and no line it has a cell in is used.
HoleOpen ==
    /\ cursor <= holeEnd
    /\ \E l \in Nat : holeEnd = Start(l)
    /\ \A c \in Cells : cursor <= c /\ c < holeEnd => LineOf(c) \notin used

\* A header that is left of an object that was reclaimed is beyond the
\* cursor, in a line that is not used.
StaleBeyond == \A c \in Cells \ real : hdr[c].size > 0 => cursor <= c /\ LineOf(c) \notin used

\* An object is inside the block, and there is no header inside it.
Whole ==
    \A o \in real : /\ hdr[o].size > 0
                    /\ o + hdr[o].size <= End
                    /\ \A c \in Body(o) : hdr[c].size = 0

\* An object that survived a collection covers used lines, any other one
\* is before the cursor.
Placed ==
    \A o \in real : IF hdr[o].used THEN \A c \in Extent(o) : LineOf(c) \in used
                                   ELSE o + hdr[o].size <= cursor

\* Only objects are marked, with their lines, and only while the collector
\* marks.
MarksReal ==
    \A c \in Cells : hdr[c].marked =>
        /\ c \in real /\ marking /\ marked
        /\ LinesToMark(c, hdr[c].size) \subseteq lineMarked

LineInv == TypeOK /\ HoleOpen /\ StaleBeyond /\ Whole /\ Placed /\ MarksReal

\* What a step does to the objects: one is put into cells nobody owns, or
\* those that stay keep their sizes.
Put(o, n) ==
    /\ \A c \in o .. o + n - 1 : c \in Cells /\ \A a \in real : c \notin Extent(a)
    /\ o \in Cells /\ real' = real \cup {o} /\ live' = live \cup {o}
    /\ hdr'[o].size = n
    /\ \A a \in real : a # o /\ hdr'[a].size = hdr[a].size
SizesKept == \A o \in real' : o \in real /\ hdr'[o].size = hdr[o].size

LEMMA Empty == NoHeader \in Headers /\ NoHeader.size = 0 /\ ~NoHeader.used /\ ~NoHeader.marked
BY DEF NoHeader, Headers

LEMMA HeaderTypes ==
    ASSUME NEW h \in Headers
    PROVE  /\ h.size \in Nat /\ h.used \in BOOLEAN /\ h.marked \in BOOLEAN
           /\ h.size > 0 => h.size \in Sizes
           /\ h.size = 0 => h = NoHeader
           /\ h.marked => h.size > 0
           /\ NoHeader \in Headers /\ NoHeader.size = 0 /\ NoHeader.marked = FALSE
<1>1. NoHeader.size = 0 /\ NoHeader.marked = FALSE /\ NoHeader.used = FALSE /\ NoHeader \in Headers
  BY DEF NoHeader, Headers
<1>2. \A n \in Sizes : n \in Nat /\ n >= 2
  OBVIOUS
<1>3. CASE h = NoHeader
  <2>1. h.size = 0 /\ h.used = FALSE /\ h.marked = FALSE
    BY <1>1, <1>3
  <2>2. ~h.marked /\ h.used \in BOOLEAN /\ h.marked \in BOOLEAN
    BY <2>1
  <2> QED  BY <1>1, <1>3, <2>1, <2>2
<1>4. CASE h \in [size : Sizes, used : BOOLEAN, marked : BOOLEAN]
  BY <1>1, <1>2, <1>4
<1> QED  BY <1>3, <1>4 DEF Headers

\* Clearing headers.
LEMMA Cleared ==
    ASSUME NEW h \in [Cells -> Headers], NEW zeroed
    PROVE  /\ Clear(h, zeroed) \in [Cells -> Headers]
           /\ \A c \in Cells : Clear(h, zeroed)[c] = IF c \in zeroed THEN NoHeader ELSE h[c]
<1>1. NoHeader \in Headers
  BY DEF Headers
<1> QED  BY <1>1 DEF Clear

LEMMA InitKeeps == ASSUME Init PROVE LineInv
<1>1. End \in Nat /\ End = Start(LINES) /\ LINES \in Nat
  BY Block
<1>2. NoHeader \in Headers /\ NoHeader.size = 0 /\ NoHeader.marked = FALSE
  BY DEF NoHeader, Headers
<1>3. hdr \in [Cells -> Headers] /\ \A c \in Cells : hdr[c] = NoHeader
  BY <1>2 DEF Init
<1>4. TypeOK
  <2>1. LINES \in 0 .. LINES /\ 1 \in 0 .. LINES /\ 0 \in 0 .. End /\ End \in 0 .. End
    BY <1>1
  <2> QED  BY <1>3, <2>1 DEF Init, TypeOK
<1>5. HoleOpen /\ StaleBeyond
  BY <1>1, <1>2, <1>3 DEF Init, HoleOpen, StaleBeyond
<1>6. Whole /\ Placed /\ MarksReal
  BY <1>2, <1>3 DEF Init, Whole, Placed, MarksReal
<1> QED  BY <1>4, <1>5, <1>6 DEF LineInv

-----------------------------------------------------------------------
(* Holes.                                                                *)

\* A hole an object may be put into: it ends where a line ends, its cells
\* are in unused lines, and what lies between the cursor and the hole is
\* in used lines or among the cells that are zeroed.
Usable(h, zeroed) ==
    /\ cursor <= h.from /\ h.from < h.to /\ h.to <= End
    /\ h.from \in Nat /\ \E l \in Nat : h.to = Start(l)
    /\ \A c \in Cells : h.from <= c /\ c < h.to => LineOf(c) \notin used
    /\ \A c \in Cells : cursor <= c /\ c < h.from /\ LineOf(c) \notin used => c \in zeroed

\* bump_next_hole finds a hole of whole unused lines, and passes used lines
\* only.
LEMMA NextHoleFound ==
    ASSUME NEW k \in Nat, used \subseteq Lines, NextHole(Start(k)) # NoHole
    PROVE  LET h == NextHole(Start(k)) IN
           /\ Start(k) <= h.from /\ h.from + LINE <= h.to /\ h.to <= End
           /\ h.from \in Nat /\ \E l \in Nat : h.to = Start(l)
           /\ \A c \in Cells : h.from <= c /\ c < h.to => LineOf(c) \notin used
           /\ \A c \in Cells : Start(k) <= c /\ c < h.from => LineOf(c) \in used
<1> DEFINE h == NextHole(Start(k))
           unused == {l \in Lines : l >= LineOf(Start(k))} \ used
           first == Min(unused)
           after == {l \in used : l > first}
           last == Min(after \cup {LINES})
<1>1. LineOf(Start(k)) = k
  BY StartIsInLine
<1>2. unused # {} /\ h = [from |-> Start(first), to |-> Start(last)]
  BY DEF NextHole, Start
<1>3. Lines \subseteq Nat /\ LINES \in Nat /\ \A l \in Lines : l < LINES
  BY Block
<1>4. first \in unused /\ \A l \in unused : first <= l
  <2>1. unused \subseteq Nat
    BY <1>3
  <2> HIDE DEF unused
  <2> QED  BY <1>2, <2>1, MinIsLeast
<1> HIDE DEF first
<1>5. first \in Lines /\ first \notin used /\ k <= first /\ first \in Nat
  BY <1>1, <1>3, <1>4
<1>6. \A l \in Lines : k <= l /\ l < first => l \in used
  <2> SUFFICES ASSUME NEW l \in Lines, k <= l, l < first, l \notin used PROVE FALSE
    OBVIOUS
  <2>1. l \in unused
    BY <1>1, <1>3
  <2> QED  BY <1>3, <1>4, <1>5, <2>1
<1>7. last \in after \cup {LINES} /\ \A l \in after \cup {LINES} : last <= l
  <2>1. after \cup {LINES} \subseteq Nat /\ after \cup {LINES} # {}
    BY <1>3
  <2> HIDE DEF after
  <2> QED  BY <2>1, MinIsLeast
<1> HIDE DEF last
<1>8. last \in Nat /\ first < last /\ last <= LINES
  <2>1. \A l \in after : l \in Nat /\ first < l /\ l < LINES
    BY <1>3
  <2> HIDE DEF after
  <2> QED  BY <1>3, <1>5, <1>7, <2>1
<1>9. \A l \in Lines : first <= l /\ l < last => l \notin used
  <2> SUFFICES ASSUME NEW l \in Lines, first <= l, l < last, l \in used PROVE FALSE
    OBVIOUS
  <2>1. l \in after
    BY <1>3, <1>5
  <2>2. last <= l /\ l \in Nat
    BY <1>3, <1>7, <2>1
  <2> QED  BY <1>8, <2>2
<1> HIDE DEF unused, after
<1>10. h.from = Start(first) /\ h.to = Start(last)
  BY <1>2
<1>11. Start(first) \in Nat /\ Start(last) \in Nat /\ Start(first) + LINE <= Start(last)
  BY <1>5, <1>8, LineStarts
<1>12. Start(last) <= End
  <2>1. CASE last = LINES
    BY <2>1, Block
  <2>2. CASE last < LINES
    <3>1. Start(last) + LINE <= Start(LINES)
      BY <1>3, <1>8, <2>2, LineStarts
    <3> QED  BY <1>11, <3>1, Block
  <2> QED  BY <1>3, <1>8, <2>1, <2>2
<1>13. Start(k) <= Start(first)
  <2>1. CASE k = first
    BY <1>11, <2>1
  <2>2. CASE k < first
    <3>1. Start(k) \in Nat /\ Start(k) + LINE <= Start(first)
      BY <1>5, <2>2, LineStarts
    <3> QED  BY <1>11, <3>1
  <2> QED  BY <1>5, <2>1, <2>2
<1>14. ASSUME NEW c \in Cells
       PROVE  /\ Start(first) <= c /\ c < Start(last) => LineOf(c) \notin used
              /\ Start(k) <= c /\ c < Start(first) => LineOf(c) \in used
  <2>1. c \in Nat /\ LineOf(c) \in Lines /\ LineOf(c) \in Nat
    BY <1>3, Block
  <2>2. \A l \in Nat : c < Start(l) <=> LineOf(c) < l
    BY <2>1, InLine
  <2>3. \A l \in Nat : Start(l) \in Nat
    BY LineStarts
  <2>4. \A l \in Nat : Start(l) <= c <=> l <= LineOf(c)
    BY <2>1, <2>2, <2>3
  <2>5. Start(first) <= c /\ c < Start(last) => LineOf(c) \notin used
    BY <1>5, <1>8, <1>9, <2>1, <2>2, <2>4
  <2>6. Start(k) <= c /\ c < Start(first) => LineOf(c) \in used
    BY <1>5, <1>6, <2>1, <2>2, <2>4
  <2> QED  BY <2>5, <2>6
<1> HIDE DEF h
<1> QED  BY <1>8, <1>10, <1>11, <1>12, <1>13, <1>14 DEF h

LEMMA Numbers ==
    ASSUME TypeOK
    PROVE  /\ cursor \in Nat /\ holeEnd \in Nat /\ cursor <= End /\ holeEnd <= End /\ End \in Nat
           /\ \A c \in Cells : c \in Nat /\ c < End
           /\ used \subseteq Lines
BY Block DEF TypeOK

LEMMA FirstHoleUsable ==
    ASSUME LineInv, FirstHole # NoHole
    PROVE  Usable(FirstHole, {})
<1>1. /\ cursor \in Nat /\ holeEnd \in Nat /\ holeEnd <= End /\ cursor <= holeEnd
      /\ used \subseteq Lines
  BY Block DEF LineInv, TypeOK, HoleOpen
<1>2. PICK k \in Nat : holeEnd = Start(k)
  BY DEF LineInv, HoleOpen
<1>3. \A c \in Cells : c \in Nat /\ (cursor <= c /\ c < holeEnd => LineOf(c) \notin used)
  BY Block DEF LineInv, HoleOpen
<1>4. CASE cursor >= holeEnd
  <2>1. FirstHole = NextHole(Start(k))
    BY <1>2, <1>4 DEF FirstHole
  <2> DEFINE h == NextHole(Start(k))
  <2>2. /\ Start(k) <= h.from /\ h.from + LINE <= h.to /\ h.to <= End
        /\ h.from \in Nat /\ \E l \in Nat : h.to = Start(l)
        /\ \A c \in Cells : h.from <= c /\ c < h.to => LineOf(c) \notin used
        /\ \A c \in Cells : Start(k) <= c /\ c < h.from => LineOf(c) \in used
    BY <1>1, <2>1, NextHoleFound
  <2>3. h.from < h.to /\ cursor <= h.from
    <3>1. PICK l \in Nat : h.to = Start(l)
      BY <2>2
    <3>2. Start(l) \in Nat
      BY LineStarts
    <3> HIDE DEF h
    <3> QED  BY <1>1, <1>2, <1>4, <2>2, <3>1, <3>2
  <2>4. \A c \in Cells : cursor <= c => Start(k) <= c
    BY <1>1, <1>2, <1>3, <1>4
  <2> HIDE DEF h
  <2> QED  BY <2>1, <2>2, <2>3, <2>4 DEF Usable, h
<1>5. CASE cursor < holeEnd
  <2>1. FirstHole = [from |-> cursor, to |-> holeEnd]
    BY <1>1, <1>5 DEF FirstHole
  <2>2. FirstHole.from = cursor /\ FirstHole.to = holeEnd
    BY <2>1
  <2>3. \A c \in Cells : ~(cursor <= c /\ c < cursor)
    BY <1>1, <1>3
  <2> QED  BY <1>1, <1>2, <1>3, <1>5, <2>2, <2>3 DEF Usable
<1> QED  BY <1>1, <1>4, <1>5

\* What a small object leaves behind of a hole is in unused lines, beyond
\* the cursor.
LEMMA LeftOverUnused ==
    ASSUME LineInv, NEW n
    PROVE  \A c \in LeftOver(n) : c \in Cells /\ cursor <= c /\ LineOf(c) \notin used
<1>1. CASE FirstHole = NoHole \/ Fits(n, FirstHole)
  BY <1>1 DEF LeftOver
<1>2. CASE ~(FirstHole = NoHole \/ Fits(n, FirstHole))
  <2>1. LeftOver(n) = FirstHole.from .. FirstHole.to - 1 /\ Usable(FirstHole, {})
    BY <1>2, FirstHoleUsable DEF LeftOver
  <2>2. PICK l \in Nat : FirstHole.to = Start(l)
    BY <2>1 DEF Usable
  <2>3. /\ FirstHole.from \in Nat /\ FirstHole.to \in Nat /\ FirstHole.to <= End
        /\ cursor \in Nat /\ cursor <= FirstHole.from
        /\ \A c \in Cells : FirstHole.from <= c /\ c < FirstHole.to => LineOf(c) \notin used
    <3>1. Start(l) \in Nat
      BY LineStarts
    <3> QED  BY <2>1, <2>2, <3>1, Numbers DEF Usable, LineInv
  <2>4. ASSUME NEW c \in LeftOver(n) PROVE c \in Cells /\ cursor <= c /\ LineOf(c) \notin used
    <3>1. c \in Nat /\ FirstHole.from <= c /\ c < FirstHole.to
      BY <2>1, <2>3
    <3>2. c \in Cells /\ cursor <= c
      BY <2>3, <3>1, Block
    <3> QED  BY <2>3, <3>1, <3>2
  <2> QED  BY <2>4
<1> QED  BY <1>1, <1>2

LEMMA TakenHoleUsable ==
    ASSUME LineInv, NEW n \in Sizes, Small(n), TakenHole(n) # NoHole
    PROVE  /\ Usable(TakenHole(n), LeftOver(n))
           /\ TakenHole(n).from + n <= TakenHole(n).to
<1>1. n \in Nat /\ n <= LINE
  BY DEF Small
<1>2. FirstHole # NoHole
  BY DEF TakenHole
<1> DEFINE f == FirstHole
<1>3. /\ cursor <= f.from /\ f.from < f.to /\ f.to <= End /\ f.from \in Nat
      /\ \A c \in Cells : f.from <= c /\ c < f.to => LineOf(c) \notin used
      /\ \A c \in Cells : cursor <= c /\ c < f.from => LineOf(c) \in used
  BY <1>2, FirstHoleUsable DEF Usable
<1>4. PICK k \in Nat : f.to = Start(k)
  BY <1>2, FirstHoleUsable DEF Usable
<1>5. f.to \in Nat /\ cursor \in Nat /\ \A c \in Cells : c \in Nat
  <2>1. Start(k) \in Nat
    BY LineStarts
  <2> QED  BY <1>4, <2>1, Numbers DEF LineInv
<1>6. CASE Fits(n, f)
  <2>1. TakenHole(n) = f /\ LeftOver(n) = {} /\ f.from + n < f.to
    BY <1>6 DEF TakenHole, LeftOver, Fits
  <2> QED  BY <1>1, <1>2, <1>3, <1>5, <2>1, FirstHoleUsable
<1>7. CASE ~Fits(n, f)
  <2> DEFINE h == NextHole(Start(k))
  <2>1. TakenHole(n) = h /\ LeftOver(n) = f.from .. f.to - 1 /\ h # NoHole
    BY <1>2, <1>4, <1>7 DEF TakenHole, LeftOver
  <2>2. /\ f.to <= h.from /\ h.from + LINE <= h.to /\ h.to <= End
        /\ h.from \in Nat /\ \E l \in Nat : h.to = Start(l)
        /\ \A c \in Cells : h.from <= c /\ c < h.to => LineOf(c) \notin used
        /\ \A c \in Cells : f.to <= c /\ c < h.from => LineOf(c) \in used
    <3>1. used \subseteq Lines
      BY DEF LineInv, TypeOK
    <3> QED  BY <1>4, <2>1, <3>1, NextHoleFound
  <2> HIDE DEF h, f
  <2>3. PICK l \in Nat : h.to = Start(l)
    BY <2>2
  <2>4. h.to \in Nat
    BY <2>3, LineStarts
  <2>5. cursor <= h.from /\ h.from < h.to /\ h.from + n <= h.to
    BY <1>1, <1>3, <1>5, <2>2, <2>4
  <2>6. ASSUME NEW c \in Cells, cursor <= c, c < h.from, LineOf(c) \notin used
        PROVE  c \in f.from .. f.to - 1
    <3>1. ~(c < f.from) /\ ~(f.to <= c) /\ c \in Nat
      BY <1>3, <1>5, <2>2, <2>6
    <3> QED  BY <1>3, <1>5, <3>1
  <2>7. Usable(h, f.from .. f.to - 1)
    BY <2>2, <2>5, <2>6 DEF Usable
  <2> QED  BY <2>1, <2>5, <2>7
<1> QED  BY <1>6, <1>7

-----------------------------------------------------------------------
(* Allocation.                                                           *)

LEMMA AllocKeeps ==
    ASSUME LineInv, NEW n \in Sizes, NEW h, NEW zeroed, Usable(h, zeroed), h.from + n <= h.to,
           \A c \in zeroed : c \in Cells /\ cursor <= c /\ LineOf(c) \notin used,
           AllocAt(n, h, zeroed)
    PROVE  LineInv' /\ Put(h.from, n)
<1> DEFINE at == h.from
           new == [size |-> n, used |-> FALSE, marked |-> marking]
           Z == zeroed \cup (at .. at + n - 1)
<1>1. /\ TypeOK /\ cursor \in Nat /\ End \in Nat /\ \A c \in Cells : c \in Nat /\ c < End
      /\ n \in Nat /\ n > 0 /\ marking \in BOOLEAN
  BY Numbers DEF LineInv, TypeOK
<1>2. PICK l \in Nat : h.to = Start(l)
  BY DEF Usable
<1>3. /\ at \in Nat /\ h.to \in Nat /\ cursor <= at /\ at + n <= h.to /\ h.to <= End
      /\ \A c \in Cells : at <= c /\ c < h.to => LineOf(c) \notin used
      /\ \A c \in Cells : cursor <= c /\ c < at /\ LineOf(c) \notin used => c \in zeroed
  <2>1. Start(l) \in Nat
    BY LineStarts
  <2> QED  BY <1>2, <2>1 DEF Usable
<1>4. at \in Cells /\ at \in Z
  BY <1>1, <1>3, Block
<1>5. \A c \in Z : c \in Cells /\ cursor <= c /\ LineOf(c) \notin used
  <2> SUFFICES ASSUME NEW c \in at .. at + n - 1 PROVE c \in Cells /\ cursor <= c /\ LineOf(c) \notin used
    OBVIOUS
  <2>1. c \in Nat /\ at <= c /\ c < at + n
    BY <1>1, <1>3
  <2>2. c < h.to /\ c < End /\ cursor <= c
    BY <1>1, <1>3, <2>1
  <2>3. c \in Cells
    BY <2>1, <2>2, Block
  <2> QED  BY <1>3, <2>1, <2>2, <2>3
<1>6. ASSUME NEW o \in real
      PROVE  /\ o \in Cells /\ hdr[o] \in Headers /\ hdr[o].size \in Nat /\ hdr[o].size > 0
             /\ o \in Extent(o) /\ Body(o) \subseteq Extent(o)
             /\ \A c \in Extent(o) : c \in Cells /\ c \notin Z
  <2>1. o \in Cells /\ hdr[o] \in Headers /\ hdr[o].size > 0 /\ o + hdr[o].size <= End
    BY DEF LineInv, TypeOK, Whole
  <2>2. hdr[o].size \in Nat /\ o \in Nat
    BY <1>1, <2>1, HeaderTypes
  <2>3. ASSUME NEW c \in Extent(o) PROVE c \in Cells /\ c \notin Z
    <3>1. c \in Nat /\ o <= c /\ c < o + hdr[o].size
      BY <2>1, <2>2 DEF Extent
    <3>2. c \in Cells
      BY <1>1, <2>1, <2>2, <3>1, Block
    <3>3. CASE hdr[o].used
      BY <1>5, <3>2, <3>3 DEF LineInv, Placed
    <3>4. CASE ~hdr[o].used
      <4>1. o + hdr[o].size <= cursor
        BY <3>4 DEF LineInv, Placed
      <4>2. c < cursor
        BY <1>1, <2>2, <3>1, <4>1
      <4> QED  BY <1>1, <1>5, <3>1, <3>2, <4>2
    <3> QED  BY <3>2, <3>3, <3>4
  <2> QED  BY <2>1, <2>2, <2>3 DEF Extent, Body
<1>7. new \in Headers /\ new.size = n /\ new.used = FALSE /\ new.marked = marking
  BY <1>1 DEF Headers
<1>8. /\ hdr' \in [Cells -> Headers]
      /\ \A c \in Cells : hdr'[c] = IF c = at THEN new ELSE IF c \in Z THEN NoHeader ELSE hdr[c]
  <2>1. hdr \in [Cells -> Headers] /\ hdr' = [Clear(hdr, Z) EXCEPT ![at] = new]
    BY DEF LineInv, TypeOK, AllocAt
  <2> HIDE DEF Z, new, at
  <2>2. Clear(hdr, Z) \in [Cells -> Headers]
    BY <2>1, Cleared
  <2>3. \A c \in Cells : Clear(hdr, Z)[c] = IF c \in Z THEN NoHeader ELSE hdr[c]
    BY <2>1, Cleared
  <2> QED  BY <1>4, <1>7, <2>1, <2>2, <2>3
<1>9. /\ cursor' = at + n /\ holeEnd' = h.to /\ real' = real \cup {at} /\ live' = live \cup {at}
      /\ IF marking THEN marked' = TRUE /\ lineMarked' = lineMarked \cup LinesToMark(at, n)
                    ELSE UNCHANGED <<marked, lineMarked>>
      /\ UNCHANGED <<available, holes, used, open, marking>>
  BY DEF AllocAt
<1> HIDE DEF at, new, Z
<1>10. \A o \in real : o # at /\ hdr'[o] = hdr[o] /\ \A c \in Extent(o) : hdr'[c] = hdr[c]
  BY <1>4, <1>6, <1>8
<1>11. \A o \in real : Extent(o)' = Extent(o) /\ Body(o)' = Body(o)
  BY <1>10 DEF Extent, Body
<1>12. hdr'[at] = new /\ Extent(at)' = at .. at + n - 1 /\ Body(at)' = at + 1 .. at + n - 1
  BY <1>4, <1>7, <1>8 DEF Extent, Body
<1>13. TypeOK'
  <2>1. at + n \in 0 .. End /\ h.to \in 0 .. End
    BY <1>1, <1>3
  <2>2. LinesToMark(at, n) \subseteq 0 .. LINES
    BY <1>1, <1>3, MarkedLines
  <2>3. lineMarked' \subseteq 0 .. LINES /\ marked' \in BOOLEAN
    BY <1>1, <1>9, <2>2 DEF TypeOK
  <2> QED  BY <1>1, <1>4, <1>8, <1>9, <2>1, <2>3 DEF TypeOK
<1>14. HoleOpen'
  <2>1. \A c \in Cells : at + n <= c => at <= c
    BY <1>1, <1>3
  <2> QED  BY <1>2, <1>3, <1>9, <2>1 DEF HoleOpen
<1>15. StaleBeyond'
  <2> SUFFICES ASSUME NEW c \in Cells, c \notin real', hdr'[c].size > 0
               PROVE  cursor' <= c /\ LineOf(c) \notin used
    BY <1>9 DEF StaleBeyond
  <2>1. c # at /\ c \notin real
    BY <1>9
  <2>2. c \notin Z
    BY <1>8, <2>1, Empty
  <2>3. hdr[c].size > 0
    BY <1>8, <2>1, <2>2
  <2>4. cursor <= c /\ LineOf(c) \notin used
    BY <2>1, <2>3 DEF LineInv, StaleBeyond
  <2>5. ~(c < at) /\ c \notin at .. at + n - 1
    BY <1>3, <2>2, <2>4 DEF Z
  <2>6. at + n <= c
    BY <1>1, <1>3, <2>5
  <2> QED  BY <1>9, <2>4, <2>6
<1>16. Whole'
  <2> SUFFICES ASSUME NEW o \in real'
               PROVE  /\ hdr'[o].size > 0 /\ o + hdr'[o].size <= End
                      /\ \A c \in Body(o)' : hdr'[c].size = 0
    BY DEF Whole
  <2>1. CASE o = at
    <3>1. ASSUME NEW c \in at + 1 .. at + n - 1 PROVE hdr'[c].size = 0
      <4>1. c \in Z /\ c # at
        BY <1>3 DEF Z
      <4> QED  BY <1>5, <1>8, <4>1, Empty
    <3> QED  BY <1>1, <1>3, <1>7, <1>12, <2>1, <3>1
  <2>2. CASE o \in real
    <3>1. \A c \in Body(o) : hdr'[c] = hdr[c]
      BY <1>6, <1>10, <2>2
    <3> QED  BY <1>10, <1>11, <2>2, <3>1 DEF LineInv, Whole
  <2> QED  BY <1>9, <2>1, <2>2
<1>17. Placed'
  <2> SUFFICES ASSUME NEW o \in real'
               PROVE  IF hdr'[o].used THEN \A c \in Extent(o)' : LineOf(c) \in used
                                      ELSE o + hdr'[o].size <= cursor'
    BY <1>9 DEF Placed
  <2>1. CASE o = at
    <3>1. ~hdr'[o].used /\ hdr'[o].size = n
      BY <1>7, <1>12, <2>1
    <3>2. at + n <= at + n
      BY <1>1, <1>3
    <3> QED  BY <1>9, <2>1, <3>1, <3>2
  <2>2. CASE o \in real
    <3>1. IF hdr[o].used THEN \A c \in Extent(o) : LineOf(c) \in used ELSE o + hdr[o].size <= cursor
      BY <2>2 DEF LineInv, Placed
    <3>2. o \in Nat /\ hdr[o].size \in Nat /\ cursor <= at + n
      BY <1>1, <1>3, <1>6, <2>2
    <3>3. ~hdr[o].used => o + hdr[o].size <= at + n
      BY <1>1, <1>3, <3>1, <3>2
    <3> QED  BY <1>9, <1>10, <1>11, <2>2, <3>1, <3>3
  <2> QED  BY <1>9, <2>1, <2>2
<1>18. MarksReal'
  <2> SUFFICES ASSUME NEW c \in Cells, hdr'[c].marked
               PROVE  /\ c \in real' /\ marking' /\ marked'
                      /\ LinesToMark(c, hdr'[c].size) \subseteq lineMarked'
    BY DEF MarksReal, LinesToMark, Small
  <2>1. CASE c = at
    <3>1. marking /\ hdr'[c].size = n
      BY <1>7, <1>12, <2>1
    <3> QED  BY <1>9, <2>1, <3>1
  <2>2. CASE c # at
    <3>1. c \notin Z
      BY <1>8, <2>2, Empty
    <3>2. hdr'[c] = hdr[c]
      BY <1>8, <2>2, <3>1
    <3>3. c \in real /\ marking /\ marked /\ LinesToMark(c, hdr[c].size) \subseteq lineMarked
      BY <3>2 DEF LineInv, MarksReal
    <3> QED  BY <1>9, <3>2, <3>3
  <2> QED  BY <2>1, <2>2
<1>19. Put(at, n)
  <2>1. at .. at + n - 1 \subseteq Z
    BY DEF Z
  <2> QED  BY <1>4, <1>5, <1>6, <1>7, <1>9, <1>10, <1>12, <2>1 DEF Put
<1> QED  BY <1>13, <1>14, <1>15, <1>16, <1>17, <1>18, <1>19 DEF LineInv, at

-----------------------------------------------------------------------
(* What the invariant implies.                                           *)

\* A cell between the cursor and the end of its line is in an unused line.
LEMMA CursorLine ==
    ASSUME LineInv, NEW p \in Cells, cursor <= p, p < AlignUp(cursor)
    PROVE  LineOf(p) \notin used
<1>1. /\ cursor \in Nat /\ holeEnd \in Nat /\ cursor <= holeEnd /\ p \in Nat /\ p < End /\ End \in Nat
  BY Numbers DEF LineInv, HoleOpen
<1>2. PICK l \in Nat : /\ AlignUp(cursor) = Start(l) /\ cursor <= Start(l) /\ Start(l) < cursor + LINE
                       /\ l <= LineOf(cursor) + 1
  BY <1>1, AlignedUp
<1>3. PICK k \in Nat : holeEnd = Start(k)
  BY DEF LineInv, HoleOpen
<1>4. LineOf(p) = LineOf(cursor)
  <2>1. LineOf(cursor) <= LineOf(p) /\ LineOf(cursor) \in Nat /\ LineOf(p) \in Nat
    BY <1>1, LineOrder, CellInLine
  <2>2. LineOf(p) < l
    BY <1>1, <1>2, InLine
  <2> QED  BY <1>2, <2>1, <2>2
<1>5. cursor # holeEnd
  <2> SUFFICES ASSUME cursor = holeEnd PROVE FALSE
    OBVIOUS
  <2>1. Start(l) \in Nat /\ Start(k) <= Start(l) /\ Start(l) < Start(k) + LINE
    BY <1>2, <1>3, LineStarts
  <2>2. LineOf(Start(l)) = k /\ LineOf(Start(l)) = l
    <3>1. LineOf(Start(l)) = k
      BY <2>1, InLine
    <3> QED  BY <3>1, StartIsInLine
  <2> QED  BY <1>1, <1>2, <1>3, <2>2
<1>6. cursor \in Cells /\ cursor < holeEnd
  BY <1>1, <1>5, Block
<1> QED  BY <1>1, <1>4, <1>6 DEF LineInv, HoleOpen

LEMMA Found == ASSUME LineInv PROVE ObjectsFound
<1> SUFFICES ASSUME NEW o \in real, NEW p \in Body(o) PROVE Target(p) = {o}
  BY DEF ObjectsFound
<1> DEFINE before == {c \in 0 .. p - 1 : hdr[c].size > 0}
<1>1. /\ cursor \in Nat /\ o \in Nat /\ o \in Cells /\ hdr[o].size \in Nat /\ hdr[o].size > 0
      /\ o + hdr[o].size <= End /\ End \in Nat
      /\ \A c \in Body(o) : hdr[c].size = 0
  BY Numbers, HeaderTypes DEF LineInv, TypeOK, Whole
<1>2. p \in Nat /\ o < p /\ p < o + hdr[o].size /\ p < End
  BY <1>1 DEF Body
<1>3. p \in Cells /\ p \in Extent(o) /\ o \in Extent(o)
  BY <1>1, <1>2, Block DEF Extent
<1>4. Max(before) = o
  <2>1. before \subseteq 0 .. p - 1 /\ o \in before /\ p - 1 \in Nat
    BY <1>1, <1>2
  <2>2. \A c \in before : c <= o
    <3> SUFFICES ASSUME NEW c \in before, o < c PROVE FALSE
      BY <1>1, <2>1
    <3>1. c \in Body(o)
      BY <1>1, <1>2 DEF Body
    <3>2. hdr[c].size = 0 /\ hdr[c].size > 0
      BY <1>1, <3>1
    <3> QED  BY <3>2
  <2> HIDE DEF before
  <2>3. Max(before) \in before /\ \A c \in before : c <= Max(before)
    BY <2>1, MaxIsGreatest
  <2>4. Max(before) <= o /\ o <= Max(before)
    BY <2>1, <2>2, <2>3
  <2>5. Max(before) \in Nat
    <3>1. \A c \in before : c \in Nat
      BY <2>1
    <3> QED  BY <2>3, <3>1, Zenon
  <2> QED  BY <1>1, <2>4, <2>5
<1>5. Find(p) = {o}
  <2>1. before # {}
    BY <1>1, <1>2
  <2> QED  BY <1>4, <2>1 DEF Find
<1>6. ~Unallocated(p, o)
  <2> SUFFICES ASSUME p >= cursor, LineOf(o) \notin used \/ (cursor % LINE # 0 /\ p < AlignUp(cursor))
               PROVE  FALSE
    BY DEF Unallocated
  <2>1. CASE ~hdr[o].used
    <3>1. o + hdr[o].size <= cursor
      BY <2>1 DEF LineInv, Placed
    <3> QED  BY <1>1, <1>2, <3>1
  <2>2. CASE hdr[o].used
    <3>1. LineOf(o) \in used /\ LineOf(p) \in used
      BY <1>3, <2>2 DEF LineInv, Placed
    <3>2. p < AlignUp(cursor) /\ cursor <= p
      BY <1>1, <1>2, <3>1
    <3> QED  BY <1>3, <3>1, <3>2, CursorLine
  <2> QED  BY <2>1, <2>2
<1> QED  BY <1>5, <1>6 DEF Target

LEMMA Dead == ASSUME LineInv PROVE DeadStayDead
<1> SUFFICES ASSUME NEW p \in Cells, NEW o \in Target(p), o \notin real PROVE FALSE
  BY DEF DeadStayDead
<1> DEFINE before == {c \in 0 .. p - 1 : hdr[c].size > 0}
<1>1. /\ cursor \in Nat /\ p \in Nat /\ p < End /\ End \in Nat
  BY Numbers DEF LineInv
<1>2. before # {} /\ o = Max(before) /\ ~Unallocated(p, o)
  BY DEF Target, Find
<1>3. o \in before
  <2>1. before \subseteq 0 .. p - 1 /\ p - 1 \in Nat
    <3>1. PICK c \in before : TRUE
      BY <1>2
    <3> QED  BY <1>1, <3>1
  <2> HIDE DEF before
  <2> QED  BY <1>2, <2>1, MaxIsGreatest
<1>4. o \in Nat /\ o < p /\ hdr[o].size > 0
  BY <1>1, <1>3
<1>5. o \in Cells
  BY <1>1, <1>4, Block
<1>6. cursor <= o /\ LineOf(o) \notin used
  BY <1>4, <1>5 DEF LineInv, StaleBeyond
<1>7. p >= cursor
  BY <1>1, <1>4, <1>6
<1> QED  BY <1>2, <1>6, <1>7 DEF Unallocated

LEMMA Covered == ASSUME LineInv PROVE LinesCover
BY DEF LineInv, Placed, LinesCover

LEMMA Apart == ASSUME LineInv PROVE NoOverlap
<1>1. ASSUME NEW o \in real
      PROVE  /\ o \in Nat /\ o \in Cells /\ hdr[o].size \in Nat /\ hdr[o].size > 0
             /\ o + hdr[o].size <= End
             /\ \A c \in Body(o) : hdr[c].size = 0
  BY Numbers, HeaderTypes DEF LineInv, TypeOK, Whole
<1>2. ASSUME NEW o \in real PROVE Extent(o) \subseteq Cells
  BY <1>1, Block DEF Extent
<1>3. ASSUME NEW a \in real, NEW b \in real, a < b PROVE Extent(a) \cap Extent(b) = {}
  <2> SUFFICES ASSUME NEW c \in Extent(a), c \in Extent(b) PROVE FALSE
    OBVIOUS
  <2>1. c \in Nat /\ c < a + hdr[a].size /\ b <= c
    BY <1>1 DEF Extent
  <2>2. b \in Body(a)
    BY <1>1, <1>3, <2>1 DEF Body
  <2>3. hdr[b].size = 0 /\ hdr[b].size > 0
    BY <1>1, <2>2
  <2> QED  BY <2>3
<1>4. ASSUME NEW a \in real, NEW b \in real, a # b PROVE Extent(a) \cap Extent(b) = {}
  <2>1. CASE a < b
    BY <1>3, <2>1
  <2>2. CASE b < a
    BY <1>3, <2>2
  <2>3. a \in Nat /\ b \in Nat
    BY <1>1
  <2> QED  BY <1>4, <2>1, <2>2, <2>3
<1>5. ASSUME NEW o \in real PROVE Extent(o) \cap (cursor .. holeEnd - 1) = {}
  <2> SUFFICES ASSUME NEW c \in Extent(o), c \in cursor .. holeEnd - 1 PROVE FALSE
    OBVIOUS
  <2>1. /\ c \in Nat /\ cursor <= c /\ c < holeEnd /\ c < o + hdr[o].size /\ c \in Cells
        /\ cursor \in Nat /\ holeEnd \in Nat
    BY <1>1, <1>2, Numbers DEF LineInv, Extent
  <2>2. LineOf(c) \notin used
    BY <2>1 DEF LineInv, HoleOpen
  <2>3. ~hdr[o].used
    BY <2>2 DEF LineInv, Placed
  <2>4. o + hdr[o].size <= cursor
    BY <2>3 DEF LineInv, Placed
  <2> QED  BY <1>1, <2>1, <2>4
<1> QED  BY <1>2, <1>4, <1>5 DEF NoOverlap

-----------------------------------------------------------------------
(* correct_header, the walk over the headers.                            *)

Walks == [hdr : [Cells -> Headers], offset : Nat]

LEMMA CorrectCellType ==
    ASSUME NEW w \in Walks, NEW c \in Cells
    PROVE  CorrectCell(w, c) \in Walks
<1> DEFINE h == w.hdr[c]
<1>1. w.hdr \in [Cells -> Headers] /\ w.offset \in Nat /\ c \in Nat /\ h \in Headers
  BY Block DEF Walks
<1>2. h.size \in Nat /\ (h.size > 0 => h.size \in Sizes)
  BY <1>1, HeaderTypes
<1>3. CASE LineOf(c) \notin lineMarked \/ c < w.offset
  BY <1>3 DEF CorrectCell
<1>4. CASE ~(LineOf(c) \notin lineMarked \/ c < w.offset) /\ h.size > 0 /\ h.marked /\ (c < cursor \/ h.used)
  <2> DEFINE new == [size |-> h.size, used |-> TRUE, marked |-> FALSE]
             g == [w.hdr EXCEPT ![c] = new]
  <2>1. CorrectCell(w, c) = [hdr |-> g, offset |-> c + h.size]
    BY <1>4 DEF CorrectCell
  <2>2. new \in Headers
    BY <1>2, <1>4 DEF Headers
  <2>3. g \in [Cells -> Headers] /\ c + h.size \in Nat
    BY <1>1, <1>2, <2>2
  <2> QED  BY <2>1, <2>3 DEF Walks
<1>5. CASE ~(LineOf(c) \notin lineMarked \/ c < w.offset) /\ ~(h.size > 0 /\ h.marked /\ (c < cursor \/ h.used))
  <2> DEFINE g == [w.hdr EXCEPT ![c] = NoHeader]
  <2>1. CorrectCell(w, c) = [w EXCEPT !.hdr = g]
    BY <1>5 DEF CorrectCell
  <2>2. g \in [Cells -> Headers]
    BY <1>1, Empty
  <2> QED  BY <1>1, <2>1, <2>2 DEF Walks
<1> QED  BY <1>3, <1>4, <1>5

LEMMA WalkDefined ==
    ASSUME TypeOK
    PROVE  /\ Walk \in [0 .. End -> Walks]
           /\ Walk[0] = [hdr |-> hdr, offset |-> 0]
           /\ \A c \in 1 .. End : Walk[c] = CorrectCell(Walk[c - 1], c - 1)
<1> DEFINE x == [hdr |-> hdr, offset |-> 0]
           F == [c \in 0 .. End - 1 |-> [w \in Walks |-> CorrectCell(w, c)]]
<1>1. x \in Walks /\ End \in Nat /\ Cells = 0 .. End - 1
  BY Block DEF Walks, TypeOK, Cells
<1>2. F \in StepFunctions(End, Walks)
  BY <1>1, CorrectCellType DEF StepFunctions
<1>3. PICK W \in [0 .. End -> Walks] : Recursive(W, End, x, F)
  <2> HIDE DEF x, F
  <2> QED  BY <1>1, <1>2, Recursion
<1>4. \A c \in 1 .. End : c - 1 \in 0 .. End - 1 /\ c - 1 \in 0 .. End /\ c \in 0 .. End
  BY <1>1
<1>5. \A c \in 0 .. End : c # 0 => c \in 1 .. End
  BY <1>1
<1>6. \A c \in 1 .. End : F[c - 1][W[c - 1]] = CorrectCell(W[c - 1], c - 1)
  BY <1>4
<1>7. W = [c \in 0 .. End |-> IF c = 0 THEN x ELSE CorrectCell(W[c - 1], c - 1)]
  <2> HIDE DEF x, F
  <2>1. \A c \in 0 .. End : W[c] = IF c = 0 THEN x ELSE CorrectCell(W[c - 1], c - 1)
    BY <1>3, <1>5, <1>6 DEF Recursive
  <2> QED  BY <2>1
<1>8. Walk = [c \in 0 .. End |-> IF c = 0 THEN x ELSE CorrectCell(Walk[c - 1], c - 1)]
  BY <1>7, Zenon DEF Walk
<1>9. Walk \in [0 .. End -> Walks]
  <2>1. 0 \in 0 .. End
    BY <1>1
  <2>2. ASSUME NEW V, V = [c \in 0 .. End |-> IF c = 0 THEN x ELSE CorrectCell(V[c - 1], c - 1)]
        PROVE  V \in [0 .. End -> Walks]
    <3> DEFINE S == {c \in 0 .. End : V[c] \in Walks}
    <3> HIDE DEF x, F
    <3>0. \A c \in 0 .. End : V[c] = IF c = 0 THEN x ELSE CorrectCell(V[c - 1], c - 1)
      BY <2>2
    <3>1. 0 \in S
      BY <1>1, <2>1, <3>0
    <3>2. ASSUME NEW c \in 0 .. End - 1, c \in S PROVE c + 1 \in S
      <4>1. c + 1 \in 1 .. End /\ c + 1 \in 0 .. End /\ c + 1 - 1 = c /\ c \in Cells
        BY <1>1
      <4>2. V[c + 1] = IF c + 1 = 0 THEN x ELSE CorrectCell(V[c + 1 - 1], c + 1 - 1)
        BY <3>0, <4>1
      <4>3. V[c + 1] = CorrectCell(V[c], c)
        BY <1>1, <4>1, <4>2
      <4> QED  BY <3>2, <4>1, <4>3, CorrectCellType
    <3>3. 0 .. End \subseteq S
      <4> HIDE DEF S
      <4> QED  BY <1>1, <3>1, <3>2, UpTo
    <3> QED  BY <2>2, <3>3
  <2> HIDE DEF x, F
  <2> QED  BY <1>8, <2>2
<1> HIDE DEF F
<1>10. 0 \in 0 .. End
  BY <1>1
<1> QED  BY <1>4, <1>8, <1>9, <1>10

\* What is left of a header: an object that is marked keeps it for the next
\* cycle, and nothing else in a marked line looks like one.
Kept(o) == o \in real /\ hdr[o].marked
Corrected(h, d) ==
    /\ Kept(d) => h = [size |-> hdr[d].size, used |-> TRUE, marked |-> FALSE]
    /\ ~Kept(d) /\ LineOf(d) \in lineMarked => h = NoHeader
    /\ LineOf(d) \notin lineMarked => h = hdr[d]

\* The walk has corrected the cells before c, and it skips the body of the
\* object it met last.
Walked(w, c) ==
    /\ \A d \in Cells : c <= d => w.hdr[d] = hdr[d]
    /\ \A d \in Cells : d < c => Corrected(w.hdr[d], d)
    /\ c < w.offset => \E o \in real : o < c /\ w.offset = o + hdr[o].size

LEMMA KeptObjects ==
    ASSUME LineInv, NEW o \in Cells
    PROVE  /\ Kept(o) <=> hdr[o].marked
           /\ Kept(o) => /\ hdr[o].size > 0 /\ LineOf(o) \in lineMarked
                         /\ o < cursor \/ hdr[o].used
                         /\ \A c \in Extent(o) : LineOf(c) \in lineMarked
<1>1. Kept(o) <=> hdr[o].marked
  BY DEF Kept, LineInv, MarksReal
<1>2. ASSUME Kept(o)
      PROVE  /\ hdr[o].size > 0 /\ LineOf(o) \in lineMarked
             /\ o < cursor \/ hdr[o].used
             /\ \A c \in Extent(o) : LineOf(c) \in lineMarked
  <2>1. /\ o \in Nat /\ cursor \in Nat /\ hdr[o].size \in Nat /\ hdr[o].size > 0
        /\ o + hdr[o].size <= End
    BY <1>2, Numbers, HeaderTypes DEF Kept, LineInv, TypeOK, Whole
  <2>2. LinesToMark(o, hdr[o].size) \subseteq lineMarked
    BY <1>2 DEF Kept, LineInv, MarksReal
  <2>3. LineOf(o) \in lineMarked /\ \A c \in o .. o + hdr[o].size - 1 : LineOf(c) \in lineMarked
    BY <2>1, <2>2, MarkedLines
  <2>4. o < cursor \/ hdr[o].used
    <3>1. ~hdr[o].used => o + hdr[o].size <= cursor
      BY <1>2 DEF Kept, LineInv, Placed
    <3> QED  BY <2>1, <3>1
  <2> QED  BY <2>1, <2>3, <2>4 DEF Extent
<1> QED  BY <1>1, <1>2

LEMMA WalkStep ==
    ASSUME LineInv, NEW c \in Cells, NEW w \in Walks, Walked(w, c)
    PROVE  Walked(CorrectCell(w, c), c + 1)
<1> DEFINE v == CorrectCell(w, c)
           h == hdr[c]
<1>1. /\ c \in Nat /\ \A d \in Cells : d \in Nat
      /\ w.hdr \in [Cells -> Headers] /\ w.offset \in Nat /\ h \in Headers /\ w.hdr[c] = h
      /\ h.size \in Nat
  <2>1. c \in Nat /\ \A d \in Cells : d \in Nat
    BY Numbers DEF LineInv
  <2>2. h \in Headers
    BY DEF LineInv, TypeOK
  <2>3. w.hdr \in [Cells -> Headers] /\ w.offset \in Nat
    BY DEF Walks
  <2>4. w.hdr[c] = h
    BY <2>1 DEF Walked
  <2>5. h.size \in Nat
    BY <2>2, HeaderTypes
  <2> QED  BY <2>1, <2>2, <2>3, <2>4, <2>5
<1>2. /\ \A d \in Cells : c + 1 <= d => c <= d /\ d # c
      /\ \A d \in Cells : d < c + 1 => d < c \/ d = c
  BY <1>1
<1>3. /\ Kept(c) <=> h.marked
      /\ Kept(c) => h.size > 0 /\ LineOf(c) \in lineMarked /\ (c < cursor \/ h.used)
  BY KeptObjects
<1> HIDE DEF h
<1>4. CASE LineOf(c) \notin lineMarked \/ c < w.offset
  <2>1. v = w
    BY <1>4 DEF CorrectCell
  <2>2. Corrected(h, c)
    <3>1. CASE LineOf(c) \notin lineMarked
      BY <1>3, <3>1 DEF Corrected, h
    <3>2. CASE c < w.offset
      <4>1. PICK o \in real : o < c /\ w.offset = o + hdr[o].size
        BY <3>2 DEF Walked
      <4>2. c \in Body(o)
        <5>1. o \in Cells /\ hdr[o] \in Headers
          BY DEF LineInv, TypeOK
        <5>2. o \in Nat /\ hdr[o].size \in Nat
          BY <1>1, <5>1, HeaderTypes
        <5> QED  BY <1>1, <3>2, <4>1, <5>2 DEF Body
      <4>3. h.size = 0
        BY <4>2 DEF LineInv, Whole, h
      <4>4. h = NoHeader /\ ~Kept(c)
        BY <1>1, <1>3, <4>3, HeaderTypes
      <4> QED  BY <4>4 DEF Corrected, h
    <3> QED  BY <1>4, <3>1, <3>2
  <2>3. c + 1 < w.offset => c < w.offset
    BY <1>1
  <2>4. \A o \in real : o < c => o < c + 1
    BY <1>1 DEF LineInv, TypeOK
  <2> QED  BY <1>1, <1>2, <2>1, <2>2, <2>3, <2>4 DEF Walked
<1>5. CASE ~(LineOf(c) \notin lineMarked \/ c < w.offset) /\ Kept(c)
  <2> DEFINE new == [size |-> h.size, used |-> TRUE, marked |-> FALSE]
             g == [w.hdr EXCEPT ![c] = new]
  <2>1. v = [hdr |-> g, offset |-> c + h.size]
    BY <1>1, <1>3, <1>5 DEF CorrectCell
  <2>2. \A d \in Cells : g[d] = IF d = c THEN new ELSE w.hdr[d]
    BY <1>1
  <2>3. Corrected(new, c)
    BY <1>3, <1>5 DEF Corrected, h
  <2>4. c \in real /\ c < c + 1
    BY <1>1, <1>5 DEF Kept
  <2> HIDE DEF g, new
  <2>5. v.hdr = g /\ v.offset = c + hdr[c].size
    BY <2>1 DEF h
  <2> HIDE DEF v
  <2>6. \A d \in Cells : c + 1 <= d => v.hdr[d] = hdr[d]
    BY <1>2, <2>2, <2>5 DEF Walked
  <2>7. \A d \in Cells : d < c + 1 => Corrected(v.hdr[d], d)
    BY <1>2, <2>2, <2>3, <2>5 DEF Walked
  <2> QED  BY <2>4, <2>5, <2>6, <2>7 DEF Walked, v
<1>6. CASE ~(LineOf(c) \notin lineMarked \/ c < w.offset) /\ ~Kept(c)
  <2> DEFINE g == [w.hdr EXCEPT ![c] = NoHeader]
  <2>1. v = [w EXCEPT !.hdr = g]
    BY <1>1, <1>3, <1>6 DEF CorrectCell
  <2>2. \A d \in Cells : g[d] = IF d = c THEN NoHeader ELSE w.hdr[d]
    BY <1>1
  <2>3. Corrected(NoHeader, c)
    BY <1>6 DEF Corrected
  <2> HIDE DEF g
  <2>4. v.hdr = g /\ v.offset = w.offset
    BY <2>1 DEF Walks
  <2>5. ~(c + 1 < w.offset)
    BY <1>1, <1>6
  <2> HIDE DEF v
  <2>6. \A d \in Cells : c + 1 <= d => v.hdr[d] = hdr[d]
    BY <1>2, <2>2, <2>4 DEF Walked
  <2>7. \A d \in Cells : d < c + 1 => Corrected(v.hdr[d], d)
    BY <1>2, <2>2, <2>3, <2>4 DEF Walked
  <2> QED  BY <2>4, <2>5, <2>6, <2>7 DEF Walked, v
<1> QED  BY <1>4, <1>5, <1>6

LEMMA HeadersCorrected ==
    ASSUME LineInv
    PROVE  /\ CorrectedHeaders \in [Cells -> Headers]
           /\ \A d \in Cells : Corrected(CorrectedHeaders[d], d)
<1>1. /\ Walk \in [0 .. End -> Walks] /\ Walk[0] = [hdr |-> hdr, offset |-> 0]
      /\ \A c \in 1 .. End : Walk[c] = CorrectCell(Walk[c - 1], c - 1)
  BY WalkDefined DEF LineInv
<1>2. End \in Nat /\ \A d \in Cells : d \in Nat /\ d < End
  BY Numbers DEF LineInv
<1> DEFINE S == {c \in 0 .. End : Walked(Walk[c], c)}
<1>3. 0 \in S
  <2>1. Walk[0].hdr = hdr /\ Walk[0].offset = 0
    BY <1>1
  <2>2. 0 \in 0 .. End /\ ~(0 < 0) /\ \A d \in Cells : ~(d < 0)
    BY <1>2
  <2> QED  BY <2>1, <2>2 DEF Walked
<1>4. ASSUME NEW c \in 0 .. End - 1, c \in S PROVE c + 1 \in S
  <2>1. c \in Cells /\ c \in 0 .. End /\ c + 1 \in 0 .. End /\ c + 1 \in 1 .. End /\ c + 1 - 1 = c
    BY <1>2, Block
  <2>2. Walk[c + 1] = CorrectCell(Walk[c], c) /\ Walk[c] \in Walks
    BY <1>1, <2>1
  <2>3. Walked(Walk[c], c)
    BY <1>4
  <2> QED  BY <2>1, <2>2, <2>3, WalkStep
<1>5. End \in S
  <2>1. End \in 0 .. End
    BY <1>2
  <2> HIDE DEF S
  <2> QED  BY <1>2, <1>3, <1>4, <2>1, UpTo
<1>6. Walk[End] \in Walks /\ Walked(Walk[End], End)
  <2>1. End \in 0 .. End
    BY <1>2
  <2> QED  BY <1>1, <1>5, <2>1
<1> QED  BY <1>2, <1>6 DEF CorrectedHeaders, Walked, Walks

-----------------------------------------------------------------------
(* correct_header, the scan of the lines for holes.                      *)

Scans == [open : BOOLEAN, holes : Nat, cursor : Nat, end : Nat]

LEMMA ScanLineFields ==
    ASSUME NEW s \in Scans, NEW l \in Lines
    PROVE  LET t == ScanLine(s, l) IN
           /\ t \in Scans
           /\ t.open = (l \notin lineMarked)
           /\ t.holes = IF l \in lineMarked \/ s.open THEN s.holes ELSE s.holes + 1
           /\ t.cursor = IF l \notin lineMarked /\ s.cursor = End THEN Start(l) ELSE s.cursor
           /\ t.end = IF l \in lineMarked /\ s.cursor < End /\ s.end = End THEN Start(l) ELSE s.end
<1> DEFINE a == Start(l)
           t == ScanLine(s, l)
           open2 == (l \notin lineMarked)
           holes2 == IF l \in lineMarked \/ s.open THEN s.holes ELSE s.holes + 1
           cursor2 == IF l \notin lineMarked /\ s.cursor = End THEN a ELSE s.cursor
           end2 == IF l \in lineMarked /\ s.cursor < End /\ s.end = End THEN a ELSE s.end
<1>1. a \in Nat /\ l \in Nat /\ a = l * LINE
  <2>1. l \in Nat
    BY Block
  <2> QED  BY <2>1, LineStarts DEF Start
<1>2. /\ s.open \in BOOLEAN /\ s.holes \in Nat /\ s.cursor \in Nat /\ s.end \in Nat
      /\ s = [open |-> s.open, holes |-> s.holes, cursor |-> s.cursor, end |-> s.end]
  BY DEF Scans
<1> HIDE DEF a
<1>3. CASE l \in lineMarked
  <2>1. t = [s EXCEPT !.open = FALSE, !.end = IF s.cursor < End /\ s.end = End THEN a ELSE @]
    BY <1>1, <1>3 DEF ScanLine
  <2>2. t = [open |-> FALSE, holes |-> s.holes, cursor |-> s.cursor, end |-> end2]
    BY <1>2, <1>3, <2>1
  <2>3. open2 = FALSE /\ holes2 = s.holes /\ cursor2 = s.cursor
    BY <1>3
  <2>4. end2 \in Nat
    BY <1>1, <1>2
  <2> HIDE DEF t, open2, holes2, cursor2, end2
  <2>5. t \in Scans /\ t.open = open2 /\ t.holes = holes2 /\ t.cursor = cursor2 /\ t.end = end2
    BY <1>2, <2>2, <2>3, <2>4 DEF Scans
  <2> QED  BY <2>5 DEF t, open2, holes2, cursor2, end2, a
<1>4. CASE l \notin lineMarked
  <2>1. t = [s EXCEPT !.open = TRUE, !.holes = IF s.open THEN @ ELSE @ + 1,
                      !.cursor = IF @ = End THEN a ELSE @]
    BY <1>1, <1>4 DEF ScanLine
  <2>2. t = [open |-> TRUE, holes |-> holes2, cursor |-> cursor2, end |-> s.end]
    BY <1>2, <1>4, <2>1
  <2>3. open2 = TRUE /\ end2 = s.end
    BY <1>4
  <2>4. holes2 \in Nat /\ cursor2 \in Nat
    BY <1>1, <1>2
  <2> HIDE DEF t, open2, holes2, cursor2, end2
  <2>5. t \in Scans /\ t.open = open2 /\ t.holes = holes2 /\ t.cursor = cursor2 /\ t.end = end2
    BY <1>2, <2>2, <2>3, <2>4 DEF Scans
  <2> QED  BY <2>5 DEF t, open2, holes2, cursor2, end2, a
<1> QED  BY <1>3, <1>4

LEMMA ScanDefined ==
    /\ Scan \in [0 .. LINES -> Scans]
    /\ Scan[0] = [open |-> FALSE, holes |-> 0, cursor |-> End, end |-> End]
    /\ \A l \in 1 .. LINES : Scan[l] = ScanLine(Scan[l - 1], l - 1)
<1> DEFINE x == [open |-> FALSE, holes |-> 0, cursor |-> End, end |-> End]
           F == [l \in 0 .. LINES - 1 |-> [s \in Scans |-> ScanLine(s, l)]]
<1>1. x \in Scans /\ LINES \in Nat /\ Lines = 0 .. LINES - 1
  BY Block DEF Scans, Lines
<1>2. F \in StepFunctions(LINES, Scans)
  <2>1. \A s \in Scans, l \in Lines : ScanLine(s, l) \in Scans
    BY ScanLineFields
  <2> QED  BY <1>1, <2>1 DEF StepFunctions
<1>3. PICK W \in [0 .. LINES -> Scans] : Recursive(W, LINES, x, F)
  <2> HIDE DEF x, F
  <2> QED  BY <1>1, <1>2, Recursion
<1>4. \A l \in 1 .. LINES : l - 1 \in 0 .. LINES - 1 /\ l - 1 \in 0 .. LINES /\ l \in 0 .. LINES
  BY <1>1
<1>5. \A l \in 0 .. LINES : l # 0 => l \in 1 .. LINES
  BY <1>1
<1>6. \A l \in 1 .. LINES : F[l - 1][W[l - 1]] = ScanLine(W[l - 1], l - 1)
  BY <1>4
<1>7. W = [l \in 0 .. LINES |-> IF l = 0 THEN x ELSE ScanLine(W[l - 1], l - 1)]
  <2> HIDE DEF x, F
  <2>1. \A l \in 0 .. LINES : W[l] = IF l = 0 THEN x ELSE ScanLine(W[l - 1], l - 1)
    BY <1>3, <1>5, <1>6 DEF Recursive
  <2> QED  BY <2>1
<1>8. Scan = [l \in 0 .. LINES |-> IF l = 0 THEN x ELSE ScanLine(Scan[l - 1], l - 1)]
  BY <1>7, Zenon DEF Scan
<1> HIDE DEF x, F
<1>9. \A l \in 0 .. LINES : Scan[l] = IF l = 0 THEN x ELSE ScanLine(Scan[l - 1], l - 1)
  BY <1>8
<1> DEFINE S == {l \in 0 .. LINES : Scan[l] \in Scans}
<1>10. 0 \in S /\ 0 \in 0 .. LINES
  BY <1>1, <1>9
<1>11. ASSUME NEW l \in 0 .. LINES - 1, l \in S PROVE l + 1 \in S
  <2>1. l + 1 \in 1 .. LINES /\ l + 1 \in 0 .. LINES /\ l + 1 - 1 = l /\ l \in Lines
    BY <1>1
  <2>2. Scan[l + 1] = ScanLine(Scan[l], l)
    BY <1>9, <2>1
  <2> QED  BY <1>11, <2>1, <2>2, ScanLineFields
<1>12. 0 .. LINES \subseteq S
  <2> HIDE DEF S
  <2> QED  BY <1>1, <1>10, <1>11, UpTo
<1>13. Scan \in [0 .. LINES -> Scans]
  BY <1>8, <1>12
<1>14. Scan[0] = x /\ \A l \in 1 .. LINES : l # 0
  BY <1>1, <1>9, <1>10
<1> QED  BY <1>4, <1>9, <1>13, <1>14 DEF x

\* Lines before l a hole starts with.
StartsBefore(l) == {k \in Lines : k < l /\ k \notin lineMarked /\ (k = 0 \/ k - 1 \in lineMarked)}

AllMarked(l) == \A k \in Lines : k < l => k \in lineMarked
NoneMarked(f, l) == \A k \in Lines : f <= k /\ k < l => k \notin lineMarked

\* The scan has met the first hole or no hole at all, it has met the end of
\* that hole or none.
NoHoleYet(s, l) == s.cursor = End /\ s.end = End /\ AllMarked(l)
FirstHoleAt(s, l, f) ==
    /\ f < l /\ AllMarked(f) /\ f \notin lineMarked /\ s.cursor = Start(f)
    /\ \/ s.end = End /\ NoneMarked(f, l)
       \/ \E e \in Lines : f < e /\ s.end = Start(e) /\ NoneMarked(f, e)
AfterHole(s, l) == s.open <=> l > 0 /\ l - 1 \notin lineMarked
ScannedTo(s, l) ==
    /\ AfterHole(s, l)
    /\ s.holes = Cardinality(StartsBefore(l))
    /\ NoHoleYet(s, l) \/ \E f \in Lines : FirstHoleAt(s, l, f)

LEMMA LinesFinite ==
    /\ IsFiniteSet(Lines) /\ Cardinality(Lines) = LINES
    /\ \A S \in SUBSET Lines : IsFiniteSet(S) /\ Cardinality(S) \in Nat /\ Cardinality(S) <= LINES
<1>1. IsFiniteSet(Lines) /\ Cardinality(Lines) = LINES
  <2>1. 0 \in Int /\ LINES - 1 \in Int /\ ~(0 > LINES - 1) /\ LINES - 1 - 0 + 1 = LINES
    OBVIOUS
  <2> QED  BY <2>1, FS_Interval DEF Lines
<1>2. ASSUME NEW S \in SUBSET Lines
      PROVE  IsFiniteSet(S) /\ Cardinality(S) \in Nat /\ Cardinality(S) <= LINES
  <2>1. IsFiniteSet(S) /\ Cardinality(S) <= Cardinality(Lines)
    BY <1>1, FS_Subset
  <2>2. Cardinality(S) \in Nat
    BY <2>1, FS_CardinalityType
  <2> QED  BY <1>1, <2>1, <2>2
<1> QED  BY <1>1, <1>2

LEMMA ScanStep ==
    ASSUME NEW l \in Lines, NEW s \in Scans, ScannedTo(s, l)
    PROVE  ScannedTo(ScanLine(s, l), l + 1)
<1> DEFINE t == ScanLine(s, l)
<1>1. /\ l \in Nat /\ LINES \in Nat /\ \A k \in Lines : k \in Nat
      /\ s.open \in BOOLEAN /\ s.holes \in Nat /\ s.cursor \in Nat /\ s.end \in Nat
  BY Block DEF Scans
<1>2. /\ t.open = (l \notin lineMarked)
      /\ t.holes = IF l \in lineMarked \/ s.open THEN s.holes ELSE s.holes + 1
      /\ t.cursor = IF l \notin lineMarked /\ s.cursor = End THEN Start(l) ELSE s.cursor
      /\ t.end = IF l \in lineMarked /\ s.cursor < End /\ s.end = End THEN Start(l) ELSE s.end
  BY ScanLineFields
<1> HIDE DEF t
<1>3. ASSUME NEW k \in Lines PROVE Start(k) \in Nat /\ Start(k) < End /\ End \in Nat
  BY Block
<1>4. /\ \A k \in Lines : k < l + 1 <=> k < l \/ k = l
      /\ l < l + 1 /\ l + 1 - 1 = l /\ l + 1 > 0
  BY <1>1
<1>5. AfterHole(t, l + 1)
  <2>1. t.open <=> l \notin lineMarked
    BY <1>2
  <2>2. l + 1 > 0 /\ (l + 1 - 1 \in lineMarked <=> l \in lineMarked)
    BY <1>4
  <2> QED  BY <1>1, <2>1, <2>2 DEF AfterHole
<1>6. t.holes = Cardinality(StartsBefore(l + 1))
  <2>1. StartsBefore(l) \in SUBSET Lines /\ l \notin StartsBefore(l)
    BY <1>1 DEF StartsBefore
  <2>2. IsFiniteSet(StartsBefore(l)) /\ s.holes = Cardinality(StartsBefore(l))
    BY <2>1, LinesFinite DEF ScannedTo
  <2>3. s.open <=> l > 0 /\ l - 1 \notin lineMarked
    BY <1>1 DEF ScannedTo, AfterHole
  <2>4. CASE l \in lineMarked \/ s.open
    <3>1. StartsBefore(l + 1) = StartsBefore(l)
      <4>1. ~(l \notin lineMarked /\ (l = 0 \/ l - 1 \in lineMarked))
        BY <1>1, <2>3, <2>4
      <4> QED  BY <1>4, <4>1 DEF StartsBefore
    <3> QED  BY <1>2, <2>2, <2>4, <3>1
  <2>5. CASE ~(l \in lineMarked \/ s.open)
    <3>1. StartsBefore(l + 1) = StartsBefore(l) \cup {l}
      <4>1. l \notin lineMarked /\ (l = 0 \/ l - 1 \in lineMarked)
        BY <1>1, <2>3, <2>5
      <4> QED  BY <1>4, <4>1 DEF StartsBefore
    <3>2. Cardinality(StartsBefore(l) \cup {l}) = Cardinality(StartsBefore(l)) + 1
      BY <2>1, <2>2, FS_AddElement
    <3> QED  BY <1>2, <2>2, <2>5, <3>1, <3>2
  <2> QED  BY <2>4, <2>5
<1>7. NoHoleYet(t, l + 1) \/ \E f \in Lines : FirstHoleAt(t, l + 1, f)
  <2>1. CASE NoHoleYet(s, l) /\ l \in lineMarked
    <3>1. t.cursor = End /\ t.end = End
      BY <1>2, <1>3, <2>1 DEF NoHoleYet
    <3>2. AllMarked(l + 1)
      BY <1>4, <2>1 DEF NoHoleYet, AllMarked
    <3> QED  BY <3>1, <3>2 DEF NoHoleYet
  <2>2. CASE NoHoleYet(s, l) /\ l \notin lineMarked
    <3>1. t.cursor = Start(l) /\ t.end = End /\ AllMarked(l)
      BY <1>2, <2>2 DEF NoHoleYet
    <3>2. NoneMarked(l, l + 1)
      BY <1>1, <1>4, <2>2 DEF NoneMarked
    <3>3. FirstHoleAt(t, l + 1, l)
      BY <1>4, <2>2, <3>1, <3>2 DEF FirstHoleAt
    <3> QED  BY <3>3
  <2>3. ASSUME NEW f \in Lines, FirstHoleAt(s, l, f) PROVE FirstHoleAt(t, l + 1, f)
    <3>1. /\ f < l /\ AllMarked(f) /\ f \notin lineMarked /\ s.cursor = Start(f)
          /\ s.cursor < End /\ s.cursor # End
      BY <1>3, <2>3 DEF FirstHoleAt
    <3>2. t.cursor = Start(f) /\ f < l + 1
      BY <1>1, <1>2, <3>1
    <3>3. CASE s.end = End /\ NoneMarked(f, l) /\ l \in lineMarked
      <4>1. t.end = Start(l) /\ f < l /\ NoneMarked(f, l)
        BY <1>2, <3>1, <3>3
      <4> QED  BY <3>1, <3>2, <4>1 DEF FirstHoleAt
    <3>4. CASE s.end = End /\ NoneMarked(f, l) /\ l \notin lineMarked
      <4>1. t.end = End
        BY <1>2, <3>4
      <4>2. NoneMarked(f, l + 1)
        BY <1>4, <3>4 DEF NoneMarked
      <4> QED  BY <3>1, <3>2, <4>1, <4>2 DEF FirstHoleAt
    <3>5. ASSUME NEW e \in Lines, f < e, s.end = Start(e), NoneMarked(f, e)
          PROVE  FirstHoleAt(t, l + 1, f)
      <4>1. t.end = Start(e)
        BY <1>2, <1>3, <3>5
      <4> QED  BY <3>1, <3>2, <3>5, <4>1 DEF FirstHoleAt
    <3> QED  BY <2>3, <3>3, <3>4, <3>5 DEF FirstHoleAt
  <2> QED  BY <2>1, <2>2, <2>3 DEF ScannedTo
<1>8. ScannedTo(t, l + 1)
  BY <1>5, <1>6, <1>7 DEF ScannedTo
<1> QED  BY <1>8 DEF t

\* correct_header finds the first hole and counts them all.
LEMMA HolesScanned == Scanned \in Scans /\ ScannedTo(Scanned, LINES)
<1>1. /\ Scan \in [0 .. LINES -> Scans]
      /\ Scan[0] = [open |-> FALSE, holes |-> 0, cursor |-> End, end |-> End]
      /\ \A l \in 1 .. LINES : Scan[l] = ScanLine(Scan[l - 1], l - 1)
  BY ScanDefined
<1>2. LINES \in Nat /\ 0 \in 0 .. LINES /\ LINES \in 0 .. LINES /\ \A l \in Lines : l \in Nat
  BY Block
<1> DEFINE S == {l \in 0 .. LINES : ScannedTo(Scan[l], l)}
<1>3. 0 \in S
  <2>1. /\ Scan[0].open = FALSE /\ Scan[0].holes = 0 /\ Scan[0].cursor = End /\ Scan[0].end = End
    BY <1>1
  <2>2. \A k \in Lines : ~(k < 0)
    BY <1>2
  <2>3. StartsBefore(0) = {} /\ AllMarked(0)
    BY <2>2 DEF StartsBefore, AllMarked
  <2>4. Cardinality({}) = 0 /\ ~(0 > 0)
    BY FS_EmptySet
  <2> QED  BY <1>2, <2>1, <2>3, <2>4 DEF ScannedTo, AfterHole, NoHoleYet
<1>4. ASSUME NEW l \in 0 .. LINES - 1, l \in S PROVE l + 1 \in S
  <2>1. l \in Lines /\ l \in 0 .. LINES /\ l + 1 \in 0 .. LINES /\ l + 1 \in 1 .. LINES /\ l + 1 - 1 = l
    BY <1>2 DEF Lines
  <2>2. Scan[l + 1] = ScanLine(Scan[l], l) /\ Scan[l] \in Scans /\ ScannedTo(Scan[l], l)
    BY <1>1, <1>4, <2>1
  <2> QED  BY <2>1, <2>2, ScanStep
<1>5. LINES \in S
  <2> HIDE DEF S
  <2> QED  BY <1>2, <1>3, <1>4, UpTo
<1> QED  BY <1>1, <1>2, <1>5 DEF Scanned

-----------------------------------------------------------------------
(* The other steps.                                                      *)

\* The hole after a sweep.
LEMMA SweptHole ==
    /\ Scanned.cursor \in 0 .. End /\ Scanned.end \in 0 .. End /\ Scanned.cursor <= Scanned.end
    /\ \E l \in Nat : Scanned.end = Start(l)
    /\ \A c \in Cells : c < Scanned.cursor => LineOf(c) \in lineMarked
    /\ \A c \in Cells : Scanned.cursor <= c /\ c < Scanned.end => LineOf(c) \notin lineMarked
    /\ Scanned.holes \in 0 .. LINES
<1> DEFINE s == Scanned
<1>1. /\ LINES \in Nat /\ End \in Nat /\ End = Start(LINES)
      /\ \A c \in Cells : c \in Nat /\ c < End /\ LineOf(c) \in Lines
      /\ \A l \in Lines : l \in Nat /\ l < LINES /\ Start(l) \in Nat /\ Start(l) < End
  BY Block
<1>2. \A c \in Cells, l \in Nat : (c < Start(l) <=> LineOf(c) < l) /\ Start(l) \in Nat
  BY <1>1, InLine, LineStarts
<1>3. s \in Scans /\ ScannedTo(s, LINES)
  BY HolesScanned
<1> HIDE DEF s
<1>4. s.holes \in 0 .. LINES
  <2>1. StartsBefore(LINES) \in SUBSET Lines
    BY DEF StartsBefore
  <2> QED  BY <1>1, <1>3, <2>1, LinesFinite DEF ScannedTo
<1>5. CASE NoHoleYet(s, LINES)
  <2>1. s.cursor = End /\ s.end = End /\ \A l \in Lines : l \in lineMarked
    BY <1>1, <1>5 DEF NoHoleYet, AllMarked
  <2>2. \A c \in Cells : ~(End <= c) /\ LineOf(c) \in lineMarked
    BY <1>1, <2>1
  <2> QED  BY <1>1, <1>4, <2>1, <2>2 DEF s
<1>6. ASSUME NEW f \in Lines, FirstHoleAt(s, LINES, f)
      PROVE  /\ s.cursor \in 0 .. End /\ s.end \in 0 .. End /\ s.cursor <= s.end
             /\ \E l \in Nat : s.end = Start(l)
             /\ \A c \in Cells : c < s.cursor => LineOf(c) \in lineMarked
             /\ \A c \in Cells : s.cursor <= c /\ c < s.end => LineOf(c) \notin lineMarked
  <2>1. s.cursor = Start(f) /\ f \in Nat /\ Start(f) \in Nat /\ Start(f) < End
    BY <1>1, <1>6 DEF FirstHoleAt
  <2>2. \A c \in Cells : c < Start(f) => LineOf(c) \in lineMarked
    BY <1>1, <1>2, <1>6 DEF FirstHoleAt, AllMarked
  <2>3. \E e \in Nat : f < e /\ e <= LINES /\ s.end = Start(e) /\ NoneMarked(f, e)
    <3>1. CASE s.end = End /\ NoneMarked(f, LINES)
      <4>1. LINES <= LINES /\ f < LINES
        BY <1>1
      <4> QED  BY <1>1, <3>1, <4>1
    <3>2. CASE \E e \in Lines : f < e /\ s.end = Start(e) /\ NoneMarked(f, e)
      <4>1. PICK e \in Lines : f < e /\ s.end = Start(e) /\ NoneMarked(f, e)
        BY <3>2
      <4>2. e \in Nat /\ e <= LINES
        BY <1>1
      <4> QED  BY <4>1, <4>2
    <3> QED  BY <1>6, <3>1, <3>2 DEF FirstHoleAt
  <2>4. PICK e \in Nat : f < e /\ e <= LINES /\ s.end = Start(e) /\ NoneMarked(f, e)
    BY <2>3
  <2>5. Start(e) \in Nat /\ Start(f) <= Start(e) /\ Start(e) <= End
    <3>1. Start(f) + LINE <= Start(e)
      BY <2>1, <2>4, LineStarts
    <3>2. Start(e) \in Nat /\ (e < LINES => Start(e) + LINE <= Start(LINES))
      BY <1>1, LineStarts
    <3>3. e = LINES \/ e < LINES
      BY <1>1, <2>4
    <3> QED  BY <1>1, <2>1, <3>1, <3>2, <3>3
  <2>6. \A c \in Cells : Start(f) <= c /\ c < Start(e) => LineOf(c) \notin lineMarked
    <3> SUFFICES ASSUME NEW c \in Cells, Start(f) <= c, c < Start(e) PROVE LineOf(c) \notin lineMarked
      OBVIOUS
    <3>1. LineOf(c) \in Lines /\ LineOf(c) \in Nat /\ c \in Nat
      BY <1>1
    <3>2. LineOf(c) < e /\ ~(LineOf(c) < f)
      BY <1>2, <2>1, <3>1
    <3>3. f <= LineOf(c)
      BY <2>1, <3>1, <3>2
    <3> QED  BY <2>4, <3>1, <3>2, <3>3 DEF NoneMarked
  <2> QED  BY <1>1, <2>1, <2>2, <2>4, <2>5, <2>6
<1> QED  BY <1>3, <1>4, <1>5, <1>6 DEF ScannedTo, s

LEMMA SweepKeeps == ASSUME LineInv, Sweep PROVE LineInv' /\ SizesKept
<1> DEFINE new(o) == [size |-> hdr[o].size, used |-> TRUE, marked |-> FALSE]
<1>1. /\ CorrectedHeaders \in [Cells -> Headers]
      /\ \A d \in Cells : Corrected(CorrectedHeaders[d], d)
  BY HeadersCorrected
<1>2. /\ used' = lineMarked \cap Lines /\ lineMarked' = {} /\ hdr' = CorrectedHeaders
      /\ cursor' = Scanned.cursor /\ holeEnd' = Scanned.end
      /\ available' = LINES - Cardinality(lineMarked \cap Lines) /\ holes' = Scanned.holes
      /\ marked' = FALSE /\ open' = (lineMarked \cap Lines # Lines) /\ marking' = FALSE
      /\ real' = {o \in real : hdr[o].marked} /\ live' = live
      /\ \A o \in live : hdr[o].marked
  BY DEF Sweep
<1>3. \A c \in Cells : LineOf(c) \in used' <=> LineOf(c) \in lineMarked
  BY <1>2, Block
<1>4. ASSUME NEW o \in real'
      PROVE  /\ o \in real /\ o \in Cells /\ Kept(o) /\ hdr'[o] = new(o)
             /\ hdr'[o].size = hdr[o].size /\ hdr'[o].used /\ ~hdr'[o].marked
             /\ Body(o)' = Body(o) /\ Extent(o)' = Extent(o)
  <2>1. o \in real /\ o \in Cells /\ Kept(o)
    BY <1>2 DEF Kept, LineInv, TypeOK
  <2>2. hdr'[o] = new(o)
    BY <1>1, <1>2, <2>1 DEF Corrected
  <2>3. hdr'[o].size = hdr[o].size /\ hdr'[o].used = TRUE /\ hdr'[o].marked = FALSE
    BY <2>2
  <2> QED  BY <2>1, <2>2, <2>3 DEF Body, Extent
<1>5. \A d \in Cells : Kept(d) <=> d \in real'
  BY <1>2 DEF Kept
<1>6. ASSUME NEW d \in Cells PROVE ~hdr'[d].marked
  <2>1. CASE Kept(d)
    BY <1>4, <1>5, <2>1
  <2>2. CASE ~Kept(d) /\ LineOf(d) \in lineMarked
    BY <1>1, <1>2, <2>2, Empty DEF Corrected
  <2>3. CASE ~Kept(d) /\ LineOf(d) \notin lineMarked
    <3>1. hdr'[d] = hdr[d]
      BY <1>1, <1>2, <2>3 DEF Corrected
    <3>2. ~hdr[d].marked
      BY <2>3, KeptObjects
    <3> QED  BY <3>1, <3>2
  <2> QED  BY <2>1, <2>2, <2>3
<1>7. TypeOK'
  <2>1. lineMarked \cap Lines \in SUBSET Lines
    OBVIOUS
  <2>2. LINES - Cardinality(lineMarked \cap Lines) \in 0 .. LINES
    BY <2>1, LinesFinite
  <2>3. real' \subseteq Cells /\ live' \subseteq real'
    BY <1>2 DEF LineInv, TypeOK
  <2>4. (lineMarked \cap Lines # Lines) \in BOOLEAN
    OBVIOUS
  <2>5. used' \subseteq Lines /\ lineMarked' \subseteq 0 .. LINES
    BY <1>2
  <2> QED  BY <1>1, <1>2, <2>2, <2>3, <2>4, <2>5, SweptHole DEF TypeOK
<1>8. HoleOpen'
  BY <1>2, <1>3, SweptHole DEF HoleOpen
<1>9. StaleBeyond'
  <2> SUFFICES ASSUME NEW d \in Cells, d \notin real', hdr'[d].size > 0
               PROVE  cursor' <= d /\ LineOf(d) \notin used'
    BY DEF StaleBeyond
  <2>1. LineOf(d) \notin lineMarked
    BY <1>1, <1>2, <1>5, Empty DEF Corrected
  <2>2. ~(d < Scanned.cursor) /\ Scanned.cursor \in Nat /\ d \in Nat
    BY <2>1, SweptHole, Block
  <2> QED  BY <1>2, <1>3, <2>1, <2>2
<1>10. Whole'
  <2> SUFFICES ASSUME NEW o \in real'
               PROVE  /\ hdr'[o].size > 0 /\ o + hdr'[o].size <= End
                      /\ \A c \in Body(o)' : hdr'[c].size = 0
    BY DEF Whole
  <2>1. /\ hdr[o].size > 0 /\ o + hdr[o].size <= End
        /\ \A c \in Body(o) : hdr[c].size = 0
    BY <1>4 DEF LineInv, Whole
  <2>2. ASSUME NEW c \in Body(o) PROVE hdr'[c].size = 0
    <3>1. c \in Cells
      <4>1. o \in Nat /\ hdr[o].size \in Nat
        BY <1>4, Numbers, HeaderTypes DEF LineInv, TypeOK
      <4>2. c \in Nat /\ c < o + hdr[o].size
        BY <4>1 DEF Body
      <4> QED  BY <2>1, <4>1, <4>2, Block
    <3>2. ~Kept(c)
      <4>1. ~(hdr[c].size > 0)
        BY <2>1
      <4> QED  BY <3>1, <4>1, KeptObjects
    <3>3. hdr'[c] = NoHeader \/ hdr'[c] = hdr[c]
      BY <1>1, <1>2, <3>1, <3>2 DEF Corrected
    <3> QED  BY <2>1, <3>3, Empty
  <2> QED  BY <1>4, <2>1, <2>2
<1>11. Placed'
  <2> SUFFICES ASSUME NEW o \in real', NEW c \in Extent(o) PROVE LineOf(c) \in used'
    BY <1>4 DEF Placed
  <2>1. LineOf(c) \in lineMarked
    BY <1>4, KeptObjects
  <2>2. c \in Cells
    BY <1>4, Apart DEF NoOverlap
  <2> QED  BY <1>3, <2>1, <2>2
<1>12. MarksReal'
  BY <1>6 DEF MarksReal
<1>13. SizesKept
  BY <1>4 DEF SizesKept
<1> QED  BY <1>7, <1>8, <1>9, <1>10, <1>11, <1>12, <1>13 DEF LineInv

-----------------------------------------------------------------------
(* count_holes_and_avai_lines.                                           *)

CountTypes == [open : BOOLEAN, lines : Nat, holes : Nat]

LEMMA CountLineType ==
    ASSUME NEW k \in CountTypes, NEW l \in Nat
    PROVE  /\ CountLine(k, l) \in CountTypes
           /\ k.lines <= l => CountLine(k, l).lines <= l + 1
           /\ k.holes <= l => CountLine(k, l).holes <= l + 1
<1>1. k.open \in BOOLEAN /\ k.lines \in Nat /\ k.holes \in Nat
      /\ k = [open |-> k.open, lines |-> k.lines, holes |-> k.holes]
  BY DEF CountTypes
<1>2. CASE l * LINE < AlignUp(cursor) \/ l \in used
  <2>1. CountLine(k, l) = [k EXCEPT !.open = FALSE]
    BY <1>2 DEF CountLine
  <2>2. CountLine(k, l) = [open |-> FALSE, lines |-> k.lines, holes |-> k.holes]
    BY <1>1, <2>1
  <2> QED  BY <1>1, <2>2 DEF CountTypes
<1>3. CASE ~(l * LINE < AlignUp(cursor) \/ l \in used)
  <2> DEFINE n == k.holes + (IF k.open THEN 0 ELSE 1)
  <2>1. CountLine(k, l) = [open |-> TRUE, lines |-> k.lines + 1, holes |-> n]
    BY <1>3 DEF CountLine
  <2>2. /\ n \in Nat /\ k.lines + 1 \in Nat
        /\ k.holes <= l => n <= l + 1
        /\ k.lines <= l => k.lines + 1 <= l + 1
    BY <1>1
  <2> HIDE DEF n
  <2> QED  BY <2>1, <2>2 DEF CountTypes
<1> QED  BY <1>2, <1>3

LEMMA CountedType == Counted.lines \in 0 .. LINES /\ Counted.holes \in 0 .. LINES
<1> DEFINE x == [open |-> FALSE, lines |-> 0, holes |-> 0]
           F == [l \in 0 .. LINES - 1 |-> [k \in CountTypes |-> CountLine(k, l)]]
<1>1. x \in CountTypes /\ x.lines = 0 /\ x.holes = 0 /\ LINES \in Nat
  BY DEF CountTypes
<1>2. F \in StepFunctions(LINES, CountTypes)
  <2>1. \A k \in CountTypes, l \in Nat : CountLine(k, l) \in CountTypes
    BY CountLineType
  <2>2. \A l \in 0 .. LINES - 1 : l \in Nat
    BY <1>1
  <2> QED  BY <2>1, <2>2 DEF StepFunctions
<1>3. PICK W \in [0 .. LINES -> CountTypes] : Recursive(W, LINES, x, F)
  <2> HIDE DEF x, F
  <2> QED  BY <1>1, <1>2, Recursion
<1>4. \A l \in 1 .. LINES : l - 1 \in 0 .. LINES - 1 /\ l - 1 \in 0 .. LINES /\ l \in 0 .. LINES
  BY <1>1
<1>5. \A l \in 0 .. LINES : l # 0 => l \in 1 .. LINES
  BY <1>1
<1>6. \A l \in 1 .. LINES : F[l - 1][W[l - 1]] = CountLine(W[l - 1], l - 1)
  BY <1>4
<1>7. W = [l \in 0 .. LINES |-> IF l = 0 THEN x ELSE CountLine(W[l - 1], l - 1)]
  <2> HIDE DEF x, F
  <2>1. \A l \in 0 .. LINES : W[l] = IF l = 0 THEN x ELSE CountLine(W[l - 1], l - 1)
    BY <1>3, <1>5, <1>6 DEF Recursive
  <2> QED  BY <2>1
<1>8. Counts = [l \in 0 .. LINES |-> IF l = 0 THEN x ELSE CountLine(Counts[l - 1], l - 1)]
  BY <1>7, Zenon DEF Counts
<1> HIDE DEF x, F
<1>9. \A l \in 0 .. LINES : Counts[l] = IF l = 0 THEN x ELSE CountLine(Counts[l - 1], l - 1)
  BY <1>8
<1> DEFINE S == {l \in 0 .. LINES : /\ Counts[l] \in CountTypes
                                   /\ Counts[l].lines <= l /\ Counts[l].holes <= l}
<1>10. 0 \in S
  <2>1. 0 \in 0 .. LINES /\ 0 <= 0
    BY <1>1
  <2> QED  BY <1>1, <1>9, <2>1
<1>11. ASSUME NEW l \in 0 .. LINES - 1, l \in S PROVE l + 1 \in S
  <2>1. l + 1 \in 0 .. LINES /\ l + 1 # 0 /\ l + 1 - 1 = l /\ l \in Nat
    BY <1>1
  <2>2. Counts[l + 1] = CountLine(Counts[l], l)
    BY <1>9, <2>1
  <2> QED  BY <1>11, <2>1, <2>2, CountLineType
<1>12. LINES \in S
  <2>1. LINES \in 0 .. LINES
    BY <1>1
  <2> HIDE DEF S
  <2> QED  BY <1>1, <1>10, <1>11, <2>1, UpTo
<1> QED  BY <1>1, <1>12 DEF Counted, CountTypes

-----------------------------------------------------------------------
(* The steps.                                                            *)

LEMMA AllocSmallKeeps == ASSUME LineInv, NEW n \in Sizes, AllocSmall(n)
                           PROVE  LineInv' /\ Put(TakenHole(n).from, n)
<1>1. Small(n) /\ TakenHole(n) # NoHole /\ AllocAt(n, TakenHole(n), LeftOver(n))
  BY DEF AllocSmall
<1>2. Usable(TakenHole(n), LeftOver(n)) /\ TakenHole(n).from + n <= TakenHole(n).to
  BY <1>1, TakenHoleUsable
<1> QED  BY <1>1, <1>2, LeftOverUnused, AllocKeeps

LEMMA AllocMediumKeeps == ASSUME LineInv, NEW n \in Sizes, AllocMedium(n)
                            PROVE  LineInv' /\ Put(FirstHole.from, n)
<1>1. Fits(n, FirstHole) /\ AllocAt(n, FirstHole, {}) /\ Usable(FirstHole, {})
  BY FirstHoleUsable DEF AllocMedium
<1>2. FirstHole.from + n <= FirstHole.to
  <2>1. PICK l \in Nat : FirstHole.to = Start(l)
    BY <1>1 DEF Usable
  <2>2. Start(l) \in Nat
    BY LineStarts
  <2>3. FirstHole.from \in Nat /\ n \in Nat
    BY <1>1 DEF Usable
  <2> QED  BY <1>1, <2>1, <2>2, <2>3 DEF Fits
<1> QED  BY <1>1, <1>2, AllocKeeps

LEMMA AllocFailKeeps == ASSUME LineInv, NEW n \in Sizes, AllocFail(n) PROVE LineInv'
<1> DEFINE h == FirstHole
<1>1. /\ Usable(h, {}) /\ cursor' = h.from /\ holeEnd' = h.to
      /\ UNCHANGED <<available, holes, used, lineMarked, hdr, marked, open, marking, real, live>>
  BY FirstHoleUsable DEF AllocFail
<1> HIDE DEF h
<1>2. PICK l \in Nat : h.to = Start(l)
  BY <1>1 DEF Usable
<1>3. /\ h.from \in Nat /\ h.to \in Nat /\ cursor \in Nat /\ End \in Nat
      /\ cursor <= h.from /\ h.from < h.to /\ h.to <= End
      /\ \A c \in Cells : c \in Nat
      /\ \A c \in Cells : h.from <= c /\ c < h.to => LineOf(c) \notin used
      /\ \A c \in Cells : cursor <= c /\ c < h.from => LineOf(c) \in used
  <2>1. Start(l) \in Nat
    BY LineStarts
  <2> QED  BY <1>1, <1>2, <2>1, Numbers DEF Usable, LineInv
<1>4. TypeOK'
  <2>1. h.from \in 0 .. End /\ h.to \in 0 .. End
    BY <1>3
  <2> QED  BY <1>1, <2>1 DEF LineInv, TypeOK
<1>5. HoleOpen'
  <2>1. h.from <= h.to
    BY <1>3
  <2> QED  BY <1>1, <1>2, <1>3, <2>1 DEF HoleOpen
<1>6. StaleBeyond'
  <2> SUFFICES ASSUME NEW c \in Cells \ real, hdr[c].size > 0
               PROVE  h.from <= c /\ LineOf(c) \notin used
    BY <1>1 DEF StaleBeyond
  <2>1. cursor <= c /\ LineOf(c) \notin used
    BY DEF LineInv, StaleBeyond
  <2> QED  BY <1>3, <2>1
<1>7. Placed'
  <2> SUFFICES ASSUME NEW o \in real
               PROVE  IF hdr[o].used THEN \A c \in Extent(o) : LineOf(c) \in used
                                     ELSE o + hdr[o].size <= h.from
    BY <1>1 DEF Placed, Extent
  <2>1. IF hdr[o].used THEN \A c \in Extent(o) : LineOf(c) \in used
                       ELSE o + hdr[o].size <= cursor
    BY DEF LineInv, Placed
  <2>2. o \in Nat /\ hdr[o].size \in Nat
    <3>1. o \in Cells /\ hdr[o] \in Headers
      BY DEF LineInv, TypeOK
    <3> QED  BY <1>3, <3>1, HeaderTypes
  <2>3. o + hdr[o].size <= cursor => o + hdr[o].size <= h.from
    BY <1>3, <2>2
  <2> QED  BY <2>1, <2>3
<1>8. Whole' /\ MarksReal'
  BY <1>1 DEF LineInv, Whole, Body, MarksReal, LinesToMark, Small
<1> QED  BY <1>4, <1>5, <1>6, <1>7, <1>8 DEF LineInv

LEMMA AllocExhaustedKeeps == ASSUME LineInv, NEW n \in Sizes, AllocExhausted(n)
                               PROVE  LineInv' /\ SizesKept
<1> DEFINE Z == LeftOver(n)
<1>1. /\ hdr' = Clear(hdr, Z) /\ open' = FALSE
      /\ UNCHANGED <<cursor, holeEnd, available, holes, used, lineMarked, marked, marking, real, live>>
  BY DEF AllocExhausted, hole
<1>2. \A c \in Z : c \in Cells /\ cursor <= c /\ LineOf(c) \notin used
  BY LeftOverUnused
<1> HIDE DEF Z
<1>3. /\ hdr' \in [Cells -> Headers]
      /\ \A c \in Cells : hdr'[c] = IF c \in Z THEN NoHeader ELSE hdr[c]
  BY <1>1, Cleared DEF LineInv, TypeOK
<1>4. ASSUME NEW o \in real
      PROVE  /\ o \in Cells /\ o \in Extent(o) /\ Body(o) \subseteq Extent(o)
             /\ \A c \in Extent(o) : c \in Cells /\ c \notin Z
  <2>1. o \in Cells /\ hdr[o] \in Headers /\ hdr[o].size > 0
    BY DEF LineInv, TypeOK, Whole
  <2>2. o \in Nat /\ hdr[o].size \in Nat /\ cursor \in Nat
    BY <2>1, Numbers, HeaderTypes DEF LineInv
  <2>3. \A c \in Extent(o) : c \in Cells
    BY Apart DEF NoOverlap
  <2>4. ASSUME NEW c \in Extent(o) PROVE c \notin Z
    <3>1. c \in Nat /\ c < o + hdr[o].size
      BY <2>2 DEF Extent
    <3>2. CASE hdr[o].used
      BY <1>2, <3>2 DEF LineInv, Placed
    <3>3. CASE ~hdr[o].used
      <4>1. o + hdr[o].size <= cursor
        BY <3>3 DEF LineInv, Placed
      <4>2. ~(cursor <= c)
        BY <2>2, <3>1, <4>1
      <4> QED  BY <1>2, <4>2
    <3> QED  BY <3>2, <3>3
  <2> QED  BY <2>1, <2>2, <2>3, <2>4 DEF Extent, Body
<1>5. \A o \in real : /\ hdr'[o] = hdr[o] /\ \A c \in Extent(o) : hdr'[c] = hdr[c]
  BY <1>3, <1>4
<1>6. \A o \in real : Extent(o)' = Extent(o) /\ Body(o)' = Body(o)
  BY <1>5 DEF Extent, Body
<1>7. TypeOK'
  BY <1>1, <1>3 DEF LineInv, TypeOK
<1>8. HoleOpen'
  BY <1>1 DEF LineInv, HoleOpen
<1>9. StaleBeyond'
  <2> SUFFICES ASSUME NEW c \in Cells \ real, hdr'[c].size > 0
               PROVE  cursor <= c /\ LineOf(c) \notin used
    BY <1>1 DEF StaleBeyond
  <2>1. hdr[c].size > 0
    <3>1. c \notin Z
      BY <1>3, Empty
    <3> QED  BY <1>3, <3>1
  <2> QED  BY <2>1 DEF LineInv, StaleBeyond
<1>10. Whole'
  <2> SUFFICES ASSUME NEW o \in real
               PROVE  /\ hdr'[o].size > 0 /\ o + hdr'[o].size <= End
                      /\ \A c \in Body(o)' : hdr'[c].size = 0
    BY <1>1 DEF Whole
  <2>1. \A c \in Body(o) : hdr'[c] = hdr[c]
    BY <1>4, <1>5
  <2> QED  BY <1>5, <1>6, <2>1 DEF LineInv, Whole
<1>11. Placed'
  BY <1>1, <1>5, <1>6 DEF LineInv, Placed
<1>12. MarksReal'
  <2> SUFFICES ASSUME NEW c \in Cells, hdr'[c].marked
               PROVE  /\ c \in real /\ marking /\ marked
                      /\ LinesToMark(c, hdr'[c].size) \subseteq lineMarked
    BY <1>1 DEF MarksReal, LinesToMark, Small
  <2>1. c \notin Z
    BY <1>3, Empty
  <2>2. hdr'[c] = hdr[c]
    BY <1>3, <2>1
  <2> QED  BY <2>2 DEF LineInv, MarksReal
<1>13. SizesKept
  BY <1>1, <1>5 DEF SizesKept
<1> QED  BY <1>7, <1>8, <1>9, <1>10, <1>11, <1>12, <1>13 DEF LineInv

LEMMA DropKeeps == ASSUME LineInv, NEW o \in Cells, Drop(o) PROVE LineInv'
<1>1. /\ live' = live \ {o}
      /\ UNCHANGED <<cursor, holeEnd, available, holes, used, lineMarked, hdr, marked, open, marking, real>>
  BY DEF Drop, hole
<1>2. TypeOK'
  BY <1>1 DEF LineInv, TypeOK
<1>3. HoleOpen' /\ StaleBeyond' /\ Whole' /\ Placed'
  BY <1>1 DEF LineInv, HoleOpen, StaleBeyond, Whole, Placed, Body, Extent
<1>4. MarksReal'
  BY <1>1 DEF LineInv, MarksReal, LinesToMark, Small
<1> QED  BY <1>2, <1>3, <1>4 DEF LineInv

LEMMA StartMarkKeeps == ASSUME LineInv, StartMark PROVE LineInv'
<1>1. /\ ~marking /\ marking' = TRUE
      /\ IF open THEN available' = Counted.lines /\ holes' = Counted.holes
                 ELSE UNCHANGED <<available, holes>>
      /\ UNCHANGED <<cursor, holeEnd, used, lineMarked, hdr, marked, open, real, live>>
  BY DEF StartMark
<1>2. TypeOK'
  <2>1. available' \in 0 .. LINES /\ holes' \in 0 .. LINES
    BY <1>1, CountedType DEF LineInv, TypeOK
  <2> QED  BY <1>1, <2>1 DEF LineInv, TypeOK
<1>3. HoleOpen' /\ StaleBeyond' /\ Whole' /\ Placed'
  BY <1>1 DEF LineInv, HoleOpen, StaleBeyond, Whole, Placed, Body, Extent
<1>4. MarksReal'
  BY <1>1 DEF LineInv, MarksReal
<1> QED  BY <1>2, <1>3, <1>4 DEF LineInv

LEMMA MarkKeeps == ASSUME LineInv, NEW p \in Cells, Mark(p) PROVE LineInv' /\ SizesKept
<1>1. PICK o \in Target(p) :
          /\ marked' = TRUE
          /\ hdr' = [hdr EXCEPT ![o].marked = TRUE]
          /\ lineMarked' = IF hdr[o].marked THEN lineMarked ELSE lineMarked \cup LinesToMark(o, hdr[o].size)
  BY DEF Mark
<1>2. /\ marking
      /\ UNCHANGED <<cursor, holeEnd, available, holes, used, open, marking, real, live>>
  BY DEF Mark, hole
<1>3. o \in real /\ o \in Cells
  BY Dead DEF DeadStayDead, LineInv, TypeOK
<1>4. /\ hdr[o] \in [size : Sizes, used : BOOLEAN, marked : BOOLEAN]
      /\ hdr[o].size \in Nat /\ hdr[o].size > 0 /\ o \in Nat /\ o + hdr[o].size <= End
  <2>1. hdr[o] \in Headers /\ hdr[o].size > 0 /\ o + hdr[o].size <= End /\ o \in Nat
    BY <1>3, Numbers DEF LineInv, TypeOK, Whole
  <2>2. hdr[o] # NoHeader
    BY <2>1, Empty
  <2> QED  BY <2>1, <2>2, HeaderTypes DEF Headers
<1>5. /\ hdr' \in [Cells -> Headers]
      /\ \A c \in Cells : c # o => hdr'[c] = hdr[c]
      /\ hdr'[o].size = hdr[o].size /\ hdr'[o].used = hdr[o].used
  <2> DEFINE new == [hdr[o] EXCEPT !.marked = TRUE]
  <2>1. new \in Headers /\ new.size = hdr[o].size /\ new.used = hdr[o].used
    BY <1>4 DEF Headers
  <2>2. hdr' = [hdr EXCEPT ![o] = new] /\ hdr \in [Cells -> Headers]
    BY <1>1 DEF LineInv, TypeOK
  <2> HIDE DEF new
  <2> QED  BY <1>3, <2>1, <2>2
<1>6. \A c \in Cells : hdr'[c].size = hdr[c].size /\ hdr'[c].used = hdr[c].used
  BY <1>5
<1>7. \A a \in real : a \in Cells /\ Extent(a)' = Extent(a) /\ Body(a)' = Body(a)
  BY <1>6 DEF Extent, Body, LineInv, TypeOK
<1>8. LinesToMark(o, hdr[o].size) \subseteq 0 .. LINES
  BY <1>4, MarkedLines
<1>9. lineMarked \subseteq lineMarked' /\ LinesToMark(o, hdr[o].size) \subseteq lineMarked'
  BY <1>1, <1>3 DEF LineInv, MarksReal
<1>10. TypeOK'
  <2>1. lineMarked' \subseteq 0 .. LINES
    BY <1>1, <1>8 DEF LineInv, TypeOK
  <2> QED  BY <1>1, <1>2, <1>5, <2>1 DEF LineInv, TypeOK
<1>11. HoleOpen'
  BY <1>2 DEF LineInv, HoleOpen
<1>12. StaleBeyond'
  BY <1>2, <1>6 DEF LineInv, StaleBeyond
<1>13. Whole'
  <2> SUFFICES ASSUME NEW a \in real
               PROVE  /\ hdr'[a].size > 0 /\ a + hdr'[a].size <= End
                      /\ \A c \in Body(a) : hdr'[c].size = 0
    BY <1>2, <1>7 DEF Whole
  <2>1. \A c \in Body(a) : c \in Cells
    <3>1. Extent(a) \subseteq Cells
      BY Apart DEF NoOverlap
    <3>2. a \in Nat /\ hdr[a].size \in Nat
      BY <1>7, Numbers, HeaderTypes DEF LineInv, TypeOK
    <3>3. Body(a) \subseteq Extent(a)
      BY <3>2 DEF Body, Extent
    <3> QED  BY <3>1, <3>3
  <2> QED  BY <1>6, <1>7, <2>1 DEF LineInv, Whole
<1>14. Placed'
  <2> SUFFICES ASSUME NEW a \in real
               PROVE  IF hdr'[a].used THEN \A c \in Extent(a) : LineOf(c) \in used
                                      ELSE a + hdr'[a].size <= cursor
    BY <1>2, <1>7 DEF Placed
  <2> QED  BY <1>6, <1>7 DEF LineInv, Placed
<1>15. MarksReal'
  <2> SUFFICES ASSUME NEW c \in Cells, hdr'[c].marked
               PROVE  c \in real /\ LinesToMark(c, hdr[c].size) \subseteq lineMarked'
    BY <1>1, <1>2, <1>6 DEF MarksReal, LinesToMark, Small
  <2>1. CASE c = o
    BY <1>3, <1>9, <2>1
  <2>2. CASE c # o
    BY <1>5, <1>9, <2>2 DEF LineInv, MarksReal
  <2> QED  BY <2>1, <2>2
<1>16. SizesKept
  BY <1>2, <1>6, <1>7 DEF SizesKept
<1> QED  BY <1>10, <1>11, <1>12, <1>13, <1>14, <1>15, <1>16 DEF LineInv

LEMMA ResetKeeps == ASSUME LineInv, Reset PROVE LineInv'
<1>1. /\ marking /\ ~marked /\ live = {}
      /\ cursor' = 0 /\ holeEnd' = End /\ used' = {} /\ lineMarked' = {}
      /\ available' = LINES /\ holes' = 1 /\ open' = TRUE /\ marking' = FALSE /\ real' = {}
      /\ UNCHANGED <<hdr, marked, live>>
  BY DEF Reset
<1>2. End \in Nat /\ End = Start(LINES) /\ LINES \in Nat /\ \A c \in Cells : c \in Nat /\ c < End
  BY Block
<1>3. TypeOK'
  <2>1. LINES \in 0 .. LINES /\ 1 \in 0 .. LINES /\ 0 \in 0 .. End /\ End \in 0 .. End
    BY <1>2
  <2> QED  BY <1>1, <2>1 DEF LineInv, TypeOK
<1>4. HoleOpen' /\ StaleBeyond' /\ Whole' /\ Placed'
  BY <1>1, <1>2 DEF HoleOpen, StaleBeyond, Whole, Placed
<1>5. MarksReal'
  <2>1. \A c \in Cells : ~hdr[c].marked
    BY <1>1 DEF LineInv, MarksReal
  <2> QED  BY <1>1, <2>1 DEF MarksReal
<1> QED  BY <1>3, <1>4, <1>5 DEF LineInv

LEMMA NextKeeps == ASSUME LineInv, [Next]_vars PROVE LineInv'
<1>1. ASSUME NEW n \in Sizes, AllocSmall(n) \/ AllocMedium(n) \/ AllocFail(n) \/ AllocExhausted(n)
      PROVE  LineInv'
  BY <1>1, AllocSmallKeeps, AllocMediumKeeps, AllocFailKeeps, AllocExhaustedKeeps
<1>2. ASSUME NEW o \in Cells, Drop(o) PROVE LineInv'
  BY <1>2, DropKeeps
<1>3. CASE StartMark
  BY <1>3, StartMarkKeeps
<1>4. ASSUME NEW p \in Cells, Mark(p) PROVE LineInv'
  BY <1>4, MarkKeeps
<1>5. CASE Sweep
  BY <1>5, SweepKeeps
<1>6. CASE Reset
  BY <1>6, ResetKeeps
<1>7. CASE UNCHANGED vars
  <2>1. UNCHANGED <<cursor, holeEnd, available, holes, used, lineMarked, hdr, marked, open, marking, real, live>>
    BY <1>7 DEF vars, hole
  <2>2. TypeOK'
    BY <2>1 DEF LineInv, TypeOK
  <2>3. HoleOpen' /\ StaleBeyond' /\ Whole' /\ Placed'
    BY <2>1 DEF LineInv, HoleOpen, StaleBeyond, Whole, Placed, Body, Extent
  <2>4. MarksReal'
    BY <2>1 DEF LineInv, MarksReal, LinesToMark, Small
  <2> QED  BY <2>2, <2>3, <2>4 DEF LineInv
<1> QED  BY <1>1, <1>2, <1>3, <1>4, <1>5, <1>6, <1>7 DEF Next

\* The invariant holds in every reachable state of a block: variables have
\* their types, and the hole, the headers and the marks agree.
THEOREM BlockInvariant == Spec => []LineInv
<1>1. Init => LineInv
  BY InitKeeps
<1>2. LineInv /\ [Next]_vars => LineInv'
  BY NextKeeps
<1> QED  BY <1>1, <1>2, PTL DEF Spec

-----------------------------------------------------------------------
(* The properties.                                                       *)

\* The words of two objects are never shared, and no object is in the hole
\* the next one is put into: alloc and correct_header of a block.
THEOREM ObjectsApart == Spec => []NoOverlap
<1>1. LineInv => NoOverlap
  BY Apart
<1> QED  BY <1>1, BlockInvariant, PTL

\* from_unaligned_ptr and the cursor test of mark_ptr lead from every word
\* of an object to that object.
THEOREM PointersFindObjects == Spec => []ObjectsFound
<1>1. LineInv => ObjectsFound
  BY Found
<1> QED  BY <1>1, BlockInvariant, PTL

\* mark_ptr marks no object that was reclaimed, whatever word it is given.
THEOREM ReclaimedStaysDead == Spec => []DeadStayDead
<1>1. LineInv => DeadStayDead
  BY Dead
<1> QED  BY <1>1, BlockInvariant, PTL

\* The lines of an object that survived a collection are used.
THEOREM SurvivorsCovered == Spec => []LinesCover
<1>1. LineInv => LinesCover
  BY Covered
<1> QED  BY <1>1, BlockInvariant, PTL

LEMMA SweepCounts == ASSUME LineInv, Sweep PROVE HolesExact'
<1>1. /\ used' = lineMarked \cap Lines
      /\ cursor' = Scanned.cursor /\ holes' = Scanned.holes
      /\ available' = LINES - Cardinality(lineMarked \cap Lines)
  BY DEF Sweep
<1>2. /\ LINES \in Nat /\ Lines = {l \in Nat : l < LINES}
      /\ \A l \in Lines : l \in Nat /\ l < LINES
  BY Block
<1>3. ScannedTo(Scanned, LINES)
  BY HolesScanned
<1>4. HoleStarts' = StartsBefore(LINES)
  <2>1. ASSUME NEW l \in Lines
        PROVE  /\ l \in used' <=> l \in lineMarked
               /\ l = 0 \/ (l - 1 \in used' <=> l - 1 \in lineMarked)
    <3>1. l = 0 \/ l - 1 \in Lines
      BY <1>2
    <3> QED  BY <1>1, <3>1
  <2> QED  BY <1>2, <2>1 DEF HoleStarts, StartsBefore
<1>5. holes' = Cardinality(HoleStarts')
  BY <1>1, <1>3, <1>4 DEF ScannedTo
<1>6. available' = Cardinality(Lines \ used')
  <2>1. Lines \cap (lineMarked \cap Lines) = lineMarked \cap Lines
    OBVIOUS
  <2>2. Cardinality(Lines \ (lineMarked \cap Lines)) = LINES - Cardinality(lineMarked \cap Lines)
    <3> DEFINE T == lineMarked \cap Lines
    <3>1. IsFiniteSet(Lines) /\ Cardinality(Lines) = LINES /\ Lines \cap T = T
      BY <2>1, LinesFinite
    <3> HIDE DEF T
    <3>2. Cardinality(Lines \ T) = Cardinality(Lines) - Cardinality(Lines \cap T)
      BY <3>1, FS_Difference
    <3> QED  BY <3>1, <3>2 DEF T
  <2> QED  BY <1>1, <2>2
<1>7. CASE NoHoleYet(Scanned, LINES)
  <2>1. StartsBefore(LINES) = {}
    BY <1>2, <1>7 DEF NoHoleYet, AllMarked, StartsBefore
  <2>2. cursor' = End
    BY <1>1, <1>7 DEF NoHoleYet
  <2> QED  BY <1>4, <1>5, <1>6, <2>1, <2>2 DEF HolesExact
<1>8. ASSUME NEW f \in Lines, FirstHoleAt(Scanned, LINES, f) PROVE HolesExact'
  <2>1. f \notin lineMarked /\ AllMarked(f) /\ cursor' = Start(f) /\ f \in Nat
    BY <1>1, <1>2, <1>8 DEF FirstHoleAt
  <2>2. f \in StartsBefore(LINES)
    <3>1. f = 0 \/ (f - 1 \in Lines /\ f - 1 < f)
      BY <1>2, <2>1
    <3> QED  BY <1>2, <2>1, <3>1 DEF StartsBefore, AllMarked
  <2>3. \A k \in StartsBefore(LINES) : k \in Nat /\ ~(k < f)
    BY <1>2, <2>1 DEF StartsBefore, AllMarked
  <2>4. Min(StartsBefore(LINES)) = f
    <3>1. StartsBefore(LINES) \subseteq Nat
      BY <2>3
    <3>2. /\ Min(StartsBefore(LINES)) \in StartsBefore(LINES)
          /\ \A k \in StartsBefore(LINES) : Min(StartsBefore(LINES)) <= k
      BY <2>2, <3>1, MinIsLeast
    <3> DEFINE m == Min(StartsBefore(LINES))
    <3> HIDE DEF m
    <3>3. m \in Nat /\ ~(m < f) /\ m <= f
      BY <2>2, <2>3, <3>2 DEF m
    <3> QED  BY <2>1, <3>3 DEF m
  <2>5. (Min(HoleStarts))' = f /\ HoleStarts' # {}
    BY <1>4, <2>2, <2>4
  <2>6. cursor' = f * LINE
    BY <2>1 DEF Start
  <2> QED  BY <1>5, <1>6, <2>5, <2>6 DEF HolesExact
<1> QED  BY <1>3, <1>7, <1>8 DEF ScannedTo

LEMMA ResetCounts == ASSUME Reset PROVE HolesExact'
<1>1. used' = {} /\ cursor' = 0 /\ holes' = 1 /\ available' = LINES
  BY DEF Reset
<1>2. 0 \in Lines /\ \A l \in Lines : l \in Nat
  BY Block
<1>3. HoleStarts' = {0}
  BY <1>1, <1>2 DEF HoleStarts
<1>4. Cardinality({0}) = 1 /\ Cardinality(Lines \ {}) = LINES
  <2>1. Lines \ {} = Lines
    OBVIOUS
  <2> QED  BY <2>1, LinesFinite, FS_Singleton
<1>5. Min({0}) = 0
  BY MinIsLeast
<1>6. (Min(HoleStarts))' = 0 /\ HoleStarts' # {} /\ 0 * LINE = 0
  BY <1>3, <1>5
<1> QED  BY <1>1, <1>3, <1>4, <1>6 DEF HolesExact

\* What evacuation reads after a sweep is what the block has: correct_header
\* counts the holes and their lines, and leaves the cursor in the first one.
THEOREM SweepIsExact == Spec => SweptHolesExact
<1>1. LineInv /\ [Next]_vars => [marking /\ ~marking' => HolesExact']_vars
  <2> SUFFICES ASSUME LineInv, Next, marking, ~marking' PROVE HolesExact'
    OBVIOUS
  <2>1. CASE Sweep
    BY <2>1, SweepCounts
  <2>2. CASE Reset
    BY <2>2, ResetCounts
  <2>3. CASE ~(Sweep \/ Reset)
    <3>1. marking' = marking \/ marking'
      BY <2>3 DEF Next, AllocSmall, AllocMedium, AllocFail, AllocExhausted, AllocAt, Drop,
                  StartMark, Mark
    <3> QED  BY <3>1
  <2> QED  BY <2>1, <2>2, <2>3
<1> QED  BY <1>1, BlockInvariant, PTL DEF Spec, SweptHolesExact

-----------------------------------------------------------------------
(* The block implements a store of objects.                              *)

\* A word leads to the object whose body it points into, and to nothing
\* else.
LEMMA Exact == ASSUME LineInv PROVE Store!FoundExactly
<1>1. ASSUME NEW o \in real PROVE hdr[o].size = [a \in real |-> hdr[a].size][o]
  OBVIOUS
<1>2. ASSUME NEW p \in Cells PROVE Target(p) = {o \in real : p \in Body(o)}
  <2>1. ASSUME NEW o \in real, p \in Body(o) PROVE Target(p) = {o}
    BY <2>1, Found DEF ObjectsFound
  <2>2. ASSUME NEW o \in Target(p) PROVE o \in real /\ p \in Body(o)
    <3>1. o \in real
      BY Dead DEF DeadStayDead
    <3>2. p \in Body(o)
      BY DEF Target, Find
    <3> QED  BY <3>1, <3>2
  <2> QED  BY <2>1, <2>2
<1>3. \A p \in Cells : Store!Owners(p) = {o \in real : p \in Body(o)}
  BY <1>1 DEF Store!Owners, Store!Objects, Body
<1> QED  BY <1>2, <1>3 DEF Store!FoundExactly

LEMMA StoreStep ==
    ASSUME LineInv, Store!FoundExactly, Store!FoundExactly', [Next]_vars
    PROVE  [Store!Next]_(Store!vars)
<1> DEFINE size == [o \in real |-> hdr[o].size]
           found == [p \in Cells |-> Target(p)]
<1>1. Store!Objects = real /\ \A o \in real : size[o] = hdr[o].size
  BY DEF Store!Objects
<1>2. Store!Taken = UNION {Extent(o) : o \in real}
  BY <1>1 DEF Store!Taken, Extent
<1>3. ASSUME SizesKept, real' = real, live' = live PROVE UNCHANGED Store!vars
  <2>1. size' = size
    BY <1>3 DEF SizesKept
  <2>2. \A p \in Cells : Store!Owners(p)' = Store!Owners(p)
    BY <2>1 DEF Store!Owners, Store!Objects
  <2>3. found' = found
    BY <2>2 DEF Store!FoundExactly
  <2> QED  BY <1>3, <2>1, <2>3 DEF Store!vars
<1>4. ASSUME NEW n \in Sizes, NEW o, Put(o, n) PROVE Store!Next
  <2>1. size' = [q \in Store!Objects \cup {o} |-> IF q = o THEN n ELSE size[q]]
    BY <1>1, <1>4 DEF Put
  <2>2. o .. o + n - 1 \subseteq Cells \ Store!Taken
    BY <1>2, <1>4 DEF Put
  <2>3. Store!Allocate(o, n)
    BY <1>4, <2>1, <2>2 DEF Put, Store!Allocate
  <2> QED  BY <1>4, <2>3 DEF Put, Store!Next
<1>5. ASSUME SizesKept, real' \subseteq real, live \subseteq real', live' = live PROVE Store!Next
  <2>1. PICK kept : kept = real'
    OBVIOUS
  <2>2. kept \in SUBSET Store!Objects
    BY <1>1, <1>5, <2>1
  <2>3. size' = [o \in kept |-> size[o]]
    BY <1>1, <1>5, <2>1 DEF SizesKept
  <2>4. Store!Collect(kept)
    BY <1>5, <2>1, <2>3 DEF Store!Collect
  <2> QED  BY <2>2, <2>4 DEF Store!Next
<1>6. ASSUME NEW n \in Sizes, AllocSmall(n) \/ AllocMedium(n) PROVE Store!Next
  BY <1>4, <1>6, AllocSmallKeeps, AllocMediumKeeps
<1>7. ASSUME NEW n \in Sizes, AllocFail(n) PROVE UNCHANGED Store!vars
  <2>1. UNCHANGED <<hdr, real, live>>
    BY <1>7 DEF AllocFail
  <2> QED  BY <1>3, <2>1 DEF SizesKept
<1>8. ASSUME NEW n \in Sizes, AllocExhausted(n) PROVE UNCHANGED Store!vars
  <2>1. UNCHANGED <<real, live>>
    BY <1>8 DEF AllocExhausted
  <2> QED  BY <1>3, <1>8, <2>1, AllocExhaustedKeeps
<1>9. ASSUME NEW o \in Cells, Drop(o) PROVE Store!Next
  <2>1. o \in live /\ live' = live \ {o} /\ UNCHANGED <<hdr, real, cursor, used>>
    BY <1>9 DEF Drop, hole
  <2>2. size' = size
    BY <2>1
  <2>3. \A p \in Cells : Store!Owners(p)' = Store!Owners(p)
    BY <2>2 DEF Store!Owners, Store!Objects
  <2>4. found' = found
    BY <2>3 DEF Store!FoundExactly
  <2>5. Store!Drop(o)
    BY <2>1, <2>2, <2>4 DEF Store!Drop
  <2> QED  BY <2>1, <2>5 DEF Store!Next
<1>10. ASSUME StartMark PROVE UNCHANGED Store!vars
  <2>1. UNCHANGED <<hdr, real, live>>
    BY <1>10 DEF StartMark
  <2> QED  BY <1>3, <2>1 DEF SizesKept
<1>11. ASSUME NEW p \in Cells, Mark(p) PROVE UNCHANGED Store!vars
  <2>1. UNCHANGED <<real, live>>
    BY <1>11 DEF Mark
  <2> QED  BY <1>3, <1>11, <2>1, MarkKeeps
<1>12. ASSUME Sweep PROVE Store!Next
  <2>1. real' = {o \in real : hdr[o].marked} /\ live' = live /\ \A o \in live : hdr[o].marked
    BY <1>12 DEF Sweep
  <2>2. live \subseteq real
    BY DEF LineInv, TypeOK
  <2> QED  BY <1>5, <1>12, <2>1, <2>2, SweepKeeps
<1>13. ASSUME Reset PROVE Store!Next
  <2>1. real' = {} /\ live = {} /\ live' = live
    BY <1>13 DEF Reset
  <2>2. SizesKept
    BY <2>1 DEF SizesKept
  <2> QED  BY <1>5, <2>1, <2>2
<1>14. ASSUME UNCHANGED vars PROVE UNCHANGED Store!vars
  <2>1. UNCHANGED <<hdr, real, live>>
    BY <1>14 DEF vars
  <2> QED  BY <1>3, <2>1 DEF SizesKept
<1> QED  BY <1>6, <1>7, <1>8, <1>9, <1>10, <1>11, <1>12, <1>13, <1>14 DEF Next

\* Block::alloc, from_unaligned_ptr, mark_ptr and correct_header together
\* implement a store of objects, for every size of lines and of blocks: each
\* allocation takes cells nobody owns, each word leads to the object it
\* points into or to nothing, and a collection takes only what the program
\* does not reach and moves or resizes nothing.
THEOREM BlockIsStore == Spec => ImplementsStore
<1>1. Init /\ Store!FoundExactly => Store!Init
  BY DEF Init, Store!Init
<1>2. LineInv => Store!FoundExactly
  BY Exact
<1>3. LineInv /\ Store!FoundExactly /\ Store!FoundExactly' /\ [Next]_vars => [Store!Next]_(Store!vars)
  BY StoreStep
<1> QED  BY <1>1, <1>2, <1>3, BlockInvariant, PTL DEF Spec, ImplementsStore, Store!Spec
=======================================================================
