-------------------------- MODULE ObjectStore -------------------------
(* What a block of the Immix heap promises to the program and to the     *)
(* collector, without lines, holes, headers and marks: objects that      *)
(* share no cell, each found from every pointer behind its header and    *)
(* from nowhere else, and gone only in a collection, when the program    *)
(* does not reach them.                                                  *)
EXTENDS Integers

CONSTANTS
    Cells,    \* the cells of the block
    Sizes     \* sizes of objects in cells

VARIABLES
    size,     \* the objects by address, and their sizes
    live,     \* those the program reaches
    found     \* what a word that points to a cell leads to

vars == <<size, live, found>>

Objects == DOMAIN size
Taken == UNION {o .. o + size[o] - 1 : o \in Objects}

\* The objects a pointer to cell p may mean.
Owners(p) == {o \in Objects : p \in o + 1 .. o + size[o] - 1}
FoundExactly == found = [p \in Cells |-> Owners(p)]

Init ==
    /\ size = [o \in {} |-> 0] /\ live = {}
    /\ FoundExactly

Allocate(o, n) ==
    /\ size' = [q \in Objects \cup {o} |-> IF q = o THEN n ELSE size[q]]
    /\ o .. o + n - 1 \subseteq Cells \ Taken
    /\ live' = live \cup {o}
    /\ FoundExactly'

Drop(o) ==
    /\ live' = live \ {o}
    /\ UNCHANGED <<size, found>>

Collect(kept) ==
    /\ live \subseteq kept
    /\ size' = [o \in kept |-> size[o]]
    /\ UNCHANGED live
    /\ FoundExactly'

Next ==
    \/ \E o \in Cells, n \in Sizes : Allocate(o, n)
    \/ \E o \in live : Drop(o)
    \/ \E kept \in SUBSET Objects : Collect(kept)

Spec == Init /\ [][Next]_vars
=======================================================================
