--------------------------- MODULE MCBlocks ---------------------------
(* Blocks for TLC: two threads that stay, for two blocks which they can  *)
(* overrun by one; one that has three; and one that has three, ends,     *)
(* joins again and inherits its own.                                     *)
EXTENDS Blocks, TLC

CONSTANTS t1, t2

MCCrews == {[threads |-> Threads, leavers |-> {}, heap |-> 2]}
           \cup [threads : {{t} : t \in Threads}, leavers : {{}}, heap : {3}]
           \cup {[threads |-> {t}, leavers |-> {t}, heap |-> 3] : t \in Threads}

\* No property tells the threads apart.
SameThreads == Permutations({t1, t2})
=======================================================================
