--------------------------- MODULE MCLirPipeline ---------------------------
(***************************************************************************)
(* A part of the programs: every so many of those with loops and choices,  *)
(* and more of those with operators that merge values by themselves.       *)
(***************************************************************************)
EXTENDS LirPipeline, MCPrograms

Every(n, a) == [k \in 1 .. Len(a) \div n |-> a[k * n]]

LirPrograms == Every(40, AllPrograms) \o Every(9, Each(Body, Choosing))
============================================================================
