------------------------------ MODULE MCMirRun ------------------------------
(***************************************************************************)
(* The lowering to MIR for TLC: the programs of MCPrograms.                *)
(***************************************************************************)
EXTENDS MirRun, MCPrograms
=============================================================================
