------------------------------- MODULE MCPipe -------------------------------
(***************************************************************************)
(* Pipe for TLC: threads of one kind are interchangeable in the runs that  *)
(* check safety.                                                           *)
(***************************************************************************)
EXTENDS Pipe, TLC

Symmetry == Permutations(Producers) \cup Permutations(Consumers)
=============================================================================
