------------------------------- MODULE MCPipe -------------------------------
(* The pipe with a small instance for TLC: see README.md for the bounds. *)
EXTENDS Pipe, TLC

Symmetry == Permutations(Proc)
=============================================================================
