------------------------------- MODULE MCLog -------------------------------
(* The log with a small instance for TLC: see README.md for the bounds. *)
EXTENDS Log, TLC

Symmetry == Permutations(Proc)
=============================================================================
