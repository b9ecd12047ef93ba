------------------------------- MODULE MCProc -------------------------------
(* Processes with a small instance for TLC: see README.md for the bounds. *)
EXTENDS Proc, TLC

Symmetry == Permutations(CPU)

\* Bound, for the liveness of wait(): nobody calls acquiresleep().
NoSleepLocks == Init /\ [][Next /\ \A p \in Slot : pc'[p] # "lacq"]_vars /\ Fairness
=============================================================================
