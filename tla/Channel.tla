------------------------------ MODULE Channel ------------------------------
(***************************************************************************)
(* What a pipe promises: a bounded first-in first-out channel of bytes.    *)
(* `q' is what has been written and not yet read.  A write appends while   *)
(* somebody may still read; a read takes a prefix.                         *)
(***************************************************************************)
EXTENDS Integers, Sequences

CONSTANTS Val,   \* bytes
          Cap    \* capacity

VARIABLES q, ropen, wopen

vars == <<q, ropen, wopen>>

Init == q = <<>> /\ ropen = FALSE /\ wopen = FALSE

\* A new pipe, once the old one is closed at both ends.
Open == /\ ~ropen /\ ~wopen
        /\ ropen' = TRUE /\ wopen' = TRUE
        /\ q' = <<>>

Write == /\ ropen /\ wopen
         /\ \E n \in 1..Cap - Len(q) : \E s \in [1..n -> Val] : q' = q \o s
         /\ UNCHANGED <<ropen, wopen>>

Read == /\ ropen
        /\ \E k \in 1..Len(q) : q' = SubSeq(q, k + 1, Len(q))
        /\ UNCHANGED <<ropen, wopen>>

Close == /\ \/ ropen' = FALSE /\ UNCHANGED wopen
            \/ wopen' = FALSE /\ UNCHANGED ropen
         /\ q' = IF ropen' \/ wopen' THEN q ELSE <<>>

Next == Open \/ Write \/ Read \/ Close

Spec == Init /\ [][Next]_vars
=============================================================================
