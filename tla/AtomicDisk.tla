----------------------------- MODULE AtomicDisk -----------------------------
(***************************************************************************)
(* What the xv6 log promises the file system: a disk on which a group of   *)
(* file-system calls takes effect as one atomic step.                      *)
(*                                                                         *)
(* `current' is what the running kernel reads, `durable' what it would     *)
(* read after a power failure now, `open' the calls between begin_op() and *)
(* end_op().  A crash takes the kernel back to `durable'; `durable' only   *)
(* moves to `current', as a whole and never while a call is open, so a     *)
(* crash keeps all of a call's updates or none of them.                    *)
(***************************************************************************)
CONSTANTS Proc, Block, Val

VARIABLES durable, current, open

vars == <<durable, current, open>>

Init == /\ durable \in [Block -> Val]
        /\ current = durable
        /\ open = {}

Begin(p) == /\ p \notin open
            /\ open' = open \cup {p}
            /\ UNCHANGED <<durable, current>>

Write(p, b, v) == /\ p \in open
                  /\ current' = [current EXCEPT ![b] = v]
                  /\ UNCHANGED <<durable, open>>

End(p) == /\ p \in open
          /\ open' = open \ {p}
          /\ UNCHANGED <<durable, current>>

Commit == /\ open = {}
          /\ durable' = current
          /\ UNCHANGED <<current, open>>

Crash == /\ current' = durable
         /\ open' = {}
         /\ UNCHANGED durable

Next == \/ \E p \in Proc : Begin(p) \/ End(p)
        \/ \E p \in Proc, b \in Block, v \in Val : Write(p, b, v)
        \/ Commit
        \/ Crash

Spec == Init /\ [][Next]_vars
=============================================================================
