----------------------------- MODULE RoundRobin -----------------------------
(***************************************************************************)
(* What the cooperative threads of MP1 promise: the threads take turns in  *)
(* the order in which they were added, and the thread whose turn it is     *)
(* runs the task assigned to it last, its own function once it has none.   *)
(***************************************************************************)
EXTENDS Integers, Sequences, SequencesExt

CONSTANTS Thread, Task, NULL

VARIABLES ring,    \* threads in the order of their turns, the current one first
          tasks,   \* the tasks of each thread, the one to run next first
          running  \* the function that has the processor; NULL is main()

vars == <<ring, tasks, running>>

Init == ring = <<>> /\ running = NULL /\ tasks = [t \in Thread |-> <<>>]

\* The function that runs when the turn comes to the head of r.
Top(r, ts) == IF ts[r[1]] = <<>> THEN r[1] ELSE ts[r[1]][1]

Add == /\ \E t \in Thread \ ToSet(ring) : ring' = Append(ring, t)
       /\ UNCHANGED <<tasks, running>>

Assign == /\ \E t \in Thread, k \in Task :
               /\ \A u \in Thread : k \notin ToSet(tasks[u])
               /\ tasks' = [tasks EXCEPT ![t] = <<k>> \o @]
          /\ UNCHANGED <<ring, running>>

Start == /\ running = NULL /\ ring # <<>>
         /\ running' = Top(ring, tasks)
         /\ UNCHANGED <<ring, tasks>>

Yield == /\ running # NULL
         /\ ring' = Append(Tail(ring), Head(ring))
         /\ running' = Top(ring', tasks)
         /\ UNCHANGED tasks

TaskEnds == /\ running \in Task
            /\ tasks' = [tasks EXCEPT ![Head(ring)] =
                              RemoveAt(@, CHOOSE i \in DOMAIN @ : @[i] = running)]
            /\ running' = Top(ring, tasks')
            /\ UNCHANGED ring

ThreadEnds == /\ running # NULL
              /\ tasks' = [tasks EXCEPT ![Head(ring)] = <<>>]
              /\ ring' = Tail(ring)
              /\ running' = IF ring' = <<>> THEN NULL ELSE Top(ring', tasks')

Next == Add \/ Assign \/ Start \/ Yield \/ TaskEnds \/ ThreadEnds

Spec == Init /\ [][Next]_vars
=============================================================================
