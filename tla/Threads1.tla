------------------------------ MODULE Threads1 ------------------------------
(***************************************************************************)
(* The user-level threads of MP1 (user/threads.c): cooperative threads in  *)
(* a doubly linked ring, each with a doubly linked stack of tasks.         *)
(*                                                                         *)
(* A step is what the running function does up to the point where another *)
(* function has the processor, or one library call that comes back.  Nodes *)
(* are the structs that malloc() hands out; a freed one may be handed out  *)
(* again.  A context (`env') is the function whose registers setjmp() put  *)
(* there.  Fields of a freed struct and a context that longjmp() has used  *)
(* are set to NULL here, where the code leaves what was in them: a later   *)
(* use of what is left shows as a list or a processor gone astray.         *)
(***************************************************************************)
EXTENDS Integers, Sequences, FiniteSets

CONSTANTS Thread,  \* structs thread that can be allocated at a time
          Task,    \* structs task that can be allocated at a time
          NULL

ASSUME Threads1Assumption ==
    /\ IsFiniteSet(Thread) /\ IsFiniteSet(Task)
    /\ Thread \cap Task = {} /\ NULL \notin Thread \cup Task

Node == Thread \cup Task

VARIABLES
    current_thread, current_task,   \* static pointers of threads.c
    next, previous, top,            \* struct thread
    prev, nxt,                      \* struct task
    buf_set, env,                   \* of both structs
    live,      \* nodes that are allocated
    added,     \* threads given to thread_add_runqueue()
    running    \* the function that has the processor; NULL is main()

ringVars == <<current_thread, next, previous, added>>
stackVars == <<top, prev, nxt>>
runVars == <<current_task, buf_set, env, running>>
vars == <<ringVars, stackVars, runVars, live>>

Init ==
    /\ current_thread = NULL /\ current_task = NULL
    /\ next = [t \in Thread |-> NULL] /\ previous = [t \in Thread |-> NULL]
    /\ top = [t \in Thread |-> NULL]
    /\ prev = [k \in Task |-> NULL] /\ nxt = [k \in Task |-> NULL]
    /\ buf_set = [n \in Node |-> FALSE] /\ env = [n \in Node |-> NULL]
    /\ live = {} /\ added = {} /\ running = NULL

-----------------------------------------------------------------------------
(* Calls that come back to their caller. *)

ThreadCreate(t) ==
    /\ t \notin live
    /\ live' = live \cup {t}
    /\ buf_set' = [buf_set EXCEPT ![t] = FALSE]
    /\ top' = [top EXCEPT ![t] = NULL]
    /\ UNCHANGED <<ringVars, prev, nxt, current_task, env, running>>

\* Mutant: the thread is put behind the current one.
AddAfterCurrent(t) ==
    /\ t \in live \ added
    /\ added' = added \cup {t}
    /\ IF current_thread = NULL
       THEN /\ current_thread' = t
            /\ next' = [next EXCEPT ![t] = t]
            /\ previous' = [previous EXCEPT ![t] = t]
       ELSE LET first == next[current_thread] IN
            /\ next' = [next EXCEPT ![current_thread] = t, ![t] = first]
            /\ previous' = [previous EXCEPT ![t] = current_thread, ![first] = t]
            /\ UNCHANGED current_thread
    /\ UNCHANGED <<stackVars, runVars, live>>

\* The caller adds a thread once.
AddRunqueue(t) ==
    /\ t \in live \ added
    /\ added' = added \cup {t}
    /\ IF current_thread = NULL
       THEN /\ current_thread' = t
            /\ next' = [next EXCEPT ![t] = t]
            /\ previous' = [previous EXCEPT ![t] = t]
       ELSE LET last == previous[current_thread] IN
            /\ next' = [next EXCEPT ![last] = t, ![t] = current_thread]
            /\ previous' = [previous EXCEPT ![t] = last, ![current_thread] = t]
            /\ UNCHANGED current_thread
    /\ UNCHANGED <<stackVars, runVars, live>>

AssignTask(t, k) ==
    /\ t \in live /\ k \notin live
    /\ live' = live \cup {k}
    /\ buf_set' = [buf_set EXCEPT ![k] = FALSE]
    /\ prev' = [prev EXCEPT ![k] = top[t]]
    /\ nxt' = [n \in Task |-> IF n = k THEN NULL ELSE IF n = top[t] THEN k ELSE nxt[n]]
    /\ top' = [top EXCEPT ![t] = k]
    /\ UNCHANGED <<ringVars, current_task, env, running>>

-----------------------------------------------------------------------------
(* Switching. *)

\* The fields f of the structs S that are freed.
Freed(f, S) == [n \in DOMAIN f |-> IF n \in S THEN NULL ELSE f[n]]

\* dispatch(): thread t goes on with the task k on top of its stack, or with
\* its own function if there is none.  A function that has not begun begins;
\* one that has goes on with the context saved for it.
Dispatch(t, k, saved) ==
    LET n == IF k = NULL THEN t ELSE k IN
    /\ current_task' = k
    /\ running' = IF buf_set[n] THEN saved[n] ELSE n
    /\ buf_set' = [buf_set EXCEPT ![n] = TRUE]
    \* the context of a function that begins is dispatch() itself, no function
    /\ env' = [saved EXCEPT ![n] = NULL]

Start ==
    /\ running = NULL /\ current_thread # NULL
    /\ Dispatch(current_thread, top[current_thread], env)
    /\ UNCHANGED <<ringVars, stackVars, live>>

\* Mutant: the turn stays where it is.
YieldStays ==
    /\ running # NULL
    /\ Dispatch(current_thread, top[current_thread],
                [env EXCEPT ![IF current_task = NULL THEN current_thread ELSE current_task]
                              = running])
    /\ UNCHANGED <<ringVars, stackVars, live>>

\* The context that thread_yield() saves into.
YieldEnv == IF current_task = NULL THEN current_thread ELSE current_task

ThreadYield ==
    /\ running # NULL
    /\ current_thread' = next[current_thread]
    /\ Dispatch(current_thread', top[current_thread'], [env EXCEPT ![YieldEnv] = running])
    /\ UNCHANGED <<next, previous, added, stackVars, live>>

\* Mutant: the task above keeps pointing at the one that ends.
PrevUnfixed(k) == prev

\* task_exit(): the task above k, if there is one, comes to stand on the one below.
PrevWithout(k) == [n \in Task |-> IF n = nxt[k] THEN prev[k] ELSE prev[n]]

\* The function of a task returns into dispatch(): task_exit() takes the task
\* out of its list, and dispatch() goes on with the top of what is left.
TaskExit ==
    LET t == current_thread
        k == current_task
    IN
    /\ running \in Task
    /\ nxt' = Freed([n \in Task |-> IF n = prev[k] THEN nxt[k] ELSE nxt[n]], {k})
    /\ prev' = Freed(PrevWithout(k), {k})
    /\ top' = IF top[t] = k THEN [top EXCEPT ![t] = prev[k]] ELSE top
    /\ live' = live \ {k}
    /\ Dispatch(t, top'[t], Freed(env, {k}))
    /\ UNCHANGED ringVars

\* The nodes that the pointers f lead to from the node a on.
Chain(a, f, m) ==
    LET node[n \in 1..m] == IF n = 1 THEN a
                            ELSE IF node[n-1] = NULL THEN NULL ELSE f[node[n-1]]
    IN node

Stack(t) == Chain(top[t], prev, Cardinality(Task))

\* The tasks that thread_exit() frees: prev from the top on.
StackOf(t) == {Stack(t)[n] : n \in 1..Cardinality(Task)} \ {NULL}

\* thread_exit(), also at the return of a thread's function.
ThreadExit ==
    LET t == current_thread
        freed == {t} \cup StackOf(t)
    IN
    /\ running # NULL
    /\ added' = added \ {t}
    /\ live' = live \ freed
    /\ next' = Freed([next EXCEPT ![previous[t]] = next[t]], {t})
    /\ previous' = Freed([previous EXCEPT ![next[t]] = previous[t]], {t})
    /\ top' = Freed(top, {t}) /\ prev' = Freed(prev, freed) /\ nxt' = Freed(nxt, freed)
    /\ IF next[t] # t
       THEN /\ current_thread' = next[t]
            /\ Dispatch(next[t], top[next[t]], Freed(env, freed))
       ELSE /\ current_thread' = NULL /\ running' = NULL
            /\ env' = Freed(env, freed)
            /\ UNCHANGED <<current_task, buf_set>>

Next ==
    \/ \E t \in Thread : ThreadCreate(t) \/ AddRunqueue(t)
    \/ \E t \in Thread, k \in Task : AssignTask(t, k)
    \/ Start \/ ThreadYield \/ TaskExit \/ ThreadExit

Spec == Init /\ [][Next]_vars

\* The threads are cooperative: each gives up the processor or ends in the end.
FairSpec == Spec /\ WF_vars(ThreadYield \/ ThreadExit)

-----------------------------------------------------------------------------
(***************************************************************************)
(* Properties                                                              *)
(***************************************************************************)

\* The threads in the order of their turns, following next.
Ring == [n \in 1..Cardinality(added) |-> Chain(current_thread, next, Cardinality(Thread))[n]]

\* The tasks of t, following prev from the top.
Tasks(t) ==
    [n \in 1..Cardinality({d \in 1..Cardinality(Task) : Stack(t)[d] # NULL}) |-> Stack(t)[n]]

TasksOf == [t \in Thread |-> IF t \in live THEN Tasks(t) ELSE <<>>]

Items(s) == {s[n] : n \in DOMAIN s}

\* The lists stay whole when threads exit, tasks return out of order and freed
\* structs are used again: next goes round all the added threads and previous
\* undoes it, nxt undoes prev, nothing freed is linked, and every allocated
\* task is on exactly one stack, so that thread_exit() leaks none.
ListsWhole ==
    /\ added \subseteq live \cap Thread
    /\ current_thread \in added \/ (added = {} /\ current_thread = NULL)
    /\ Items(Ring) = added
    /\ \A t \in added : next[t] \in added /\ previous[next[t]] = t
    /\ \A t \in live \cap Thread :
         /\ top[t] # NULL => nxt[top[t]] = NULL
         /\ \A n \in 2..Len(Tasks(t)) : nxt[Tasks(t)[n]] = Tasks(t)[n-1]
    /\ \A k \in Task : k \in live <=> \E t \in live \cap Thread : k \in Items(Tasks(t))
    /\ \A t, u \in live \cap Thread : t # u => Items(Tasks(t)) \cap Items(Tasks(u)) = {}
    /\ running # NULL => running = YieldEnv /\ running \in live

\* Threads take turns in the order of the run queue, each turn goes to the task
\* assigned last, and every function goes on in its own context.
IsRoundRobin == INSTANCE RoundRobin WITH ring <- Ring, tasks <- TasksOf

TakesTurns == IsRoundRobin!Spec

\* Once the threads have been started, each gets the processor or has ended,
\* whatever the others create, assign and end meanwhile.
EveryThreadRuns ==
    \A t \in Thread :
        (running # NULL /\ t \in added) ~> (current_thread = t \/ t \notin added)
=============================================================================
