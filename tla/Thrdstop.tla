------------------------------ MODULE Thrdstop ------------------------------
(***************************************************************************)
(* Switching threads in MP3: thrdstop(), thrdresume(), cancelthrdstop()    *)
(* (kernel/thrd.c), the timer interrupts and the return to user space      *)
(* (kernel/trap.c), under the library that calls them (user/threads.c).    *)
(* The timer may interrupt the library anywhere, also inside a system call.*)
(*                                                                         *)
(* A context, the trapframe of the process, says on whose stack it runs,   *)
(* 0 for main, and where; `k' counts the steps of a thread's function.     *)
(* Which thread is scheduled, for how long, and which cycle of a thread is *)
(* its last, are left open here: see Threads.                              *)
(***************************************************************************)
EXTENDS Integers, FiniteSetsExt

CONSTANTS NTHREAD, MAX_THRD_NUM,
          STEPS,      \* bound: of a thread's function
          DELAY       \* bound: ticks allocated to a thread

ASSUME ThrdstopAssumption == {NTHREAD, MAX_THRD_NUM, STEPS, DELAY} \subseteq Nat \ {0}

Thrd == 1..NTHREAD
Slot   == 0..MAX_THRD_NUM - 1
Main     == 0       \* main's stack
MainSlot == 0       \* main_thrd_id

VARIABLES
    user,             \* the context in which the process runs
    \* struct proc
    context, used,    \* thrdstop_context, thrdstop_context_used
    delay, ticks,     \* thrdstop_delay, thrdstop_ticks
    jump_flag,
    cancel_save_flag,
    context_id, handler,
    \* the library
    current,          \* 0 for &run_queue
    sleeping,
    queue,            \* where each thread is: "run", "release" or "gone"
    slot,             \* thrdstop_context_id, -1 until buf_set
    done,             \* history: the steps that each function has made
    hit               \* history: the timer went off where the library cannot bear it

procVars == <<context, used, delay, ticks, jump_flag, cancel_save_flag, context_id, handler>>
libVars  == <<current, sleeping, queue, slot, done>>
ThrdstopVars == <<user, procVars, libVars, hit>>

At(who, at, k) == [who |-> who, at |-> at, k |-> k]
Go(at) == [user EXCEPT !.at = at]

\* thread_start_threading() has obtained main's slot.
ThrdstopInit ==
    /\ user = At(Main, "loop", 0)
    /\ context = [s \in Slot |-> At(Main, "loop", 0)]
    /\ used = {MainSlot}
    /\ delay = -1 /\ ticks = 0
    /\ jump_flag = FALSE /\ cancel_save_flag = -1
    /\ context_id = MainSlot /\ handler = "back"
    /\ current = 0 /\ sleeping = FALSE
    /\ queue = [t \in Thrd |-> "release"]
    /\ slot = [t \in Thrd |-> -1]
    /\ done = [t \in Thrd |-> 0]
    /\ hit = FALSE

-----------------------------------------------------------------------------
\* The kernel

\* A timer interrupt, with the delay d and the ticks n that it finds.
Expires(d, n) == d > 0 /\ n + 1 >= d
Counted(d, n) == IF d > 0 THEN n + 1 ELSE n

\* Mutant: usertrapret() looks at jump_flag first.
UserTrapRetJumps(u, resume, cancel, jump, id, h) ==
    IF jump
      THEN /\ user' = At(u.who, h, u.k)
           /\ context' = [context EXCEPT ![id] = u]
           /\ jump_flag' = FALSE /\ cancel_save_flag' = cancel
      ELSE /\ user' = IF resume # -1 THEN context[resume] ELSE u
           /\ context' = IF resume = -1 /\ cancel # -1
                           THEN [context EXCEPT ![cancel] = u] ELSE context
           /\ jump_flag' = jump
           /\ cancel_save_flag' = IF resume = -1 THEN -1 ELSE cancel

\* usertrapret() with the trapframe u and the flags: one of them is served.
UserTrapRet(u, resume, cancel, jump, id, h) ==
    \/ /\ resume # -1
       /\ user' = context[resume]
       /\ UNCHANGED context
       /\ jump_flag' = jump /\ cancel_save_flag' = cancel
    \/ /\ resume = -1 /\ jump
       /\ context' = [context EXCEPT ![id] = u]
       /\ user' = At(u.who, h, u.k)
       /\ jump_flag' = FALSE /\ cancel_save_flag' = cancel
    \/ /\ resume = -1 /\ ~jump /\ cancel # -1
       /\ context' = [context EXCEPT ![cancel] = u]
       /\ user' = u
       /\ jump_flag' = FALSE /\ cancel_save_flag' = -1
    \/ /\ resume = -1 /\ ~jump /\ cancel = -1
       /\ user' = u
       /\ UNCHANGED context
       /\ jump_flag' = FALSE /\ cancel_save_flag' = -1

\* The timer expires inside a system call that sets the delay to d and the ticks
\* to n: before it has done so, after, or between the two.
Expired(in, d, n) ==
    \/ in = "before" /\ Expires(delay, ticks)
    \/ in = "between" /\ Expires(d, ticks)
    \/ in = "after" /\ Expires(d, n)

Interrupted == {"no", "before", "between", "after"}

\* A system call that the process makes to go on in u, with the flags it leaves.
Syscall(in, u, d, n, resume, cancel, id, h) ==
    /\ delay' = IF in # "before" /\ Expired(in, d, n) THEN -1 ELSE d
    /\ ticks' = IF in = "after" THEN Counted(d, n) ELSE n
    /\ context_id' = id /\ handler' = h
    /\ UserTrapRet(u, resume, cancel, jump_flag \/ Expired(in, d, n), id, h)

\* thrdstop(d, s, h): s is the slot that it uses or has just taken.
Thrdstop(in, u, d, s, h) == Syscall(in, u, d, 0, -1, cancel_save_flag, s, h)

Thrdresume(in, s) ==
    /\ Syscall(in, user, delay, ticks, s, cancel_save_flag, context_id, handler)
    /\ UNCHANGED used

\* cancelthrdstop(s, is_exit): the context is to be saved, or the slot is free.
CancelThrdstop(in, u, s, is_exit) ==
    /\ Syscall(in, u, -1, ticks, -1, IF is_exit THEN cancel_save_flag ELSE s, context_id, handler)
    /\ used' = IF is_exit THEN used \ {s} ELSE used

\* usertrap() on a timer interrupt.  The dispatcher that has asked for a
\* thread's timer and has not left its own stack cannot bear it.
Tick ==
    LET fired == Expires(delay, ticks) IN
    /\ ~hit
    /\ delay' = IF fired THEN -1 ELSE delay
    /\ ticks' = Counted(delay, ticks)
    /\ UserTrapRet(user, -1, cancel_save_flag, jump_flag \/ fired, context_id, handler)
    /\ hit' = (fired /\ user.at \in {"resume", "start"})
    /\ UNCHANGED <<context_id, handler, used, libVars>>

-----------------------------------------------------------------------------
\* The library

Queued(q, where) == {t \in Thrd : q[t] = where}

\* __release() and __schedule(), on the queues q.
Schedule(q) ==
    \E R \in SUBSET Queued(q, "release") :
        /\ queue' = [t \in Thrd |-> IF t \in R THEN "run" ELSE q[t]]
        /\ LET run == R \cup Queued(q, "run")
           IN current' \in IF run = {} THEN {0} ELSE run

Stays == UNCHANGED <<procVars, sleeping, slot, done, hit>>

\* thread_start_threading()
MainLoop ==
    /\ user.at = "loop" /\ Queued(queue, "gone") # Thrd
    /\ user' = Go("cancel")
    /\ Schedule(queue)
    /\ Stays

MainCancel == \E in \in Interrupted :
    /\ user.at = "cancel"
    /\ CancelThrdstop(in, Go("dispatch"), MainSlot, FALSE)
    /\ UNCHANGED <<libVars, hit>>

MainSleep == \E in \in Interrupted, d \in 1..DELAY :
    /\ user.at = "sleep"
    /\ Thrdstop(in, Go("sleeping"), d, MainSlot, "back")
    /\ sleeping' = TRUE
    /\ UNCHANGED <<used, current, queue, slot, done, hit>>

MainAwake ==
    /\ user.at = "sleeping" /\ ~sleeping
    /\ user' = Go("loop")
    /\ UNCHANGED <<current, queue>> /\ Stays

\* back_to_main_handler(), or a dispatcher on a thread's stack without a thread.
BackToMain == \E in \in {"no", "after"} :
    /\ user.at \in {"back", "tomain"}
    /\ Thrdresume(in, MainSlot)
    /\ sleeping' = (sleeping /\ user.at # "back")
    /\ UNCHANGED <<current, queue, slot, done, hit>>

\* __dispatch(), and where its caller goes on when it returns.
DispatchCurrent ==
    /\ user.at = "dispatch"
    /\ user' = Go(CASE current # 0 -> IF slot[current] = -1 THEN "stopnew" ELSE "stop"
                    [] current = 0 /\ user.who # Main -> "tomain"
                    [] OTHER -> IF Queued(queue, "gone") = Thrd THEN "end" ELSE "sleep")
    /\ UNCHANGED <<queue, current>> /\ Stays

\* thrdstop() for a thread that has run before.
DispatchStop == \E in \in Interrupted, d \in 1..DELAY :
    /\ user.at = "stop"
    /\ Thrdstop(in, Go("resume"), d, slot[current], "switch")
    /\ hit' = (jump_flag \/ Expired(in, d, 0))
    /\ UNCHANGED <<used, libVars>>

DispatchResume == \E in \in {"no", "after"} :
    /\ user.at = "resume"
    /\ Thrdresume(in, slot[current])
    /\ UNCHANGED <<libVars, hit>>

\* thrdstop() for one that has not: without a free slot the process ends.
DispatchNew == \E in \in Interrupted, d \in 1..DELAY :
    /\ user.at = "stopnew"
    /\ IF used = Slot
         THEN user' = Go("end") /\ UNCHANGED <<procVars, slot, hit>>
         ELSE LET s == Min(Slot \ used) IN
              /\ Thrdstop(in, Go("start"), d, s, "switch")
              /\ used' = used \cup {s}
              /\ slot' = [slot EXCEPT ![current] = s]
              /\ hit' = (jump_flag \/ Expired(in, d, 0))
    /\ UNCHANGED <<current, sleeping, queue, done>>

\* The stack of the new thread, and its function.
DispatchStart ==
    /\ user.at = "start"
    /\ user' = At(current, "f", 0)
    /\ UNCHANGED libVars /\ UNCHANGED <<procVars, hit>>

\* A step of a thread's function, which returns after the last one.
Work ==
    /\ user.at = "f" /\ user.k < STEPS
    /\ user' = At(user.who, IF user.k + 1 = STEPS THEN "exit" ELSE "f", user.k + 1)
    /\ done' = [done EXCEPT ![user.who] = @ + 1]
    /\ UNCHANGED <<procVars, current, sleeping, queue, slot, hit>>

\* thread_exit().  A timer that has gone off is not cancelled.
ThreadExitCancel == \E in \in Interrupted :
    /\ user.at = "exit"
    /\ CancelThrdstop(in, Go("exited"), slot[current], TRUE)
    /\ hit' = (jump_flag \/ Expired(in, -1, ticks))
    /\ UNCHANGED libVars

ThreadExited ==
    /\ user.at = "exited"
    /\ user' = Go("dispatch")
    /\ Schedule([queue EXCEPT ![current] = "gone"])
    /\ Stays

\* switch_handler(): the thread's time is not over, or its cycle is, or its
\* last.  What it does after a tick that the library cannot bear is left out.
SwitchHandler == \E where \in {"run", "release", "gone"} :
    /\ user.at = "switch" /\ ~hit
    /\ user' = Go("dispatch")
    /\ Schedule([queue EXCEPT ![current] = where])
    /\ Stays

ThrdstopNext ==
    \/ Tick
    \/ MainLoop \/ MainCancel \/ MainSleep \/ MainAwake \/ BackToMain
    \/ DispatchCurrent \/ DispatchStop \/ DispatchResume \/ DispatchNew \/ DispatchStart
    \/ Work \/ ThreadExitCancel \/ ThreadExited \/ SwitchHandler

ThrdstopSpec == ThrdstopInit /\ [][ThrdstopNext]_ThrdstopVars

-----------------------------------------------------------------------------
\* Threads that have run, and will again.
Started == {t \in Thrd : slot[t] # -1 /\ queue[t] # "gone"}

\* t runs: what its slot holds is old, or nothing yet.
Running(t) ==
    \/ user.who = t /\ user.at \in {"f", "exit", "exited"}
    \/ current = t /\ user.at = "start"

\* Each thread that has been stopped is resumed where it was, on its own stack,
\* whatever runs meanwhile and wherever the ticks fall, inside thrdresume() too,
\* where usertrapret() serves resume_flag and puts the handler off (trap.c:105):
\* no two contexts share a slot, and main's is there for thrdresume(main).  Only
\* a timer that goes off after the dispatcher's thrdstop() (threads.c:196, 201),
\* before the thread is on its stack, or before thread_exit() has cancelled it
\* (thrd.c:76) breaks this; `hit' is the exception.
ResumedWhereStopped ==
    ~hit =>
    /\ \A t \in Started :
          IF Running(t)
            THEN user.at \in {"f", "exit"} => user.k = done[t]
            ELSE context[slot[t]] = At(t, IF done[t] = STEPS THEN "exit" ELSE "f", done[t])
    /\ \A t \in Started :
          /\ slot[t] \in used \ {MainSlot} \/ user.at = "exited"
          /\ \A s \in Started \ {t} : slot[s] # slot[t]
    /\ user.at \in {"f", "exit", "exited", "switch"} => user.who = current
    /\ user.who # Main => context[MainSlot] \in {At(Main, at, 0) : at \in {"dispatch", "sleeping"}}
=============================================================================
