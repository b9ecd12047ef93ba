------------------------------- MODULE Sched -------------------------------
(***************************************************************************)
(* How kernel threads share the CPUs: scheduler(), sched(), yield(),       *)
(* sleep() and wakeup() of kernel/proc.c, at the grain of lock             *)
(* acquisitions.                                                           *)
(*                                                                         *)
(* A slot of the process table is its index, 0 is the null pointer.  A CPU *)
(* runs its scheduler loop ("scan"), has just switched to a process that   *)
(* still has to release its own lock ("in"), runs the process ("run"), or  *)
(* has just been switched back and still holds the process's lock          *)
(* ("back").  Spinlocks belong to CPUs, as lk->cpu does.  A stretch of     *)
(* code under one p->lock is one step, except where sleep() and the        *)
(* context switch carry the lock from one step to the next.                *)
(***************************************************************************)
EXTENDS Integers, FiniteSets

CONSTANTS NPROC,   \* slots of the process table
          CPU,     \* the CPUs
          NoCPU    \* lk->cpu of a free spinlock

ASSUME SchedAssumption == NPROC \in Nat \ {0} /\ NoCPU \notin CPU

Slot == 1..NPROC

\* The locks passed to sleep() in this model: wait()'s, and the spinlock
\* inside a sleep lock.  Their channels: the waiting process, the lock.
SpinLock == {"wait_lock", "lk"}
LockChan == NPROC + 1

VARIABLES
    state,     \* p->state
    chan,      \* p->chan
    plock,     \* p->lock: the CPU that holds it, or NoCPU
    spin,      \* the CPU that holds each SpinLock, or NoCPU
    cpuProc,   \* c->proc
    mode,      \* what the CPU executes
    pc,        \* where the process's kernel thread is
    via,       \* the lock its sleep() was called with
    idx        \* its loop index over the table, in wakeup() and wait()

schedVars == <<state, chan, plock, spin, cpuProc, mode, pc, via, idx>>

SchedTypeOK ==
    /\ state \in [Slot -> {"UNUSED", "USED", "SLEEPING", "RUNNABLE",
                           "RUNNING", "ZOMBIE"}]
    /\ chan \in [Slot -> 0..LockChan]
    /\ plock \in [Slot -> CPU \cup {NoCPU}]
    /\ spin \in [SpinLock -> CPU \cup {NoCPU}]
    /\ cpuProc \in [CPU -> 0..NPROC]
    /\ mode \in [CPU -> {"scan", "in", "run", "back"}]
    /\ via \in [Slot -> SpinLock]
    /\ idx \in [Slot -> 1..NPROC+1]

SchedInit ==
    /\ state = [p \in Slot |-> IF p = 1 THEN "RUNNABLE" ELSE "UNUSED"]
    /\ chan = [p \in Slot |-> 0]
    /\ plock = [p \in Slot |-> NoCPU]
    /\ spin = [l \in SpinLock |-> NoCPU]
    /\ cpuProc = [c \in CPU |-> 0]
    /\ mode = [c \in CPU |-> "scan"]
    /\ pc = [p \in Slot |-> "user"]
    /\ via = [p \in Slot |-> "lk"]
    /\ idx = [p \in Slot |-> 1]

\* Process p executes on CPU c.
Runs(c, p) == mode[c] = "run" /\ cpuProc[c] = p

Goto(p, l) == pc' = [pc EXCEPT ![p] = l]

\* acquire() and release(): a CPU spins until the lock is free.  A step that
\* acquires and releases a lock only needs it free.
Acquire(l, c)  == spin[l] = NoCPU /\ spin' = [spin EXCEPT ![l] = c]
Release(l)     == spin' = [spin EXCEPT ![l] = NoCPU]
LockProc(p, c) == plock[p] = NoCPU /\ plock' = [plock EXCEPT ![p] = c]
UnlockProc(p)  == plock' = [plock EXCEPT ![p] = NoCPU]

-----------------------------------------------------------------------------
\* scheduler(): lock a RUNNABLE process and switch to it.
Pick(c, p) ==
    /\ mode[c] = "scan"
    /\ LockProc(p, c)
    /\ state[p] = "RUNNABLE"
    /\ state' = [state EXCEPT ![p] = "RUNNING"]
    /\ cpuProc' = [cpuProc EXCEPT ![c] = p]
    /\ mode' = [mode EXCEPT ![c] = "in"]
    /\ UNCHANGED <<chan, spin, pc, via, idx>>

\* Mutant: acquiresleep() with `if' in place of `while': a woken process has
\* the lock without looking.
ResumedNoRetest(p) == IF pc[p] = "asleep" THEN IF via[p] = "lk" THEN "lheld" ELSE "wacq"
                                          ELSE pc[p]

\* Where a process that returns from sched() goes on.
Resumed(p) == IF pc[p] = "asleep" THEN IF via[p] = "lk" THEN "lacq" ELSE "wacq"
                                  ELSE pc[p]

\* Mutant: sleep() does not clear p->chan.
ResumeKeepsChan(c, p) ==
    /\ mode[c] = "in"
    /\ cpuProc[c] = p
    /\ mode' = [mode EXCEPT ![c] = "run"]
    /\ UnlockProc(p)
    /\ via' = [via EXCEPT ![p] = "lk"]
    /\ Goto(p, Resumed(p))
    /\ UNCHANGED <<state, chan, spin, cpuProc, idx>>

\* The process comes out of sched(), or out of its first swtch into forkret():
\* it clears p->chan if it slept and releases its lock.
Resume(c, p) ==
    /\ mode[c] = "in"
    /\ cpuProc[c] = p
    /\ mode' = [mode EXCEPT ![c] = "run"]
    /\ UnlockProc(p)
    /\ chan' = [chan EXCEPT ![p] = IF pc[p] = "asleep" THEN 0 ELSE @]
    /\ via' = [via EXCEPT ![p] = "lk"]
    /\ Goto(p, Resumed(p))
    /\ UNCHANGED <<state, spin, cpuProc, idx>>

\* sched() switched to the scheduler, which forgets the process and only then
\* releases its lock.
Back(c, p) ==
    /\ mode[c] = "back"
    /\ cpuProc[c] = p
    /\ mode' = [mode EXCEPT ![c] = "scan"]
    /\ cpuProc' = [cpuProc EXCEPT ![c] = 0]
    /\ UnlockProc(p)
    /\ UNCHANGED <<state, chan, spin, pc, via, idx>>

\* Places of a thread that holds no spinlock: interrupts are on.
Preemptible == {"user", "fparent", "frun", "wacq", "lacq", "lheld", "xacq"}

\* yield() on a timer interrupt (usertrap, kerneltrap).
Yield(c, p) ==
    /\ Runs(c, p)
    /\ pc[p] \in Preemptible
    /\ LockProc(p, c)
    /\ state' = [state EXCEPT ![p] = "RUNNABLE"]
    /\ mode' = [mode EXCEPT ![c] = "back"]
    /\ UNCHANGED <<chan, spin, cpuProc, pc, via, idx>>

Dispatch(c, p) == Pick(c, p) \/ Resume(c, p) \/ Back(c, p) \/ Yield(c, p)

-----------------------------------------------------------------------------
SleepChan(p) == IF via[p] = "lk" THEN LockChan ELSE p

\* Mutant: sleep() does not release lk.
SleepKeepsLock(c, p) ==
    /\ Runs(c, p)
    /\ pc[p] = "sleep"
    /\ LockProc(p, c)
    /\ Goto(p, "sleep2")
    /\ UNCHANGED <<state, chan, spin, cpuProc, mode, via, idx>>

\* sleep(): p->lock first, then the caller's lock is given up.
Sleep1(c, p) ==
    /\ Runs(c, p)
    /\ pc[p] = "sleep"
    /\ LockProc(p, c)
    /\ Release(via[p])
    /\ Goto(p, "sleep2")
    /\ UNCHANGED <<state, chan, cpuProc, mode, via, idx>>

\* sleep(): name the channel, become SLEEPING, sched().
Sleep2(c, p) ==
    /\ Runs(c, p)
    /\ pc[p] = "sleep2"
    /\ chan' = [chan EXCEPT ![p] = SleepChan(p)]
    /\ state' = [state EXCEPT ![p] = "SLEEPING"]
    /\ mode' = [mode EXCEPT ![c] = "back"]
    /\ Goto(p, "asleep")
    /\ UNCHANGED <<plock, spin, cpuProc, via, idx>>

\* One iteration of wakeup(ch) by p, which skips p itself.
WakeupNext(p, ch) ==
    LET q == idx[p] IN
    /\ q <= NPROC
    /\ q # p => plock[q] = NoCPU
    /\ state' = [state EXCEPT ![q] =
                   IF q # p /\ @ = "SLEEPING" /\ chan[q] = ch THEN "RUNNABLE" ELSE @]
    /\ idx' = [idx EXCEPT ![p] = q + 1]
    /\ UNCHANGED <<chan, plock, spin, cpuProc, mode, pc, via>>
=============================================================================
