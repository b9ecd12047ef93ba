-------------------------------- MODULE Proc --------------------------------
(***************************************************************************)
(* The life of a process in kernel/proc.c: fork(), exit(), wait(), kill(), *)
(* and a system call that takes a sleep lock (kernel/sleeplock.c), on top  *)
(* of the scheduler and sleep/wakeup of Sched.  Memory, files and exit     *)
(* statuses are left out; slot 1 is init (user/init.c).                    *)
(***************************************************************************)
EXTENDS Sched

CONSTANT MaxPid   \* bound on the pids allocated

ASSUME ProcAssumption == MaxPid \in Nat \ {0}   \* init has one

VARIABLES
    pid,       \* p->pid
    parent,    \* p->parent
    killed,    \* p->killed
    nextpid,
    np,        \* the local `np' of fork()
    havekids,  \* the local `havekids' of wait()
    locked     \* the sleep lock's holder: lk->locked and lk->pid, 0 if free

procVars == <<pid, parent, killed, nextpid, np, havekids, locked>>
vars == <<schedVars, procVars>>

initproc == 1

ProcTypeOK ==
    /\ SchedTypeOK
    /\ pc \in [Slot -> {"user", "fparent", "frun", "xacq", "xinit", "xparent", "xzombie",
                        "dead", "wacq", "wspin", "wscan", "sleep", "sleep2", "asleep",
                        "lacq", "lheld", "lwake"}]
    /\ pid \in [Slot -> 0..MaxPid]
    /\ parent \in [Slot -> 0..NPROC]
    /\ killed \in [Slot -> BOOLEAN]
    /\ nextpid \in 1..MaxPid + 1
    /\ np \in [Slot -> 0..NPROC]
    /\ havekids \in [Slot -> BOOLEAN]
    /\ locked \in 0..NPROC
    /\ \A p \in Slot : chan[p] # 0 => pc[p] = "asleep"

\* userinit() has made init, and the CPUs enter scheduler().
Init ==
    /\ SchedInit
    /\ pid = [p \in Slot |-> IF p = initproc THEN 1 ELSE 0]
    /\ parent = [p \in Slot |-> 0]
    /\ killed = [p \in Slot |-> FALSE]
    /\ nextpid = 2
    /\ np = [p \in Slot |-> 0]
    /\ havekids = [p \in Slot |-> FALSE]
    /\ locked = 0

\* In user mode, about to enter the kernel with p->killed clear.
Calls(c, p) == Runs(c, p) /\ pc[p] = "user" /\ ~killed[p]

-----------------------------------------------------------------------------
\* fork()

\* allocproc() finds a slot, and the copy succeeds; np->lock is released with
\* the child USED and without a parent.  freeproc() left the other fields
\* clear, but allocproc() does not clear p->killed.
ForkAlloc(c, p, q) ==
    /\ Calls(c, p)
    /\ nextpid <= MaxPid
    /\ state[q] = "UNUSED"
    /\ plock[q] = NoCPU
    /\ pid' = [pid EXCEPT ![q] = nextpid]
    /\ nextpid' = nextpid + 1
    /\ state' = [state EXCEPT ![q] = "USED"]
    /\ pc' = [pc EXCEPT ![p] = "fparent", ![q] = "user"]
    /\ np' = [np EXCEPT ![p] = q]
    /\ UNCHANGED <<chan, plock, spin, cpuProc, mode, via, idx,
                   parent, killed, havekids, locked>>

\* kalloc() fails: freeproc() gives the slot back, the pid is lost.
ForkNoMemory(c, p, q) ==
    /\ Calls(c, p)
    /\ nextpid <= MaxPid
    /\ state[q] = "UNUSED"
    /\ plock[q] = NoCPU
    /\ nextpid' = nextpid + 1
    /\ killed' = [killed EXCEPT ![q] = FALSE]
    /\ UNCHANGED <<schedVars, pid, parent, np, havekids, locked>>

\* np->parent = p, under wait_lock.
ForkParent(c, p) ==
    /\ Runs(c, p)
    /\ pc[p] = "fparent"
    /\ spin["wait_lock"] = NoCPU
    /\ parent' = [parent EXCEPT ![np[p]] = p]
    /\ Goto(p, "frun")
    /\ UNCHANGED <<state, chan, plock, spin, cpuProc, mode, via, idx,
                   pid, killed, nextpid, np, havekids, locked>>

\* np->state = RUNNABLE, under np->lock.
ForkRun(c, p) ==
    /\ Runs(c, p)
    /\ pc[p] = "frun"
    /\ plock[np[p]] = NoCPU
    /\ state' = [state EXCEPT ![np[p]] = "RUNNABLE"]
    /\ np' = [np EXCEPT ![p] = 0]
    /\ Goto(p, "user")
    /\ UNCHANGED <<chan, plock, spin, cpuProc, mode, via, idx,
                   pid, parent, killed, nextpid, havekids, locked>>

-----------------------------------------------------------------------------
\* exit()

\* A system call or p->killed brings a process other than init here; it has
\* closed its files.
ExitStart(c, p) ==
    /\ Runs(c, p)
    /\ pc[p] = "user"
    /\ p # initproc
    /\ Goto(p, "xacq")
    /\ UNCHANGED <<state, chan, plock, spin, cpuProc, mode, via, idx, procVars>>

\* Mutant: exit() without reparent().
ExitKeepsChildren(c, p) ==
    /\ Runs(c, p)
    /\ pc[p] = "xacq"
    /\ Acquire("wait_lock", c)
    /\ Goto(p, "xparent")
    /\ UNCHANGED <<state, chan, plock, cpuProc, mode, via, idx, procVars>>

\* Take wait_lock; reparent(): init, woken next, needs wait_lock to notice, so
\* all the children move in one step and one wakeup(initproc) stands for all.
ExitReparent(c, p) ==
    /\ Runs(c, p)
    /\ pc[p] = "xacq"
    /\ Acquire("wait_lock", c)
    /\ parent' = [q \in Slot |-> IF parent[q] = p THEN initproc ELSE parent[q]]
    /\ idx' = [idx EXCEPT ![p] = 1]
    /\ Goto(p, IF \E q \in Slot : parent[q] = p THEN "xinit" ELSE "xparent")
    /\ UNCHANGED <<state, chan, plock, cpuProc, mode, via,
                   pid, killed, nextpid, np, havekids, locked>>

\* Mutant: exit() wakes its own channel in place of its parent's.
ExitWakesSelf(c, p) ==
    /\ Runs(c, p)
    /\ \/ pc[p] = "xinit" /\ WakeupNext(p, initproc)
       \/ pc[p] = "xparent" /\ WakeupNext(p, p)
    /\ UNCHANGED procVars

\* wakeup(initproc), then wakeup(p->parent).
ExitWakeup(c, p) ==
    /\ Runs(c, p)
    /\ \/ pc[p] = "xinit" /\ WakeupNext(p, initproc)
       \/ pc[p] = "xparent" /\ WakeupNext(p, parent[p])
    /\ UNCHANGED procVars

ExitWoken(c, p) ==
    /\ Runs(c, p)
    /\ pc[p] \in {"xinit", "xparent"}
    /\ idx[p] > NPROC
    /\ idx' = [idx EXCEPT ![p] = 1]
    /\ Goto(p, IF pc[p] = "xinit" THEN "xparent" ELSE "xzombie")
    /\ UNCHANGED <<state, chan, plock, spin, cpuProc, mode, via, procVars>>

\* Become a ZOMBIE under p->lock, which stays held; release wait_lock; sched().
ExitZombie(c, p) ==
    /\ Runs(c, p)
    /\ pc[p] = "xzombie"
    /\ LockProc(p, c)
    /\ state' = [state EXCEPT ![p] = "ZOMBIE"]
    /\ Release("wait_lock")
    /\ mode' = [mode EXCEPT ![c] = "back"]
    /\ Goto(p, "dead")
    /\ UNCHANGED <<chan, cpuProc, via, idx, procVars>>

-----------------------------------------------------------------------------
\* wait()

\* The scan's locals are dead.
ScanDone(p) == /\ idx' = [idx EXCEPT ![p] = 1]
                  /\ havekids' = [havekids EXCEPT ![p] = FALSE]

HasChild(p) == \E q \in Slot : parent[q] = p

\* init waits only while its shell is there to wait for (user/init.c).
WaitStart(c, p) ==
    /\ Calls(c, p)
    /\ p = initproc => HasChild(p)
    /\ Goto(p, "wacq")
    /\ UNCHANGED <<state, chan, plock, spin, cpuProc, mode, via, idx, procVars>>

\* acquire(&wait_lock) turns interrupts off before it spins, so that a process
\* that has begun is not preempted until it has the lock.  The other acquire()s
\* are one step.
WaitSpin(c, p) ==
    /\ Runs(c, p)
    /\ pc[p] = "wacq"
    /\ Goto(p, "wspin")
    /\ UNCHANGED <<state, chan, plock, spin, cpuProc, mode, via, idx, procVars>>

WaitAcquire(c, p) ==
    /\ Runs(c, p)
    /\ pc[p] = "wspin"
    /\ Acquire("wait_lock", c)
    /\ idx' = [idx EXCEPT ![p] = 1]
    /\ havekids' = [havekids EXCEPT ![p] = FALSE]
    /\ Goto(p, "wscan")
    /\ UNCHANGED <<state, chan, plock, cpuProc, mode, via,
                   pid, parent, killed, nextpid, np, locked>>

\* One iteration over the table that does not collect a child.
WaitScan(c, p) ==
    LET q == idx[p] IN
    /\ Runs(c, p)
    /\ pc[p] = "wscan"
    /\ q <= NPROC
    /\ parent[q] = p => plock[q] = NoCPU /\ state[q] # "ZOMBIE"
    /\ havekids' = [havekids EXCEPT ![p] = @ \/ parent[q] = p]
    /\ idx' = [idx EXCEPT ![p] = q + 1]
    /\ UNCHANGED <<state, chan, plock, spin, cpuProc, mode, pc, via,
                   pid, parent, killed, nextpid, np, locked>>

\* Mutant: wait() looks at the child without its lock.
WaitCollectUnlocked(c, p) ==
    LET q == idx[p] IN
    /\ Runs(c, p)
    /\ pc[p] = "wscan"
    /\ q <= NPROC
    /\ parent[q] = p /\ state[q] = "ZOMBIE"
    /\ pid' = [pid EXCEPT ![q] = 0]
    /\ parent' = [parent EXCEPT ![q] = 0]
    /\ chan' = [chan EXCEPT ![q] = 0]
    /\ killed' = [killed EXCEPT ![q] = FALSE]
    /\ state' = [state EXCEPT ![q] = "UNUSED"]
    /\ Release("wait_lock")
    /\ Goto(p, "user")
    /\ ScanDone(p)
    /\ UNCHANGED <<plock, cpuProc, mode, via, nextpid, np, locked>>

\* A ZOMBIE child: freeproc() it and return its pid.
WaitCollect(c, p) ==
    LET q == idx[p] IN
    /\ Runs(c, p)
    /\ pc[p] = "wscan"
    /\ q <= NPROC
    /\ parent[q] = p /\ plock[q] = NoCPU /\ state[q] = "ZOMBIE"
    /\ pid' = [pid EXCEPT ![q] = 0]
    /\ parent' = [parent EXCEPT ![q] = 0]
    /\ chan' = [chan EXCEPT ![q] = 0]
    /\ killed' = [killed EXCEPT ![q] = FALSE]
    /\ state' = [state EXCEPT ![q] = "UNUSED"]
    /\ Release("wait_lock")
    /\ Goto(p, "user")
    /\ ScanDone(p)
    /\ UNCHANGED <<plock, cpuProc, mode, via, nextpid, np, locked>>

\* wait() returns -1: no children, killed, or a bad address for the status
\* (init passes none).
WaitFail(c, p) ==
    /\ Runs(c, p)
    /\ pc[p] = "wscan"
    /\ \/ idx[p] > NPROC /\ (~havekids[p] \/ killed[p])
       \/ /\ p # initproc
          /\ idx[p] <= NPROC
          /\ parent[idx[p]] = p /\ plock[idx[p]] = NoCPU /\ state[idx[p]] = "ZOMBIE"
    /\ Release("wait_lock")
    /\ Goto(p, "user")
    /\ ScanDone(p)
    /\ UNCHANGED <<state, chan, plock, cpuProc, mode, via,
                   pid, parent, killed, nextpid, np, locked>>

\* Nothing yet: sleep(p, &wait_lock).  p->killed was read without p->lock.
WaitSleep(c, p) ==
    /\ Runs(c, p)
    /\ pc[p] = "wscan"
    /\ idx[p] > NPROC
    /\ havekids[p] /\ ~killed[p]
    /\ via' = [via EXCEPT ![p] = "wait_lock"]
    /\ Goto(p, "sleep")
    /\ ScanDone(p)
    /\ UNCHANGED <<state, chan, plock, spin, cpuProc, mode,
                   pid, parent, killed, nextpid, np, locked>>

-----------------------------------------------------------------------------
\* kill(n) reaches slot q.  The pids it may be given exclude init's: a killed
\* init exits, and exit() panics.  The slots it passes over it leaves alone.
Kill(c, p, q, n) ==
    /\ Calls(c, p)
    /\ n # pid[initproc]
    /\ plock[q] = NoCPU
    /\ pid[q] = n
    /\ killed' = [killed EXCEPT ![q] = TRUE]
    /\ state' = [state EXCEPT ![q] = IF @ = "SLEEPING" THEN "RUNNABLE" ELSE @]
    /\ UNCHANGED <<chan, plock, spin, cpuProc, mode, pc, via, idx,
                   pid, parent, nextpid, np, havekids, locked>>

-----------------------------------------------------------------------------
\* A system call that locks an inode: acquiresleep(), work, releasesleep().
LockStart(c, p) ==
    /\ Calls(c, p)
    /\ Goto(p, "lacq")
    /\ UNCHANGED <<state, chan, plock, spin, cpuProc, mode, via, idx, procVars>>

\* acquire(&lk->lk) and the test of lk->locked, first or after a wakeup.
AcquireSleep(c, p) ==
    /\ Runs(c, p)
    /\ pc[p] = "lacq"
    /\ spin["lk"] = NoCPU
    /\ IF locked = 0
         THEN locked' = p /\ Goto(p, "lheld") /\ UNCHANGED <<spin, via>>
         ELSE /\ spin' = [spin EXCEPT !["lk"] = c]
              /\ via' = [via EXCEPT ![p] = "lk"]
              /\ Goto(p, "sleep")
              /\ UNCHANGED locked
    /\ UNCHANGED <<state, chan, plock, cpuProc, mode, idx,
                   pid, parent, killed, nextpid, np, havekids>>

\* releasesleep(): clear the lock, then wakeup(lk), under lk->lk.
ReleaseSleep(c, p) ==
    /\ Runs(c, p)
    /\ pc[p] = "lheld"
    /\ Acquire("lk", c)
    /\ locked' = 0
    /\ idx' = [idx EXCEPT ![p] = 1]
    /\ Goto(p, "lwake")
    /\ UNCHANGED <<state, chan, plock, cpuProc, mode, via,
                   pid, parent, killed, nextpid, np, havekids>>

ReleaseWakeup(c, p) ==
    /\ Runs(c, p)
    /\ pc[p] = "lwake"
    /\ WakeupNext(p, LockChan)
    /\ UNCHANGED procVars

ReleaseDone(c, p) ==
    /\ Runs(c, p)
    /\ pc[p] = "lwake"
    /\ idx[p] > NPROC
    /\ Release("lk")
    /\ Goto(p, "user")
    /\ idx' = [idx EXCEPT ![p] = 1]
    /\ UNCHANGED <<state, chan, plock, cpuProc, mode, via, procVars>>

-----------------------------------------------------------------------------
Scheduling(c, p) == (Dispatch(c, p) \/ Sleep1(c, p) \/ Sleep2(c, p))
                    /\ UNCHANGED procVars

\* What a thread does once it is inside a system call.
InKernel(c, p) ==
    \/ ForkParent(c, p) \/ ForkRun(c, p)
    \/ ExitReparent(c, p) \/ ExitWakeup(c, p) \/ ExitWoken(c, p) \/ ExitZombie(c, p)
    \/ WaitSpin(c, p) \/ WaitAcquire(c, p) \/ WaitScan(c, p) \/ WaitCollect(c, p)
    \/ WaitFail(c, p) \/ WaitSleep(c, p)
    \/ AcquireSleep(c, p) \/ ReleaseSleep(c, p) \/ ReleaseWakeup(c, p) \/ ReleaseDone(c, p)

Syscall(c, p) ==
    \/ \E q \in Slot : ForkAlloc(c, p, q) \/ ForkNoMemory(c, p, q)
    \/ \E q \in Slot : \E n \in 0..nextpid-1 : Kill(c, p, q, n)
    \/ ExitStart(c, p) \/ WaitStart(c, p) \/ LockStart(c, p)

Next == \E c \in CPU, p \in Slot : Scheduling(c, p) \/ InKernel(c, p) \/ Syscall(c, p)

Spec == Init /\ [][Next]_vars

\* scheduler() visits init again and again while it is RUNNABLE, a CPU takes its
\* pending timer interrupt once interrupts are on, and a thread in the kernel
\* goes on.  init calls wait() again whenever it returns (user/init.c); no other
\* process need ever call anything or be picked up again.  Strong fairness on
\* InKernel also assumes that the hardware lets a CPU spinning on a lock that is
\* released again and again win it at last: acquire() has no queue.
Fairness ==
    /\ \A c \in CPU :
         /\ WF_vars(\E p \in Slot : (Resume(c, p) \/ Back(c, p)) /\ UNCHANGED procVars)
         /\ SF_vars(\E p \in Slot : Yield(c, p) /\ UNCHANGED procVars)
    /\ SF_vars(\E c \in CPU : Pick(c, initproc) /\ UNCHANGED procVars)
    /\ \A p \in Slot :
         SF_vars(\E c \in CPU : \/ (Sleep1(c, p) \/ Sleep2(c, p)) /\ UNCHANGED procVars
                                \/ InKernel(c, p)
                                \/ p = initproc /\ WaitStart(c, p))

FairSpec == Spec /\ Fairness

-----------------------------------------------------------------------------
(***************************************************************************)
(* Properties                                                              *)
(***************************************************************************)

\* A process is on one CPU at most, and as long as a CPU still uses its kernel
\* stack it is RUNNING or that CPU holds p->lock: no other CPU can pick it up,
\* and no parent can free it (proc.c:397, "make sure the child isn't still in
\* exit() or swtch()").
OneStack ==
    \A c \in CPU, p \in Slot : cpuProc[c] = p =>
        /\ \A d \in CPU \ {c} : cpuProc[d] # p
        /\ state[p] = "RUNNING" \/ plock[p] = c
        /\ state[p] \notin {"UNUSED", "USED"}

\* sched() is called with p->lock held and no other spinlock: its panics
\* "sched p->lock" and "sched locks" are not reached (proc.c:480-483).
SchedHoldsOne ==
    \A c \in CPU : mode[c] = "back" =>
        /\ {p \in Slot : plock[p] = c} = {cpuProc[c]}
        /\ \A l \in SpinLock : spin[l] # c

\* No child is lost.  Once exit() has released wait_lock, the parent of the
\* ZOMBIE, old or new, is neither asleep in wait() nor on its way there; and every
\* process but init has a living parent, or is still in its creator's fork().
NoLostChild ==
    spin["wait_lock"] = NoCPU =>
        /\ \A p, q \in Slot :
             state[q] = "ZOMBIE" /\ parent[q] = p =>
                 /\ ~(state[p] = "SLEEPING" /\ chan[p] = p)
                 /\ ~(pc[p] = "sleep2" /\ via[p] = "wait_lock")
        /\ \A q \in Slot \ {initproc} : state[q] # "UNUSED" =>
             \/ parent[q] # 0 /\ state[parent[q]] \notin {"UNUSED", "ZOMBIE"}
             \/ parent[q] = 0 /\ \E p \in Slot : pc[p] = "fparent" /\ np[p] = q

\* The sleep lock excludes, also when kill() cuts a sleep short, and nobody
\* sleeps on it or is about to while it is free.
SleepLockSafe ==
    /\ \A p \in Slot : pc[p] = "lheld" => locked = p
    /\ locked = 0 /\ spin["lk"] = NoCPU =>
         \A p \in Slot : /\ ~(state[p] = "SLEEPING" /\ chan[p] = LockChan)
                         /\ ~(pc[p] = "sleep2" /\ via[p] = "lk")

\* Every ZOMBIE that is init's child, by birth or because its parent has exited
\* (before it, after it or on the other CPU at the same time), is collected in
\* the end.
InitReaps ==
    \A q \in Slot \ {initproc} :
        state[q] = "ZOMBIE" /\ parent[q] = initproc ~> state[q] = "UNUSED"
=============================================================================
