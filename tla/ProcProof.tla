------------------------------ MODULE ProcProof ------------------------------
(***************************************************************************)
(* Proofs about processes (Proc.tla, Sched.tla), for every number of slots *)
(* of the process table and every set of CPUs: ProcInv is an invariant;    *)
(* from it follow the safety properties TLC checks on a small instance.    *)
(***************************************************************************)
EXTENDS Proc, TLAPS

-----------------------------------------------------------------------------
(***************************************************************************)
(* The inductive invariant                                                 *)
(***************************************************************************)

\* Places where a thread holds the spinlock l, on the CPU that runs it.
Holding(l, p) ==
    \/ pc[p] = "sleep" /\ via[p] = l
    \/ l = "wait_lock" /\ pc[p] \in {"wscan", "xinit", "xparent", "xzombie"}
    \/ l = "lk" /\ pc[p] = "lwake"

\* A CPU has a process unless it scans, and no other CPU has the same one.
OneCpu ==
    /\ \A c \in CPU : mode[c] = "scan" <=> cpuProc[c] = 0
    /\ \A c, d \in CPU : cpuProc[c] = cpuProc[d] /\ cpuProc[c] # 0 => c = d

\* The state of the process fits what the CPU does.
CpuState ==
    \A c \in CPU, p \in Slot : cpuProc[c] = p =>
        /\ mode[c] \in {"in", "run"} => state[p] = "RUNNING"
        /\ mode[c] = "back" => state[p] \in {"RUNNABLE", "SLEEPING", "ZOMBIE"}
        /\ mode[c] = "in" => pc[p] \in Preemptible \cup {"asleep"}
        /\ mode[c] = "run" => pc[p] # "asleep"

RunningSomewhere ==
    \A p \in Slot : state[p] = "RUNNING" =>
        \E c \in CPU : cpuProc[c] = p /\ mode[c] \in {"in", "run"}

\* p->lock is held across sched() and inside sleep(), and nowhere else.
ProcLocks ==
    \A c \in CPU, p \in Slot : plock[p] = c <=>
        cpuProc[c] = p /\ (mode[c] \in {"in", "back"} \/ pc[p] = "sleep2")

Cpus == OneCpu /\ CpuState /\ RunningSomewhere /\ ProcLocks

\* What the state of a slot says of its thread.
ThreadState ==
    \A p \in Slot :
        /\ state[p] = "UNUSED" => pc[p] \in {"user", "dead"}
        /\ state[p] = "USED" => pc[p] = "user"
        /\ state[p] = "SLEEPING" => pc[p] = "asleep"
        /\ state[p] = "RUNNABLE" => pc[p] \in Preemptible \cup {"asleep"}
        /\ state[p] = "RUNNING" => pc[p] # "dead"
        /\ state[p] = "ZOMBIE" => pc[p] = "dead"
        /\ pc[p] = "asleep" => chan[p] = SleepChan(p)

\* The holder of a spinlock is the CPU whose process is where it is held.
SpinLocks ==
    \A l \in SpinLock, c \in CPU :
        spin[l] = c <=> mode[c] = "run" /\ Holding(l, cpuProc[c])

KThreads == ThreadState /\ SpinLocks

\* init is always there.
InitThere ==
    /\ parent[initproc] = 0
    /\ state[initproc] \notin {"UNUSED", "USED", "ZOMBIE"}
    /\ pc[initproc] \notin {"xacq", "xinit", "xparent", "xzombie", "dead"}

\* The process that fork() is making is there, and no other fork() makes it.
Making ==
    /\ \A p \in Slot : pc[p] \in {"fparent", "frun"} =>
         /\ np[p] \in Slot /\ state[np[p]] = "USED"
         /\ pc[p] = "fparent" => parent[np[p]] = 0
    /\ \A p, r \in Slot :
         /\ pc[p] \in {"fparent", "frun"} /\ pc[r] \in {"fparent", "frun"}
         /\ np[p] = np[r]
         => p = r

\* Every process but init has a parent that has not ended, or a creator; a
\* process on its way out has no children any more.
Parents ==
    /\ \A q \in Slot : state[q] = "UNUSED" => parent[q] = 0
    /\ \A q \in Slot \ {initproc} : state[q] # "UNUSED" =>
         \/ parent[q] # 0 /\ state[parent[q]] \notin {"UNUSED", "USED", "ZOMBIE"}
         \/ parent[q] = 0 /\ \E p \in Slot : pc[p] = "fparent" /\ np[p] = q
    /\ \A p, q \in Slot :
         pc[p] \in {"xinit", "xparent", "xzombie", "dead"} => parent[q] # p

Family == InitThere /\ Making /\ Parents

\* In wait(), with wait_lock given up, until somebody wakes it.
InWait(p) ==
    \/ state[p] = "SLEEPING" /\ chan[p] = p
    \/ pc[p] = "sleep2" /\ via[p] = "wait_lock"

\* wait() has seen no ZOMBIE, and the parent of one is not left waiting: if it
\* waits, it is init, and an exit() that has just moved its children wakes it next.
Noticed ==
    \A p, q \in Slot : parent[q] = p /\ state[q] = "ZOMBIE" =>
        /\ pc[p] = "wscan" => idx[p] <= q
        /\ ~(pc[p] = "sleep" /\ via[p] = "wait_lock")
        /\ InWait(p) => p = initproc /\ \E h \in Slot : pc[h] = "xinit" /\ idx[h] = 1

\* exit() has woken its parent once its loop has passed it.
ParentWoken ==
    \A h \in Slot : pc[h] \in {"xparent", "xzombie"} /\ InWait(parent[h]) =>
        pc[h] = "xparent" /\ idx[h] <= parent[h]

Children == Noticed /\ ParentWoken

\* Sleeps on the sleep lock, or will, until somebody wakes it.
InLock(p) ==
    \/ state[p] = "SLEEPING" /\ chan[p] = LockChan
    \/ pc[p] = "sleep2" /\ via[p] = "lk"

\* Who is in the sleep lock's section holds it, and nobody waits for a free lock
\* but those that its releaser has yet to wake.
SleepLock ==
    /\ \A p \in Slot : pc[p] = "lheld" <=> locked = p
    /\ \A p \in Slot : pc[p] = "sleep" /\ via[p] = "lk" => locked # 0
    /\ \A p \in Slot : pc[p] = "lwake" =>
         locked = 0 /\ \A q \in Slot : InLock(q) => idx[p] <= q
    /\ locked = 0 /\ spin["lk"] = NoCPU => \A q \in Slot : ~InLock(q)

ProcInv == ProcTypeOK /\ Cpus /\ KThreads /\ Family /\ Children /\ SleepLock

-----------------------------------------------------------------------------
(***************************************************************************)
(* Slots, and holders of locks                                             *)
(***************************************************************************)

\* Slots, channels and indexes of the table.
LEMMA SlotFacts ==
    /\ Slot \subseteq 0..NPROC /\ 0 \in 0..NPROC /\ 0 \notin Slot
    /\ Slot \subseteq 0..LockChan /\ 0 \in 0..LockChan
    /\ LockChan \in 0..LockChan /\ LockChan \notin Slot
    /\ 1 \in 1..NPROC+1
    /\ initproc \in Slot
BY SchedAssumption DEF Slot, LockChan, initproc

\* The index of a loop over the table, and the next one.
LEMMA NextSlot ==
    \A i \in 1..NPROC+1 : i <= NPROC => i \in Slot /\ i + 1 \in 1..NPROC+1
BY SchedAssumption DEF Slot

\* 0 stands for no process.
LEMMA NonzeroSlot ==
    \A i \in 0..NPROC : i # 0 => i \in Slot
BY SchedAssumption DEF Slot

\* A thread that holds a spinlock runs, on the CPU that the lock names.
LEMMA HolderRuns ==
    ASSUME ProcTypeOK, Cpus, KThreads, NEW l \in SpinLock, NEW p \in Slot,
      Holding(l, p)
    PROVE  /\ state[p] = "RUNNING"
           /\ \E c \in CPU : Runs(c, p) /\ spin[l] = c
  <1>1. state[p] = "RUNNING"
    BY DEF ProcTypeOK, SchedTypeOK, KThreads, ThreadState, Holding, Preemptible
  <1>2. PICK c \in CPU : cpuProc[c] = p /\ mode[c] \in {"in", "run"}
    BY <1>1 DEF Cpus, RunningSomewhere
  <1>3. mode[c] = "run"
    BY <1>2 DEF Cpus, CpuState, Holding, Preemptible
  <1> QED
    BY <1>1, <1>2, <1>3 DEF KThreads, SpinLocks, Runs

\* Two threads do not hold the same spinlock.
LEMMA OneHolder ==
    ASSUME ProcTypeOK, Cpus, KThreads, NEW l \in SpinLock,
           NEW p \in Slot, NEW q \in Slot, Holding(l, p), Holding(l, q)
    PROVE  p = q
  <1>1. PICK c \in CPU : Runs(c, p) /\ spin[l] = c
    BY HolderRuns
  <1>2. PICK d \in CPU : Runs(d, q) /\ spin[l] = d
    BY HolderRuns
  <1> QED
    BY <1>1, <1>2 DEF Runs

\* exit() has a parent to wake.
LEMMA ParentThere ==
    ASSUME ProcTypeOK, KThreads, Family, NEW h \in Slot,
      pc[h] \in {"xparent", "xzombie"}
    PROVE  parent[h] \in Slot
  <1>1. state[h] = "RUNNING" /\ h # initproc
    BY SlotFacts
       DEF ProcTypeOK, SchedTypeOK, KThreads, ThreadState, Preemptible, Family,
       InitThere
  <1>2. parent[h] # 0
    BY <1>1 DEF Family, Making, Parents
  <1> QED
    BY <1>2, NonzeroSlot DEF ProcTypeOK

\* Between the two steps of sleep() p->lock is held.
LEMMA Sleep2Locked ==
    ASSUME ProcTypeOK, Cpus, KThreads, NEW p \in Slot, pc[p] = "sleep2"
    PROVE  plock[p] # NoCPU
  <1>1. state[p] = "RUNNING"
    BY DEF ProcTypeOK, SchedTypeOK, KThreads, ThreadState, Preemptible
  <1>2. PICK c \in CPU : cpuProc[c] = p
    BY <1>1 DEF Cpus, RunningSomewhere
  <1> QED
    BY <1>2, SchedAssumption DEF Cpus, ProcLocks

\* An index past the table is past every slot.
LEMMA PastTable ==
    \A i \in 1..NPROC+1 : i > NPROC => \A q \in Slot : ~(i <= q)
BY SchedAssumption DEF Slot

\* Slots are counted from 1.
LEMMA SlotOrder ==
    /\ \A i \in Slot : 1 <= i
    /\ \A i, j \in Slot : i <= j /\ i # j => i + 1 <= j
BY SchedAssumption DEF Slot

-----------------------------------------------------------------------------
(***************************************************************************)
(* The steps                                                               *)
(***************************************************************************)

\* Every step keeps every variable in its type.
LEMMA TypeStep == ProcTypeOK /\ KThreads /\ [Next]_vars => ProcTypeOK'
<1> SUFFICES ASSUME ProcTypeOK, KThreads, [Next]_vars PROVE ProcTypeOK'
  OBVIOUS
<1> USE SlotFacts DEF ProcTypeOK, SchedTypeOK, SpinLock, procVars
<1>1. ASSUME NEW c \in CPU, NEW p \in Slot, Pick(c, p), UNCHANGED procVars
      PROVE  ProcTypeOK'
  BY <1>1 DEF Pick, LockProc
<1>2. ASSUME NEW c \in CPU, NEW p \in Slot, Resume(c, p), UNCHANGED procVars
      PROVE  ProcTypeOK'
  BY <1>2 DEF Resume, UnlockProc, Goto, Resumed
<1>3. ASSUME NEW c \in CPU, NEW p \in Slot, Back(c, p), UNCHANGED procVars
      PROVE  ProcTypeOK'
  BY <1>3 DEF Back, UnlockProc
<1>4. ASSUME NEW c \in CPU, NEW p \in Slot, Yield(c, p), UNCHANGED procVars
      PROVE  ProcTypeOK'
  BY <1>4 DEF Yield, Runs, LockProc
<1>5. ASSUME NEW c \in CPU, NEW p \in Slot, Sleep1(c, p), UNCHANGED procVars
      PROVE  ProcTypeOK'
  BY <1>5 DEF Sleep1, Runs, LockProc, Release, Goto
<1>6. ASSUME NEW c \in CPU, NEW p \in Slot, Sleep2(c, p), UNCHANGED procVars
      PROVE  ProcTypeOK'
  BY <1>6 DEF Sleep2, Runs, Goto, SleepChan
<1>7. ASSUME NEW c \in CPU, NEW p \in Slot, NEW q \in Slot, ForkAlloc(c, p, q)
      PROVE  ProcTypeOK'
  <2>1. nextpid \in 0..MaxPid /\ nextpid + 1 \in 1..MaxPid + 1
    BY <1>7, ProcAssumption DEF ForkAlloc
  <2>2. SchedTypeOK'
    BY <1>7 DEF ForkAlloc
  <2>3. pc' \in [Slot -> {"user", "fparent", "frun", "xacq", "xinit", "xparent", "xzombie",
                          "dead", "wacq", "wspin", "wscan", "sleep", "sleep2", "asleep",
                          "lacq", "lheld", "lwake"}]
    BY <1>7 DEF ForkAlloc
  <2>4. /\ pid' \in [Slot -> 0..MaxPid] /\ nextpid' \in 1..MaxPid + 1
        /\ np' \in [Slot -> 0..NPROC]
        /\ UNCHANGED <<parent, killed, havekids, locked>>
    BY <1>7, <2>1 DEF ForkAlloc
  <2>5. \A r \in Slot : chan'[r] # 0 => pc'[r] = "asleep"
    <3>1. chan[p] = 0 /\ chan[q] = 0
      BY <1>7 DEF ForkAlloc, Calls, KThreads, ThreadState
    <3> QED
      BY <1>7, <3>1 DEF ForkAlloc
  <2> QED
    BY <2>2, <2>3, <2>4, <2>5
<1>8. ASSUME NEW c \in CPU, NEW p \in Slot, NEW q \in Slot, ForkNoMemory(c, p, q)
      PROVE  ProcTypeOK'
  BY <1>8, ProcAssumption DEF ForkNoMemory, Calls, Runs, schedVars
<1>9. ASSUME NEW c \in CPU, NEW p \in Slot, ForkParent(c, p) PROVE ProcTypeOK'
  BY <1>9 DEF ForkParent, Runs, Goto
<1>10. ASSUME NEW c \in CPU, NEW p \in Slot, ForkRun(c, p) PROVE ProcTypeOK'
  BY <1>10 DEF ForkRun, Runs, Goto
<1>11. ASSUME NEW c \in CPU, NEW p \in Slot, ExitStart(c, p) PROVE ProcTypeOK'
  BY <1>11 DEF ExitStart, Runs, Goto
<1>12. ASSUME NEW c \in CPU, NEW p \in Slot, ExitReparent(c, p) PROVE ProcTypeOK'
  BY <1>12 DEF ExitReparent, Runs, Acquire, Goto
<1>13. ASSUME NEW c \in CPU, NEW p \in Slot, ExitWakeup(c, p) PROVE ProcTypeOK'
  BY <1>13, NextSlot DEF ExitWakeup, Runs, WakeupNext
<1>14. ASSUME NEW c \in CPU, NEW p \in Slot, ExitWoken(c, p) PROVE ProcTypeOK'
  BY <1>14 DEF ExitWoken, Runs, Goto
<1>15. ASSUME NEW c \in CPU, NEW p \in Slot, ExitZombie(c, p) PROVE ProcTypeOK'
  BY <1>15 DEF ExitZombie, Runs, LockProc, Release, Goto
<1>16. ASSUME NEW c \in CPU, NEW p \in Slot, WaitStart(c, p) PROVE ProcTypeOK'
  BY <1>16 DEF WaitStart, Calls, Runs, Goto
<1>29. ASSUME NEW c \in CPU, NEW p \in Slot, WaitSpin(c, p) PROVE ProcTypeOK'
  BY <1>29 DEF WaitSpin, Runs, Goto
<1>17. ASSUME NEW c \in CPU, NEW p \in Slot, WaitAcquire(c, p) PROVE ProcTypeOK'
  BY <1>17 DEF WaitAcquire, Runs, Acquire, Goto
<1>18. ASSUME NEW c \in CPU, NEW p \in Slot, WaitScan(c, p) PROVE ProcTypeOK'
  BY <1>18, NextSlot DEF WaitScan, Runs
<1>19. ASSUME NEW c \in CPU, NEW p \in Slot, WaitCollect(c, p) PROVE ProcTypeOK'
  <2>1. idx[p] \in Slot
    BY <1>19, NextSlot DEF WaitCollect
  <2>2. SchedTypeOK'
    BY <1>19, <2>1 DEF WaitCollect, Release, ScanDone
  <2>3. pc' \in [Slot -> {"user", "fparent", "frun", "xacq", "xinit", "xparent", "xzombie",
                          "dead", "wacq", "wspin", "wscan", "sleep", "sleep2", "asleep",
                          "lacq", "lheld", "lwake"}]
    BY <1>19 DEF WaitCollect, Goto
  <2>4. /\ pid' \in [Slot -> 0..MaxPid] /\ parent' \in [Slot -> 0..NPROC]
        /\ killed' \in [Slot -> BOOLEAN] /\ havekids' \in [Slot -> BOOLEAN]
        /\ UNCHANGED <<nextpid, np, locked>>
    <3>1. 0 \in 0..MaxPid
      BY ProcAssumption
    <3> QED
      BY <1>19, <2>1, <3>1 DEF WaitCollect, ScanDone
  <2>5. \A r \in Slot : chan'[r] # 0 => pc'[r] = "asleep"
    <3>1. /\ pc[p] = "wscan" /\ pc' = [pc EXCEPT ![p] = "user"]
          /\ chan' = [chan EXCEPT ![idx[p]] = 0]
      BY <1>19 DEF WaitCollect, Goto
    <3>2. chan[p] = 0
      BY <3>1
    <3> QED
      BY <2>1, <3>1, <3>2
  <2> QED
    BY <2>2, <2>3, <2>4, <2>5
<1>20. ASSUME NEW c \in CPU, NEW p \in Slot, WaitFail(c, p) PROVE ProcTypeOK'
  BY <1>20 DEF WaitFail, Runs, Release, Goto, ScanDone
<1>21. ASSUME NEW c \in CPU, NEW p \in Slot, WaitSleep(c, p) PROVE ProcTypeOK'
  BY <1>21 DEF WaitSleep, Runs, Goto, ScanDone
<1>22. ASSUME NEW c \in CPU, NEW p \in Slot, NEW q \in Slot, NEW n \in 0..nextpid-1,
              Kill(c, p, q, n)
       PROVE  ProcTypeOK'
  BY <1>22 DEF Kill, Calls, Runs
<1>23. ASSUME NEW c \in CPU, NEW p \in Slot, LockStart(c, p) PROVE ProcTypeOK'
  BY <1>23 DEF LockStart, Calls, Runs, Goto
<1>24. ASSUME NEW c \in CPU, NEW p \in Slot, AcquireSleep(c, p) PROVE ProcTypeOK'
  BY <1>24 DEF AcquireSleep, Runs, Goto
<1>25. ASSUME NEW c \in CPU, NEW p \in Slot, ReleaseSleep(c, p) PROVE ProcTypeOK'
  BY <1>25 DEF ReleaseSleep, Runs, Acquire, Goto
<1>26. ASSUME NEW c \in CPU, NEW p \in Slot, ReleaseWakeup(c, p) PROVE ProcTypeOK'
  BY <1>26, NextSlot DEF ReleaseWakeup, Runs, WakeupNext
<1>27. ASSUME NEW c \in CPU, NEW p \in Slot, ReleaseDone(c, p) PROVE ProcTypeOK'
  BY <1>27 DEF ReleaseDone, Runs, Goto, Release
<1>28. CASE UNCHANGED vars
  BY <1>28 DEF vars, schedVars
<1> QED
  BY <1>1, <1>2, <1>3, <1>4, <1>5, <1>6, <1>7, <1>8, <1>9, <1>10, <1>11, <1>12, <1>13,
     <1>14, <1>15, <1>16, <1>17, <1>18, <1>19, <1>20, <1>21, <1>22, <1>23, <1>24,
     <1>25, <1>26, <1>27, <1>28, <1>29 DEF Next, Scheduling, Dispatch, InKernel, Syscall

\* Every step keeps a process on one CPU, with its lock where it should be.
LEMMA CpusStep == ProcTypeOK /\ KThreads /\ Cpus /\ Family /\ [Next]_vars => Cpus'
<1> SUFFICES ASSUME ProcTypeOK, KThreads, Cpus, Family, [Next]_vars PROVE Cpus'
  OBVIOUS
<1> USE SlotFacts DEF ProcTypeOK, SchedTypeOK, Cpus, OneCpu, CpuState,
  RunningSomewhere, ProcLocks, KThreads, ThreadState, Preemptible, SpinLock, procVars
<1>1. ASSUME NEW c \in CPU, NEW p \in Slot, Pick(c, p), UNCHANGED procVars PROVE Cpus'
  <2>1. \A d \in CPU : cpuProc[d] # p
    BY <1>1, SchedAssumption DEF Pick, LockProc
  <2>2. OneCpu'
    BY <1>1, <2>1 DEF Pick
  <2>3. CpuState'
    BY <1>1, <2>1 DEF Pick
  <2>4. RunningSomewhere'
    BY <1>1, <2>1 DEF Pick
  <2>5. ProcLocks'
    BY <1>1, <2>1, SchedAssumption DEF Pick, LockProc
  <2> QED
    BY <2>2, <2>3, <2>4, <2>5
<1>2. ASSUME NEW c \in CPU, NEW p \in Slot, Resume(c, p), UNCHANGED procVars
      PROVE  Cpus'
  <2>1. OneCpu' /\ RunningSomewhere'
    BY <1>2 DEF Resume
  <2>2. CpuState'
    BY <1>2 DEF Resume, Goto, Resumed
  <2>3. \A d \in CPU : cpuProc[d] = p => d = c
    BY <1>2 DEF Resume
  <2>4. ProcLocks'
    BY <1>2, <2>3, SchedAssumption DEF Resume, UnlockProc, Goto, Resumed
  <2> QED
    BY <2>1, <2>2, <2>4
<1>3. ASSUME NEW c \in CPU, NEW p \in Slot, Back(c, p), UNCHANGED procVars PROVE Cpus'
  <2>1. \A d \in CPU : cpuProc[d] = p => d = c
    BY <1>3 DEF Back
  <2>2. OneCpu'
    BY <1>3, <2>1 DEF Back
  <2>3. CpuState'
    BY <1>3, <2>1 DEF Back
  <2>4. RunningSomewhere'
    BY <1>3, <2>1 DEF Back
  <2>5. ProcLocks'
    BY <1>3, <2>1, SchedAssumption DEF Back, UnlockProc
  <2> QED
    BY <2>2, <2>3, <2>4, <2>5
<1>4. ASSUME NEW c \in CPU, NEW p \in Slot, Yield(c, p), UNCHANGED procVars
      PROVE  Cpus'
  BY <1>4 DEF Yield, Runs, LockProc
<1>5. ASSUME NEW c \in CPU, NEW p \in Slot, Sleep1(c, p), UNCHANGED procVars
      PROVE  Cpus'
  BY <1>5 DEF Sleep1, Runs, LockProc, Release, Goto
<1>6. ASSUME NEW c \in CPU, NEW p \in Slot, Sleep2(c, p), UNCHANGED procVars
      PROVE  Cpus'
  BY <1>6 DEF Sleep2, Runs, Goto, SleepChan
<1>7. ASSUME NEW c \in CPU, NEW p \in Slot, NEW q \in Slot, ForkAlloc(c, p, q)
      PROVE  Cpus'
  BY <1>7 DEF ForkAlloc, Calls, Runs
<1>8. ASSUME NEW c \in CPU, NEW p \in Slot, NEW q \in Slot, ForkNoMemory(c, p, q)
      PROVE  Cpus'
  BY <1>8 DEF ForkNoMemory, Calls, Runs, schedVars
<1>9. ASSUME NEW c \in CPU, NEW p \in Slot, ForkParent(c, p) PROVE Cpus'
  BY <1>9 DEF ForkParent, Runs, Goto
<1>10. ASSUME NEW c \in CPU, NEW p \in Slot, ForkRun(c, p) PROVE Cpus'
  BY <1>10 DEF ForkRun, Runs, Goto, Family, Making
<1>11. ASSUME NEW c \in CPU, NEW p \in Slot, ExitStart(c, p) PROVE Cpus'
  BY <1>11 DEF ExitStart, Runs, Goto
<1>12. ASSUME NEW c \in CPU, NEW p \in Slot, ExitReparent(c, p) PROVE Cpus'
  BY <1>12 DEF ExitReparent, Runs, Acquire, Goto
<1>13. ASSUME NEW c \in CPU, NEW p \in Slot, ExitWakeup(c, p) PROVE Cpus'
  BY <1>13 DEF ExitWakeup, Runs, WakeupNext
<1>14. ASSUME NEW c \in CPU, NEW p \in Slot, ExitWoken(c, p) PROVE Cpus'
  BY <1>14 DEF ExitWoken, Runs, Goto
<1>15. ASSUME NEW c \in CPU, NEW p \in Slot, ExitZombie(c, p) PROVE Cpus'
  BY <1>15 DEF ExitZombie, Runs, LockProc, Release, Goto
<1>16. ASSUME NEW c \in CPU, NEW p \in Slot, WaitStart(c, p) PROVE Cpus'
  BY <1>16 DEF WaitStart, Calls, Runs, Goto
<1>29. ASSUME NEW c \in CPU, NEW p \in Slot, WaitSpin(c, p) PROVE Cpus'
  BY <1>29 DEF WaitSpin, Runs, Goto
<1>17. ASSUME NEW c \in CPU, NEW p \in Slot, WaitAcquire(c, p) PROVE Cpus'
  BY <1>17 DEF WaitAcquire, Runs, Acquire, Goto
<1>18. ASSUME NEW c \in CPU, NEW p \in Slot, WaitScan(c, p) PROVE Cpus'
  BY <1>18 DEF WaitScan, Runs
<1>19. ASSUME NEW c \in CPU, NEW p \in Slot, WaitCollect(c, p) PROVE Cpus'
  BY <1>19 DEF WaitCollect, Runs, Release, Goto, ScanDone
<1>20. ASSUME NEW c \in CPU, NEW p \in Slot, WaitFail(c, p) PROVE Cpus'
  BY <1>20 DEF WaitFail, Runs, Release, Goto, ScanDone
<1>21. ASSUME NEW c \in CPU, NEW p \in Slot, WaitSleep(c, p) PROVE Cpus'
  BY <1>21 DEF WaitSleep, Runs, Goto, ScanDone
<1>22. ASSUME NEW c \in CPU, NEW p \in Slot, NEW q \in Slot, NEW n \in 0..nextpid-1,
              Kill(c, p, q, n)
       PROVE  Cpus'
  BY <1>22 DEF Kill, Calls, Runs
<1>23. ASSUME NEW c \in CPU, NEW p \in Slot, LockStart(c, p) PROVE Cpus'
  BY <1>23 DEF LockStart, Calls, Runs, Goto
<1>24. ASSUME NEW c \in CPU, NEW p \in Slot, AcquireSleep(c, p) PROVE Cpus'
  BY <1>24 DEF AcquireSleep, Runs, Goto
<1>25. ASSUME NEW c \in CPU, NEW p \in Slot, ReleaseSleep(c, p) PROVE Cpus'
  BY <1>25 DEF ReleaseSleep, Runs, Acquire, Goto
<1>26. ASSUME NEW c \in CPU, NEW p \in Slot, ReleaseWakeup(c, p) PROVE Cpus'
  BY <1>26 DEF ReleaseWakeup, Runs, WakeupNext
<1>27. ASSUME NEW c \in CPU, NEW p \in Slot, ReleaseDone(c, p) PROVE Cpus'
  BY <1>27 DEF ReleaseDone, Runs, Goto, Release
<1>28. CASE UNCHANGED vars
  BY <1>28 DEF vars, schedVars
<1> QED
  BY <1>1, <1>2, <1>3, <1>4, <1>5, <1>6, <1>7, <1>8, <1>9, <1>10, <1>11, <1>12, <1>13,
     <1>14, <1>15, <1>16, <1>17, <1>18, <1>19, <1>20, <1>21, <1>22, <1>23, <1>24,
     <1>25, <1>26, <1>27, <1>28, <1>29 DEF Next, Scheduling, Dispatch, InKernel, Syscall

\* Every step keeps threads where their states say, and spinlocks with their
\* holders.
LEMMA KThreadsStep == ProcTypeOK /\ Cpus /\ KThreads /\ Family /\ [Next]_vars
  => KThreads'
<1> SUFFICES ASSUME ProcTypeOK, Cpus, KThreads, Family, [Next]_vars PROVE KThreads'
  OBVIOUS
<1> USE SlotFacts DEF ProcTypeOK, SchedTypeOK, Cpus, OneCpu, CpuState,
  RunningSomewhere, ProcLocks, KThreads, ThreadState, SpinLocks, Preemptible, Holding,
  SleepChan, SpinLock, procVars
<1>1. ASSUME NEW c \in CPU, NEW p \in Slot, Pick(c, p), UNCHANGED procVars
      PROVE  KThreads'
  BY <1>1 DEF Pick, LockProc
<1>2. ASSUME NEW c \in CPU, NEW p \in Slot, Resume(c, p), UNCHANGED procVars
      PROVE  KThreads'
  BY <1>2 DEF Resume, UnlockProc, Goto, Resumed
<1>3. ASSUME NEW c \in CPU, NEW p \in Slot, Back(c, p), UNCHANGED procVars
      PROVE  KThreads'
  BY <1>3 DEF Back, UnlockProc
<1>4. ASSUME NEW c \in CPU, NEW p \in Slot, Yield(c, p), UNCHANGED procVars
      PROVE  KThreads'
  BY <1>4 DEF Yield, Runs, LockProc
<1>5. ASSUME NEW c \in CPU, NEW p \in Slot, Sleep1(c, p), UNCHANGED procVars
      PROVE  KThreads'
  BY <1>5 DEF Sleep1, Runs, LockProc, Release, Goto
<1>6. ASSUME NEW c \in CPU, NEW p \in Slot, Sleep2(c, p), UNCHANGED procVars
      PROVE  KThreads'
  BY <1>6 DEF Sleep2, Runs, Goto, SleepChan
<1>7. ASSUME NEW c \in CPU, NEW p \in Slot, NEW q \in Slot, ForkAlloc(c, p, q)
      PROVE  KThreads'
  <2>1. ThreadState'
    BY <1>7 DEF ForkAlloc, Calls, Runs
  <2>2. ASSUME NEW l \in SpinLock, NEW d \in CPU, mode[d] = "run"
        PROVE  Holding(l, cpuProc[d])' <=> Holding(l, cpuProc[d])
    <3>1. cpuProc[d] \in Slot /\ cpuProc[d] # q
      BY <1>7, <2>2, NonzeroSlot DEF ForkAlloc
    <3>2. pc[p] = "user" /\ UNCHANGED <<cpuProc, via>>
      BY <1>7 DEF ForkAlloc, Calls
    <3> QED
      BY <1>7, <3>1, <3>2 DEF ForkAlloc
  <2>3. UNCHANGED <<spin, mode>>
    BY <1>7 DEF ForkAlloc
  <2>4. SpinLocks'
    BY <2>2, <2>3
  <2> QED
    BY <2>1, <2>4
<1>8. ASSUME NEW c \in CPU, NEW p \in Slot, NEW q \in Slot, ForkNoMemory(c, p, q)
      PROVE  KThreads'
  BY <1>8 DEF ForkNoMemory, Calls, Runs, schedVars
<1>9. ASSUME NEW c \in CPU, NEW p \in Slot, ForkParent(c, p) PROVE KThreads'
  BY <1>9 DEF ForkParent, Runs, Goto
<1>10. ASSUME NEW c \in CPU, NEW p \in Slot, ForkRun(c, p) PROVE KThreads'
  BY <1>10 DEF ForkRun, Runs, Goto, Family, Making
<1>11. ASSUME NEW c \in CPU, NEW p \in Slot, ExitStart(c, p) PROVE KThreads'
  BY <1>11 DEF ExitStart, Runs, Goto
<1>12. ASSUME NEW c \in CPU, NEW p \in Slot, ExitReparent(c, p) PROVE KThreads'
  BY <1>12 DEF ExitReparent, Runs, Acquire, Goto
<1>13. ASSUME NEW c \in CPU, NEW p \in Slot, ExitWakeup(c, p) PROVE KThreads'
  BY <1>13 DEF ExitWakeup, Runs, WakeupNext
<1>14. ASSUME NEW c \in CPU, NEW p \in Slot, ExitWoken(c, p) PROVE KThreads'
  BY <1>14 DEF ExitWoken, Runs, Goto
<1>15. ASSUME NEW c \in CPU, NEW p \in Slot, ExitZombie(c, p) PROVE KThreads'
  BY <1>15 DEF ExitZombie, Runs, LockProc, Release, Goto
<1>16. ASSUME NEW c \in CPU, NEW p \in Slot, WaitStart(c, p) PROVE KThreads'
  BY <1>16 DEF WaitStart, Calls, Runs, Goto
<1>29. ASSUME NEW c \in CPU, NEW p \in Slot, WaitSpin(c, p) PROVE KThreads'
  BY <1>29 DEF WaitSpin, Runs, Goto
<1>17. ASSUME NEW c \in CPU, NEW p \in Slot, WaitAcquire(c, p) PROVE KThreads'
  BY <1>17 DEF WaitAcquire, Runs, Acquire, Goto
<1>18. ASSUME NEW c \in CPU, NEW p \in Slot, WaitScan(c, p) PROVE KThreads'
  BY <1>18 DEF WaitScan, Runs
<1>19. ASSUME NEW c \in CPU, NEW p \in Slot, WaitCollect(c, p) PROVE KThreads'
  BY <1>19 DEF WaitCollect, Runs, Release, Goto, ScanDone
<1>20. ASSUME NEW c \in CPU, NEW p \in Slot, WaitFail(c, p) PROVE KThreads'
  BY <1>20 DEF WaitFail, Runs, Release, Goto, ScanDone
<1>21. ASSUME NEW c \in CPU, NEW p \in Slot, WaitSleep(c, p) PROVE KThreads'
  BY <1>21 DEF WaitSleep, Runs, Goto, ScanDone
<1>22. ASSUME NEW c \in CPU, NEW p \in Slot, NEW q \in Slot, NEW n \in 0..nextpid-1,
              Kill(c, p, q, n)
       PROVE  KThreads'
  BY <1>22 DEF Kill, Calls, Runs
<1>23. ASSUME NEW c \in CPU, NEW p \in Slot, LockStart(c, p) PROVE KThreads'
  BY <1>23 DEF LockStart, Calls, Runs, Goto
<1>24. ASSUME NEW c \in CPU, NEW p \in Slot, AcquireSleep(c, p) PROVE KThreads'
  <2>1. ThreadState'
    BY <1>24 DEF AcquireSleep, Runs, Goto
  <2>2. \A d \in CPU \ {c} : mode[d] = "run" => cpuProc[d] \in Slot \ {p}
    BY <1>24, NonzeroSlot DEF AcquireSleep, Runs
  <2>3. ASSUME NEW l \in SpinLock, NEW d \in CPU \ {c}, mode[d] = "run"
        PROVE  Holding(l, cpuProc[d])' <=> Holding(l, cpuProc[d])
    <3>1. \A q \in Slot \ {p} : pc'[q] = pc[q] /\ via'[q] = via[q]
      BY <1>24 DEF AcquireSleep, Goto
    <3>2. cpuProc' = cpuProc
      BY <1>24 DEF AcquireSleep
    <3> QED
      BY <2>2, <2>3, <3>1, <3>2
  <2>4. ASSUME NEW l \in SpinLock
        PROVE  /\ ~Holding(l, p)
               /\ Holding(l, p)' <=> l = "lk" /\ locked # 0
    BY <1>24 DEF AcquireSleep, Goto
  <2>5. spin' = IF locked = 0 THEN spin ELSE [spin EXCEPT !["lk"] = c]
    BY <1>24 DEF AcquireSleep
  <2>6. spin["lk"] = NoCPU /\ mode[c] = "run" /\ cpuProc[c] = p /\ UNCHANGED <<mode,
          cpuProc>>
    BY <1>24 DEF AcquireSleep, Runs
  <2>7. SpinLocks'
    BY <2>3, <2>4, <2>5, <2>6, SchedAssumption
  <2> QED
    BY <2>1, <2>7
<1>25. ASSUME NEW c \in CPU, NEW p \in Slot, ReleaseSleep(c, p) PROVE KThreads'
  BY <1>25 DEF ReleaseSleep, Runs, Acquire, Goto
<1>26. ASSUME NEW c \in CPU, NEW p \in Slot, ReleaseWakeup(c, p) PROVE KThreads'
  BY <1>26 DEF ReleaseWakeup, Runs, WakeupNext
<1>27. ASSUME NEW c \in CPU, NEW p \in Slot, ReleaseDone(c, p) PROVE KThreads'
  BY <1>27 DEF ReleaseDone, Runs, Goto, Release
<1>28. CASE UNCHANGED vars
  BY <1>28 DEF vars, schedVars
<1> QED
  BY <1>1, <1>2, <1>3, <1>4, <1>5, <1>6, <1>7, <1>8, <1>9, <1>10, <1>11, <1>12, <1>13,
     <1>14, <1>15, <1>16, <1>17, <1>18, <1>19, <1>20, <1>21, <1>22, <1>23, <1>24,
     <1>25, <1>26, <1>27, <1>28, <1>29 DEF Next, Scheduling, Dispatch, InKernel, Syscall

\* Every step keeps the family tree.
LEMMA FamilyStep == ProcTypeOK /\ Cpus /\ KThreads /\ Family /\ [Next]_vars => Family'
<1> SUFFICES ASSUME ProcTypeOK, Cpus, KThreads, Family, [Next]_vars PROVE Family'
  OBVIOUS
<1> USE SlotFacts DEF ProcTypeOK, SchedTypeOK, Cpus, OneCpu, CpuState,
  RunningSomewhere, ProcLocks, KThreads, ThreadState, SpinLocks, Family, InitThere,
  Making, Parents, Preemptible, SpinLock, procVars
<1>1. ASSUME NEW c \in CPU, NEW p \in Slot, Pick(c, p), UNCHANGED procVars
      PROVE  Family'
  BY <1>1 DEF Pick, LockProc
<1>2. ASSUME NEW c \in CPU, NEW p \in Slot, Resume(c, p), UNCHANGED procVars
      PROVE  Family'
  BY <1>2 DEF Resume, UnlockProc, Goto, Resumed
<1>3. ASSUME NEW c \in CPU, NEW p \in Slot, Back(c, p), UNCHANGED procVars
      PROVE  Family'
  BY <1>3 DEF Back, UnlockProc
<1>4. ASSUME NEW c \in CPU, NEW p \in Slot, Yield(c, p), UNCHANGED procVars
      PROVE  Family'
  BY <1>4 DEF Yield, Runs, LockProc
<1>5. ASSUME NEW c \in CPU, NEW p \in Slot, Sleep1(c, p), UNCHANGED procVars
      PROVE  Family'
  BY <1>5 DEF Sleep1, Runs, LockProc, Release, Goto
<1>6. ASSUME NEW c \in CPU, NEW p \in Slot, Sleep2(c, p), UNCHANGED procVars
      PROVE  Family'
  BY <1>6 DEF Sleep2, Runs, Goto, SleepChan
<1>7. ASSUME NEW c \in CPU, NEW p \in Slot, NEW q \in Slot, ForkAlloc(c, p, q)
      PROVE  Family'
  BY <1>7 DEF ForkAlloc, Calls, Runs
<1>8. ASSUME NEW c \in CPU, NEW p \in Slot, NEW q \in Slot, ForkNoMemory(c, p, q)
      PROVE  Family'
  BY <1>8 DEF ForkNoMemory, Calls, Runs, schedVars
<1>9. ASSUME NEW c \in CPU, NEW p \in Slot, ForkParent(c, p) PROVE Family'
  BY <1>9 DEF ForkParent, Runs, Goto
<1>10. ASSUME NEW c \in CPU, NEW p \in Slot, ForkRun(c, p) PROVE Family'
  BY <1>10 DEF ForkRun, Runs, Goto
<1>11. ASSUME NEW c \in CPU, NEW p \in Slot, ExitStart(c, p) PROVE Family'
  BY <1>11 DEF ExitStart, Runs, Goto
<1>12. ASSUME NEW c \in CPU, NEW p \in Slot, ExitReparent(c, p) PROVE Family'
  BY <1>12 DEF ExitReparent, Runs, Acquire, Goto
<1>13. ASSUME NEW c \in CPU, NEW p \in Slot, ExitWakeup(c, p) PROVE Family'
  <2>1. idx[p] \in Slot
    BY <1>13, NextSlot DEF ExitWakeup, WakeupNext
  <2>2. \A q \in Slot : state'[q] = state[q] \/ (state[q] = "SLEEPING"
          /\ state'[q] = "RUNNABLE")
    BY <1>13, <2>1 DEF ExitWakeup, WakeupNext
  <2>3. UNCHANGED <<pc, np, parent>>
    BY <1>13 DEF ExitWakeup, WakeupNext
  <2>4. InitThere' /\ Making'
    BY <2>2, <2>3
  <2>5. Parents'
    <3>1. \A q \in Slot : (state'[q] \in {"UNUSED", "USED", "ZOMBIE"})
                            <=> (state[q] \in {"UNUSED", "USED", "ZOMBIE"})
      BY <2>2
    <3>2. \A q \in Slot : parent[q] # 0 => parent[q] \in Slot
      BY NonzeroSlot
    <3>3. \A q \in Slot : state'[q] = "UNUSED" <=> state[q] = "UNUSED"
      BY <2>2
    <3> QED
      BY <2>3, <3>1, <3>2, <3>3
  <2> QED
    BY <2>4, <2>5
<1>14. ASSUME NEW c \in CPU, NEW p \in Slot, ExitWoken(c, p) PROVE Family'
  BY <1>14 DEF ExitWoken, Runs, Goto
<1>15. ASSUME NEW c \in CPU, NEW p \in Slot, ExitZombie(c, p) PROVE Family'
  BY <1>15 DEF ExitZombie, Runs, LockProc, Release, Goto
<1>16. ASSUME NEW c \in CPU, NEW p \in Slot, WaitStart(c, p) PROVE Family'
  BY <1>16 DEF WaitStart, Calls, Runs, Goto
<1>29. ASSUME NEW c \in CPU, NEW p \in Slot, WaitSpin(c, p) PROVE Family'
  BY <1>29 DEF WaitSpin, Runs, Goto
<1>17. ASSUME NEW c \in CPU, NEW p \in Slot, WaitAcquire(c, p) PROVE Family'
  BY <1>17 DEF WaitAcquire, Runs, Acquire, Goto
<1>18. ASSUME NEW c \in CPU, NEW p \in Slot, WaitScan(c, p) PROVE Family'
  BY <1>18 DEF WaitScan, Runs
<1>19. ASSUME NEW c \in CPU, NEW p \in Slot, WaitCollect(c, p) PROVE Family'
  BY <1>19 DEF WaitCollect, Runs, Release, Goto, ScanDone
<1>20. ASSUME NEW c \in CPU, NEW p \in Slot, WaitFail(c, p) PROVE Family'
  BY <1>20 DEF WaitFail, Runs, Release, Goto, ScanDone
<1>21. ASSUME NEW c \in CPU, NEW p \in Slot, WaitSleep(c, p) PROVE Family'
  BY <1>21 DEF WaitSleep, Runs, Goto, ScanDone
<1>22. ASSUME NEW c \in CPU, NEW p \in Slot, NEW q \in Slot, NEW n \in 0..nextpid-1,
              Kill(c, p, q, n)
       PROVE  Family'
  BY <1>22 DEF Kill, Calls, Runs
<1>23. ASSUME NEW c \in CPU, NEW p \in Slot, LockStart(c, p) PROVE Family'
  BY <1>23 DEF LockStart, Calls, Runs, Goto
<1>24. ASSUME NEW c \in CPU, NEW p \in Slot, AcquireSleep(c, p) PROVE Family'
  BY <1>24 DEF AcquireSleep, Runs, Goto
<1>25. ASSUME NEW c \in CPU, NEW p \in Slot, ReleaseSleep(c, p) PROVE Family'
  BY <1>25 DEF ReleaseSleep, Runs, Acquire, Goto
<1>26. ASSUME NEW c \in CPU, NEW p \in Slot, ReleaseWakeup(c, p) PROVE Family'
  BY <1>26 DEF ReleaseWakeup, Runs, WakeupNext
<1>27. ASSUME NEW c \in CPU, NEW p \in Slot, ReleaseDone(c, p) PROVE Family'
  BY <1>27 DEF ReleaseDone, Runs, Goto, Release
<1>28. CASE UNCHANGED vars
  BY <1>28 DEF vars, schedVars
<1> QED
  BY <1>1, <1>2, <1>3, <1>4, <1>5, <1>6, <1>7, <1>8, <1>9, <1>10, <1>11, <1>12, <1>13,
     <1>14, <1>15, <1>16, <1>17, <1>18, <1>19, <1>20, <1>21, <1>22, <1>23, <1>24,
     <1>25, <1>26, <1>27, <1>28, <1>29 DEF Next, Scheduling, Dispatch, InKernel, Syscall

\* What wait() has seen stays so while the table is left alone and nobody comes
\* to, or leaves, the places that Noticed is about.
LEMMA NoticedSame ==
    ASSUME Noticed, UNCHANGED <<parent, idx, state>>,
           \A r \in Slot : InWait(r)' <=> InWait(r),
           \A r \in Slot : /\ pc'[r] = "wscan" <=> pc[r] = "wscan"
                           /\ pc'[r] = "xinit" <=> pc[r] = "xinit"
                           /\ pc'[r] = "sleep" /\ via'[r] = "wait_lock" =>
                                pc[r] = "sleep" /\ via[r] = "wait_lock"
    PROVE  Noticed'
  <1>1. SUFFICES ASSUME NEW p \in Slot, NEW q \in Slot, parent[q] = p, state[q] = "ZOMBIE"
                 PROVE  /\ pc'[p] = "wscan" => idx[p] <= q
                        /\ ~(pc'[p] = "sleep" /\ via'[p] = "wait_lock")
                        /\ InWait(p)' => /\ p = initproc
                                        /\ \E h \in Slot : pc'[h] = "xinit" /\ idx[h] = 1
    BY DEF Noticed
  <1>2. /\ pc[p] = "wscan" => idx[p] <= q
        /\ ~(pc[p] = "sleep" /\ via[p] = "wait_lock")
    BY <1>1 DEF Noticed
  <1>3. ASSUME InWait(p)'
        PROVE  p = initproc /\ \E h \in Slot : pc'[h] = "xinit" /\ idx[h] = 1
    <2>1. InWait(p)
      BY <1>3
    <2>2. p = initproc /\ \E h \in Slot : pc[h] = "xinit" /\ idx[h] = 1
      BY <1>1, <2>1 DEF Noticed
    <2> QED
      BY <2>2
  <1> QED
    BY <1>2, <1>3

\* Every step keeps the ends of children from being missed.
LEMMA ChildrenStep == ProcTypeOK /\ Cpus /\ KThreads /\ Family /\ Children
  /\ [Next]_vars => Children'
<1> SUFFICES ASSUME ProcTypeOK, Cpus, KThreads, Family, Children, [Next]_vars
             PROVE  Children'
  OBVIOUS
<1> USE SlotFacts DEF ProcTypeOK, SchedTypeOK, Cpus, OneCpu, CpuState,
  RunningSomewhere, ProcLocks, KThreads, ThreadState, SpinLocks, Family, InitThere,
  Making, Parents, Children, Noticed, ParentWoken, InWait, Preemptible, Holding,
  SleepChan, SpinLock, procVars
<1>1. ASSUME NEW c \in CPU, NEW p \in Slot, Pick(c, p), UNCHANGED procVars
      PROVE  Children'
  BY <1>1 DEF Pick, LockProc
<1>2. ASSUME NEW c \in CPU, NEW p \in Slot, Resume(c, p), UNCHANGED procVars
      PROVE  Children'
  BY <1>2 DEF Resume, UnlockProc, Goto, Resumed
<1>3. ASSUME NEW c \in CPU, NEW p \in Slot, Back(c, p), UNCHANGED procVars
      PROVE  Children'
  BY <1>3 DEF Back, UnlockProc
<1>4. ASSUME NEW c \in CPU, NEW p \in Slot, Yield(c, p), UNCHANGED procVars
      PROVE  Children'
  BY <1>4 DEF Yield, Runs, LockProc
<1>5. ASSUME NEW c \in CPU, NEW p \in Slot, Sleep1(c, p), UNCHANGED procVars
      PROVE  Children'
  BY <1>5 DEF Sleep1, Runs, LockProc, Release, Goto
<1>6. ASSUME NEW c \in CPU, NEW p \in Slot, Sleep2(c, p), UNCHANGED procVars
      PROVE  Children'
  BY <1>6 DEF Sleep2, Runs, Goto, SleepChan
<1>7. ASSUME NEW c \in CPU, NEW p \in Slot, NEW q \in Slot, ForkAlloc(c, p, q)
      PROVE  Children'
  <2>1. \A r \in Slot : /\ InWait(r)' <=> InWait(r)
                        /\ state'[r] = "ZOMBIE" <=> state[r] = "ZOMBIE"
    BY <1>7 DEF ForkAlloc, Calls
  <2>2. \A r \in Slot : pc'[r] # pc[r] =>
          pc'[r] \in {"fparent", "user"} /\ pc[r] \in {"user", "dead"}
    BY <1>7 DEF ForkAlloc, Calls
  <2>3. UNCHANGED <<parent, idx, via>>
    BY <1>7 DEF ForkAlloc
  <2>4. Noticed'
    BY <2>1, <2>2, <2>3
  <2>5. ParentWoken'
    BY <2>1, <2>2, <2>3, ParentThere
  <2> QED
    BY <2>4, <2>5
<1>8. ASSUME NEW c \in CPU, NEW p \in Slot, NEW q \in Slot, ForkNoMemory(c, p, q)
      PROVE  Children'
  BY <1>8 DEF ForkNoMemory, Calls, Runs, schedVars
<1>9. ASSUME NEW c \in CPU, NEW p \in Slot, ForkParent(c, p) PROVE Children'
  BY <1>9 DEF ForkParent, Runs, Goto
<1>10. ASSUME NEW c \in CPU, NEW p \in Slot, ForkRun(c, p) PROVE Children'
  BY <1>10 DEF ForkRun, Runs, Goto
<1>11. ASSUME NEW c \in CPU, NEW p \in Slot, ExitStart(c, p) PROVE Children'
  BY <1>11 DEF ExitStart, Runs, Goto
<1>12. ASSUME NEW c \in CPU, NEW p \in Slot, ExitReparent(c, p) PROVE Children'
  BY <1>12 DEF ExitReparent, Runs, Acquire, Goto
<1>13. ASSUME NEW c \in CPU, NEW p \in Slot, ExitWakeup(c, p) PROVE Children'
  <2>0. PICK q \in Slot : q = idx[p]
    BY <1>13, NextSlot DEF ExitWakeup, WakeupNext
  <2>1. /\ idx[p] = q /\ idx'[p] = q + 1
        /\ \A r \in Slot \ {p} : idx'[r] = idx[r]
    BY <1>13, <2>0, NextSlot DEF ExitWakeup, WakeupNext
  <2>2. UNCHANGED <<parent, pc, via, chan>>
    BY <1>13 DEF ExitWakeup, WakeupNext
  <2>3. /\ \A r \in Slot \ {q} : state'[r] = state[r]
        /\ state'[q] = state[q] \/ (state[q] = "SLEEPING" /\ state'[q] = "RUNNABLE")
    BY <1>13, <2>1 DEF ExitWakeup, WakeupNext
  <2>4. \A r \in Slot : /\ InWait(r)' => InWait(r)
                        /\ state'[r] = "ZOMBIE" => state[r] = "ZOMBIE"
    BY <2>2, <2>3
  <2>5. ~InWait(p) /\ p # initproc
    BY <1>13 DEF ExitWakeup, WakeupNext, Runs
  <2>6. \/ pc[p] = "xinit" /\ (InWait(initproc)' => q # initproc)
        \/ pc[p] = "xparent" /\ (InWait(parent[p])' => q # parent[p])
    <3>1. q # p => pc[q] # "sleep2"
      BY <1>13, <2>1, Sleep2Locked DEF ExitWakeup, WakeupNext
    <3>2. CASE pc[p] = "xinit"
      <4>1. q = initproc => ~(state'[initproc] = "SLEEPING"
              /\ chan[initproc] = initproc)
        BY <1>13, <2>1, <2>5, <3>2 DEF ExitWakeup, WakeupNext
      <4> QED
        BY <2>2, <2>5, <3>1, <3>2, <4>1
    <3>3. CASE pc[p] = "xparent"
      <4>1. q = parent[p] /\ q # p => ~(state'[q] = "SLEEPING" /\ chan[q] = q)
        BY <1>13, <2>1, <3>3 DEF ExitWakeup, WakeupNext
      <4>2. q = parent[p] => ~InWait(q)'
        BY <2>2, <2>4, <2>5, <3>1, <4>1
      <4> QED
        BY <2>2, <3>3, <4>2
    <3> QED
      BY <1>13, <3>2, <3>3 DEF ExitWakeup
  <2>7. Noticed'
    BY <1>13, <2>1, <2>2, <2>3, <2>4, <2>6, OneHolder DEF initproc
  <2>8. ParentWoken'
    <3>1. ASSUME NEW h \in Slot, pc[h] \in {"xparent", "xzombie"}, InWait(parent[h])'
          PROVE  pc[h] = "xparent" /\ idx'[h] <= parent[h]
      <4>1. parent[h] \in Slot /\ InWait(parent[h])
        BY <2>2, <2>4, <3>1, ParentThere
      <4>2. CASE h # p
        BY <2>1, <3>1, <4>1, <4>2
      <4>3. CASE h = p
        <5>1. q <= parent[p] /\ q # parent[p]
          BY <2>1, <2>2, <2>6, <3>1, <4>1, <4>3
        <5> QED
          BY <2>1, <2>6, <3>1, <4>1, <4>3, <5>1, SlotOrder
      <4> QED
        BY <4>2, <4>3
    <3> QED
      BY <2>2, <3>1
  <2> QED
    BY <2>7, <2>8
<1>14. ASSUME NEW c \in CPU, NEW p \in Slot, ExitWoken(c, p) PROVE Children'
  <2>1. \A q \in Slot : ~(idx[p] <= q)
    BY <1>14, PastTable DEF ExitWoken
  <2>2. \A r \in Slot : InWait(r)' <=> InWait(r)
    BY <1>14 DEF ExitWoken, Goto
  <2>3. /\ \/ pc[p] = "xinit" /\ pc'[p] = "xparent"
           \/ pc[p] = "xparent" /\ pc'[p] = "xzombie"
        /\ idx'[p] = 1
        /\ \A r \in Slot \ {p} : pc'[r] = pc[r] /\ idx'[r] = idx[r]
    <3>1. pc' = [pc EXCEPT ![p] = IF pc[p] = "xinit" THEN "xparent" ELSE "xzombie"]
      BY <1>14, Zenon DEF ExitWoken, Goto
    <3>2. idx' = [idx EXCEPT ![p] = 1] /\ pc[p] \in {"xinit", "xparent"}
      BY <1>14, Zenon DEF ExitWoken
    <3>3. pc'[p] = IF pc[p] = "xinit" THEN "xparent" ELSE "xzombie"
      BY <3>1
    <3>4. idx'[p] = 1 /\ \A r \in Slot \ {p} : pc'[r] = pc[r] /\ idx'[r] = idx[r]
      BY <3>1, <3>2
    <3> QED
      BY <3>2, <3>3, <3>4, Zenon
  <2>4. UNCHANGED <<parent, state, via>>
    BY <1>14 DEF ExitWoken
  <2>5. idx[p] # 1
    BY <2>1, SlotFacts DEF initproc
  <2>6. Noticed'
    BY <2>2, <2>3, <2>4, <2>5
  <2>7. ASSUME NEW h \in Slot, pc'[h] \in {"xparent", "xzombie"}, InWait(parent[h])'
        PROVE  pc'[h] = "xparent" /\ idx'[h] <= parent[h]
    <3>1. CASE h # p
      BY <2>2, <2>3, <2>4, <2>7, <3>1, ParentThere
    <3>2. CASE h = p /\ pc[p] = "xinit"
      <4>1. parent[p] \in Slot
        BY <1>14, <3>2, NonzeroSlot DEF ExitWoken, Runs
      <4> QED
        BY <2>3, <3>2, <4>1, SlotOrder
    <3>3. CASE h = p /\ pc[p] = "xparent"
      BY <2>1, <2>2, <2>4, <2>7, <3>3, ParentThere
    <3> QED
      BY <2>3, <3>1, <3>2, <3>3
  <2> QED
    BY <2>4, <2>6, <2>7
<1>15. ASSUME NEW c \in CPU, NEW p \in Slot, ExitZombie(c, p) PROVE Children'
  BY <1>15 DEF ExitZombie, Runs, LockProc, Release, Goto
<1>16. ASSUME NEW c \in CPU, NEW p \in Slot, WaitStart(c, p) PROVE Children'
  BY <1>16 DEF WaitStart, Calls, Runs, Goto
<1>29. ASSUME NEW c \in CPU, NEW p \in Slot, WaitSpin(c, p) PROVE Children'
  BY <1>29 DEF WaitSpin, Runs, Goto
<1>17. ASSUME NEW c \in CPU, NEW p \in Slot, WaitAcquire(c, p) PROVE Children'
  BY <1>17 DEF WaitAcquire, Runs, Acquire, Goto
<1>18. ASSUME NEW c \in CPU, NEW p \in Slot, WaitScan(c, p) PROVE Children'
  BY <1>18 DEF WaitScan, Runs
<1>19. ASSUME NEW c \in CPU, NEW p \in Slot, WaitCollect(c, p) PROVE Children'
  BY <1>19 DEF WaitCollect, Runs, Release, Goto, ScanDone
<1>20. ASSUME NEW c \in CPU, NEW p \in Slot, WaitFail(c, p) PROVE Children'
  BY <1>20 DEF WaitFail, Runs, Release, Goto, ScanDone
<1>21. ASSUME NEW c \in CPU, NEW p \in Slot, WaitSleep(c, p) PROVE Children'
  <2>1. \A q \in Slot : ~(idx[p] <= q)
    BY <1>21, PastTable DEF WaitSleep
  <2>2. \A q \in Slot : parent[q] = p => state[q] # "ZOMBIE"
    BY <1>21, <2>1 DEF WaitSleep
  <2>3. \A r \in Slot : InWait(r)' <=> InWait(r)
    BY <1>21 DEF WaitSleep, Goto
  <2>4. /\ pc[p] = "wscan" /\ pc'[p] = "sleep"
        /\ \A r \in Slot \ {p} : pc'[r] = pc[r] /\ via'[r] = via[r]
          /\ idx'[r] = idx[r]
    BY <1>21 DEF WaitSleep, Goto, ScanDone
  <2>5. UNCHANGED <<parent, state>>
    BY <1>21 DEF WaitSleep
  <2>6. Noticed'
    BY <2>2, <2>3, <2>4, <2>5
  <2>7. ParentWoken'
    BY <2>3, <2>4, <2>5, ParentThere
  <2> QED
    BY <2>6, <2>7
<1>22. ASSUME NEW c \in CPU, NEW p \in Slot, NEW q \in Slot, NEW n \in 0..nextpid-1,
              Kill(c, p, q, n)
       PROVE  Children'
  BY <1>22 DEF Kill, Calls, Runs
<1>23. ASSUME NEW c \in CPU, NEW p \in Slot, LockStart(c, p) PROVE Children'
  BY <1>23 DEF LockStart, Calls, Runs, Goto
<1>24. ASSUME NEW c \in CPU, NEW p \in Slot, AcquireSleep(c, p) PROVE Children'
  <2>1. \A r \in Slot : InWait(r)' <=> InWait(r)
    BY <1>24 DEF AcquireSleep, Goto
  <2>2. /\ pc[p] = "lacq" /\ pc'[p] \in {"lheld", "sleep"}
        /\ pc'[p] = "sleep" => via'[p] = "lk"
        /\ \A r \in Slot \ {p} : pc'[r] = pc[r] /\ via'[r] = via[r]
    BY <1>24 DEF AcquireSleep, Goto
  <2>3. UNCHANGED <<parent, idx, state>>
    BY <1>24 DEF AcquireSleep
  <2>4. Noticed'
    <3>1. \A r \in Slot : /\ pc'[r] = "wscan" <=> pc[r] = "wscan"
                          /\ pc'[r] = "xinit" <=> pc[r] = "xinit"
                          /\ pc'[r] = "sleep" /\ via'[r] = "wait_lock" =>
                               pc[r] = "sleep" /\ via[r] = "wait_lock"
      BY <2>2
    <3>2. Noticed
      OBVIOUS
    <3> QED
      BY <2>1, <2>3, <3>1, <3>2, NoticedSame
  <2>5. ParentWoken'
    BY <2>1, <2>2, <2>3, ParentThere
  <2> QED
    BY <2>4, <2>5
<1>25. ASSUME NEW c \in CPU, NEW p \in Slot, ReleaseSleep(c, p) PROVE Children'
  BY <1>25 DEF ReleaseSleep, Runs, Acquire, Goto
<1>26. ASSUME NEW c \in CPU, NEW p \in Slot, ReleaseWakeup(c, p) PROVE Children'
  BY <1>26 DEF ReleaseWakeup, Runs, WakeupNext
<1>27. ASSUME NEW c \in CPU, NEW p \in Slot, ReleaseDone(c, p) PROVE Children'
  BY <1>27 DEF ReleaseDone, Runs, Goto, Release
<1>28. CASE UNCHANGED vars
  BY <1>28 DEF vars, schedVars
<1> QED
  BY <1>1, <1>2, <1>3, <1>4, <1>5, <1>6, <1>7, <1>8, <1>9, <1>10, <1>11, <1>12, <1>13,
     <1>14, <1>15, <1>16, <1>17, <1>18, <1>19, <1>20, <1>21, <1>22, <1>23, <1>24,
     <1>25, <1>26, <1>27, <1>28, <1>29 DEF Next, Scheduling, Dispatch, InKernel, Syscall

\* Every step keeps the sleep lock exclusive and its sleepers to be woken.
LEMMA SleepLockStep == ProcTypeOK /\ Cpus /\ KThreads /\ SleepLock /\ [Next]_vars
  => SleepLock'
<1> SUFFICES ASSUME ProcTypeOK, Cpus, KThreads, SleepLock, [Next]_vars
             PROVE  SleepLock'
  OBVIOUS
<1> USE SlotFacts DEF ProcTypeOK, SchedTypeOK, Cpus, OneCpu, CpuState,
  RunningSomewhere, ProcLocks, KThreads, ThreadState, SpinLocks, SleepLock, InLock,
  Preemptible, Holding, SleepChan, SpinLock, procVars
<1>1. ASSUME NEW c \in CPU, NEW p \in Slot, Pick(c, p), UNCHANGED procVars
      PROVE  SleepLock'
  BY <1>1 DEF Pick, LockProc
<1>2. ASSUME NEW c \in CPU, NEW p \in Slot, Resume(c, p), UNCHANGED procVars
      PROVE  SleepLock'
  BY <1>2 DEF Resume, UnlockProc, Goto, Resumed
<1>3. ASSUME NEW c \in CPU, NEW p \in Slot, Back(c, p), UNCHANGED procVars
      PROVE  SleepLock'
  BY <1>3 DEF Back, UnlockProc
<1>4. ASSUME NEW c \in CPU, NEW p \in Slot, Yield(c, p), UNCHANGED procVars
      PROVE  SleepLock'
  BY <1>4 DEF Yield, Runs, LockProc
<1>5. ASSUME NEW c \in CPU, NEW p \in Slot, Sleep1(c, p), UNCHANGED procVars
      PROVE  SleepLock'
  BY <1>5 DEF Sleep1, Runs, LockProc, Release, Goto
<1>6. ASSUME NEW c \in CPU, NEW p \in Slot, Sleep2(c, p), UNCHANGED procVars
      PROVE  SleepLock'
  BY <1>6 DEF Sleep2, Runs, Goto, SleepChan
<1>7. ASSUME NEW c \in CPU, NEW p \in Slot, NEW q \in Slot, ForkAlloc(c, p, q)
      PROVE  SleepLock'
  BY <1>7 DEF ForkAlloc, Calls, Runs
<1>8. ASSUME NEW c \in CPU, NEW p \in Slot, NEW q \in Slot, ForkNoMemory(c, p, q)
      PROVE  SleepLock'
  BY <1>8 DEF ForkNoMemory, Calls, Runs, schedVars
<1>9. ASSUME NEW c \in CPU, NEW p \in Slot, ForkParent(c, p) PROVE SleepLock'
  BY <1>9 DEF ForkParent, Runs, Goto
<1>10. ASSUME NEW c \in CPU, NEW p \in Slot, ForkRun(c, p) PROVE SleepLock'
  BY <1>10 DEF ForkRun, Runs, Goto
<1>11. ASSUME NEW c \in CPU, NEW p \in Slot, ExitStart(c, p) PROVE SleepLock'
  BY <1>11 DEF ExitStart, Runs, Goto
<1>12. ASSUME NEW c \in CPU, NEW p \in Slot, ExitReparent(c, p) PROVE SleepLock'
  BY <1>12 DEF ExitReparent, Runs, Acquire, Goto
<1>13. ASSUME NEW c \in CPU, NEW p \in Slot, ExitWakeup(c, p) PROVE SleepLock'
  BY <1>13 DEF ExitWakeup, Runs, WakeupNext
<1>14. ASSUME NEW c \in CPU, NEW p \in Slot, ExitWoken(c, p) PROVE SleepLock'
  BY <1>14 DEF ExitWoken, Runs, Goto
<1>15. ASSUME NEW c \in CPU, NEW p \in Slot, ExitZombie(c, p) PROVE SleepLock'
  BY <1>15 DEF ExitZombie, Runs, LockProc, Release, Goto
<1>16. ASSUME NEW c \in CPU, NEW p \in Slot, WaitStart(c, p) PROVE SleepLock'
  BY <1>16 DEF WaitStart, Calls, Runs, Goto
<1>29. ASSUME NEW c \in CPU, NEW p \in Slot, WaitSpin(c, p) PROVE SleepLock'
  BY <1>29 DEF WaitSpin, Runs, Goto
<1>17. ASSUME NEW c \in CPU, NEW p \in Slot, WaitAcquire(c, p) PROVE SleepLock'
  BY <1>17 DEF WaitAcquire, Runs, Acquire, Goto
<1>18. ASSUME NEW c \in CPU, NEW p \in Slot, WaitScan(c, p) PROVE SleepLock'
  BY <1>18 DEF WaitScan, Runs
<1>19. ASSUME NEW c \in CPU, NEW p \in Slot, WaitCollect(c, p) PROVE SleepLock'
  BY <1>19 DEF WaitCollect, Runs, Release, Goto, ScanDone
<1>20. ASSUME NEW c \in CPU, NEW p \in Slot, WaitFail(c, p) PROVE SleepLock'
  BY <1>20 DEF WaitFail, Runs, Release, Goto, ScanDone
<1>21. ASSUME NEW c \in CPU, NEW p \in Slot, WaitSleep(c, p) PROVE SleepLock'
  BY <1>21 DEF WaitSleep, Runs, Goto, ScanDone
<1>22. ASSUME NEW c \in CPU, NEW p \in Slot, NEW q \in Slot, NEW n \in 0..nextpid-1,
              Kill(c, p, q, n)
       PROVE  SleepLock'
  BY <1>22 DEF Kill, Calls, Runs
<1>23. ASSUME NEW c \in CPU, NEW p \in Slot, LockStart(c, p) PROVE SleepLock'
  BY <1>23 DEF LockStart, Calls, Runs, Goto
<1>24. ASSUME NEW c \in CPU, NEW p \in Slot, AcquireSleep(c, p) PROVE SleepLock'
  BY <1>24 DEF AcquireSleep, Runs, Goto
<1>25. ASSUME NEW c \in CPU, NEW p \in Slot, ReleaseSleep(c, p) PROVE SleepLock'
  BY <1>25 DEF ReleaseSleep, Runs, Acquire, Goto
<1>26. ASSUME NEW c \in CPU, NEW p \in Slot, ReleaseWakeup(c, p) PROVE SleepLock'
  BY <1>26 DEF ReleaseWakeup, Runs, WakeupNext
<1>27. ASSUME NEW c \in CPU, NEW p \in Slot, ReleaseDone(c, p) PROVE SleepLock'
  <2>1. \A q \in Slot : ~(idx[p] <= q)
    <3>1. idx[p] > NPROC /\ idx[p] \in Nat
      BY <1>27, SchedAssumption DEF ReleaseDone
    <3> QED
      BY <3>1, SchedAssumption DEF Slot
  <2>2. locked = 0 /\ \A q \in Slot : ~InLock(q)
    BY <1>27, <2>1 DEF ReleaseDone
  <2>3. \A q \in Slot : InLock(q)' <=> InLock(q)
    BY <1>27 DEF ReleaseDone, Goto, Runs
  <2>4. \A q \in Slot : pc[q] = "lwake" => q = p
    BY <1>27, OneHolder DEF ReleaseDone, Runs
  <2>5. \A q \in Slot : pc[q] = "sleep" => via[q] # "lk"
    BY <2>2
  <2> QED
    BY <1>27, <2>2, <2>3, <2>4, <2>5 DEF ReleaseDone, Runs, Goto, Release
<1>28. CASE UNCHANGED vars
  BY <1>28 DEF vars, schedVars
<1> QED
  BY <1>1, <1>2, <1>3, <1>4, <1>5, <1>6, <1>7, <1>8, <1>9, <1>10, <1>11, <1>12, <1>13,
     <1>14, <1>15, <1>16, <1>17, <1>18, <1>19, <1>20, <1>21, <1>22, <1>23, <1>24,
     <1>25, <1>26, <1>27, <1>28, <1>29 DEF Next, Scheduling, Dispatch, InKernel, Syscall

-----------------------------------------------------------------------------
(***************************************************************************)
(* The theorems                                                            *)
(***************************************************************************)

\* The invariant holds at the start,
LEMMA InitInv == Init => ProcInv
<1> SUFFICES ASSUME Init PROVE ProcInv
  OBVIOUS
<1> USE SlotFacts DEF Init, SchedInit
<1>1. ProcTypeOK
  <2>1. /\ 1 \in 0..MaxPid /\ 0 \in 0..MaxPid /\ 2 \in 1..MaxPid+1
    BY ProcAssumption
  <2> QED
    BY <2>1 DEF ProcTypeOK, SchedTypeOK, SpinLock
<1>2. Cpus
  BY SchedAssumption DEF Cpus, OneCpu, CpuState, RunningSomewhere, ProcLocks
<1>3. KThreads
  BY SchedAssumption DEF KThreads, ThreadState, SpinLocks, Preemptible
<1>4. Family
  BY DEF Family, InitThere, Making, Parents, initproc
<1>5. Children
  BY DEF Children, Noticed, ParentWoken, InWait
<1>6. SleepLock
  BY DEF SleepLock, InLock
<1> QED
  BY <1>1, <1>2, <1>3, <1>4, <1>5, <1>6 DEF ProcInv

\* and every step keeps it.
LEMMA InvStep == ProcInv /\ [Next]_vars => ProcInv'
BY TypeStep, CpusStep, KThreadsStep, FamilyStep, ChildrenStep, SleepLockStep
   DEF ProcInv

\* The parts together are an invariant of fork, exit, wait, kill, the sleep lock
\* and the scheduler (proc.c, sleeplock.c), for every number of slots and CPUs.
THEOREM ProcInvariant == Spec => []ProcInv
BY InitInv, InvStep, PTL DEF Spec

\* Every variable keeps its type.
THEOREM TypeCorrect == Spec => []ProcTypeOK
<1>1. ProcInv => ProcTypeOK
  BY DEF ProcInv
<1> QED
  BY <1>1, ProcInvariant, PTL

\* No kernel stack is used by two CPUs, or by a CPU when its process can be
\* picked up or freed (proc.c:397).
THEOREM StackUsedOnce == Spec => []OneStack
<1>1. ProcInv => OneStack
  <2> SUFFICES ASSUME ProcInv, NEW c \in CPU, NEW p \in Slot, cpuProc[c] = p
               PROVE  /\ \A d \in CPU \ {c} : cpuProc[d] # p
                      /\ state[p] = "RUNNING" \/ plock[p] = c
                      /\ state[p] \notin {"UNUSED", "USED"}
    BY DEF OneStack
  <2>1. \A d \in CPU \ {c} : cpuProc[d] # p
    BY SlotFacts DEF ProcInv, Cpus, OneCpu
  <2>2. mode[c] \in {"in", "run", "back"}
    BY SlotFacts DEF ProcInv, ProcTypeOK, SchedTypeOK, Cpus, OneCpu
  <2> QED
    BY <2>1, <2>2 DEF ProcInv, Cpus, CpuState, ProcLocks
<1> QED
  BY <1>1, ProcInvariant, PTL

\* sched() finds p->lock held and nothing else: it does not panic (proc.c:480-483).
THEOREM SchedDoesNotPanic == Spec => []SchedHoldsOne
<1>1. ProcInv => SchedHoldsOne
  <2> SUFFICES ASSUME ProcInv, NEW c \in CPU, mode[c] = "back"
               PROVE  /\ {p \in Slot : plock[p] = c} = {cpuProc[c]}
                      /\ \A l \in SpinLock : spin[l] # c
    BY DEF SchedHoldsOne
  <2>1. cpuProc[c] \in Slot
    BY NonzeroSlot DEF ProcInv, ProcTypeOK, SchedTypeOK, Cpus, OneCpu
  <2>2. \A p \in Slot : plock[p] = c <=> p = cpuProc[c]
    <3>1. ASSUME NEW p \in Slot, pc[p] = "sleep2", cpuProc[c] = p PROVE FALSE
      BY <3>1 DEF ProcInv, Cpus, CpuState, KThreads, ThreadState, Preemptible
    <3> QED
      BY <2>1 DEF ProcInv, Cpus, ProcLocks
  <2>3. \A l \in SpinLock : spin[l] # c
    BY DEF ProcInv, KThreads, SpinLocks
  <2> QED
    BY <2>1, <2>2, <2>3
<1> QED
  BY <1>1, ProcInvariant, PTL

\* No parent sleeps through the end of a child, and no process is left without
\* a parent, whoever exits at the same time (proc.c:363-370).
THEOREM ChildrenAreNotLost == Spec => []NoLostChild
<1>1. ProcInv => NoLostChild
  <2> SUFFICES ASSUME ProcInv, spin["wait_lock"] = NoCPU PROVE NoLostChild
    BY DEF NoLostChild
  <2>1. ASSUME NEW p \in Slot, NEW q \in Slot, state[q] = "ZOMBIE", parent[q] = p
        PROVE  /\ ~(state[p] = "SLEEPING" /\ chan[p] = p)
               /\ ~(pc[p] = "sleep2" /\ via[p] = "wait_lock")
    <3>1. \A h \in Slot : pc[h] # "xinit"
      BY HolderRuns, SchedAssumption DEF ProcInv, Holding, SpinLock
    <3> QED
      BY <2>1, <3>1 DEF ProcInv, Children, Noticed, InWait
  <2>2. \A q \in Slot \ {initproc} : state[q] # "UNUSED" =>
          \/ parent[q] # 0 /\ state[parent[q]] \notin {"UNUSED", "ZOMBIE"}
          \/ parent[q] = 0 /\ \E p \in Slot : pc[p] = "fparent" /\ np[p] = q
    BY DEF ProcInv, Family, Parents
  <2> QED
    BY <2>1, <2>2 DEF NoLostChild
<1> QED
  BY <1>1, ProcInvariant, PTL

\* The sleep lock excludes, and nobody sleeps on it while it is free, whatever
\* kill() cuts short (sleeplock.c).
THEOREM SleepLockIsSafe == Spec => []SleepLockSafe
<1>1. ProcInv => SleepLockSafe
  BY DEF ProcInv, SleepLock, InLock, SleepLockSafe
<1> QED
  BY <1>1, ProcInvariant, PTL
=============================================================================
