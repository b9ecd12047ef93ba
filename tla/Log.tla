-------------------------------- MODULE Log --------------------------------
(***************************************************************************)
(* The write-ahead log of kernel/log.c together with the part of the       *)
(* buffer cache (kernel/bio.c) it depends on: pinning and eviction.        *)
(*                                                                         *)
(* The processes of Proc run file-system calls.  A call is begin_op(),     *)
(* any number of `bread; modify; log_write; brelse' groups, end_op(); the  *)
(* last end_op() runs commit() itself, one disk write per step, without    *)
(* holding log.lock.  A crash may strike between any two steps; the next   *)
(* boot runs recover_from_log() before any process runs, and may crash     *)
(* again.  Code under log.lock is one step; so is one bwrite(), because    *)
(* the log relies on a block write being atomic.                           *)
(***************************************************************************)
EXTENDS Integers, Sequences, FiniteSets

CONSTANTS Proc,         \* processes making file-system calls
          Block,        \* blocks of the file system outside the log
          Val,          \* contents of a block
          MAXOPBLOCKS,  \* blocks begin_op() reserves for a call (param.h)
          LOGSIZE,      \* length of logheader.block[] (param.h)
          NLOG,         \* sb.nlog: blocks of the on-disk log, header included
          OpBlocks      \* distinct blocks a call really logs, at most

ASSUME LogAssumption ==
    /\ IsFiniteSet(Proc) /\ IsFiniteSet(Block) /\ Val # {}
    /\ LOGSIZE \in Nat /\ NLOG \in Nat
    /\ MAXOPBLOCKS \in 0..LOGSIZE
    /\ OpBlocks \in 0..MAXOPBLOCKS

VARIABLES
    outstanding,  \* log.outstanding
    committing,   \* log.committing
    lh,           \* log.lh: the block numbers, log.lh.n = Len(lh)
    pins,         \* references bpin() holds on each block's buffer
    cache,        \* what bread(b) returns
    home,         \* disk: the home location of each block
    logarea,      \* disk: the data blocks of the log
    dhead,        \* disk: the log header
    pc,           \* where each process is
    tail,         \* the local `tail' of write_log() and install_trans()
    held,         \* buffers locked and modified, not yet passed to log_write()
    wrote,        \* blocks the running call has passed to log_write()
    boot,         \* progress of recover_from_log(); "up" once it returned
    rtail         \* its local `tail'

vars == <<outstanding, committing, lh, pins, cache, home, logarea, dhead,
          pc, tail, held, wrote, boot, rtail>>
memLog   == <<outstanding, committing, lh, pins>>
disk     == <<home, logarea, dhead>>
callVars == <<held, wrote>>
bootVars == <<boot, rtail>>

Committing == {"commit", "wlog", "whead", "inst", "clear", "done"}
PCs == {"out", "retry", "wait", "in"} \cup Committing
RangeOf(s) == {s[i] : i \in 1..Len(s)}

TypeOK ==
    /\ outstanding \in Int
    /\ committing \in {0, 1}
    /\ lh \in Seq(Block)
    /\ pins \in [Block -> Int]
    /\ cache \in [Block -> Val]
    /\ home \in [Block -> Val]
    /\ logarea \in [1..LOGSIZE -> Val]
    /\ dhead \in Seq(Block)
    /\ pc \in [Proc -> PCs]
    /\ tail \in [Proc -> Nat \ {0}]
    /\ held \in [Proc -> SUBSET Block]
    /\ wrote \in [Proc -> SUBSET Block]
    /\ boot \in {"read", "inst", "clear", "up"}
    /\ rtail \in Nat \ {0}

\* The machine after mkfs: an empty, zeroed log, and the kernel about to boot.
Init ==
    /\ home \in [Block -> Val]
    /\ logarea = [i \in 1..LOGSIZE |-> CHOOSE v \in Val : TRUE]
    /\ dhead = <<>>
    /\ outstanding = 0
    /\ committing = 0
    /\ lh = <<>>
    /\ pins = [b \in Block |-> 0]
    /\ cache = home
    /\ pc = [p \in Proc |-> "out"]
    /\ tail = [p \in Proc |-> 1]
    /\ held = [p \in Proc |-> {}]
    /\ wrote = [p \in Proc |-> {}]
    /\ boot = "read"
    /\ rtail = 1

-----------------------------------------------------------------------------
\* begin_op()

\* Mutant: begin_op() forgets the caller's own reservation.
LogHasRoomForOthers == Len(lh) + outstanding * MAXOPBLOCKS <= LOGSIZE

\* The admission test of begin_op(): room for one more reservation.
LogHasRoom == Len(lh) + (outstanding + 1) * MAXOPBLOCKS <= LOGSIZE

\* Mutant: begin_op() without the test of log.committing.
BeginOpWhileCommitting(p) ==
    /\ boot = "up"
    /\ pc[p] \in {"out", "retry"}
    /\ LogHasRoom
    /\ outstanding' = outstanding + 1
    /\ pc' = [pc EXCEPT ![p] = "in"]
    /\ wrote' = [wrote EXCEPT ![p] = {}]
    /\ UNCHANGED <<committing, lh, pins, cache, disk, tail, held, bootVars>>

BeginOp(p) ==
    /\ boot = "up"
    /\ pc[p] \in {"out", "retry"}
    /\ committing = 0
    /\ LogHasRoom
    /\ outstanding' = outstanding + 1
    /\ pc' = [pc EXCEPT ![p] = "in"]
    /\ wrote' = [wrote EXCEPT ![p] = {}]
    /\ UNCHANGED <<committing, lh, pins, cache, disk, tail, held, bootVars>>

\* sleep(&log, &log.lock) releases log.lock and sleeps in one step.
BeginSleep(p) ==
    /\ boot = "up"
    /\ pc[p] \in {"out", "retry"}
    /\ committing = 1 \/ ~LogHasRoom
    /\ pc' = [pc EXCEPT ![p] = "wait"]
    /\ UNCHANGED <<memLog, cache, disk, tail, callVars, bootVars>>

\* wakeup(&log): every sleeper looks at the log again; p itself goes to q.
Wakeup(p, q) ==
    pc' = [x \in Proc |-> CASE x = p            -> q
                            [] pc[x] = "wait"   -> "retry"
                            [] OTHER            -> pc[x]]

-----------------------------------------------------------------------------
\* The body of a call

\* bread(b) and a change of b->data, under the buffer's sleep lock.  The call
\* touches at most OpBlocks distinct blocks.
Modify(p, b, v) ==
    /\ boot = "up"
    /\ pc[p] = "in"
    /\ \A q \in Proc \ {p} : b \notin held[q]
    /\ Cardinality(wrote[p] \cup held[p] \cup {b}) <= OpBlocks
    /\ held' = [held EXCEPT ![p] = @ \cup {b}]
    /\ cache' = [cache EXCEPT ![b] = v]
    /\ UNCHANGED <<memLog, disk, pc, tail, wrote, bootVars>>

\* The two panics of log_write(); they are tested before absorption.
TooBig == Len(lh) >= LOGSIZE \/ Len(lh) >= NLOG - 1

Absorbed(b) == b \in RangeOf(lh)

\* Mutant: log_write() without bpin().
LogWriteNoPin(p, b) ==
    /\ boot = "up" /\ pc[p] = "in" /\ b \in held[p] /\ ~TooBig /\ outstanding >= 1
    /\ lh' = IF Absorbed(b) THEN lh ELSE Append(lh, b)
    /\ held' = [held EXCEPT ![p] = @ \ {b}]
    /\ wrote' = [wrote EXCEPT ![p] = @ \cup {b}]
    /\ UNCHANGED <<outstanding, committing, pins, cache, disk, pc, tail, bootVars>>

\* log_write(b), then brelse(b): append the block or absorb it.  A call that
\* finds TooBig panics with log.lock held and takes no step any more.
LogWrite(p, b) ==
    /\ boot = "up"
    /\ pc[p] = "in"
    /\ b \in held[p]
    /\ ~TooBig
    /\ outstanding >= 1
    /\ IF Absorbed(b)
         THEN UNCHANGED <<lh, pins>>
         ELSE /\ lh' = Append(lh, b)
              /\ pins' = [pins EXCEPT ![b] = @ + 1]
    /\ held' = [held EXCEPT ![p] = @ \ {b}]
    /\ wrote' = [wrote EXCEPT ![p] = @ \cup {b}]
    /\ UNCHANGED <<outstanding, committing, cache, disk, pc, tail, bootVars>>

\* bget() recycles a buffer with no references: the next bread() re-reads it.
Evict(b) ==
    /\ boot = "up"
    /\ pins[b] = 0
    /\ \A p \in Proc : b \notin held[p]
    /\ cache' = [cache EXCEPT ![b] = home[b]]
    /\ UNCHANGED <<memLog, disk, pc, tail, callVars, bootVars>>

-----------------------------------------------------------------------------
\* end_op() and commit()

\* end_op() by a call that is not the last: just wake the waiters.
EndOp(p) ==
    /\ boot = "up"
    /\ pc[p] = "in"
    /\ held[p] = {}
    /\ committing = 0
    /\ outstanding # 1
    /\ outstanding' = outstanding - 1
    /\ Wakeup(p, "out")
    /\ UNCHANGED <<committing, lh, pins, cache, disk, tail, callVars, bootVars>>

\* end_op() by the last outstanding call: it becomes the committer.
EndOpLast(p) ==
    /\ boot = "up"
    /\ pc[p] = "in"
    /\ held[p] = {}
    /\ committing = 0
    /\ outstanding = 1
    /\ outstanding' = 0
    /\ committing' = 1
    /\ pc' = [pc EXCEPT ![p] = "commit"]
    /\ UNCHANGED <<lh, pins, cache, disk, tail, callVars, bootVars>>

\* Mutant: the first block goes one too low, onto the header.
CommitStartTooLow(p) ==
    /\ boot = "up"
    /\ pc[p] = "commit"
    /\ pc' = [pc EXCEPT ![p] = IF lh = <<>> THEN "done" ELSE "wlog"]
    /\ tail' = [tail EXCEPT ![p] = 0]
    /\ UNCHANGED <<memLog, cache, disk, callVars, bootVars>>

\* commit(): nothing to do when the calls logged nothing.
CommitStart(p) ==
    /\ boot = "up"
    /\ pc[p] = "commit"
    /\ pc' = [pc EXCEPT ![p] = IF lh = <<>> THEN "done" ELSE "wlog"]
    /\ tail' = [tail EXCEPT ![p] = 1]
    /\ UNCHANGED <<memLog, cache, disk, callVars, bootVars>>

\* One iteration of write_log(), or its end.
WriteLog(p) ==
    /\ boot = "up"
    /\ pc[p] = "wlog"
    /\ IF tail[p] <= Len(lh)
         THEN /\ logarea' = [logarea EXCEPT ![tail[p]] = cache[lh[tail[p]]]]
              /\ tail' = [tail EXCEPT ![p] = @ + 1]
              /\ UNCHANGED pc
         ELSE /\ pc' = [pc EXCEPT ![p] = "whead"]
              /\ UNCHANGED <<logarea, tail>>
    /\ UNCHANGED <<memLog, cache, home, dhead, callVars, bootVars>>

\* write_head(): the true point at which the transaction commits.
WriteHead(p) ==
    /\ boot = "up"
    /\ pc[p] = "whead"
    /\ dhead' = lh
    /\ pc' = [pc EXCEPT ![p] = "inst"]
    /\ tail' = [tail EXCEPT ![p] = 1]
    /\ UNCHANGED <<memLog, cache, home, logarea, callVars, bootVars>>

\* Mutant: install_trans(0) without bunpin().
InstallNoUnpin(p) ==
    /\ boot = "up"
    /\ pc[p] = "inst"
    /\ IF tail[p] <= Len(lh)
         THEN /\ home' = [home EXCEPT ![lh[tail[p]]] = logarea[tail[p]]]
              /\ cache' = [cache EXCEPT ![lh[tail[p]]] = logarea[tail[p]]]
              /\ tail' = [tail EXCEPT ![p] = @ + 1]
              /\ UNCHANGED <<lh, pc>>
         ELSE /\ lh' = <<>>
              /\ pc' = [pc EXCEPT ![p] = "clear"]
              /\ UNCHANGED <<home, cache, tail>>
    /\ UNCHANGED <<outstanding, committing, pins, logarea, dhead, callVars, bootVars>>

\* One iteration of install_trans(0), or its end followed by log.lh.n = 0.
InstallTrans(p) ==
    /\ boot = "up"
    /\ pc[p] = "inst"
    /\ IF tail[p] <= Len(lh)
         THEN LET b == lh[tail[p]] IN
              /\ home' = [home EXCEPT ![b] = logarea[tail[p]]]
              /\ cache' = [cache EXCEPT ![b] = logarea[tail[p]]]
              /\ pins' = [pins EXCEPT ![b] = @ - 1]
              /\ tail' = [tail EXCEPT ![p] = @ + 1]
              /\ UNCHANGED <<lh, pc>>
         ELSE /\ lh' = <<>>
              /\ pc' = [pc EXCEPT ![p] = "clear"]
              /\ UNCHANGED <<home, cache, pins, tail>>
    /\ UNCHANGED <<outstanding, committing, logarea, dhead, callVars, bootVars>>

\* Mutant: the second write_head() of commit() is missing.
ClearHeadSkipped(p) ==
    /\ boot = "up"
    /\ pc[p] = "clear"
    /\ pc' = [pc EXCEPT ![p] = "done"]
    /\ UNCHANGED <<memLog, cache, disk, tail, callVars, bootVars>>

\* write_head() again: erase the transaction from the log.
ClearHead(p) ==
    /\ boot = "up"
    /\ pc[p] = "clear"
    /\ dhead' = lh
    /\ pc' = [pc EXCEPT ![p] = "done"]
    /\ UNCHANGED <<memLog, cache, home, logarea, tail, callVars, bootVars>>

\* Mutant: end_op() does not wake the waiters after a commit.
CommitDoneNoWakeup(p) ==
    /\ boot = "up"
    /\ pc[p] = "done"
    /\ committing' = 0
    /\ pc' = [pc EXCEPT ![p] = "out"]
    /\ UNCHANGED <<outstanding, lh, pins, cache, disk, tail, callVars, bootVars>>

\* The last lines of end_op(): let the waiters in.
CommitDone(p) ==
    /\ boot = "up"
    /\ pc[p] = "done"
    /\ committing' = 0
    /\ Wakeup(p, "out")
    /\ UNCHANGED <<outstanding, lh, pins, cache, disk, tail, callVars, bootVars>>

-----------------------------------------------------------------------------
\* Crash and recovery

\* Power is lost: memory is gone, the disk stays as it is.
Crash ==
    /\ outstanding' = 0
    /\ committing' = 0
    /\ lh' = <<>>
    /\ pins' = [b \in Block |-> 0]
    /\ cache' = home
    /\ pc' = [p \in Proc |-> "out"]
    /\ tail' = [p \in Proc |-> 1]
    /\ held' = [p \in Proc |-> {}]
    /\ wrote' = [p \in Proc |-> {}]
    /\ boot' = "read"
    /\ rtail' = 1
    /\ UNCHANGED disk

\* recover_from_log(): read_head().
ReadHead ==
    /\ boot = "read"
    /\ lh' = dhead
    /\ boot' = "inst"
    /\ rtail' = 1
    /\ UNCHANGED <<outstanding, committing, pins, cache, disk, pc, tail, callVars>>

\* One iteration of install_trans(1), which unpins nothing, or its end.
RecoverInstall ==
    /\ boot = "inst"
    /\ IF rtail <= Len(lh)
         THEN /\ home' = [home EXCEPT ![lh[rtail]] = logarea[rtail]]
              /\ cache' = [cache EXCEPT ![lh[rtail]] = logarea[rtail]]
              /\ rtail' = rtail + 1
              /\ UNCHANGED <<lh, boot>>
         ELSE /\ lh' = <<>>
              /\ boot' = "clear"
              /\ UNCHANGED <<home, cache, rtail>>
    /\ UNCHANGED <<outstanding, committing, pins, logarea, dhead, pc, tail, callVars>>

\* write_head() with log.lh.n = 0; fsinit() returns and processes may run.
RecoverClear ==
    /\ boot = "clear"
    /\ dhead' = lh
    /\ boot' = "up"
    /\ UNCHANGED <<memLog, cache, home, logarea, pc, tail, callVars, rtail>>

-----------------------------------------------------------------------------
Commit(p) == \/ CommitStart(p) \/ WriteLog(p) \/ WriteHead(p)
             \/ InstallTrans(p) \/ ClearHead(p) \/ CommitDone(p)

Recover == ReadHead \/ RecoverInstall \/ RecoverClear

Next == \/ \E p \in Proc : BeginOp(p) \/ BeginSleep(p) \/ EndOp(p) \/ EndOpLast(p)
                           \/ Commit(p)
        \/ \E p \in Proc, b \in Block, v \in Val : Modify(p, b, v)
        \/ \E p \in Proc, b \in Block : LogWrite(p, b)
        \/ \E b \in Block : Evict(b)
        \/ Recover
        \/ Crash

Spec == Init /\ [][Next]_vars

\* A runnable process is scheduled (proc.c: scheduler() goes round the table),
\* so a call that has begun goes on: it logs what it modified, ends, commits;
\* a woken process looks again.  Nobody is obliged to start a call.  Strong
\* fairness of end_op() says that the body of a call is finite: it does not
\* modify blocks for ever.
Fairness ==
    /\ WF_vars(Recover)
    /\ \A p \in Proc :
         /\ WF_vars(Commit(p))
         /\ SF_vars(EndOp(p) \/ EndOpLast(p))
         /\ WF_vars(\E b \in Block : LogWrite(p, b))
         /\ WF_vars(pc[p] = "retry" /\ (BeginOp(p) \/ BeginSleep(p)))

FairSpec == Spec /\ Fairness

-----------------------------------------------------------------------------
(***************************************************************************)
(* Properties                                                              *)
(***************************************************************************)

Open == {p \in Proc : pc[p] = "in"}

\* The log slots the calls under way may still fill, one token per slot.
Tokens == {t \in Open \X (1..MAXOPBLOCKS) : t[2] > Cardinality(wrote[t[1]])}

\* Slots that begin_op() counts (log.c:133) and log_write() does not (log.c:220).
Missing == IF NLOG > LOGSIZE THEN 0 ELSE LOGSIZE - (NLOG - 1)

\* Somebody is in the panic of log.c:220: the machine has stopped.
Panicked == \E p \in Proc : pc[p] = "in" /\ held[p] # {} /\ TooBig

\* What recover_from_log() would leave on the disk if power failed now.
Durable == [b \in Block |->
              IF b \in RangeOf(dhead)
                THEN logarea[CHOOSE i \in 1..Len(dhead) : dhead[i] = b]
                ELSE home[b]]

\* What the running kernel reads; during recovery, what it is about to read.
Current == IF boot = "up" THEN cache ELSE Durable

\* Crash atomicity (log.c:10-16): the log over its disk and buffer cache
\* behaves as an AtomicDisk.  A crash, also one during commit() or during a
\* recovery, keeps all updates of every call or none; eviction loses nothing.
Disk == INSTANCE AtomicDisk WITH durable <- Durable, current <- Current,
                                 open <- {p \in Proc : pc[p] = "in"}
IsAtomicDisk == Disk!Spec

\* commit() runs without log.lock, yet alone: one committer, `committing' is
\* set throughout and no call is open (log.c:13, "only commits when there are
\* no FS system calls active"; the panic at log.c:154 is not reached).
CommitAlone ==
    \A p \in Proc : pc[p] \in Committing =>
        /\ committing = 1
        /\ outstanding = 0
        /\ \A q \in Proc \ {p} : pc[q] \notin Committing \cup {"in"}

\* What the reservations of begin_op() are for ("this op might exhaust log
\* space", log.c:134): no admitted call finds the log too full in log_write()
\* (log.c:220).  It does not hold of calls that log all MAXOPBLOCKS blocks.
NoLogPanic == \A p \in Proc : pc[p] = "in" /\ held[p] # {} => ~TooBig

\* What the reservations do guarantee: log_write() is reached inside a call
\* (log.c:222), and the panic of log.c:220 strikes only when all calls under
\* way together have no more of their reservations left than the slots that
\* begin_op() counts and the log does not have; with mkfs's nlog = LOGSIZE that
\* is one, the block of the header.  No call is short of room before that,
\* however calls overlap, end, absorb each other's blocks and are let in.
PanicsOnLastSlot ==
    \A p \in Proc : pc[p] = "in" /\ held[p] # {} =>
        /\ outstanding >= 1
        /\ TooBig => Cardinality(Tokens) <= Missing

\* When the last end_op() is about to return, everything the kernel reads
\* survives a crash, and the log is empty again with no buffer left pinned.
DoneIsDurable ==
    \A p \in Proc : pc[p] = "done" =>
        Durable = cache /\ lh = <<>> /\ dhead = <<>> /\ \A b \in Block : pins[b] = 0

\* No lost wakeup: while a process sleeps in begin_op(), there is a call or a
\* commit under way whose end_op() will wake it.
SleeperHasWaker ==
    \A p \in Proc : pc[p] = "wait" => committing = 1 \/ outstanding > 0

\* Once the header names log blocks, these blocks are not overwritten before
\* the header is erased, whatever crashes in between (write-ahead rule).
CommittedLogFrozen == [][dhead # <<>> => UNCHANGED logarea]_vars

\* A process asleep in begin_op() is woken: wakeup(&log) in both branches of
\* end_op() leaves nobody behind, unless the kernel panics first.  (The process
\* may find the log full again.)
SleeperWoken == \A p \in Proc : pc[p] = "wait" ~> pc[p] # "wait" \/ Panicked

-----------------------------------------------------------------------------
(***************************************************************************)
(* The inductive invariant                                                 *)
(***************************************************************************)
\* Who runs what, and that an idle log is an empty log.
Control ==
    /\ outstanding = Cardinality(Open)
    /\ committing = 1 => outstanding = 0
    /\ \A p, q \in Proc : pc[p] \in Committing /\ pc[q] \in Committing => p = q
    /\ \A p \in Proc : /\ pc[p] \in Committing => committing = 1
                       /\ pc[p] \in {"clear", "done"} => lh = <<>>
                       /\ held[p] # {} => pc[p] = "in"
    /\ boot # "up" => outstanding = 0 /\ committing = 0
                      /\ \A p \in Proc : pc[p] = "out"
    /\ boot = "up" /\ committing = 0 /\ outstanding = 0 => lh = <<>>
    /\ boot \in {"read", "clear"} => lh = <<>>
    /\ SleeperHasWaker

\* The log holds what is in it plus everything it has promised.
Reserved ==
    /\ Len(dhead) <= LOGSIZE
    /\ Len(lh) + Cardinality(Tokens) <= LOGSIZE
    /\ \A p \in Open : /\ wrote[p] \subseteq RangeOf(lh)
                       /\ Cardinality(wrote[p] \cup held[p]) <= OpBlocks

Distinct(s) == \A i, j \in 1..Len(s) : s[i] = s[j] => i = j

Dirty == RangeOf(lh) \cup UNION {held[p] : p \in Proc}

\* Blocks install_trans(0) has not unpinned yet.
Pinned == {lh[i] : i \in {j \in 1..Len(lh) :
                            \A p \in Proc : pc[p] = "inst" => tail[p] <= j}}

\* What disk and cache hold while the system is up, step by step of commit().
UpData ==
    /\ \A b \in Block : pins[b] = IF b \in Pinned THEN 1 ELSE 0
    /\ \A b \in Block \ Dirty : cache[b] = home[b]
    /\ (\A p \in Proc : pc[p] \notin {"inst", "clear"}) => dhead = <<>>
    /\ \A p \in Proc :
         /\ pc[p] = "wlog" => \A i \in 1..Len(lh) :
                                 i < tail[p] => logarea[i] = cache[lh[i]]
         /\ pc[p] \in {"whead", "inst"} => \A i \in 1..Len(lh) :
                                              logarea[i] = cache[lh[i]]
         /\ pc[p] = "inst" => /\ dhead = lh
                              /\ \A i \in 1..Len(lh) :
                                    i < tail[p] => home[lh[i]] = logarea[i]
         /\ pc[p] = "clear" => \A i \in 1..Len(dhead) : home[dhead[i]] = logarea[i]

\* ... and during recovery.
BootData ==
    /\ cache = home
    /\ pins = [b \in Block |-> 0]
    /\ boot = "inst" => /\ lh = dhead
                        /\ \A i \in 1..Len(dhead) :
                              i < rtail => home[dhead[i]] = logarea[i]
    /\ boot = "clear" => \A i \in 1..Len(dhead) : home[dhead[i]] = logarea[i]

Data ==
    /\ Distinct(lh)
    /\ Distinct(dhead)
    /\ boot = "up" => UpData
    /\ boot # "up" => BootData

\* The four parts together are inductive: LogProof.tla.
LogInv == TypeOK /\ Control /\ Reserved /\ Data
=============================================================================
