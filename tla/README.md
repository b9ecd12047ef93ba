# Verification of the NTU OS 2024 kernels

The repository holds the five machine problems of an operating-systems course,
each a full copy of xv6-riscv with one part changed:

| tree | what is changed |
|---|---|
| `src/MP0/mp0/xv6` | a user program that walks a directory tree |
| `src/MP1/mp1/xv6` | cooperative user-level threads, `user/threads.c` |
| `src/MP2/mp2` | demand paging, `madvise()` and swapping, `kernel/vm.c`, `paging.c`, `fifo.c`, `lru.c` |
| `src/MP3/mp3/xv6` | `thrdstop`/`thrdresume` in the kernel, preemptive and real-time user-level threads in `user/` |
| `src/MP4/mp4/xv6` | doubly indirect blocks, symbolic links and a search for them, `kernel/fs.c`, `sysfile.c` |

What the trees share is the same code, and the specifications cite the copy
under `src/MP4/mp4/xv6/kernel/`. Names of the specifications are names of the
source.

## 1. The system

**Log** (`log.c`). State: the in-memory header `log.lh`, `outstanding`,
`committing`; the header and data blocks on disk. Operations: `begin_op`,
`log_write`, `end_op`, `commit`, and recovery at boot. Called by every system
call on files; writes blocks through the buffer cache, whose buffers it pins.
Hard: commit runs without the lock, power may fail at any write, room is
promised before it is used. Correct when a group of calls is durable entirely
or not at all, nobody sleeps in `begin_op` for ever, and the log never overflows.

**Buffer cache** (`bio.c`). State: a list of buffers with reference counts and
sleep locks. Hard: a full cache of pinned buffers. Correct when a block has one
buffer at most and a pinned buffer stays.

**Inodes, directories, paths** (`fs.c`, `sysfile.c`). State: type, link count and
contents of each inode on disk; reference counts, `valid` and a sleep lock in
memory. Operations: `ialloc`, `iget`, `ilock`, `iput`, `namex`, `dirlookup`,
`dirlink`, `create`, and the system calls on names. Hard: a name may lead
to an inode that is being freed, locks are taken two at a time, every
error path must give back what it took. Correct when reference counts are
exact, link counts are those of the names, and no call waits for itself.
MP4 adds `bmap` over three levels, symbolic links in `open`, `sys_symlink` and
`sys_revreadlink`, which searches the tree for links to a file.

**Scheduling and sleep** (`proc.c`, `spinlock.c`, `sleeplock.c`). State: the
process table, the CPUs, who holds which lock. Operations: `scheduler`,
`sched`, `yield`, `sleep`, `wakeup`. Hard: the context switch happens with a
lock held that the next context releases; a wakeup may come between a test and
the sleep it guards. Correct when a kernel stack has one CPU at most and no
wakeup is lost.

**Process life cycle** (`proc.c`). `fork`, `exit`, `wait`, `kill` and the tree of
parents. Hard: a parent and a child that exit together, a slot freed under a
running process. Correct when every dead process is collected, once.

**Pipes and open files** (`pipe.c`, `file.c`). State: a ring of bytes between two
unsigned counters, the two open flags, reference counts of files. Hard:
counters that wrap, closing and killing at any moment. Correct when the pipe is a
first-in first-out channel that is freed once.

**MP3 threads** (`user/threads.c`, `threads_sched.c`, `kernel/thrd.c`, `trap.c`). State: run queue
and release queue, per-thread deadlines, saved contexts and one timer of the
process. Operations: `schedule_*`, `__dispatch`, `switch_handler`,
`thread_exit`, `thrdstop`, `thrdresume`, `cancelthrdstop`. Hard: a timer
that goes off between system calls, slices cut short for a future release.
Correct when periods do not drift, the policies preempt when they must, every
miss is reported and no other, and the program ends.

**MP1 threads** (`user/threads.c`). State: a doubly linked ring of threads, each with a doubly
linked stack of assigned tasks, and a `setjmp` context in each of both. Operations: create, add, assign,
yield, return of a task, exit. Sequential, but what runs next depends on a
long history. Correct when threads take turns, the newest task runs first, and no
freed struct stays linked.

**MP2 paging** (`kernel/vm.c`, `paging.c`, `fifo.c`, `lru.c`, `fs.c`). State: page-table entries that are
empty, in memory or swapped out, groups of eight disk blocks, a bounded
queue of page-table entries with pins. Operations: `madvise` with five kinds of advice, page
faults, `fork`, growing, shrinking and ending; every `walk` of a page table changes the
queue. Hard: entries that outlive the page or the process, a bitmap that is never
written. Correct when a page that was swapped out comes back with its contents.

Interactions: system calls take the log's lock, then sleep locks of inodes, then of
buffers; all of them sleep through `sleep`/`wakeup`; `exit` closes files and
so commits; pipes use `sleep` under their own spinlock; the user-level
threads see the kernel through the four thread calls only.

`PROJECT.json` lists every component with its status and every hazard with
the line where it bites.

## 2. Modules

```
AtomicDisk <--refines-- Log <--EXTENDS-- LogProof, MCLog
Channel    <--refines-- Pipe <-- PipeProof, MCPipe
RoundRobin <--refines-- Threads1 <-- SwitchingProof, MCSwitching
Sched <--EXTENDS-- Proc <-- ProcProof, MCProc
Inode <--EXTENDS-- Symlinks <-- MCSymlinks
      <-- InodeProof, MCInode
Bmap <-- BmapProof, MCBmap <-- MCBlocks
Paging <-- PagingProof, MCBlocks
Thrdstop <-- SwitchingProof, MCSwitching
Threads <-- ThreadsProof, MCThreads
```

A `...Proof` module extends the specification with its theorems (section 5); SwitchingProof extends
two, the threads of MP1 and the thread switching of MP3, whose definitions have the module's name in
them where both have one (`ThrdstopInit`).
An `MC...` module extends the specification and gives TLC its symmetry set and
definitions for constants. MCBlocks and MCSwitching run two specifications that share nothing, side by
side: a behaviour is of one of them while the other stays in an initial state, so that one run
checks both. Operators marked "Mutant" are wrong versions of
the definition next to them, each the slip that a property is there to
notice; no specification uses them.

* **AtomicDisk**: a disk with `current` and `durable` contents. Calls begin,
  write and end; a sync makes everything durable while no call is open, a crash
  takes `current` back to `durable`.
* **Log**: one action per stretch of code under `log.lock`, per disk write and
  per `log_write`. `Evict` recycles a buffer that is not pinned; `Crash` may
  happen anywhere, during recovery too. What the body of a call modifies, and
  when, is free; `OpBlocks` is how many distinct blocks a call really logs. A call that finds the
  log too full has panicked, and takes no step any more.
  A block write is atomic, which the comment in `commit` takes for granted.
* **Sched**: the CPUs and the process table. Code under one `p->lock` is one
  step, except where `sleep` and the context switch carry the lock over.
  `wait_lock` and the spinlock inside a sleep lock are held by CPUs step by step,
  as interrupts are off then. A process is preempted wherever interrupts are on. An `acquire` is
  one step; that of `wait_lock` in `wait` is two, since it turns interrupts off before it spins, and
  that is what lets `wait` get the lock at last.
* **Proc**: fork, exit, wait, kill and a call that takes a sleep lock, over
  Sched. `reparent` is one step under `wait_lock`. Init waits only while it
  has children, and kill leaves init alone (the code panics on purpose).
* **Channel**: a FIFO of bounded capacity with two ends.
* **Pipe**: `pipewrite` fills the ring in one step as far as there is room, since
  `pi->lock` is held; `sleep` is a step of its own. A reader or writer may be
  killed at any time, `copyin` and `copyout` may fail at any byte. The counters
  are taken modulo `UINT`; the page is junk once freed.
* **Inode**: the table of inodes is indexed by inode number. Code under
  `itable.lock` is one step, and so is a section under one sleep lock; where a
  call holds an inode and goes on to lock another one, the lock is state.
  `iput` is four steps: the test and lock, the freeing on disk, the unlock, the
  decrement. Paths are absolute; `O_TRUNC` and contents of files are left out. The scan of
  `ialloc` is one step.
* **Symlinks**: Inode's steps with `sys_symlink`, `sys_open` as MP4 changed it, and
  `sys_revreadlink`, each with the file, descriptor and log call that it takes.
  `sys_revreadlink` ignores its argument `target` (sysfile.c:595-631), so that the model has
  none. `sys_symlink` stores a target without its NUL, and it is read over what the path buffer
  held: `Read` gives the paths that `namei` may then walk, the target with the rest of a longer path or
  with `Junk`, what uninitialised memory may hold. Names have one length, so that the rest begins
  with a new name; a name that gets longer is nobody's, which is a walk that fails, as one past a file
  is. `causes` records what has happened that may leave something behind; a panic ends the behaviour.
* **Bmap**: the block map with the bitmap under it. A block's contents are block
  numbers or nothing; a block that is allocated is zeroed, one that is freed keeps what was in it.
  `filewrite` cuts a write into chunks, each a transaction that logs block by
  block; an operation records the set of blocks it has logged. Files share
  the bitmap and nothing else, since an operation holds its inode's lock. `itrunc` goes block by block:
  `TruncFree` is a `bfree`, `TruncNext` the clearing of the pointer to the block, and steps of other files
  come between any two. The loop over a singly indirect block clears no entries, it only
  goes past them (fs.c:457-460); to clear them says the same, as nothing reads an entry again before
  the block is freed, and `Junk` stands for what a free block holds.
* **Paging**: one process slot has its page table in the same place each time it is used,
  so that entries of the queue can come to point into the next process. `madvise` takes one
  step per page of its range; other operations are one step, as nothing in
  them sleeps. The walks of an operation are a recursive function over the entries walked.
  What a process has in a page, from the zeros it is given on, is one value, the page number.
* **Threads**: time in ticks, the library's code takes none. A thread may return
  at any tick. One run covers all programs of up to three
  threads in the workload sets of MCThreads. Sentinels such as 99999 are one
  constant `FAR`, and `ThreadsAssumption` says that programs end before it. A walk along
  a queue is a function of the places it has passed (`Kept`). `while(sleeping)` reads the
  variable anew.
* **Thrdstop**: the other half of MP3. Here the library's code is the actor: each
  system call it makes is a step in which the timer may expire before, between or
  after the kernel's assignments, and `Tick` may come between any two steps (a system call is
  as short as to meet one tick at most). A context
  is a stack and a place on it. `Schedule` picks any thread, since which one is the
  matter of Threads.
* **RoundRobin**: a queue of threads whose head runs its newest task.
* **Threads1**: structs are nodes that `malloc` hands out again once freed. A context is
  the function whose registers `setjmp` put there; a step goes up to the point
  where another function has the processor.

## 3. Runs

Deadlock is checked except where the system may really stop: `threads` and `switching` when
the process ends, `blocks` and `bmap_full` at a panic and at the bounds of the files, `symlinks` at a panic,
in a circle of waiting processes and at its bound.

| run | states | shows |
|---|---|---|
| `log` | 408,442 | Two calls race, commit, are evicted and crash. All safety properties, the refinement of AtomicDisk, and liveness. Two blocks are the fewest for which the order of log, header and install matters. With MAXOPBLOCKS 1 and LOGSIZE 3, the code's ratio, a process begins a second call while the other one's is under way, and each call logs all it has reserved: the log fills up, somebody sleeps in `begin_op`, and `log_write` panics. |
| `log_full` | violated | Three calls and four blocks: the three that are admitted do not fit (log.c:134, 220). |
| `proc` | 359,794 | Three slots, two CPUs, three pids: init, a parent and its child, every preemption. |
| `proc_live` | 147,660 | The same without sleep locks: init collects its child, and the child of a child, whose parent exits before it, after it, or on the other CPU at the same time. |
| `pipe` | 2.4 million | Three processes, a ring of 2 bytes, counters modulo 4: they wrap, and full and empty both occur. |
| `inode` | 5.0 million | Two processes, a directory and a name in it, three inodes besides the root: every pair of calls races on every walk. |
| `inode_leak` | violated | `iput` frees when both counts are zero (fs.c:126). |
| `symlinks` | 3.2 million | Two processes and three calls on a tree with a directory `/a`, a link `/a/b`, a file or link `/b` and perhaps a file `/c`, links that lead to any of `/a/b`, `/b`, `/c`: chains, circles, links to nothing, targets shorter and longer than the path they are read over, with a name `b` behind them in memory or a NUL. MAXDEPTH 2 in place of 20, two files. |
| `blocks` | 1.8 million | MP4: 2 direct, 2 indirect blocks of 3 entries and a doubly indirect one, 15 data blocks under two bitmap blocks: one file grows through every zone to its greatest size and to a full disk, next to one of a single block, with writes of 2, 6 and 12 positions at two per block, from nothing or from what mkfs has made (10 positions), and one truncation, of either file. MP2: two processes of up to two pages, page 0 untracked as pages 0 to 2 are, a queue of two entries, two groups of blocks, three swaps: a full queue, a full swap area, entries of dead page tables all occur. |
| `bmap_full` | violated | The files of `blocks`, with a bitmap block for each data block: one chunk logs 11 blocks, MAXOPBLOCKS is 10 (file.c:149, param.h:9). |
| `threads` | 1.1 million | Three threads, all five policies, a thread that returns at any tick or never; one context slot fewer than threads and main need. |
| `switching` | 265,373 | MP1: three threads and three tasks, in every order of create, add, assign, yield, return and exit. MP3: three threads of two steps, timers of one or two ticks, three context slots of which main has one: thrdstop() fails, slots are freed and taken again. |

Two actors of each kind are what the races need: each property relates
one call in progress to one other. Three processes are taken where a third
changes the roles (a grandchild, a second reader). The symmetry sets permute
processes, CPUs and values that no definition singles out, and are not used
with liveness.

### The properties

*Log.* `PanicsOnLastSlot`: the reservations of `begin_op` are enough for `log_write` but for the one
slot by which their tests differ: it panics only if the calls under way have no more
left than that. `NoLogPanic`, that they are enough, is what `log_full` refutes. `CommitAlone`: nothing touches the log during a commit.
`CommittedLogFrozen`: the write-ahead rule. `DoneIsDurable`: what a
returning committer promises. `SleeperHasWaker`, `SleeperWoken`: no lost wakeup.
`IsAtomicDisk`: the refinement, with `durable` what recovery would leave and
`current` what the kernel reads.

*Processes.* `OneStack`: a kernel stack is on one CPU, and freed on none.
`SchedHoldsOne`: `sched` is reached with `p->lock` only. `NoLostChild`: the parent of a
dead child is not asleep in `wait`, and there is one. `SleepLockSafe`:
the lock excludes even when kill cuts a sleep short, and nobody sleeps on a free
one. `InitReaps`: every dead child of init is collected, an orphan too.

*Pipes.* `EndsCounted`: references, ends and the page, each freed once and when nobody
is in it. `WriterSleepsOnFull`, `ReaderWoken`: no lost wakeup; the second names
the one exception in the code, a writer killed in the middle of its loop,
which wakes nobody. `IsChannel`: the refinement, which includes order and loss
of bytes across the wrap.

*Inodes.* `RefsExact`: `ref` is the number of pointers on every path, error paths too.
`NoDangling`: no name and no pointer leads to a free inode, so `ilock` cannot
panic, and no inode has fewer links than names. `IputDoesNotWait`:
the claim in `iput`'s comment that its `acquiresleep` cannot block. And the
absence of deadlock.

*Symbolic links.* `OnlyTheseAreLeft`: references, locks, files and log calls are given
back on every path but those it lists, and the kernel panics for one cause only. A link to
something may be one of them, through the bytes behind its target.
`OnlyRevreadlinkDeadlocks`: in every set of processes that wait for each other's inodes
there is a `sys_revreadlink` on the walk to a link's target.

*Large files.* `BlocksExact`: a block in use has one place, a free one none, through failing
copies and at every step of a truncation. `NthBlock`: every block below the size is mapped, and two
blocks are one only where fs.c:400 confuses them. `OpBounded`: what a
chunk or a truncation logs at most, in every zone. `OpFits`, that this is MAXOPBLOCKS, is what
`bmap_full` refutes.

*Paging.* `GroupsKept`: pages that are swapped out do not share blocks. `ContentsKept`:
a page holds what its process has stored, unless it was touched while it was out,
or the bitmap's buffer was recycled. `PinnedStays`: whatever pushes entries into the queue, a pinned
page in memory stays there.

*MP3 threads.* `OnceEach`: no thread is lost or queued twice, and no saved context
shared. `NoDrift`: cycles start at multiples
of the period. `NoOverrun`: a slice ends when a release must preempt, and is no longer than
the thread needs. `MissesReported`: LST reports
each miss, and no other. `Ends`: the program ends, although its functions loop, unless DM has run
a thread that cannot meet its deadline. `ResumedWhereStopped`: a thread goes on at the
place and on the stack where it was stopped, wherever the ticks fall, except in the
three windows in which the library does not survive one.

*MP1 threads.* `ListsWhole`: ring and stacks stay consistent, nothing freed is linked and nothing
allocated is lost. `TakesTurns`: the refinement of RoundRobin. `EveryThreadRuns`.

### Fairness

*Log*: weak fairness of the steps of `begin_op`, of `commit` and of recovery: the
scheduler goes round the whole table. Strong fairness of `end_op` says that the
body of a call is finite. Nobody is obliged to begin a call.
*Processes*: weak fairness of each CPU's context switches; strong fairness of its timer interrupts
where they are enabled, of picking init (the scheduler loop visits every slot) and of each process's
steps in the kernel. The last one also assumes that a CPU that
spins on a lock wins it at last, because `acquire` has no queue. Init calls `wait`
again and again (`user/init.c`). No other process is obliged to make a system call, nor need it be
picked again. In `proc_live` nobody calls `acquiresleep`, which init never does; it has a bound of its
own, `NoSleepLocks`, for the number of states.
*MP3 threads*: weak fairness of the library's steps and of a timer that is set. Nothing makes a
thread's function return: those of the repository (`task*.c`, `rttask*.c`) are `while (1)` loops.
*MP1 threads*: weak fairness of giving up the processor: a cooperative thread yields or exits at last.

## 4. Findings

Three runs are violated, with the text each contradicts quoted in `PROJECT.json`:

* `inode_leak`: `iput` lets an inode be reused between its unlock and its decrement, and a
  file that is made and removed meanwhile is never freed (fs.c:352).
* `log_full`: `begin_op` counts LOGSIZE blocks (log.c:133), `log_write` has one fewer (220), the header's. Three
  admitted calls that log MAXOPBLOCKS blocks each panic with the sizes that mkfs writes.
* `bmap_full`: a chunk of `filewrite` is to fit MAXOPBLOCKS (file.c:149), and with a doubly indirect block it
  does on a disk under two bitmap blocks only; FSSIZE makes 25. A chunk whose blocks come from
  four of them, or an `itrunc` of a file that is spread over ten (one of the greatest size may be), exceeds
  the reservation.

These disagreements are part of the models, and the properties name them as their exceptions:

* A link's target is stored and read without a NUL (sysfile.c:527-530, 342, 598, 610). `namei` walks
  the target with the rest of the longer path it was read over, or with what lay on the
  stack: to open `/a/b`, a link to `/b`, walks `/b/b`. So a link to a file may take the
  paths of a link to nothing, in `sys_open` and in `sys_revreadlink` (`OnlyTheseAreLeft`, the cause `no NUL`).
* A page that `madvise` has swapped out should leave the replacement buffer (MP2 vm.c:527), but
  the code looks up `*pte`, the entry, among pointers to entries (534, 543): it stays, pinned or
  not (`Walked`; `PinnedStays` is about pages in memory).
* `bmap` indexes an indirect block of 256 entries with `bn % NDIRECT` (fs.c:400), although it is to
  "Return the disk block address of the nth block in inode ip" (fs.c:375): blocks whose
  numbers agree modulo 6 within an indirect block are one block on disk. mkfs
  (mkfs.c:289-294) uses the right index (`NthBlock`).
* `sys_symlink` returns without `end_op` when it fails (sysfile.c:525, 531); no
  commit runs any more. `sys_revreadlink` never calls `iput` for the entries it scans
  (sysfile.c:578), returns with two inodes locked at a link to nothing (601), and
  walks to a link's target with a directory locked, so that it waits for itself when the
  target is in that directory. `sys_open` of a link to nothing keeps its file and
  descriptor (347). (`OnlyTheseAreLeft`, `OnlyRevreadlinkDeadlocks`)
* A directory that `sys_revreadlink` has queued and that goes makes the kernel panic (564).
* `sys_open` tests for a directory before it follows links (sysfile.c:318): a
  link to a directory can be opened for writing.
* `create` and `link` put names into a directory that has been removed
  meanwhile (sysfile.c:250): such inodes keep a link for ever (the inequality in `NoDangling`).
* A page that is swapped out and then touched is mapped as zeros (paging.c:26); the bitmap
  of swapped groups is never written to disk (fs.c:684) (`ContentsKept`).
* `schedule_dm` takes a time for a duration (threads_sched.c:202-208): a thread that cannot meet its
  deadline overruns it, or is given no time at all and runs for ever (`NoOverrun`, `Ends`); a thread
  that uses up its time never gives back its context slot (threads.c:121).
* A timer that goes off after the dispatcher's `thrdstop` and before the thread is on its stack
  saves the dispatcher's context in the thread's slot: with a thread that has run
  before, `thrdresume` then returns to the call of `thrdresume`, for ever (threads.c:196). One that
  goes off inside `thrdresume` is only served late, as `usertrapret` tests
  `resume_flag` first. One that goes off just before `cancelthrdstop` of `thread_exit` is
  not cancelled, and the handler runs for a thread whose slot is free (thrd.c:76)
  (`ResumedWhereStopped`).

Seen while reading and not in a run: `kill(0)` marks a
free slot, so that the next process there is born killed (proc.c:585).

## 5. Proofs

Each `...Proof` module proves its theorems for every value of the constants that the named
assumption of the specification allows, where the runs check one small instance. The
argument is the same everywhere: an inductive invariant as a conjunction of named parts,
which TLC checks first; a step for each action and under it one for each part the
action can disturb; and the properties of the runs as consequences of the invariant.

**`LogProof`**, for any finite sets of processes and blocks, any set
of values and every geometry that `LogAssumption` allows:

* `LogInvariant`: `Spec => []LogInv`, where
  `LogInv == TypeOK /\ Control /\ Reserved /\ Data`. *Control* says who runs what and
  that an idle log is empty. *Reserved* counts tokens, one for each log slot
  an open call may still fill: what is logged and what is promised fit
  together into LOGSIZE, which no bound on the calls alone would give.
  *Data* relates the cache, the home locations and the log area, step by step
  of commit and recovery. None of the properties is inductive without these: durability at
  `end_op` needs to know what `install_trans` has already copied, and the
  bound on the panic needs to know what others were promised.
* From it: `TypeCorrect`, `CommitIsAlone`, `SleeperNeverForgotten`, `EndOpIsDurable`,
  `LogFrozenWhileCommitted`, the safety properties of the run.
* `LogPanicsOnLastSlot`, for every LOGSIZE, MAXOPBLOCKS and log on disk: since *Reserved* makes the log
  and the tokens fit LOGSIZE, a log with no room for `log_write` leaves as many tokens as LOGSIZE exceeds
  that room by, one in the code. It says nothing of how many blocks a call logs.
* `LogImplementsAtomicDisk`: `Spec => IsAtomicDisk`. The step that matters is the header
  write of commit, where `durable` jumps to `current`; installing, erasing and
  recovering leave both as they are.

**`ProcProof`**, for any sets of slots, CPUs and pids with `ProcAssumption`.
`ProcInv` is the type with five parts. *Cpus* ties each CPU to the process it has, the
locks it holds and where in `sched` it is; that a process has one CPU follows from
who may hold its `p->lock`. *KThreads* says the same of the place a process is at in the kernel.
*Family* and *Children* say that a parent chain ends at init and what a parent in
`wait` has seen of its children. *SleepLock* relates holder, sleepers and waiters.
Theorems: `ProcInvariant`, `TypeCorrect`, `StackUsedOnce`, `SchedDoesNotPanic`,
`ChildrenAreNotLost`, `SleepLockIsSafe`.

**`PipeProof`**, for any processes, ring size and counter width with
`PipeAssumption` (PIPESIZE divides the range of the counters, as 512 divides 2^32).
`PipeInv` is the type with *Calls* (the call each process is in), *PiLock*, *Asleep* (who may
be asleep, and on which counter) and *Ends* (references, flags and the page). The lemmas
before it are about the two counters modulo `UINT`: their difference is the
number of bytes in the ring, and distinct positions have distinct cells, also across the wrap.
Theorems: `PipeInvariant`, `TypeCorrect`, `EndsAreCounted`, `WritersSleepOnFull`,
`ReadersAreWoken`, and `PipeImplementsChannel`, where a `pipewrite` maps to a run of
sends and a `piperead` to a run of receives, in one step each.

**`SwitchingProof`**, for MP3 with `ThrdstopAssumption`. `ThrdstopInv` says when the timer can be armed (between
the dispatcher's `thrdstop` and the next switch, or while main sleeps), that no two threads have one slot,
and that each saved context is the one its thread's progress calls for. The
property alone is not inductive: a context that is wrong but not yet resumed satisfies it.
Theorems: `ThrdstopInvariant`, `ThreadsResumeWhereStopped`.

For MP1, with `Threads1Assumption` (finite sets of structs): `Threads1Inv` says that there are a sequence of
threads and a sequence of tasks for each thread which the pointers spell out, in both
directions (*RingIs*, *StacksAre*), and that a function that has begun and does not run has its own
context (*OwnContexts*). `ListsWhole` is not inductive, as it says nothing of the contexts
and of how far the pointers of a stack lead. An action is proved by saying what it makes of the
sequences: a thread is appended, the head goes to the end, a task is put in front
or taken out from anywhere, a thread leaves with its stack. Following the pointers finds the sequences
(`Found`), since a sequence without repetition is no longer than the set of its elements; so what an
action does to them is the step of RoundRobin. Theorems: `Threads1Invariant`, `ListsStayWhole`,
`ThreadsTakeTurns` (the refinement).

**`ThreadsProof`**, for any number of threads, each policy and any programs that `ThreadsAssumption`
allows: a thread that is not real-time is released once (as `user/task1.c` to `task4.c` create
them, with n = 1), and programs end before FAR, which stands for the 100000, 1000000 and 10000000
that threads_sched.c takes for "no release". A program that goes on for longer is one that these
sentinels cut short. `ThreadsInv` has seven parts. *Programs* is what the program was built
with. *Queued* says that the two queues have no thread twice or in common, and have just those that are
not freed. *Periodic* says that deadlines and releases are whole periods after the arrival: `NoDrift`
alone is not inductive, since `__release` computes a deadline from the entry it takes out of the queue.
*Slots* is about the contexts. *Control* says what is to hold at each phase, so that the thread that runs is
in the run queue. *Choice* is what `__schedule` has decided, and stays true until the timer goes off:
the ticks fit what the thread needs (*Fits*) and nobody the policy prefers is there or is released before
they are over (*Foremost*), or else a deadline is to be reported. *Budget* is for SJF alone: there is
a schedule in which all that is left ends before FAR, without which `mn - now` could be less than 1.
A handler calls `__release` in its middle, between assignments to the queues, so that the lemmas are
about any queues and jobs: `Released` says what it makes of them. What a walk along a queue keeps
is proved from the least place at which it would be wrong, and so needs no induction rule.
Theorems: `ThreadsInvariant`, `QueuedOnce`, `CyclesDoNotDrift`, `Preemptive`, `LSTReportsMisses`.

**`PagingProof`**, with `PagingAssumption`. Two page-table entries lead to one group of blocks only
if one of them is of the kind the bitmap's loss explains, and a page that is out has
its contents in its group. What the replacement queue holds turns out not to
matter: any choice of victim keeps the contents. `BufInv` is about the queue alone: its
entries are page-table entries, and one that is pinned belongs to a process, so that `q_push` and `lru_push`
never take it for one of a freed page table, which may look like anything. What a push keeps, a sequence
of walks keeps, which is proved from the least place at which it would not.
Theorems: `PagingInvariant`, `GroupsAreKept`, `ContentsAreKept`, `PinnedPagesStay`.

**`InodeProof`**, for any set of processes and finite sets of inode numbers and names
(`InodeAssumption`). `InodeInv` has parts for each process (*Shape*: which inodes the locals
at each place of each call point to; *Fresh*: an inode that `ialloc` has claimed and no name
leads to yet; *Freeing*; *CallOK*), for locks, and for each
inode (*RefsExact*, *Live*, *FreeOK*, *LinksOK*, *DirOK*). `RefsExact` needs Shape, since `ref` counts
pointers in local variables; `NoDangling` needs links in flight, which a call has counted on disk and
not yet entered or taken out of a directory, or the other way round. Every action is a move of
one process from place to place: `StepOK` says what a move may change for the others, and
`AfterStep` derives the whole invariant from it, so that an action is proved by
looking at its own process and inodes. Theorems: `InodeInvariant`, `TypeCorrect`,
`ReferencesAreExact`, `NothingDangles`, `IputNeverWaits`.

**`BmapProof`**, for any finite set of files and any geometry with `BmapAssumption`: an indirect
block has more entries than the inode has direct ones (256 and 6 in the code) and no fewer than a chunk
has blocks (3), and the image has room for the file of `mkfs`. `BmapInv` is the type with *FreedOK*, *Exact* and *Mapped*. Exact treats
inodes and indirect blocks alike, as nodes with places: two places of files never hold
the same number, and the numbers they hold are those in the bitmap. A free block put in an empty
place keeps a map exact and moves nothing; `bmap` is up to three of those steps, proved through the states in between,
which the specification does not have. Exact is said of the map without the blocks that an
`itrunc` has freed and whose pointer it has not cleared yet: *FreedOK* says that there is one in a
file at most, that nothing is under it any more and that its place is the file's own, so that another file
may take the block meanwhile. That the places of a file are nobody else's is what keeps each step of
an `itrunc` out of the maps of the others. Mapped also counts what a write that has not
ended has put down, or its end would not keep `NthBlock`. The exception in
`NthBlock` is exact: two numbers lead to one place only if they agree modulo NDIRECT under the same
indirect block. `FitInv` adds what an operation has logged: bitmap blocks and, for a write, blocks
on the way to at most ChunkBlocks + 1 consecutive numbers (`OnWay`: the block itself, the indirect block
that has it, the block that has that one), which are under two middle blocks and one top block at most.
With the inode that makes Bitmaps + ChunkBlocks + 5 for a disk of any size; in the code (25 bitmap blocks,
chunks of 3) 33, where MAXOPBLOCKS is 10. Theorems: `BmapInvariant`,
`BlocksHaveOnePlace`, `BlocksAreMapped`, `OperationsAreBounded`.

Only model-checked:

* liveness and freedom from deadlock (fairness and ENABLED are out of the prover's reach);
* `OnlyTheseAreLeft` and `OnlyRevreadlinkDeadlocks` of Symlinks. Both need InodeProof's invariant again,
  with references that may be too many and locks that nobody gives back. The first also needs that
  a walk along the target of a good link, alone, does not fail, whatever the others make or remove
  under it, that is what a fold over a path computes: induction over data;
* `NoLogPanic` and `OpFits`, which do not hold.

## 6. Not modelled

* Page tables of the shared kernel, the page allocator's list, ELF loading and argument copying:
  sequential code over machine words.
* The console, the UART and the disk driver: device registers; the log takes the driver's
  promise of an atomic, ordered block write.
* The shell, the utilities, the tests and the MP0 walker: user programs without shared state. Most
  of the lines of the repository are these, and the copies of xv6 in the five trees, of
  which only one is modelled.
* The list of buffers in `bget`, with its reference counts: a panic when NBUF buffers
  are pinned or held is not looked for.
* Bmap: `readi` copies and changes nothing, and reads beyond the size return at once.
* Symlinks: names of different lengths, more than two directories (the overflow of `path[18]`), the user's buffer, `O_CREATE` on a link.
  A process that has left an inode locked makes no further call, as it would wait for itself.
* Paging: guard pages, faults on inner page-table pages, `kalloc` that fails in `fork`; pins
  only on pages that the queue tracks; machine-dependent contents of freed page tables are any.
* Thrdstop: which thread is scheduled and for how long; a time of 0, for which no timer is set, is in
  Threads. `thread_exit` and its dispatcher run on the stack that was just freed, which is harmless as
  nothing allocates before the switch.

## 7. What comes next

Of the theorems still to prove, `OnlyRevreadlinkDeadlocks` comes first. The plan is a rank of the
inodes, lower from a directory to its entries, that every step keeps: in a circle of waiting processes the one that
waits for the lowest inode would find it held by one that waits for a lower one. A module for the list of
buffers (`bget`, `brelse`, `bpin`), shown to provide what Log assumes of `Evict`, would
join the run of the log.
