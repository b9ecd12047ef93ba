-------------------------------- MODULE Pipe --------------------------------
(***************************************************************************)
(* A pipe (kernel/pipe.c) and the reference counts of its two open files   *)
(* (kernel/file.c), shared by processes that fork, read, write, close and  *)
(* are killed at any time.                                                 *)
(*                                                                         *)
(* Code under ftable.lock is one step, and so is a stretch of code under   *)
(* pi->lock, except that `lock' is carried into sleep(): kill() does not   *)
(* take it, so it may come between the test of p->killed and the sleep.    *)
(* The pipe's memory may be given to a new pipe once it is freed.          *)
(***************************************************************************)
EXTENDS Integers, Sequences, FiniteSets

CONSTANTS Proc,
          NoProc,     \* no holder of pi->lock
          Val,        \* bytes
          PIPESIZE,
          UINT,       \* 2^32: nread and nwrite are unsigned ints
          MaxLen      \* bytes a read or a write asks for, at most

ASSUME PipeAssumption ==
    /\ IsFiniteSet(Proc) /\ Val # {}
    /\ PIPESIZE \in Nat \ {0} /\ MaxLen \in Nat \ {0}
    /\ UINT \in Nat /\ UINT > PIPESIZE /\ UINT % PIPESIZE = 0
    /\ NoProc \notin Proc

End == {"r", "w"}

VARIABLES
    data, nread, nwrite,    \* struct pipe
    readopen, writeopen,
    live,     \* the pipe's page is allocated
    lock,     \* holder of pi->lock where a step leaves it held
    ref,      \* f->ref of the two files
    fds,      \* the ends each process has open
    pc,
    buf,      \* what a write has still to copy in
    want,     \* the n of a read
    killed    \* p->killed

pipeVars == <<data, nread, nwrite, readopen, writeopen, live>>
callVars == <<buf, want>>
vars == <<pipeVars, lock, ref, fds, pc, callVars, killed>>

Count == (nwrite - nread) % UINT
InUse == {"write", "wgoing", "wsleep", "read", "rgoing", "rsleep"}
Closing == [r |-> "closer", w |-> "closew"]

PipeTypeOK ==
    /\ data \in [0..PIPESIZE-1 -> Val]
    /\ nread \in 0..UINT-1 /\ nwrite \in 0..UINT-1
    /\ Count <= PIPESIZE
    /\ readopen \in BOOLEAN /\ writeopen \in BOOLEAN /\ live \in BOOLEAN
    /\ lock \in Proc \cup {NoProc}
    /\ ref \in [End -> Nat]
    /\ fds \in [Proc -> SUBSET End]
    /\ pc \in [Proc -> {"none", "idle", "closer", "closew"} \cup InUse]
    /\ buf \in [Proc -> Seq(Val)]
    /\ want \in [Proc -> 0..MaxLen]
    /\ killed \in [Proc -> BOOLEAN]

\* kalloc() fills a page with junk.
Junk == [i \in 0..PIPESIZE-1 |-> CHOOSE v \in Val : TRUE]

\* No pipe and none of the processes yet.
Init ==
    /\ data = Junk
    /\ nread = 0 /\ nwrite = 0
    /\ readopen = FALSE /\ writeopen = FALSE /\ live = FALSE
    /\ lock = NoProc
    /\ ref = [f \in End |-> 0]
    /\ fds = [p \in Proc |-> {}]
    /\ pc = [p \in Proc |-> "none"]
    /\ buf = [p \in Proc |-> <<>>]
    /\ want = [p \in Proc |-> 0]
    /\ killed = [p \in Proc |-> FALSE]

Goto(p, l) == pc' = [pc EXCEPT ![p] = l]

\* wakeup(&pi->nread) or wakeup(&pi->nwrite), while p goes to l.
Wake(asleep, awake, p, l) ==
    pc' = [q \in Proc |-> IF q = p THEN l
                          ELSE IF pc[q] = asleep THEN awake ELSE pc[q]]
WakeReaders(p, l) == Wake("rsleep", "read", p, l)
WakeWriters(p, l) == Wake("wsleep", "write", p, l)

-----------------------------------------------------------------------------
\* File descriptors

\* sys_pipe(), pipealloc(): two files, each with one reference.
PipeAlloc(p) ==
    /\ pc[p] = "idle" /\ ~killed[p]
    /\ ~live /\ fds[p] = {} /\ ref = [f \in End |-> 0]
    /\ live' = TRUE /\ readopen' = TRUE /\ writeopen' = TRUE
    /\ data' = Junk /\ nread' = 0 /\ nwrite' = 0
    /\ ref' = [f \in End |-> 1]
    /\ fds' = [fds EXCEPT ![p] = End]
    /\ UNCHANGED <<lock, pc, callVars, killed>>

\* fork() by a process that has nothing to do with the pipe.
Start(p) ==
    /\ pc[p] = "none"
    /\ Goto(p, "idle")
    /\ UNCHANGED <<pipeVars, lock, ref, fds, callVars, killed>>

\* Mutant: fork() copies the descriptors without filedup().
ForkNoDup(p, q) ==
    /\ pc[p] = "idle" /\ ~killed[p]
    /\ pc[q] = "none"
    /\ Goto(q, "idle")
    /\ fds' = [fds EXCEPT ![q] = fds[p]]
    /\ UNCHANGED <<pipeVars, lock, ref, callVars, killed>>

\* fork(): filedup() every open file for the child.
Fork(p, q) ==
    /\ pc[p] = "idle" /\ ~killed[p]
    /\ pc[q] = "none"
    /\ Goto(q, "idle")
    /\ fds' = [fds EXCEPT ![q] = fds[p]]
    /\ ref' = [f \in End |-> ref[f] + IF f \in fds[p] THEN 1 ELSE 0]
    /\ UNCHANGED <<pipeVars, lock, callVars, killed>>

\* fileclose() under ftable.lock; the last reference goes on to pipeclose().
FileClose(p, f) ==
    /\ pc[p] = "idle"
    /\ f \in fds[p]
    /\ fds' = [fds EXCEPT ![p] = @ \ {f}]
    /\ ref' = [ref EXCEPT ![f] = @ - 1]
    /\ Goto(p, IF ref[f] = 1 THEN Closing[f] ELSE "idle")
    /\ UNCHANGED <<pipeVars, lock, callVars, killed>>

\* Mutant: pipeclose() wakes nobody.
PipeCloseQuiet(p) ==
    /\ pc[p] \in {"closer", "closew"}
    /\ lock = NoProc
    /\ IF pc[p] = "closew" THEN writeopen' = FALSE /\ UNCHANGED readopen
                           ELSE readopen' = FALSE /\ UNCHANGED writeopen
    /\ Goto(p, "idle")
    /\ live' = (readopen' \/ writeopen')
    /\ UNCHANGED <<data, nread, nwrite, lock, ref, fds, callVars, killed>>

\* pipeclose(): tell the other end, free the pipe if it is closed too.
PipeClose(p) ==
    /\ pc[p] \in {"closer", "closew"}
    /\ lock = NoProc
    /\ IF pc[p] = "closew"
         THEN writeopen' = FALSE /\ UNCHANGED readopen /\ WakeReaders(p, "idle")
         ELSE readopen' = FALSE /\ UNCHANGED writeopen /\ WakeWriters(p, "idle")
    /\ live' = (readopen' \/ writeopen')
    /\ UNCHANGED <<data, nread, nwrite, lock, ref, fds, callVars, killed>>

\* exit() once every file is closed.
Exit(p) ==
    /\ pc[p] = "idle"
    /\ fds[p] = {}
    /\ Goto(p, "none")
    /\ killed' = [killed EXCEPT ![p] = FALSE]
    /\ UNCHANGED <<pipeVars, lock, ref, fds, callVars>>

\* kill(): sets p->killed and ends a sleep, without pi->lock.  (Of a process
\* outside these calls kill() only makes it exit, which it may do anyway.)
Kill(p) ==
    /\ pc[p] \in InUse
    /\ killed' = [killed EXCEPT ![p] = TRUE]
    /\ Goto(p, CASE pc[p] = "rsleep" -> "read"
                 [] pc[p] = "wsleep" -> "write"
                 [] OTHER            -> pc[p])
    /\ UNCHANGED <<pipeVars, lock, ref, fds, callVars>>

-----------------------------------------------------------------------------
\* pipewrite()

StartWrite(p, s) ==
    /\ pc[p] = "idle" /\ ~killed[p]
    /\ "w" \in fds[p]
    /\ buf' = [buf EXCEPT ![p] = s]
    /\ Goto(p, "write")
    /\ UNCHANGED <<pipeVars, lock, ref, fds, want, killed>>

\* Mutant: the full pipe is noticed one byte late.
RoomPlusOne == PIPESIZE + 1 - Count

Room == PIPESIZE - Count
Least(a, b) == IF a <= b THEN a ELSE b

\* Mutant: ++nwrite in place of nwrite++.
PutBytesShifted(p, k) ==
    /\ data' = [i \in 0..PIPESIZE-1 |->
                  LET d == (i - nwrite - 1) % PIPESIZE
                  IN IF d < k THEN buf[p][d + 1] ELSE data[i]]
    /\ nwrite' = (nwrite + k) % UINT
    /\ UNCHANGED <<nread, readopen, writeopen, live>>

\* Copy the first k bytes of buf[p] into the ring.
PutBytes(p, k) ==
    /\ data' = [i \in 0..PIPESIZE-1 |->
                  LET d == (i - nwrite) % PIPESIZE
                  IN IF d < k THEN buf[p][d + 1] ELSE data[i]]
    /\ nwrite' = (nwrite + k) % UINT
    /\ UNCHANGED <<nread, readopen, writeopen, live>>

\* Nobody will read, or the writer is killed, maybe when k bytes of the loop
\* are already in the pipe: return -1, and wake nobody.
WriteFail(p) ==
    /\ pc[p] = "write" /\ lock = NoProc
    /\ \/ ~readopen /\ UNCHANGED pipeVars
       \/ /\ readopen /\ killed[p]
          /\ \E k \in 0..Least(Room, Len(buf[p]) - 1) : PutBytes(p, k)
    /\ buf' = [buf EXCEPT ![p] = <<>>]
    /\ Goto(p, "idle")
    /\ UNCHANGED <<lock, ref, fds, want, killed>>

\* The rest fits, or copyin() fails after k bytes: wake the readers, return.
WriteReturn(p) ==
    /\ pc[p] = "write" /\ lock = NoProc
    /\ readopen /\ ~killed[p]
    /\ \E k \in 0..Len(buf[p]) :
         /\ k <= Room
         /\ k < Len(buf[p]) => k < Room
         /\ PutBytes(p, k)
    /\ buf' = [buf EXCEPT ![p] = <<>>]
    /\ WakeReaders(p, "idle")
    /\ UNCHANGED <<lock, ref, fds, want, killed>>

\* Fill the pipe, wake the readers and get ready to sleep, pi->lock held.
WriteFull(p) ==
    /\ pc[p] = "write" /\ lock = NoProc
    /\ readopen /\ ~killed[p]
    /\ Len(buf[p]) > Room
    /\ PutBytes(p, Room)
    /\ buf' = [buf EXCEPT ![p] = SubSeq(@, Room + 1, Len(@))]
    /\ WakeReaders(p, "wgoing")
    /\ lock' = p
    /\ UNCHANGED <<ref, fds, want, killed>>

\* sleep(&pi->nwrite, &pi->lock) or sleep(&pi->nread, &pi->lock).
Sleep(p) ==
    /\ pc[p] \in {"wgoing", "rgoing"}
    /\ Goto(p, IF pc[p] = "wgoing" THEN "wsleep" ELSE "rsleep")
    /\ lock' = NoProc
    /\ UNCHANGED <<pipeVars, ref, fds, callVars, killed>>

-----------------------------------------------------------------------------
\* piperead()

StartRead(p, n) ==
    /\ pc[p] = "idle" /\ ~killed[p]
    /\ "r" \in fds[p]
    /\ want' = [want EXCEPT ![p] = n]
    /\ Goto(p, "read")
    /\ UNCHANGED <<pipeVars, lock, ref, fds, buf, killed>>

\* Empty, and somebody may still write: return -1 if killed, else sleep.
ReadEmpty(p) ==
    /\ pc[p] = "read" /\ lock = NoProc
    /\ Count = 0 /\ writeopen
    /\ IF killed[p]
         THEN /\ Goto(p, "idle")
              /\ want' = [want EXCEPT ![p] = 0]
              /\ UNCHANGED lock
         ELSE Goto(p, "rgoing") /\ lock' = p /\ UNCHANGED want
    /\ UNCHANGED <<pipeVars, ref, fds, buf, killed>>

\* The first k bytes in the ring.
FirstBytes(k) == [i \in 1..k |-> data[(nread + i - 1) % PIPESIZE]]

\* Mutant: piperead() wakes nobody.
ReadQuiet(p) ==
    /\ pc[p] = "read" /\ lock = NoProc
    /\ Count > 0 \/ ~writeopen
    /\ nread' = (nread + Least(Count, want[p])) % UINT
    /\ want' = [want EXCEPT ![p] = 0]
    /\ Goto(p, "idle")
    /\ UNCHANGED <<data, nwrite, readopen, writeopen, live, lock, ref, fds, buf, killed>>

\* Take what is there, or less if copyout() fails on the kth byte, which is
\* lost; wake the writers.
Read(p) ==
    /\ pc[p] = "read" /\ lock = NoProc
    /\ Count > 0 \/ ~writeopen
    /\ LET n == Least(Count, want[p]) IN
       \E k \in {n} \cup 1..n : nread' = (nread + k) % UINT
    /\ want' = [want EXCEPT ![p] = 0]
    /\ WakeWriters(p, "idle")
    /\ UNCHANGED <<data, nwrite, readopen, writeopen, live, lock, ref, fds, buf, killed>>

-----------------------------------------------------------------------------
InCall(p) == \/ PipeClose(p) \/ Sleep(p)
             \/ WriteFail(p) \/ WriteReturn(p) \/ WriteFull(p)
             \/ ReadEmpty(p) \/ Read(p)

Next ==
    \E p \in Proc :
      \/ InCall(p)
      \/ PipeAlloc(p) \/ Start(p) \/ Exit(p) \/ Kill(p)
      \/ \E q \in Proc : Fork(p, q)
      \/ \E f \in End : FileClose(p, f)
      \/ \E n \in 1..MaxLen : \/ StartRead(p, n)
                              \/ \E s \in [1..n -> Val] : StartWrite(p, s)

Spec == Init /\ [][Next]_vars

-----------------------------------------------------------------------------
(***************************************************************************)
(* Properties                                                              *)
(***************************************************************************)

\* The pipe is a first-in first-out channel: whatever sleeps, closes, kills and
\* bad addresses come in between, and although nread and nwrite wrap round, no
\* byte is lost on the way, duplicated or overtaken.
Window == IF live THEN FirstBytes(Count) ELSE <<>>
Fifo == INSTANCE Channel WITH Cap <- PIPESIZE, q <- Window,
                              ropen <- readopen, wopen <- writeopen
IsChannel == Fifo!Spec

\* f->ref counts the descriptors and closes in progress of either end, and an
\* end is open as long as there are some: fileclose() does not panic, pipeclose()
\* runs once for each end, and nobody is inside the pipe's code, asleep or not,
\* when its page is free.
EndsCounted ==
    /\ \A f \in End :
         /\ ref[f] = Cardinality({p \in Proc : f \in fds[p]})
         /\ LET open == IF f = "r" THEN readopen ELSE writeopen
                closing == Cardinality({p \in Proc : pc[p] = Closing[f]})
            IN IF open THEN (ref[f] > 0) # (closing = 1) /\ closing <= 1
                       ELSE ref[f] = 0 /\ closing = 0
    /\ ~live => \A p \in Proc : pc[p] \in {"none", "idle"} /\ fds[p] = {}

\* No lost wakeup: a writer sleeps only on a full pipe that is open for reading.
WriterSleepsOnFull ==
    \A p \in Proc : pc[p] = "wsleep" => Count = PIPESIZE /\ readopen

\* "pipe-empty" (pipe.c:113): a reader sleeps only while somebody may write, so
\* that it does not miss end of file, and it is woken of new bytes by all who
\* put them into the pipe except a writer that has been killed.
ReaderWoken ==
    [][\A p \in Proc : pc'[p] = "rsleep" =>
         /\ writeopen'
         /\ \/ Count' = 0
            \/ pc[p] = "rsleep" /\ nwrite' = nwrite
            \/ \E w \in Proc : pc[w] = "write" /\ killed[w]]_vars
=============================================================================
