------------------------------ MODULE PipeProof ------------------------------
(***************************************************************************)
(* Proofs about the pipe (Pipe.tla), for every finite set of processes,    *)
(* every set of bytes and every ring whose size divides the range of its   *)
(* counters: PipeInv is an invariant, and the pipe implements Channel.     *)
(***************************************************************************)
EXTENDS Pipe, TLAPS, SequenceTheorems, FiniteSetTheorems

-----------------------------------------------------------------------------
(***************************************************************************)
(* The inductive invariant                                                 *)
(***************************************************************************)

\* A call is made on an end that the process has open.
Calls ==
    \A p \in Proc :
        /\ pc[p] = "none" => fds[p] = {}
        /\ pc[p] \in {"write", "wgoing", "wsleep"} => "w" \in fds[p]
        /\ pc[p] \in {"read", "rgoing", "rsleep"} => "r" \in fds[p] /\ want[p] > 0

\* pi->lock is carried into sleep(), and nowhere else.
PiLock == \A p \in Proc : pc[p] \in {"wgoing", "rgoing"} <=> lock = p

\* Who sleeps, or is about to, has a reason.
Asleep ==
    \A p \in Proc :
        /\ pc[p] \in {"wgoing", "wsleep"} => Count = PIPESIZE /\ readopen
        /\ pc[p] \in {"rgoing", "rsleep"} => writeopen
        /\ pc[p] = "rgoing" => Count = 0

Holders(f) == {p \in Proc : f \in fds[p]}
Closers(f) == {p \in Proc : pc[p] = Closing[f]}
IsOpen(f)  == IF f = "r" THEN readopen ELSE writeopen

\* An end is in use, then closed by one process, then closed.
EndOK(f) ==
    /\ ref[f] = Cardinality(Holders(f))
    /\ \/ ref[f] > 0 /\ IsOpen(f) /\ Closers(f) = {}
       \/ ref[f] = 0 /\ IsOpen(f) /\ \E p \in Proc : Closers(f) = {p}
       \/ ref[f] = 0 /\ ~IsOpen(f) /\ Closers(f) = {}

Ends ==
    /\ \A f \in End : EndOK(f)
    /\ live <=> readopen \/ writeopen

PipeInv == PipeTypeOK /\ Calls /\ PiLock /\ Asleep /\ Ends

-----------------------------------------------------------------------------
(***************************************************************************)
(* Arithmetic modulo the counters' range and the ring's size               *)
(***************************************************************************)

\* Quotient and remainder.
LEMMA DivMod ==
    ASSUME NEW n \in Nat \ {0}, NEW a \in Int
    PROVE  a \div n \in Int /\ a % n \in 0..n-1 /\ a = n * (a \div n) + (a % n)
OBVIOUS

\* The remainder is the only one.
LEMMA ModUnique ==
    ASSUME NEW n \in Nat \ {0}, NEW q \in Int, NEW r \in 0..n-1
    PROVE  (n * q + r) % n = r
OBVIOUS

\* A number below n is its own remainder.
LEMMA ModSmall == \A n \in Nat \ {0} : \A a \in 0..n-1 : a % n = a
OBVIOUS

\* Multiplication distributes.
LEMMA Distr ==
    \A n, q, r \in Int :
        n * q \in Int /\ n * q + n * r = n * (q + r) /\ n * q - n * r = n * (q - r)
OBVIOUS

\* Multiples of n do not count modulo n.
LEMMA ModMul ==
    ASSUME NEW n \in Nat \ {0}, NEW q \in Int, NEW a \in Int
    PROVE  (a + n * q) % n = a % n
<1> DEFINE d == a \div n
           r == a % n
<1>1. d \in Int /\ r \in 0..n-1 /\ a = n * d + r
  BY DivMod
<1> HIDE DEF d, r
<1>2. a + n * q = n * (d + q) + r
  BY <1>1, Distr
<1>3. (n * (d + q) + r) % n = r
  BY <1>1, ModUnique
<1> QED
  BY <1>2, <1>3 DEF r

\* Adding a multiple of n, given by its remainder, changes nothing modulo n.
LEMMA ModShift ==
    ASSUME NEW n \in Nat \ {0}, NEW m \in Nat, m % n = 0, NEW a \in Int
    PROVE  (a + m) % n = a % n
<1> DEFINE q == m \div n
<1>1. q \in Int /\ m = n * q + 0
  BY DivMod
<1> HIDE DEF q
<1>2. m = n * q
  BY <1>1, Distr
<1>3. (a + n * q) % n = a % n
  BY <1>1, ModMul
<1> QED
  BY <1>2, <1>3

\* A sum may be reduced before the end,
LEMMA ModAdd ==
    ASSUME NEW n \in Nat \ {0}, NEW a \in Int, NEW b \in Int
    PROVE  ((a % n) + b) % n = (a + b) % n
<1> DEFINE d == a \div n
           r == a % n
<1>1. d \in Int /\ r \in 0..n-1 /\ a = n * d + r
  BY DivMod
<1> HIDE DEF d, r
<1>2. a + b = (r + b) + n * d /\ r + b \in Int
  BY <1>1, Distr
<1>3. ((r + b) + n * d) % n = (r + b) % n
  BY <1>1, <1>2, ModMul
<1> QED
  BY <1>2, <1>3 DEF r

\* and so may a difference.
LEMMA ModSub ==
    ASSUME NEW n \in Nat \ {0}, NEW a \in Int, NEW b \in Int
    PROVE  (a - (b % n)) % n = (a - b) % n
<1> DEFINE d == b \div n  r == b % n
<1>1. d \in Int /\ r \in 0..n-1 /\ b = n * d + r
  BY DivMod
<1> HIDE DEF d, r
<1>2. -d \in Int /\ n * d \in Int /\ n * (-d) = -(n * d)
  BY <1>1, Distr
<1>3. a - b \in Int /\ a - r = (a - b) + n * d
  BY <1>1, <1>2
<1>4. ((a - b) + n * d) % n = (a - b) % n
  BY <1>1, <1>3, ModMul
<1> QED
  BY <1>3, <1>4 DEF r

\* The distance from r to w on the circle of the counters, when w goes on by k and
\* when r does.
LEMMA Distance ==
    ASSUME NEW r \in 0..UINT-1, NEW w \in 0..UINT-1
    PROVE  /\ (w - r) % UINT \in 0..UINT-1
           /\ (w - r) % UINT \in {w - r, w - r + UINT}
           /\ \A k \in Nat : ((w - r) % UINT) + k < UINT =>
                (((w + k) % UINT) - r) % UINT = ((w - r) % UINT) + k
           /\ \A k \in Nat : k <= (w - r) % UINT =>
                (w - ((r + k) % UINT)) % UINT = ((w - r) % UINT) - k
<1> DEFINE d == (w - r) % UINT
<1>0. UINT \in Nat \ {0}
  BY PipeAssumption
<1>1. d \in 0..UINT-1
  BY <1>0, DivMod
<1>2. d \in {w - r, w - r + UINT}
  <2>1. CASE w >= r
    BY <2>1, <1>0, ModSmall
  <2>2. CASE w < r
    <3>1. UINT % UINT = 0 /\ w - r \in Int
      BY <1>0
    <3>2. (w - r + UINT) % UINT = d
      BY <1>0, <3>1, ModShift
    <3>3. (w - r + UINT) % UINT = w - r + UINT
      BY <1>0, <2>2, ModSmall
    <3> QED
      BY <3>2, <3>3
  <2> QED
    BY <2>1, <2>2
<1>3. ASSUME NEW k \in Nat, d + k < UINT
      PROVE  (((w + k) % UINT) - r) % UINT = d + k
  <2>0. w + k \in Int /\ -r \in Int /\ w - r \in Int /\ k \in Int
    BY <1>0
  <2>1. (((w + k) % UINT) + (-r)) % UINT = (w + k + (-r)) % UINT
    BY <1>0, <2>0, ModAdd, Zenon
  <2>2. (d + k) % UINT = (w - r + k) % UINT
    BY <1>0, <2>0, ModAdd, Zenon
  <2>3. (d + k) % UINT = d + k
    BY <1>0, <1>1, <1>3, ModSmall
  <2>4. ((w + k) % UINT) + (-r) = ((w + k) % UINT) - r /\ w + k + (-r) = w - r + k
    BY <1>0, DivMod
  <2> HIDE DEF d
  <2> QED
    BY <2>1, <2>2, <2>3, <2>4
<1>4. ASSUME NEW k \in Nat, k <= d
      PROVE  (w - ((r + k) % UINT)) % UINT = d - k
  <2>0. w \in Int /\ r + k \in Int /\ -k \in Int /\ w - r \in Int
    BY <1>0
  <2>1. (w - ((r + k) % UINT)) % UINT = (w - (r + k)) % UINT
    BY <1>0, <2>0, ModSub, Zenon
  <2>2. (d + (-k)) % UINT = (w - r + (-k)) % UINT
    BY <1>0, <2>0, ModAdd, Zenon
  <2>3. (d - k) % UINT = d - k
    BY <1>0, <1>1, <1>4, ModSmall
  <2>4. w - (r + k) = w - r + (-k) /\ d + (-k) = d - k
    BY <1>1
  <2> HIDE DEF d
  <2> QED
    BY <2>1, <2>2, <2>3, <2>4
<1> QED
  BY <1>1, <1>2, <1>3, <1>4

\* The assumptions on the constants.
LEMMA Sizes ==
    /\ PIPESIZE \in Nat \ {0} /\ UINT \in Nat \ {0} /\ UINT > PIPESIZE
    /\ UINT % PIPESIZE = 0
BY PipeAssumption

\* What is in the ring, from the counters that may have wrapped.
LEMMA CountRange ==
    ASSUME PipeTypeOK
    PROVE  /\ Count \in 0..PIPESIZE
           /\ Count \in {nwrite - nread, nwrite - nread + UINT}
<1>1. nread \in 0..UINT-1 /\ nwrite \in 0..UINT-1 /\ Count <= PIPESIZE
  BY DEF PipeTypeOK
<1>2. Count \in 0..UINT-1 /\ Count \in {nwrite - nread, nwrite - nread + UINT}
  BY <1>1, Distance, Zenon DEF Count
<1> QED
  BY <1>1, <1>2, Sizes

\* k bytes are put in.
LEMMA PutCount ==
    ASSUME PipeTypeOK, NEW p \in Proc, NEW k \in 0..Room, k <= Len(buf[p]),
      PutBytes(p, k)
    PROVE  /\ nwrite' \in 0..UINT-1
           /\ Count' = Count + k
           /\ k = 0 => nwrite' = nwrite
           /\ data' \in [0..PIPESIZE-1 -> Val]
<1>1. Count \in 0..PIPESIZE /\ k \in Nat /\ Count + k < UINT
  BY CountRange, Sizes DEF Room
<1>2. nwrite' = (nwrite + k) % UINT /\ nread' = nread
  BY DEF PutBytes
<1>3. nwrite' \in 0..UINT-1
  BY <1>1, <1>2, Sizes, DivMod DEF PipeTypeOK
<1>4. Count' = Count + k
  BY <1>1, <1>2, Distance DEF PipeTypeOK, Count
<1>5. k = 0 => nwrite' = nwrite
  <2>1. nwrite \in 0..UINT-1 /\ nwrite % UINT = nwrite
    BY Sizes, ModSmall DEF PipeTypeOK
  <2>2. k = 0 => nwrite + k = nwrite
    BY <2>1
  <2> QED
    BY <1>2, <2>1, <2>2
<1>6. data' \in [0..PIPESIZE-1 -> Val]
  <2>1. \A i \in 0..PIPESIZE-1 : (i - nwrite) % PIPESIZE \in Nat
    BY Sizes, DivMod DEF PipeTypeOK
  <2>2. \A d \in Nat : d < k => buf[p][d + 1] \in Val
    <3>1. buf[p] \in Seq(Val) /\ Len(buf[p]) \in Nat
      BY DEF PipeTypeOK
    <3> QED
      BY <1>1, <3>1, ElementOfSeq
  <2>3. ASSUME NEW i \in 0..PIPESIZE-1
        PROVE  (IF (i - nwrite) % PIPESIZE < k THEN buf[p][((i - nwrite) % PIPESIZE) + 1]
                                               ELSE data[i]) \in Val
    <3>1. data[i] \in Val
      BY DEF PipeTypeOK
    <3> QED
      BY <2>1, <2>2, <3>1
  <2> QED
    BY <2>3 DEF PutBytes
<1> QED
  BY <1>3, <1>4, <1>5, <1>6

\* k bytes are taken out.
LEMMA TakeCount ==
    ASSUME PipeTypeOK, NEW k \in 0..Count, nread' = (nread + k) % UINT,
      nwrite' = nwrite
    PROVE  nread' \in 0..UINT-1 /\ Count' = Count - k
<1>1. Count \in 0..PIPESIZE /\ k \in Nat /\ k <= Count
  BY CountRange, Sizes
<1>2. nread' \in 0..UINT-1
  BY <1>1, Sizes, DivMod DEF PipeTypeOK
<1>3. Count' = Count - k
  BY <1>1, Distance DEF PipeTypeOK, Count
<1> QED
  BY <1>2, <1>3

\* Counters that stay, stay apart as they are.
LEMMA SameCount == UNCHANGED <<nread, nwrite>> => Count' = Count
BY DEF Count

\* What a writer's step does to the pipe.
LEMMA WriterPuts ==
    ASSUME PipeTypeOK, NEW p \in Proc, WriteFail(p) \/ WriteReturn(p) \/ WriteFull(p)
    PROVE  \/ UNCHANGED pipeVars
           \/ readopen /\ \E k \in 0..Room : k <= Len(buf[p]) /\ PutBytes(p, k)
<1>1. Len(buf[p]) \in Nat /\ Room \in 0..PIPESIZE
  BY CountRange, Sizes DEF PipeTypeOK, Room
<1>2. CASE WriteFail(p)
  BY <1>1, <1>2 DEF WriteFail, Least
<1>3. CASE WriteReturn(p)
  BY <1>1, <1>3 DEF WriteReturn
<1>4. CASE WriteFull(p)
  BY <1>1, <1>4 DEF WriteFull
<1> QED
  BY <1>2, <1>3, <1>4

\* The counters after a writer's step.
LEMMA WriterCounts ==
    ASSUME PipeTypeOK, NEW p \in Proc, WriteFail(p) \/ WriteReturn(p) \/ WriteFull(p)
    PROVE  /\ data' \in [0..PIPESIZE-1 -> Val] /\ nwrite' \in 0..UINT-1
           /\ Count' \in Count..PIPESIZE
           /\ Count' = Count => nwrite' = nwrite
           /\ UNCHANGED <<nread, readopen, writeopen, live>>
<1>1. CASE UNCHANGED pipeVars
  BY <1>1, SameCount, CountRange, Sizes DEF pipeVars, PipeTypeOK
<1>2. CASE \E k \in 0..Room : k <= Len(buf[p]) /\ PutBytes(p, k)
  <2>1. PICK k \in 0..Room : k <= Len(buf[p]) /\ PutBytes(p, k)
    BY <1>2
  <2>2. UNCHANGED <<nread, readopen, writeopen, live>>
    BY <2>1 DEF PutBytes
  <2> QED
    BY <2>1, <2>2, PutCount, CountRange, Sizes DEF Room
<1> QED
  BY <1>1, <1>2, WriterPuts

\* What a reader's step does to the pipe.
LEMMA ReaderTakes ==
    ASSUME PipeTypeOK, NEW p \in Proc, Read(p)
    PROVE  \E k \in 0..Count : nread' = (nread + k) % UINT
<1>1. PICK k \in {Least(Count, want[p])} \cup 1..Least(Count, want[p]) :
        nread' = (nread + k) % UINT
  BY DEF Read
<1>2. want[p] \in Nat
  BY PipeAssumption DEF PipeTypeOK
<1> QED
  BY <1>1, <1>2, CountRange, Sizes DEF Least

\* The counters after a reader's step.
LEMMA ReaderCounts ==
    ASSUME PipeTypeOK, NEW p \in Proc, Read(p)
    PROVE  nread' \in 0..UINT-1 /\ Count' \in 0..Count
<1>1. PICK k \in 0..Count : nread' = (nread + k) % UINT
  BY ReaderTakes
<1>2. nwrite' = nwrite
  BY DEF Read
<1> QED
  BY <1>1, <1>2, TakeCount, CountRange, Sizes

\* An end has references exactly if a process has it open.
LEMMA HolderCounted ==
    ASSUME PipeTypeOK, Ends, NEW f \in End
    PROVE  /\ IsFiniteSet(Holders(f))
           /\ ref[f] \in Nat
           /\ ref[f] > 0 <=> \E p \in Proc : f \in fds[p]
<1>1. IsFiniteSet(Holders(f))
  BY PipeAssumption, FS_Subset DEF Holders
<1>2. ref[f] = Cardinality(Holders(f)) /\ ref[f] \in Nat
  BY DEF Ends, EndOK, PipeTypeOK
<1>3. Cardinality(Holders(f)) = 0 <=> Holders(f) = {}
  BY <1>1, FS_EmptySet
<1>4. Holders(f) = {} <=> ~\E p \in Proc : f \in fds[p]
  BY DEF Holders
<1> QED
  BY <1>1, <1>2, <1>3, <1>4

\* With pi->lock free, nobody is between its test and its sleep.
LEMMA NobodyGoing ==
    PiLock /\ lock = NoProc => \A p \in Proc : pc[p] \notin {"wgoing", "rgoing"}
BY PipeAssumption DEF PiLock

\* A writer that fills the pipe finds room for a part of its bytes only.
LEMMA FullCount ==
    ASSUME PipeTypeOK, NEW p \in Proc, WriteFull(p)
    PROVE  Count' = PIPESIZE
<1>1. Len(buf[p]) \in Nat /\ Room \in 0..Room /\ Room \in Nat
  BY CountRange, Sizes DEF PipeTypeOK, Room
<1>2. PutBytes(p, Room) /\ Room <= Len(buf[p])
  BY <1>1 DEF WriteFull
<1>3. Count' = Count + Room
  BY <1>1, <1>2, PutCount
<1> QED
  BY <1>3, CountRange, Sizes DEF Room

\* A step that opens, forks and closes nothing.
LEMMA EndsKept ==
    ASSUME Ends, UNCHANGED <<ref, fds, readopen, writeopen, live>>,
           \A q \in Proc : pc'[q] # pc[q] => {pc[q], pc'[q]} \cap {"closer", "closew"} = {}
    PROVE  Ends'
<1>1. ASSUME NEW f \in End
      PROVE  Holders(f)' = Holders(f) /\ Closers(f)' = Closers(f) /\ IsOpen(f)' = IsOpen(f)
  <2>1. Closing[f] \in {"closer", "closew"}
    BY DEF Closing, End
  <2>2. \A q \in Proc : pc'[q] = Closing[f] <=> pc[q] = Closing[f]
    BY <2>1
  <2> QED
    BY <2>2 DEF Holders, Closers, IsOpen
<1> QED
  BY <1>1 DEF Ends, EndOK

-----------------------------------------------------------------------------
(***************************************************************************)
(* The steps                                                               *)
(***************************************************************************)

\* Every step keeps every variable in its type.
LEMMA TypeStep == PipeInv /\ [Next]_vars => PipeTypeOK'
<1> SUFFICES ASSUME PipeInv, [Next]_vars PROVE PipeTypeOK'
  OBVIOUS
<1> USE DEF PipeInv, PipeTypeOK, pipeVars, callVars, InUse, Closing, End
<1>1. ASSUME NEW p \in Proc, PipeClose(p) PROVE PipeTypeOK'
  BY <1>1, SameCount DEF PipeClose, WakeReaders, WakeWriters, Wake
<1>2. ASSUME NEW p \in Proc, Sleep(p) PROVE PipeTypeOK'
  BY <1>2, SameCount DEF Sleep, Goto
<1>3. ASSUME NEW p \in Proc, WriteFail(p) PROVE PipeTypeOK'
  <2>1. /\ data' \in [0..PIPESIZE-1 -> Val] /\ nwrite' \in 0..UINT-1
        /\ Count' <= PIPESIZE /\ UNCHANGED <<nread, readopen, writeopen, live>>
    BY <1>3, WriterCounts, CountRange
  <2>2. buf' \in [Proc -> Seq(Val)]
    BY <1>3 DEF WriteFail
  <2>3. pc' \in [Proc -> {"none", "idle", "closer", "closew"} \cup InUse]
    BY <1>3 DEF WriteFail, WakeReaders, Wake, Goto
  <2>4. lock' \in Proc \cup {NoProc} /\ UNCHANGED <<ref, fds, want, killed>>
    BY <1>3 DEF WriteFail
  <2> QED
    BY <2>1, <2>2, <2>3, <2>4
<1>4. ASSUME NEW p \in Proc, WriteReturn(p) PROVE PipeTypeOK'
  <2>1. /\ data' \in [0..PIPESIZE-1 -> Val] /\ nwrite' \in 0..UINT-1
        /\ Count' <= PIPESIZE /\ UNCHANGED <<nread, readopen, writeopen, live>>
    BY <1>4, WriterCounts, CountRange
  <2>2. buf' \in [Proc -> Seq(Val)]
    BY <1>4 DEF WriteReturn
  <2>3. pc' \in [Proc -> {"none", "idle", "closer", "closew"} \cup InUse]
    BY <1>4 DEF WriteReturn, WakeReaders, Wake, Goto
  <2>4. lock' \in Proc \cup {NoProc} /\ UNCHANGED <<ref, fds, want, killed>>
    BY <1>4 DEF WriteReturn
  <2> QED
    BY <2>1, <2>2, <2>3, <2>4
<1>5. ASSUME NEW p \in Proc, WriteFull(p) PROVE PipeTypeOK'
  <2>1. /\ data' \in [0..PIPESIZE-1 -> Val] /\ nwrite' \in 0..UINT-1
        /\ Count' <= PIPESIZE /\ UNCHANGED <<nread, readopen, writeopen, live>>
    BY <1>5, WriterCounts, CountRange
  <2>2. buf' \in [Proc -> Seq(Val)]
    <3>1. buf[p] \in Seq(Val) /\ Len(buf[p]) \in Nat /\ Room \in Nat
      BY CountRange, Sizes DEF Room
    <3>2. SubSeq(buf[p], Room + 1, Len(buf[p])) \in Seq(Val)
      BY <3>1
    <3> QED
      BY <1>5, <3>2 DEF WriteFull
  <2>3. pc' \in [Proc -> {"none", "idle", "closer", "closew"} \cup InUse]
    BY <1>5 DEF WriteFull, WakeReaders, Wake, Goto
  <2>4. lock' \in Proc \cup {NoProc} /\ UNCHANGED <<ref, fds, want, killed>>
    BY <1>5 DEF WriteFull
  <2> QED
    BY <2>1, <2>2, <2>3, <2>4
<1>6. ASSUME NEW p \in Proc, ReadEmpty(p) PROVE PipeTypeOK'
  <2>1. want' \in [Proc -> 0..MaxLen] /\ lock' \in Proc \cup {NoProc}
    <3>1. 0 \in 0..MaxLen
      BY PipeAssumption
    <3>2. CASE killed[p]
      BY <1>6, <3>1, <3>2 DEF ReadEmpty
    <3>3. CASE ~killed[p]
      BY <1>6, <3>3 DEF ReadEmpty
    <3> QED
      BY <3>2, <3>3
  <2>2. pc' \in [Proc -> {"none", "idle", "closer", "closew"} \cup InUse]
    BY <1>6 DEF ReadEmpty, Goto
  <2>3. UNCHANGED <<pipeVars, ref, fds, buf, killed>> /\ Count' = Count
    BY <1>6, SameCount DEF ReadEmpty
  <2> QED
    BY <2>1, <2>2, <2>3
<1>7. ASSUME NEW p \in Proc, Read(p) PROVE PipeTypeOK'
  <2>1. nread' \in 0..UINT-1 /\ Count' <= PIPESIZE
    BY <1>7, ReaderCounts, CountRange, Sizes
  <2>2. pc' \in [Proc -> {"none", "idle", "closer", "closew"} \cup InUse]
    BY <1>7 DEF Read, WakeWriters, Wake
  <2>3. want' \in [Proc -> 0..MaxLen]
    BY <1>7, PipeAssumption DEF Read
  <2>4. UNCHANGED <<data, nwrite, readopen, writeopen, live, lock, ref, fds, buf,
          killed>>
    BY <1>7 DEF Read
  <2> QED
    BY <2>1, <2>2, <2>3, <2>4
<1>8. ASSUME NEW p \in Proc, PipeAlloc(p) PROVE PipeTypeOK'
  <2>1. data' \in [0..PIPESIZE-1 -> Val]
    <3>1. (CHOOSE v \in Val : TRUE) \in Val
      BY PipeAssumption
    <3> QED
      BY <1>8, <3>1 DEF PipeAlloc, Junk
  <2>2. nread' \in 0..UINT-1 /\ nwrite' \in 0..UINT-1 /\ Count' = 0
    <3>1. nread' = 0 /\ nwrite' = 0 /\ 0 \in 0..UINT-1
      BY <1>8, Sizes DEF PipeAlloc
    <3> QED
      BY <3>1, Sizes, ModSmall DEF Count
  <2>3. /\ readopen' \in BOOLEAN /\ writeopen' \in BOOLEAN /\ live' \in BOOLEAN
        /\ ref' \in [End -> Nat] /\ fds' \in [Proc -> SUBSET End]
        /\ UNCHANGED <<lock, pc, buf, want, killed>>
    BY <1>8 DEF PipeAlloc
  <2> QED
    BY <2>1, <2>2, <2>3, Sizes
<1>9. ASSUME NEW p \in Proc, Start(p) PROVE PipeTypeOK'
  BY <1>9, SameCount DEF Start, Goto
<1>10. ASSUME NEW p \in Proc, Exit(p) PROVE PipeTypeOK'
  BY <1>10, SameCount DEF Exit, Goto
<1>11. ASSUME NEW p \in Proc, Kill(p) PROVE PipeTypeOK'
  BY <1>11, SameCount DEF Kill, Goto
<1>12. ASSUME NEW p \in Proc, NEW q \in Proc, Fork(p, q) PROVE PipeTypeOK'
  BY <1>12, SameCount DEF Fork, Goto
<1>13. ASSUME NEW p \in Proc, NEW f \in End, FileClose(p, f) PROVE PipeTypeOK'
  <2>1. ref[f] \in Nat /\ ref[f] > 0
    BY <1>13, HolderCounted DEF FileClose
  <2> QED
    BY <1>13, <2>1, SameCount DEF FileClose, Goto
<1>14. ASSUME NEW p \in Proc, NEW n \in 1..MaxLen, StartRead(p, n) PROVE PipeTypeOK'
  BY <1>14, SameCount DEF StartRead, Goto
<1>15. ASSUME NEW p \in Proc, NEW n \in 1..MaxLen, NEW s \in [1..n -> Val],
              StartWrite(p, s)
       PROVE  PipeTypeOK'
  BY <1>15, SameCount DEF StartWrite, Goto
<1>16. CASE UNCHANGED vars
  BY <1>16, SameCount DEF vars
<1> QED
  BY <1>1, <1>2, <1>3, <1>4, <1>5, <1>6, <1>7, <1>8, <1>9, <1>10, <1>11, <1>12, <1>13,
     <1>14, <1>15, <1>16 DEF Next, InCall

\* Every step keeps calls on ends that are open.
LEMMA CallsStep == PipeInv /\ [Next]_vars => Calls'
<1> SUFFICES ASSUME PipeInv, [Next]_vars PROVE Calls'
  OBVIOUS
<1> USE DEF PipeInv, PipeTypeOK, pipeVars, callVars, InUse, Closing, End, Calls
<1>1. ASSUME NEW p \in Proc, PipeClose(p) PROVE Calls'
  BY <1>1, SameCount DEF PipeClose, WakeReaders, WakeWriters, Wake
<1>2. ASSUME NEW p \in Proc, Sleep(p) PROVE Calls'
  BY <1>2, SameCount DEF Sleep, Goto
<1>3. ASSUME NEW p \in Proc, WriteFail(p) PROVE Calls'
  BY <1>3, SameCount DEF WriteFail, Goto, PutBytes
<1>4. ASSUME NEW p \in Proc, WriteReturn(p) PROVE Calls'
  BY <1>4, SameCount DEF WriteReturn, WakeReaders, Wake, PutBytes
<1>5. ASSUME NEW p \in Proc, WriteFull(p) PROVE Calls'
  BY <1>5, SameCount DEF WriteFull, WakeReaders, Wake, PutBytes
<1>6. ASSUME NEW p \in Proc, ReadEmpty(p) PROVE Calls'
  BY <1>6, SameCount DEF ReadEmpty, Goto
<1>7. ASSUME NEW p \in Proc, Read(p) PROVE Calls'
  BY <1>7, SameCount DEF Read, WakeWriters, Wake
<1>8. ASSUME NEW p \in Proc, PipeAlloc(p) PROVE Calls'
  BY <1>8, SameCount DEF PipeAlloc
<1>9. ASSUME NEW p \in Proc, Start(p) PROVE Calls'
  BY <1>9, SameCount DEF Start, Goto
<1>10. ASSUME NEW p \in Proc, Exit(p) PROVE Calls'
  BY <1>10, SameCount DEF Exit, Goto
<1>11. ASSUME NEW p \in Proc, Kill(p) PROVE Calls'
  BY <1>11, SameCount DEF Kill, Goto
<1>12. ASSUME NEW p \in Proc, NEW q \in Proc, Fork(p, q) PROVE Calls'
  BY <1>12, SameCount DEF Fork, Goto
<1>13. ASSUME NEW p \in Proc, NEW f \in End, FileClose(p, f) PROVE Calls'
  BY <1>13, SameCount DEF FileClose, Goto
<1>14. ASSUME NEW p \in Proc, NEW n \in 1..MaxLen, StartRead(p, n) PROVE Calls'
  BY <1>14, SameCount DEF StartRead, Goto
<1>15. ASSUME NEW p \in Proc, NEW n \in 1..MaxLen, NEW s \in [1..n -> Val],
              StartWrite(p, s)
       PROVE  Calls'
  BY <1>15, SameCount DEF StartWrite, Goto
<1>16. CASE UNCHANGED vars
  BY <1>16, SameCount DEF vars
<1> QED
  BY <1>1, <1>2, <1>3, <1>4, <1>5, <1>6, <1>7, <1>8, <1>9, <1>10, <1>11, <1>12, <1>13,
     <1>14, <1>15, <1>16 DEF Next, InCall

\* Every step keeps pi->lock with who is about to sleep.
LEMMA LockStep == PipeInv /\ [Next]_vars => PiLock'
<1> SUFFICES ASSUME PipeInv, [Next]_vars PROVE PiLock'
  OBVIOUS
<1> USE DEF PipeInv, PipeTypeOK, pipeVars, callVars, InUse, Closing, End, PiLock
<1>1. ASSUME NEW p \in Proc, PipeClose(p) PROVE PiLock'
  BY <1>1, SameCount DEF PipeClose, WakeReaders, WakeWriters, Wake
<1>2. ASSUME NEW p \in Proc, Sleep(p) PROVE PiLock'
  BY <1>2, PipeAssumption DEF Sleep, WakeReaders, Wake, Goto
<1>3. ASSUME NEW p \in Proc, WriteFail(p) PROVE PiLock'
  BY <1>3, SameCount DEF WriteFail, Goto, PutBytes
<1>4. ASSUME NEW p \in Proc, WriteReturn(p) PROVE PiLock'
  BY <1>4, SameCount DEF WriteReturn, WakeReaders, Wake, PutBytes
<1>5. ASSUME NEW p \in Proc, WriteFull(p) PROVE PiLock'
  BY <1>5, PipeAssumption DEF WriteFull, WakeReaders, Wake, Goto
<1>6. ASSUME NEW p \in Proc, ReadEmpty(p) PROVE PiLock'
  BY <1>6, PipeAssumption DEF ReadEmpty, WakeReaders, Wake, Goto
<1>7. ASSUME NEW p \in Proc, Read(p) PROVE PiLock'
  BY <1>7, SameCount DEF Read, WakeWriters, Wake
<1>8. ASSUME NEW p \in Proc, PipeAlloc(p) PROVE PiLock'
  BY <1>8, SameCount DEF PipeAlloc
<1>9. ASSUME NEW p \in Proc, Start(p) PROVE PiLock'
  BY <1>9, SameCount DEF Start, Goto
<1>10. ASSUME NEW p \in Proc, Exit(p) PROVE PiLock'
  BY <1>10, SameCount DEF Exit, Goto
<1>11. ASSUME NEW p \in Proc, Kill(p) PROVE PiLock'
  BY <1>11, SameCount DEF Kill, Goto
<1>12. ASSUME NEW p \in Proc, NEW q \in Proc, Fork(p, q) PROVE PiLock'
  BY <1>12, SameCount DEF Fork, Goto
<1>13. ASSUME NEW p \in Proc, NEW f \in End, FileClose(p, f) PROVE PiLock'
  BY <1>13, SameCount DEF FileClose, Goto
<1>14. ASSUME NEW p \in Proc, NEW n \in 1..MaxLen, StartRead(p, n) PROVE PiLock'
  BY <1>14, SameCount DEF StartRead, Goto
<1>15. ASSUME NEW p \in Proc, NEW n \in 1..MaxLen, NEW s \in [1..n -> Val],
              StartWrite(p, s)
       PROVE  PiLock'
  BY <1>15, SameCount DEF StartWrite, Goto
<1>16. CASE UNCHANGED vars
  BY <1>16, SameCount DEF vars
<1> QED
  BY <1>1, <1>2, <1>3, <1>4, <1>5, <1>6, <1>7, <1>8, <1>9, <1>10, <1>11, <1>12, <1>13,
     <1>14, <1>15, <1>16 DEF Next, InCall

\* Every step keeps the sleepers' reasons true, or wakes them.
LEMMA AsleepStep == PipeInv /\ [Next]_vars => Asleep'
<1> SUFFICES ASSUME PipeInv, [Next]_vars PROVE Asleep'
  OBVIOUS
<1> USE DEF PipeInv, PipeTypeOK, pipeVars, callVars, InUse, Closing, End, PiLock,
  Asleep
<1>1. ASSUME NEW p \in Proc, PipeClose(p) PROVE Asleep'
  <2>1. \A q \in Proc : pc[q] \notin {"wgoing", "rgoing"}
    BY <1>1, NobodyGoing DEF PipeClose
  <2>2. Count' = Count
    BY <1>1, SameCount DEF PipeClose
  <2>3. CASE pc[p] = "closew"
    BY <1>1, <2>1, <2>2, <2>3 DEF PipeClose, WakeReaders, Wake
  <2>4. CASE pc[p] = "closer"
    BY <1>1, <2>1, <2>2, <2>4 DEF PipeClose, WakeWriters, Wake
  <2> QED
    BY <1>1, <2>3, <2>4 DEF PipeClose
<1>2. ASSUME NEW p \in Proc, Sleep(p) PROVE Asleep'
  BY <1>2, SameCount DEF Sleep, Goto
<1>3. ASSUME NEW p \in Proc, WriteFail(p) PROVE Asleep'
  <2>1. \A q \in Proc : pc[q] \notin {"wgoing", "rgoing"}
    BY <1>3, NobodyGoing DEF WriteFail
  <2>2. Count' \in Count..PIPESIZE /\ Count \in Nat /\ UNCHANGED <<readopen,
          writeopen>>
    BY <1>3, WriterCounts, CountRange, Sizes
  <2>5. Count = PIPESIZE => Count' = PIPESIZE
    BY <2>2, Sizes
  <2>3. \A q \in Proc : pc'[q] # pc[q] => pc'[q] \in {"idle", "read"}
    BY <1>3 DEF WriteFail, WakeReaders, Wake, Goto
  <2> QED
    BY <2>1, <2>2, <2>3, <2>5
<1>4. ASSUME NEW p \in Proc, WriteReturn(p) PROVE Asleep'
  <2>1. \A q \in Proc : pc[q] \notin {"wgoing", "rgoing"}
    BY <1>4, NobodyGoing DEF WriteReturn
  <2>2. Count' \in Count..PIPESIZE /\ Count \in Nat /\ UNCHANGED <<readopen,
          writeopen>>
    BY <1>4, WriterCounts, CountRange, Sizes
  <2>5. Count = PIPESIZE => Count' = PIPESIZE
    BY <2>2, Sizes
  <2>3. \A q \in Proc : pc'[q] # pc[q] => pc'[q] \in {"idle", "read"}
    BY <1>4 DEF WriteReturn, WakeReaders, Wake, Goto
  <2> QED
    BY <2>1, <2>2, <2>3, <2>5
<1>5. ASSUME NEW p \in Proc, WriteFull(p) PROVE Asleep'
  <2>1. \A q \in Proc : pc[q] \notin {"wgoing", "rgoing"}
    BY <1>5, NobodyGoing DEF WriteFull
  <2>2. Count' \in Count..PIPESIZE /\ Count \in Nat /\ UNCHANGED <<readopen,
          writeopen>>
    BY <1>5, WriterCounts, CountRange, Sizes
  <2>5. Count = PIPESIZE => Count' = PIPESIZE
    BY <2>2, Sizes
  <2>4. readopen /\ Count' = PIPESIZE
    BY <1>5, FullCount DEF WriteFull
  <2>3. \A q \in Proc : pc'[q] # pc[q] => pc'[q] \in {"idle", "read", "wgoing"}
    BY <1>5 DEF WriteFull, WakeReaders, Wake, Goto
  <2> QED
    BY <2>1, <2>2, <2>3, <2>4, <2>5
<1>6. ASSUME NEW p \in Proc, ReadEmpty(p) PROVE Asleep'
  BY <1>6, SameCount DEF ReadEmpty, Goto
<1>7. ASSUME NEW p \in Proc, Read(p) PROVE Asleep'
  <2>1. \A q \in Proc : pc[q] \notin {"wgoing", "rgoing"}
    BY <1>7, NobodyGoing DEF Read
  <2>2. \A q \in Proc : pc'[q] \notin {"wgoing", "rgoing", "wsleep"}
    BY <1>7, <2>1 DEF Read, WakeWriters, Wake
  <2>3. \A q \in Proc : pc'[q] = "rsleep" => pc[q] = "rsleep"
    BY <1>7 DEF Read, WakeWriters, Wake
  <2> QED
    BY <1>7, <2>2, <2>3 DEF Read
<1>8. ASSUME NEW p \in Proc, PipeAlloc(p) PROVE Asleep'
  <2>1. ~readopen /\ ~writeopen
    BY <1>8 DEF PipeAlloc, Ends
  <2>2. pc' = pc
    BY <1>8 DEF PipeAlloc
  <2> QED
    BY <2>1, <2>2
<1>9. ASSUME NEW p \in Proc, Start(p) PROVE Asleep'
  BY <1>9, SameCount DEF Start, Goto
<1>10. ASSUME NEW p \in Proc, Exit(p) PROVE Asleep'
  BY <1>10, SameCount DEF Exit, Goto
<1>11. ASSUME NEW p \in Proc, Kill(p) PROVE Asleep'
  BY <1>11, SameCount DEF Kill, Goto
<1>12. ASSUME NEW p \in Proc, NEW q \in Proc, Fork(p, q) PROVE Asleep'
  BY <1>12, SameCount DEF Fork, Goto
<1>13. ASSUME NEW p \in Proc, NEW f \in End, FileClose(p, f) PROVE Asleep'
  BY <1>13, SameCount DEF FileClose, Goto
<1>14. ASSUME NEW p \in Proc, NEW n \in 1..MaxLen, StartRead(p, n) PROVE Asleep'
  BY <1>14, SameCount DEF StartRead, Goto
<1>15. ASSUME NEW p \in Proc, NEW n \in 1..MaxLen, NEW s \in [1..n -> Val],
              StartWrite(p, s)
       PROVE  Asleep'
  BY <1>15, SameCount DEF StartWrite, Goto
<1>16. CASE UNCHANGED vars
  BY <1>16, SameCount DEF vars
<1> QED
  BY <1>1, <1>2, <1>3, <1>4, <1>5, <1>6, <1>7, <1>8, <1>9, <1>10, <1>11, <1>12, <1>13,
     <1>14, <1>15, <1>16 DEF Next, InCall

\* Every step keeps references, ends and the page together.
LEMMA EndsStep == PipeTypeOK /\ Calls /\ Asleep /\ Ends /\ [Next]_vars => Ends'
<1> SUFFICES ASSUME PipeTypeOK, Calls, Asleep, Ends, [Next]_vars PROVE Ends'
  OBVIOUS
<1> USE DEF pipeVars, callVars, InUse
<1>1. ASSUME NEW p \in Proc, PipeClose(p) PROVE Ends'
  <2>1. PICK f \in End : pc[p] = Closing[f]
    BY <1>1 DEF PipeClose, Closing, End, PipeTypeOK
  <2>2. p \in Closers(f)
    BY <2>1 DEF Closers
  <2>3. ref[f] = 0 /\ Closers(f) = {p}
    BY <2>2 DEF Ends, EndOK
  <2>4. /\ \A g \in End : IsOpen(g)' <=> IsOpen(g) /\ g # f
        /\ live' <=> readopen' \/ writeopen'
    BY <1>1, <2>1 DEF PipeClose, IsOpen, End, Closing, PipeTypeOK
  <2>5. UNCHANGED <<ref, fds>>
    BY <1>1 DEF PipeClose, PipeTypeOK
  <2>6. pc'[p] = "idle" /\ \A q \in Proc \ {p} :
          pc'[q] # pc[q] => {pc[q], pc'[q]} \cap {"closer", "closew"} = {}
    BY <1>1 DEF PipeClose, WakeReaders, WakeWriters, Wake, PipeTypeOK
  <2>7. \A g \in End : Closing[g] \in {"closer", "closew"} /\ (g # f => pc[p] # Closing[g])
    BY <2>1 DEF Closing, End
  <2>8. \A g \in End : \A q \in Proc :
          pc'[q] = Closing[g] <=> pc[q] = Closing[g] /\ q # p
    BY <2>6, <2>7
  <2>9. \A g \in End : Closers(g)' = Closers(g) \ {p}
    BY <2>8 DEF Closers
  <2>10. \A g \in End : g # f => p \notin Closers(g)
    BY <2>7 DEF Closers
  <2>11. \A g \in End : Holders(g)' = Holders(g)
    BY <2>5 DEF Holders
  <2>12. EndOK(f)'
    <3>1. EndOK(f)
      BY DEF Ends
    <3> QED
      BY <2>3, <2>4, <2>5, <2>9, <2>11, <3>1 DEF EndOK
  <2>13. ASSUME NEW g \in End, g # f PROVE EndOK(g)'
    <3>1. EndOK(g) /\ Closers(g)' = Closers(g)
      BY <2>9, <2>10, <2>13 DEF Ends
    <3> QED
      BY <2>4, <2>5, <2>11, <2>13, <3>1 DEF EndOK
  <2> QED
    BY <2>4, <2>12, <2>13 DEF Ends
<1>2. ASSUME NEW p \in Proc, Sleep(p) PROVE Ends'
  <2>1. UNCHANGED <<ref, fds, readopen, writeopen, live>>
    BY <1>2 DEF Sleep
  <2>2. \A q \in Proc : pc'[q] # pc[q] => {pc[q], pc'[q]} \cap {"closer", "closew"} = {}
    BY <1>2 DEF Sleep, Goto, PipeTypeOK
  <2> QED
    BY <2>1, <2>2, EndsKept
<1>3. ASSUME NEW p \in Proc, WriteFail(p) PROVE Ends'
  <2>1. UNCHANGED <<ref, fds, readopen, writeopen, live>>
    BY <1>3, WriterCounts DEF WriteFail
  <2>2. \A q \in Proc : pc'[q] # pc[q] => {pc[q], pc'[q]} \cap {"closer", "closew"} = {}
    BY <1>3 DEF WriteFail, Goto, PutBytes, PipeTypeOK
  <2> QED
    BY <2>1, <2>2, EndsKept
<1>4. ASSUME NEW p \in Proc, WriteReturn(p) PROVE Ends'
  <2>1. UNCHANGED <<ref, fds, readopen, writeopen, live>>
    BY <1>4, WriterCounts DEF WriteReturn
  <2>2. \A q \in Proc : pc'[q] # pc[q] => {pc[q], pc'[q]} \cap {"closer", "closew"} = {}
    BY <1>4 DEF WriteReturn, WakeReaders, Wake, PutBytes, PipeTypeOK
  <2> QED
    BY <2>1, <2>2, EndsKept
<1>5. ASSUME NEW p \in Proc, WriteFull(p) PROVE Ends'
  <2>1. UNCHANGED <<ref, fds, readopen, writeopen, live>>
    BY <1>5, WriterCounts DEF WriteFull
  <2>2. \A q \in Proc : pc'[q] # pc[q] => {pc[q], pc'[q]} \cap {"closer", "closew"} = {}
    BY <1>5 DEF WriteFull, WakeReaders, Wake, PutBytes, PipeTypeOK
  <2> QED
    BY <2>1, <2>2, EndsKept
<1>6. ASSUME NEW p \in Proc, ReadEmpty(p) PROVE Ends'
  <2>1. UNCHANGED <<ref, fds, readopen, writeopen, live>>
    BY <1>6 DEF ReadEmpty
  <2>2. \A q \in Proc : pc'[q] # pc[q] => {pc[q], pc'[q]} \cap {"closer", "closew"} = {}
    BY <1>6 DEF ReadEmpty, Goto, PipeTypeOK
  <2> QED
    BY <2>1, <2>2, EndsKept
<1>7. ASSUME NEW p \in Proc, Read(p) PROVE Ends'
  <2>1. UNCHANGED <<ref, fds, readopen, writeopen, live>>
    BY <1>7 DEF Read
  <2>2. \A q \in Proc : pc'[q] # pc[q] => {pc[q], pc'[q]} \cap {"closer", "closew"} = {}
    BY <1>7 DEF Read, WakeWriters, Wake, PipeTypeOK
  <2> QED
    BY <2>1, <2>2, EndsKept
<1>8. ASSUME NEW p \in Proc, PipeAlloc(p) PROVE Ends'
  <2>1. ASSUME NEW f \in End
        PROVE  /\ ref'[f] = 1 /\ Holders(f)' = {p} /\ IsOpen(f)' /\ Closers(f)' = {}
    <3>1. \A q \in Proc : f \notin fds[q]
      BY <1>8, HolderCounted DEF PipeAlloc, PipeTypeOK
    <3>2. Holders(f)' = {p}
      BY <1>8, <3>1 DEF PipeAlloc, Holders, PipeTypeOK
    <3>3. Closers(f) = {}
      BY <1>8 DEF PipeAlloc, Ends, EndOK, IsOpen, PipeTypeOK
    <3>4. Closers(f)' = Closers(f)
      BY <1>8 DEF PipeAlloc, Closers, PipeTypeOK
    <3> QED
      BY <1>8, <3>2, <3>3, <3>4 DEF PipeAlloc, IsOpen, PipeTypeOK
  <2>2. Cardinality({p}) = 1
    BY FS_Singleton
  <2>3. live' /\ readopen' /\ writeopen'
    BY <1>8 DEF PipeAlloc, PipeTypeOK
  <2>4. \A f \in End : EndOK(f)'
    BY <2>1, <2>2 DEF EndOK
  <2> QED
    BY <2>3, <2>4 DEF Ends
<1>9. ASSUME NEW p \in Proc, Start(p) PROVE Ends'
  <2>1. UNCHANGED <<ref, fds, readopen, writeopen, live>>
    BY <1>9 DEF Start
  <2>2. \A q \in Proc : pc'[q] # pc[q] => {pc[q], pc'[q]} \cap {"closer", "closew"} = {}
    BY <1>9 DEF Start, Goto, PipeTypeOK
  <2> QED
    BY <2>1, <2>2, EndsKept
<1>10. ASSUME NEW p \in Proc, Exit(p) PROVE Ends'
  <2>1. UNCHANGED <<ref, fds, readopen, writeopen, live>>
    BY <1>10 DEF Exit
  <2>2. \A q \in Proc : pc'[q] # pc[q] => {pc[q], pc'[q]} \cap {"closer", "closew"} = {}
    BY <1>10 DEF Exit, Goto, PipeTypeOK
  <2> QED
    BY <2>1, <2>2, EndsKept
<1>11. ASSUME NEW p \in Proc, Kill(p) PROVE Ends'
  <2>1. UNCHANGED <<ref, fds, readopen, writeopen, live>>
    BY <1>11 DEF Kill
  <2>2. \A q \in Proc : pc'[q] # pc[q] => {pc[q], pc'[q]} \cap {"closer", "closew"} = {}
    BY <1>11 DEF Kill, Goto, PipeTypeOK
  <2> QED
    BY <2>1, <2>2, EndsKept
<1>12. ASSUME NEW p \in Proc, NEW q \in Proc, Fork(p, q) PROVE Ends'
  <2>1. fds[q] = {} /\ p # q
    BY <1>12 DEF Fork, Calls, PipeTypeOK
  <2>2. ASSUME NEW f \in End
        PROVE  Closers(f)' = Closers(f) /\ (IsOpen(f)' <=> IsOpen(f))
    <3>1. \A r \in Proc : pc'[r] = Closing[f] <=> pc[r] = Closing[f]
      BY <1>12 DEF Fork, Goto, Closing, End, PipeTypeOK
    <3> QED
      BY <1>12, <3>1 DEF Fork, Closers, IsOpen, PipeTypeOK
  <2>3. ASSUME NEW f \in End
        PROVE  ref'[f] = Cardinality(Holders(f)') /\ (ref'[f] > 0 <=> ref[f] > 0)
    <3>1. /\ IsFiniteSet(Holders(f)) /\ ref[f] \in Nat /\ ref[f] = Cardinality(Holders(f))
          /\ f \in fds[p] => ref[f] > 0
      BY HolderCounted DEF Ends, EndOK
    <3>2. CASE f \in fds[p]
      <4>1. Holders(f)' = Holders(f) \cup {q} /\ q \notin Holders(f)
        BY <1>12, <2>1, <3>2 DEF Fork, Holders, PipeTypeOK
      <4>2. ref'[f] = ref[f] + 1
        BY <1>12, <3>2 DEF Fork, PipeTypeOK
      <4> QED
        <5>1. Cardinality(Holders(f) \cup {q}) = Cardinality(Holders(f)) + 1
          BY <3>1, <4>1, FS_AddElement
        <5> QED
          BY <3>1, <3>2, <4>1, <4>2, <5>1
    <3>3. CASE f \notin fds[p]
      <4>1. Holders(f)' = Holders(f)
        BY <1>12, <2>1, <3>3 DEF Fork, Holders, PipeTypeOK
      <4>2. ref'[f] = ref[f]
        BY <1>12, <3>3, <3>1 DEF Fork, PipeTypeOK
      <4> QED
        BY <3>1, <4>1, <4>2
    <3> QED
      BY <3>2, <3>3
  <2>4. UNCHANGED <<readopen, writeopen, live>> /\ ref' \in [End -> Nat]
    BY <1>12 DEF Fork, PipeTypeOK
  <2>5. ASSUME NEW f \in End PROVE EndOK(f)'
    <3>1. EndOK(f) /\ ref[f] \in Nat /\ ref'[f] \in Nat
      BY <2>4 DEF Ends, PipeTypeOK
    <3> QED
      BY <2>2, <2>3, <3>1 DEF EndOK
  <2> QED
    BY <2>4, <2>5 DEF Ends
<1>13. ASSUME NEW p \in Proc, NEW f \in End, FileClose(p, f) PROVE Ends'
  <2>1. /\ IsFiniteSet(Holders(f)) /\ ref[f] \in Nat /\ ref[f] > 0
        /\ ref[f] = Cardinality(Holders(f)) /\ Closers(f) = {} /\ IsOpen(f)
    BY <1>13, HolderCounted DEF FileClose, Ends, EndOK, PipeTypeOK
  <2>2. Holders(f)' = Holders(f) \ {p} /\ p \in Holders(f)
    BY <1>13 DEF FileClose, Holders, PipeTypeOK
  <2>3. ref'[f] = ref[f] - 1 /\ ref'[f] = Cardinality(Holders(f)')
    BY <1>13, <2>1, <2>2, FS_RemoveElement DEF FileClose, PipeTypeOK
  <2>4. UNCHANGED <<readopen, writeopen,
          live>> /\ \A g \in End : IsOpen(g)' <=> IsOpen(g)
    BY <1>13 DEF FileClose, IsOpen, PipeTypeOK
  <2>5. /\ ref[f] = 1 => pc'[p] = Closing[f]
        /\ ref[f] # 1 => pc'[p] = "idle"
        /\ pc[p] = "idle" /\ \A q \in Proc \ {p} : pc'[q] = pc[q]
    BY <1>13 DEF FileClose, Goto, PipeTypeOK
  <2>6. \A g, h \in End : Closing[g] # "idle" /\ (Closing[g] = Closing[h] => g = h)
    BY DEF Closing, End
  <2>7. Closers(f)' = IF ref[f] = 1 THEN {p} ELSE {}
    BY <2>1, <2>5, <2>6 DEF Closers
  <2>8. ASSUME NEW g \in End, g # f
        PROVE  Closers(g)' = Closers(g) /\ Holders(g)' = Holders(g) /\ ref'[g] = ref[g]
    <3>1. Closers(g)' = Closers(g)
      BY <2>5, <2>6, <2>8 DEF Closers
    <3>2. Holders(g)' = Holders(g) /\ ref'[g] = ref[g]
      BY <1>13, <2>8 DEF FileClose, Holders, PipeTypeOK
    <3> QED
      BY <3>1, <3>2
  <2>9. EndOK(f)'
    BY <2>1, <2>3, <2>4, <2>7 DEF EndOK
  <2>10. ASSUME NEW g \in End, g # f PROVE EndOK(g)'
    <3>1. EndOK(g)
      BY DEF Ends
    <3> QED
      BY <2>4, <2>8, <2>10, <3>1 DEF EndOK
  <2> QED
    BY <2>4, <2>9, <2>10 DEF Ends
<1>14. ASSUME NEW p \in Proc, NEW n \in 1..MaxLen, StartRead(p, n) PROVE Ends'
  <2>1. UNCHANGED <<ref, fds, readopen, writeopen, live>>
    BY <1>14 DEF StartRead
  <2>2. \A q \in Proc : pc'[q] # pc[q] => {pc[q], pc'[q]} \cap {"closer", "closew"} = {}
    BY <1>14 DEF StartRead, Goto, PipeTypeOK
  <2> QED
    BY <2>1, <2>2, EndsKept
<1>15. ASSUME NEW p \in Proc, NEW n \in 1..MaxLen, NEW s \in [1..n -> Val],
              StartWrite(p, s)
       PROVE  Ends'
  <2>1. UNCHANGED <<ref, fds, readopen, writeopen, live>>
    BY <1>15 DEF StartWrite
  <2>2. \A q \in Proc : pc'[q] # pc[q] => {pc[q], pc'[q]} \cap {"closer", "closew"} = {}
    BY <1>15 DEF StartWrite, Goto, PipeTypeOK
  <2> QED
    BY <2>1, <2>2, EndsKept
<1>16. CASE UNCHANGED vars
  BY <1>16, EndsKept DEF vars
<1> QED
  BY <1>1, <1>2, <1>3, <1>4, <1>5, <1>6, <1>7, <1>8, <1>9, <1>10, <1>11, <1>12, <1>13,
     <1>14, <1>15, <1>16 DEF Next, InCall

-----------------------------------------------------------------------------
(***************************************************************************)
(* The ring                                                                *)
(***************************************************************************)

\* The place of the ith byte of the ring, and of the bytes behind the last one.
LEMMA RingPlace ==
    ASSUME PipeTypeOK, NEW i \in 1..PIPESIZE
    PROVE  /\ (nread + i - 1) % PIPESIZE \in 0..PIPESIZE-1
           /\ (((nread + i - 1) % PIPESIZE) - nwrite) % PIPESIZE =
                IF i <= Count THEN i - 1 - Count + PIPESIZE ELSE i - 1 - Count
<1> DEFINE e == i - 1 - Count
<1>1. /\ nread \in Int /\ nwrite \in Int /\ -nwrite \in Int /\ nread + i - 1 \in Int
      /\ UINT \in Nat
  BY Sizes DEF PipeTypeOK
<1>2. e \in Int /\ Count \in 0..PIPESIZE
  BY CountRange, Sizes
<1>3. (((nread + i - 1) % PIPESIZE) + (-nwrite)) % PIPESIZE
        = (nread + i - 1 + (-nwrite)) % PIPESIZE
  BY <1>1, Sizes, ModAdd, Zenon
<1>4. (nread + i - 1 + (-nwrite)) % PIPESIZE = e % PIPESIZE
  <2>1. nread + i - 1 + (-nwrite) \in {e, e + UINT}
    BY <1>1, <1>2, CountRange
  <2>2. (e + UINT) % PIPESIZE = e % PIPESIZE
    BY <1>1, <1>2, Sizes, ModShift
  <2> QED
    BY <2>1, <2>2
<1>5. (nread + i - 1) % PIPESIZE \in 0..PIPESIZE-1
  BY <1>1, Sizes, DivMod
<1>6. (((nread + i - 1) % PIPESIZE) - nwrite) % PIPESIZE = e % PIPESIZE
  <2>1. ((nread + i - 1) % PIPESIZE) + (-nwrite) = ((nread + i - 1) % PIPESIZE) - nwrite
    BY <1>1, <1>5
  <2> QED
    BY <1>3, <1>4, <2>1
<1>7. CASE i <= Count
  <2>1. PIPESIZE % PIPESIZE = 0
    BY Sizes
  <2>2. (e + PIPESIZE) % PIPESIZE = e % PIPESIZE
    BY <1>2, <2>1, Sizes, ModShift
  <2>3. e + PIPESIZE \in 0..PIPESIZE-1
    BY <1>2, <1>7, Sizes
  <2>4. (e + PIPESIZE) % PIPESIZE = e + PIPESIZE
    BY <2>3, Sizes, ModSmall
  <2> QED
    BY <1>5, <1>6, <1>7, <2>2, <2>4
<1>8. CASE ~(i <= Count)
  <2>1. e \in 0..PIPESIZE-1
    BY <1>2, <1>8, Sizes
  <2>2. e % PIPESIZE = e
    BY <2>1, Sizes, ModSmall
  <2> QED
    BY <1>5, <1>6, <1>8, <2>2
<1> QED
  BY <1>7, <1>8

\* Bytes that are put in come behind those that are there.
LEMMA PutAppends ==
    ASSUME PipeTypeOK, NEW p \in Proc, NEW k \in 0..Room, k <= Len(buf[p]),
      PutBytes(p, k)
    PROVE  FirstBytes(Count)' = FirstBytes(Count) \o [i \in 1..k |-> buf[p][i]]
<1> DEFINE s == [i \in 1..k |-> buf[p][i]]
           b == FirstBytes(Count)
           c == FirstBytes(Count)'
<1>1. /\ Count \in 0..PIPESIZE /\ k \in Nat /\ Count + k <= PIPESIZE
      /\ Count' = Count + k
  BY CountRange, PutCount, Sizes DEF Room
<1>2. /\ data \in [0..PIPESIZE-1 -> Val] /\ data' \in [0..PIPESIZE-1 -> Val]
      /\ buf[p] \in Seq(Val) /\ nread' = nread
  BY PutCount DEF PipeTypeOK, PutBytes
<1>3. ASSUME NEW i \in 1..PIPESIZE
      PROVE  /\ data[(nread + i - 1) % PIPESIZE] \in Val
             /\ data'[(nread + i - 1) % PIPESIZE] \in Val
  BY <1>2, <1>3, RingPlace
<1>4. s \in Seq(Val) /\ Len(s) = k
  <2>1. \A i \in 1..k : buf[p][i] \in Val
    BY <1>1, <1>2
  <2> QED
    BY <1>1, <2>1
<1>5. b \in Seq(Val) /\ Len(b) = Count
  BY <1>1, <1>3, Sizes DEF FirstBytes
<1>6. c \in Seq(Val) /\ Len(c) = Count + k
  <2>1. c = [i \in 1..Count + k |-> data'[(nread + i - 1) % PIPESIZE]]
    BY <1>1, <1>2 DEF FirstBytes
  <2> QED
    BY <1>1, <1>3, <2>1, Sizes
<1>7. ASSUME NEW i \in 1..Count + k
      PROVE  c[i] = IF i <= Count THEN b[i] ELSE s[i - Count]
  <2> DEFINE j == (nread + i - 1) % PIPESIZE
             d == (j - nwrite) % PIPESIZE
  <2>1. i \in 1..PIPESIZE
    BY <1>1, Sizes
  <2>2. j \in 0..PIPESIZE-1 /\ d = IF i <= Count THEN i - 1 - Count + PIPESIZE ELSE i - 1 - Count
    BY <2>1, RingPlace
  <2>3. c[i] = data'[j]
    BY <1>1, <1>2 DEF FirstBytes
  <2>4. data'[j] = IF d < k THEN buf[p][d + 1] ELSE data[j]
    BY <2>2 DEF PutBytes
  <2>5. CASE i <= Count
    <3>1. b[i] = data[j]
      BY <1>1, <2>5, Sizes DEF FirstBytes
    <3>2. ~(d < k)
      BY <1>1, <2>2, <2>5, Sizes
    <3> QED
      BY <2>3, <2>4, <2>5, <3>1, <3>2
  <2>6. CASE ~(i <= Count)
    <3>1. d < k /\ d + 1 = i - Count /\ i - Count \in 1..k
      BY <1>1, <2>2, <2>6, Sizes
    <3> HIDE DEF d
    <3>2. s[i - Count] = buf[p][i - Count]
      BY <3>1
    <3> QED
      BY <2>3, <2>4, <2>6, <3>1, <3>2
  <2> QED
    BY <2>5, <2>6
<1> HIDE DEF s, b, c
<1>8. /\ b \o s \in Seq(Val) /\ Len(b \o s) = Count + k
      /\ \A i \in 1..Count + k : (b \o s)[i] = IF i <= Count THEN b[i] ELSE s[i - Count]
  BY <1>4, <1>5, ConcatProperties
<1>9. c = b \o s
  BY <1>6, <1>7, <1>8, SeqEqual
<1> QED
  BY <1>9 DEF s, b, c

\* Bytes that are taken out are the first ones.
LEMMA TakeRemoves ==
    ASSUME PipeTypeOK, NEW k \in 0..Count, nread' = (nread + k) % UINT,
           nwrite' = nwrite, data' = data
    PROVE  FirstBytes(Count)' = SubSeq(FirstBytes(Count), k + 1, Count)
<1> DEFINE b == FirstBytes(Count)
           c == FirstBytes(Count)'
<1>1. /\ Count \in 0..PIPESIZE /\ k \in Nat /\ k <= Count
      /\ Count' = Count - k
  BY CountRange, TakeCount, Sizes
<1>2. ASSUME NEW i \in 1..PIPESIZE
      PROVE  data[(nread + i - 1) % PIPESIZE] \in Val
  BY RingPlace DEF PipeTypeOK
<1>3. b \in Seq(Val) /\ Len(b) = Count
  BY <1>1, <1>2, Sizes DEF FirstBytes
<1>4. ASSUME NEW i \in 1..Count - k
      PROVE  c[i] = b[k + i] /\ c[i] \in Val
  <2>1. /\ nread \in 0..UINT-1 /\ nread + k + i - 1 \in Int
        /\ k + i \in 1..Count /\ k + i \in 1..PIPESIZE
    BY <1>1, Sizes DEF PipeTypeOK
  <2>2. (nread' + i - 1) % PIPESIZE = (nread + k + i - 1) % PIPESIZE
    <3>1. nread' \in {nread + k, nread + k - UINT}
      <4>1. CASE nread + k < UINT
        BY <1>1, <2>1, <4>1, Sizes, ModSmall
      <4>2. CASE ~(nread + k < UINT)
        <5>1. nread + k - UINT \in 0..UINT-1 /\ nread + k \in Int
          BY <1>1, <2>1, <4>2, Sizes
        <5>2. UINT % UINT = 0 /\ UINT \in Nat
          BY Sizes
        <5>3. (nread + k - UINT + UINT) % UINT = (nread + k - UINT) % UINT
          BY <5>1, <5>2, Sizes, ModShift
        <5>5. nread + k - UINT + UINT = nread + k
          BY <1>1, <2>1, <5>2
        <5>4. (nread + k - UINT) % UINT = nread + k - UINT
          BY <5>1, Sizes, ModSmall
        <5> QED
          BY <1>1, <5>3, <5>4, <5>5
      <4> QED
        BY <4>1, <4>2
    <3>0. UINT \in Nat
      BY Sizes
    <3>2. (nread + k + i - 1 - UINT + UINT) % PIPESIZE
            = (nread + k + i - 1 - UINT) % PIPESIZE
      <4>1. nread + k + i - 1 - UINT \in Int
        BY <2>1, <3>0
      <4> QED
        BY <3>0, <4>1, Sizes, ModShift
    <3>4. nread + k + i - 1 - UINT + UINT = nread + k + i - 1
      BY <2>1, <3>0
    <3>3. nread' + i - 1 \in {nread + k + i - 1, nread + k + i - 1 - UINT}
      BY <1>1, <2>1, <3>1, Sizes
    <3> QED
      BY <3>2, <3>3, <3>4
  <2>3. c[i] = data[(nread + k + i - 1) % PIPESIZE]
    BY <1>1, <2>2 DEF FirstBytes
  <2>4. b[k + i] = data[(nread + k + i - 1) % PIPESIZE]
    <3>1. nread + (k + i) - 1 = nread + k + i - 1
      BY <1>1, <2>1
    <3> QED
      BY <2>1, <3>1 DEF FirstBytes
  <2>5. b[k + i] \in Val
    BY <1>3, <2>1, ElementOfSeq
  <2> QED
    BY <2>3, <2>4, <2>5
<1>5. c \in Seq(Val) /\ Len(c) = Count - k
  <2>1. c = [i \in 1..Count - k |-> c[i]]
    BY <1>1 DEF FirstBytes
  <2>2. Count - k \in Nat
    BY <1>1
  <2> HIDE DEF c
  <2> QED
    BY <1>4, <2>1, <2>2
<1> HIDE DEF b, c
<1>6. /\ SubSeq(b, k + 1, Count) \in Seq(Val) /\ Len(SubSeq(b, k + 1, Count)) = Count - k
      /\ \A i \in 1..Count - k : SubSeq(b, k + 1, Count)[i] = b[k + i]
  <2>1. \A i \in k + 1..Count : b[i] \in Val
    BY <1>1, <1>3, ElementOfSeq
  <2>2. k + 1 \in Int /\ Count \in Int /\ Count - (k + 1) + 1 = Count - k
    BY <1>1
  <2>3. /\ SubSeq(b, k + 1, Count) \in Seq(Val)
        /\ Len(SubSeq(b, k + 1, Count)) =
             IF k + 1 <= Count THEN Count - (k + 1) + 1 ELSE 0
        /\ \A i \in 1..Count - (k + 1) + 1 : SubSeq(b, k + 1, Count)[i] = b[k + 1 + i - 1]
    BY <2>1, <2>2, SubSeqProperties
  <2>4. \A i \in 1..Count - k : k + 1 + i - 1 = k + i
    BY <1>1
  <2> QED
    BY <1>1, <2>2, <2>3, <2>4
<1>7. c = SubSeq(b, k + 1, Count)
  BY <1>4, <1>5, <1>6, SeqEqual
<1> QED
  BY <1>7 DEF b, c

-----------------------------------------------------------------------------
(***************************************************************************)
(* The theorems                                                            *)
(***************************************************************************)

\* The invariant holds at the start,
LEMMA InitInv == Init => PipeInv
<1> SUFFICES ASSUME Init PROVE PipeInv
  OBVIOUS
<1>1. PipeTypeOK
  <2>1. data \in [0..PIPESIZE-1 -> Val]
    <3>1. (CHOOSE v \in Val : TRUE) \in Val
      BY PipeAssumption
    <3> QED
      BY <3>1 DEF Init, Junk
  <2>2. /\ nread \in 0..UINT-1 /\ nwrite \in 0..UINT-1 /\ Count <= PIPESIZE
        /\ 0 \in 0..MaxLen
    <3>1. nread = 0 /\ nwrite = 0 /\ 0 \in 0..UINT-1 /\ 0 \in 0..MaxLen
      BY Sizes, PipeAssumption DEF Init
    <3>2. Count = 0
      BY <3>1, Sizes, ModSmall DEF Count
    <3> QED
      BY <3>1, <3>2, Sizes
  <2>3. buf \in [Proc -> Seq(Val)]
    BY DEF Init
  <2>4. /\ ref \in [End -> Nat] /\ fds \in [Proc -> SUBSET End]
        /\ want \in [Proc -> 0..MaxLen] /\ killed \in [Proc -> BOOLEAN]
        /\ lock \in Proc \cup {NoProc}
        /\ readopen \in BOOLEAN /\ writeopen \in BOOLEAN /\ live \in BOOLEAN
    BY <2>2 DEF Init
  <2>5. pc \in [Proc -> {"none", "idle", "closer", "closew"} \cup InUse]
    BY DEF Init
  <2> QED
    BY <2>1, <2>2, <2>3, <2>4, <2>5 DEF PipeTypeOK
<1>2. Calls /\ PiLock /\ Asleep
  BY PipeAssumption DEF Init, Calls, PiLock, Asleep
<1>3. Ends
  <2>1. \A f \in End : ref[f] = 0 /\ ~IsOpen(f) /\ Holders(f) = {} /\ Closers(f) = {}
    BY DEF Init, IsOpen, Holders, Closers, Closing, End
  <2> QED
    BY <2>1, FS_EmptySet DEF Init, Ends, EndOK
<1> QED
  BY <1>1, <1>2, <1>3 DEF PipeInv

\* and every step keeps it.
LEMMA InvStep == PipeInv /\ [Next]_vars => PipeInv'
BY TypeStep, CallsStep, LockStep, AsleepStep, EndsStep DEF PipeInv

\* The parts together are an invariant of fork, close, kill, pipewrite() and
\* piperead(), for every number of processes and every size of the ring that
\* divides the range of its counters.
THEOREM PipeInvariant == Spec => []PipeInv
BY InitInv, InvStep, PTL DEF Spec

\* Every variable keeps its type; the ring never holds more than its size.
THEOREM TypeCorrect == Spec => []PipeTypeOK
<1>1. PipeInv => PipeTypeOK
  BY DEF PipeInv
<1> QED
  BY <1>1, PipeInvariant, PTL

\* References count descriptors, each end is closed once, and nobody is in a pipe
\* whose page is free (file.c:58, pipe.c:58).
THEOREM EndsAreCounted == Spec => []EndsCounted
<1>1. PipeInv => EndsCounted
  <2> SUFFICES ASSUME PipeInv PROVE EndsCounted
    OBVIOUS
  <2>1. ASSUME NEW f \in End
        PROVE  /\ ref[f] = Cardinality({p \in Proc : f \in fds[p]})
               /\ LET open == IF f = "r" THEN readopen ELSE writeopen
                      closing == Cardinality({p \in Proc : pc[p] = Closing[f]})
                  IN IF open THEN (ref[f] > 0) # (closing = 1) /\ closing <= 1
                             ELSE ref[f] = 0 /\ closing = 0
    <3>1. EndOK(f)
      BY DEF PipeInv, Ends
    <3>2. /\ Closers(f) = {} => Cardinality(Closers(f)) = 0
          /\ \A p \in Proc : Closers(f) = {p} => Cardinality(Closers(f)) = 1
      BY FS_EmptySet, FS_Singleton
    <3> QED
      BY <3>1, <3>2 DEF EndOK, Holders, Closers, IsOpen
  <2>2. ASSUME ~live, NEW p \in Proc PROVE pc[p] \in {"none", "idle"} /\ fds[p] = {}
    <3>1. \A f \in End : ~IsOpen(f)
      BY <2>2 DEF PipeInv, Ends, IsOpen
    <3>2. \A f \in End : ref[f] = 0 /\ Closers(f) = {}
      BY <3>1 DEF PipeInv, Ends, EndOK, PipeTypeOK
    <3>3. fds[p] = {}
      <4>1. \A f \in End : f \notin fds[p]
        BY <3>2, HolderCounted DEF PipeInv
      <4>2. fds[p] \subseteq End
        BY DEF PipeInv, PipeTypeOK
      <4> QED
        BY <4>1, <4>2
    <3>4. pc[p] # "closer" /\ pc[p] # "closew"
      BY <3>2 DEF Closers, Closing, End
    <3> QED
      BY <3>3, <3>4 DEF PipeInv, PipeTypeOK, Calls, InUse
  <2> QED
    BY <2>1, <2>2 DEF EndsCounted
<1> QED
  BY <1>1, PipeInvariant, PTL

\* No lost wakeup of a writer: it sleeps on a full pipe only (pipe.c:88-90).
THEOREM WritersSleepOnFull == Spec => []WriterSleepsOnFull
<1>1. PipeInv => WriterSleepsOnFull
  BY DEF PipeInv, Asleep, WriterSleepsOnFull
<1> QED
  BY <1>1, PipeInvariant, PTL

\* A reader falls asleep in sleep() only, on a pipe that it has found empty.
LEMMA StartsToSleep ==
    ASSUME PipeInv, Next, NEW p \in Proc, pc[p] # "rsleep", pc'[p] = "rsleep"
    PROVE  pc[p] = "rgoing" /\ UNCHANGED <<nread, nwrite>>
<1>1. PICK q \in Proc :
        \/ InCall(q)
        \/ PipeAlloc(q) \/ Start(q) \/ Exit(q) \/ Kill(q)
        \/ \E r \in Proc : Fork(q, r)
        \/ \E f \in End : FileClose(q, f)
        \/ \E n \in 1..MaxLen : \/ StartRead(q, n)
                                \/ \E s \in [1..n -> Val] : StartWrite(q, s)
  BY DEF Next
<1>2. pc \in [Proc -> {"none", "idle", "closer", "closew"} \cup InUse]
  BY DEF PipeInv, PipeTypeOK
<1>3. CASE Sleep(q)
  BY <1>2, <1>3 DEF Sleep, Goto, pipeVars
<1>4. CASE PipeAlloc(q) \/ Start(q) \/ Exit(q) \/ Kill(q) \/ ReadEmpty(q) \/ WriteFail(q)
  BY <1>2, <1>4 DEF PipeAlloc, Start, Exit, Kill, ReadEmpty, WriteFail, Goto
<1>5. CASE PipeClose(q) \/ WriteReturn(q) \/ WriteFull(q) \/ Read(q)
  BY <1>2, <1>5
     DEF PipeClose, WriteReturn, WriteFull, Read, WakeReaders, WakeWriters, Wake
<1>6. ASSUME NEW r \in Proc, Fork(q, r) PROVE FALSE
  BY <1>2, <1>6 DEF Fork, Goto
<1>7. ASSUME NEW f \in End, FileClose(q, f) PROVE FALSE
  BY <1>2, <1>7 DEF FileClose, Goto, Closing, End
<1>8. ASSUME NEW n \in 1..MaxLen, StartRead(q, n) PROVE FALSE
  BY <1>2, <1>8 DEF StartRead, Goto
<1>9. ASSUME NEW n \in 1..MaxLen, NEW s \in [1..n -> Val], StartWrite(q, s)
      PROVE  FALSE
  BY <1>2, <1>9 DEF StartWrite, Goto
<1> QED
  BY <1>1, <1>3, <1>4, <1>5, <1>6, <1>7, <1>8, <1>9 DEF InCall

\* A reader that stays asleep has been passed over by killed writers only.
LEMMA StaysAsleep ==
    ASSUME PipeInv, Next, NEW p \in Proc, pc[p] = "rsleep", pc'[p] = "rsleep"
    PROVE  nwrite' = nwrite \/ \E w \in Proc : pc[w] = "write" /\ killed[w]
<1> SUFFICES ASSUME nwrite' # nwrite
             PROVE  \E w \in Proc : pc[w] = "write" /\ killed[w]
  OBVIOUS
<1>1. PICK q \in Proc : WriteFail(q) \/ WriteReturn(q) \/ WriteFull(q) \/ PipeAlloc(q)
  BY DEF Next, InCall, PipeClose, Sleep, ReadEmpty, Read, Start, Exit, Kill, Fork,
     FileClose,
     StartRead, StartWrite, pipeVars
<1>2. pc \in [Proc -> {"none", "idle", "closer", "closew"} \cup InUse]
  BY DEF PipeInv, PipeTypeOK
<1>3. CASE WriteFail(q)
  BY <1>3 DEF WriteFail, pipeVars
<1>4. CASE WriteReturn(q) \/ WriteFull(q)
  BY <1>2, <1>4 DEF WriteReturn, WriteFull, WakeReaders, Wake
<1>5. CASE PipeAlloc(q)
  BY <1>5 DEF PipeAlloc, PipeInv, Ends, Asleep
<1> QED
  BY <1>1, <1>3, <1>4, <1>5

\* No lost wakeup of a reader but for the bytes of a killed writer (pipe.c:86, 113).
THEOREM ReadersAreWoken == Spec => ReaderWoken
<1>1. PipeInv /\ [Next]_vars =>
        [\A p \in Proc : pc'[p] = "rsleep" =>
           /\ writeopen'
           /\ \/ Count' = 0
              \/ pc[p] = "rsleep" /\ nwrite' = nwrite
              \/ \E w \in Proc : pc[w] = "write" /\ killed[w]]_vars
  <2> SUFFICES ASSUME PipeInv, Next, NEW p \in Proc, pc'[p] = "rsleep"
               PROVE  /\ writeopen'
                      /\ \/ Count' = 0
                         \/ pc[p] = "rsleep" /\ nwrite' = nwrite
                         \/ \E w \in Proc : pc[w] = "write" /\ killed[w]
    OBVIOUS
  <2>1. writeopen'
    BY InvStep DEF PipeInv, Asleep
  <2>2. CASE pc[p] # "rsleep"
    <3>1. pc[p] = "rgoing" /\ UNCHANGED <<nread, nwrite>>
      BY <2>2, StartsToSleep
    <3> QED
      BY <2>1, <3>1, SameCount DEF PipeInv, Asleep
  <2>3. CASE pc[p] = "rsleep"
    BY <2>1, <2>3, StaysAsleep
  <2> QED
    BY <2>2, <2>3
<1> QED
  BY <1>1, PipeInvariant, PTL DEF Spec, ReaderWoken

-----------------------------------------------------------------------------
(***************************************************************************)
(* Refinement                                                              *)
(***************************************************************************)

\* A step that leaves the ring and its ends alone.
LEMMA SameWindow ==
    UNCHANGED <<data, nread, nwrite, readopen, writeopen,
      live>> => UNCHANGED Fifo!vars
BY DEF Fifo!vars, Window, FirstBytes, Count

\* The bytes in the ring are a sequence, as long as Count says.
LEMMA WindowLen ==
    ASSUME PipeTypeOK
    PROVE  FirstBytes(Count) \in Seq(Val) /\ Len(FirstBytes(Count)) = Count
<1>1. Count \in 0..PIPESIZE
  BY CountRange, Sizes
<1>2. \A i \in 1..PIPESIZE : data[(nread + i - 1) % PIPESIZE] \in Val
  BY RingPlace DEF PipeTypeOK
<1> QED
  BY <1>1, <1>2, Sizes DEF FirstBytes

\* A writer's step writes what it puts in, if anything.
LEMMA WriterRefines ==
    ASSUME PipeInv, NEW p \in Proc, WriteFail(p) \/ WriteReturn(p) \/ WriteFull(p)
    PROVE  Fifo!Write \/ UNCHANGED Fifo!vars
<1>1. CASE UNCHANGED pipeVars
  BY <1>1, SameWindow DEF pipeVars
<1>2. CASE readopen /\ \E k \in 0..Room : k <= Len(buf[p]) /\ PutBytes(p, k)
  <2>1. PICK k \in 0..Room : k <= Len(buf[p]) /\ PutBytes(p, k)
    BY <1>2
  <2>2. PipeTypeOK
    BY DEF PipeInv
  <2>3. Count \in Nat /\ Room = PIPESIZE - Count /\ k \in Nat
    BY <2>2, CountRange, Sizes DEF Room
  <2>4. UNCHANGED <<readopen, writeopen, live>>
    BY <2>1 DEF PutBytes
  <2>5. writeopen /\ live
    <3>1. "w" \in fds[p]
      BY DEF PipeInv, Calls, WriteFail, WriteReturn, WriteFull
    <3>2. ref["w"] > 0
      BY <2>2, <3>1, HolderCounted DEF PipeInv, End
    <3>3. EndOK("w") /\ ref["w"] \in Nat
      BY <2>2 DEF PipeInv, Ends, End, PipeTypeOK
    <3> QED
      BY <3>2, <3>3 DEF PipeInv, Ends, EndOK, IsOpen
  <2>6. FirstBytes(Count)' = FirstBytes(Count) \o [i \in 1..k |-> buf[p][i]]
    BY <2>1, <2>2, PutAppends
  <2>7. Window = FirstBytes(Count) /\ Window' = Window \o [i \in 1..k |-> buf[p][i]]
    BY <2>4, <2>5, <2>6 DEF Window
  <2>8. Len(Window) = Count
    BY <2>2, <2>7, WindowLen
  <2>9. [i \in 1..k |-> buf[p][i]] \in [1..k -> Val]
    <3>1. buf[p] \in Seq(Val)
      BY <2>2 DEF PipeTypeOK
    <3> QED
      BY <2>1, <2>3, <3>1
  <2>10. CASE k = 0
    <3>1. [i \in 1..k |-> buf[p][i]] = <<>>
      BY <2>10
    <3>2. Window' = Window
      BY <2>2, <2>7, <3>1, WindowLen, ConcatEmptySeq
    <3> QED
      BY <2>4, <3>2 DEF Fifo!vars
  <2>11. CASE k # 0
    <3>1. k \in 1..PIPESIZE - Len(Window)
      BY <2>3, <2>8, <2>11, Sizes
    <3> QED
      BY <1>2, <2>4, <2>5, <2>7, <2>9, <3>1 DEF Fifo!Write
  <2> QED
    BY <2>10, <2>11
<1> QED
  BY <1>1, <1>2, WriterPuts DEF PipeInv

\* A reader's step reads what it takes out, if anything.
LEMMA ReaderRefines ==
    ASSUME PipeInv, NEW p \in Proc, Read(p)
    PROVE  Fifo!Read \/ UNCHANGED Fifo!vars
<1>1. PICK k \in 0..Count : nread' = (nread + k) % UINT
  BY ReaderTakes DEF PipeInv
<1>2. PipeTypeOK /\ UNCHANGED <<data, nwrite, readopen, writeopen, live>>
  BY DEF PipeInv, Read
<1>3. readopen /\ live
  <2>1. "r" \in fds[p]
    BY DEF PipeInv, Calls, Read
  <2>2. ref["r"] > 0
    BY <1>2, <2>1, HolderCounted DEF PipeInv, End
  <2>3. EndOK("r") /\ ref["r"] \in Nat
    BY <1>2 DEF PipeInv, Ends, End, PipeTypeOK
  <2> QED
    BY <2>2, <2>3 DEF PipeInv, Ends, EndOK, IsOpen
<1>4. FirstBytes(Count)' = SubSeq(FirstBytes(Count), k + 1, Count)
  BY <1>1, <1>2, TakeRemoves
<1>5. /\ Window = FirstBytes(Count) /\ Len(Window) = Count /\ Window \in Seq(Val)
      /\ Window' = SubSeq(Window, k + 1, Len(Window))
  BY <1>2, <1>3, <1>4, WindowLen DEF Window
<1>6. CASE k = 0
  <2>1. Window' = Window
    BY <1>5, <1>6, SubSeqFull
  <2> QED
    BY <1>2, <2>1 DEF Fifo!vars
<1>7. CASE k # 0
  <2>1. k \in 1..Len(Window)
    BY <1>1, <1>2, <1>5, <1>7, CountRange, Sizes
  <2> QED
    BY <1>2, <1>3, <1>5, <2>1 DEF Fifo!Read
<1> QED
  BY <1>6, <1>7

\* Every step of the pipe is a step of the channel, or none.
LEMMA RefineStep == PipeInv /\ [Next]_vars => [Fifo!Next]_(Fifo!vars)
<1> SUFFICES ASSUME PipeInv, [Next]_vars PROVE Fifo!Next \/ UNCHANGED Fifo!vars
  OBVIOUS
<1>1. CASE \/ \E p \in Proc : \/ Sleep(p) \/ ReadEmpty(p)
                              \/ Start(p) \/ Exit(p) \/ Kill(p)
                              \/ \E q \in Proc : Fork(p, q)
                              \/ \E f \in End : FileClose(p, f)
                              \/ \E n \in 1..MaxLen :
                                   \/ StartRead(p, n)
                                   \/ \E s \in [1..n -> Val] : StartWrite(p, s)
           \/ UNCHANGED vars
  <2>1. UNCHANGED pipeVars
    BY <1>1 DEF Sleep, ReadEmpty, Start, Exit, Kill, Fork, FileClose, StartRead,
       StartWrite, vars
  <2> QED
    BY <2>1, SameWindow DEF pipeVars
<1>2. ASSUME NEW p \in Proc, WriteFail(p) \/ WriteReturn(p) \/ WriteFull(p)
      PROVE  Fifo!Next \/ UNCHANGED Fifo!vars
  BY <1>2, WriterRefines DEF Fifo!Next
<1>3. ASSUME NEW p \in Proc, Read(p) PROVE Fifo!Next \/ UNCHANGED Fifo!vars
  BY <1>3, ReaderRefines DEF Fifo!Next
<1>4. ASSUME NEW p \in Proc, PipeAlloc(p) PROVE Fifo!Next
  <2>1. ~readopen /\ ~writeopen
    BY <1>4 DEF PipeAlloc, PipeInv, Ends
  <2>2. readopen' = TRUE /\ writeopen' = TRUE /\ live' = TRUE /\ nread' = 0 /\ nwrite' = 0
    BY <1>4 DEF PipeAlloc
  <2>3. Count' = 0
    BY <2>2, Sizes, ModSmall DEF Count
  <2>4. Window' = <<>>
    BY <2>2, <2>3 DEF Window, FirstBytes
  <2> QED
    BY <2>1, <2>2, <2>4 DEF Fifo!Next, Fifo!Open
<1>5. ASSUME NEW p \in Proc, PipeClose(p) PROVE Fifo!Next
  <2>1. /\ \/ readopen' = FALSE /\ writeopen' = writeopen
           \/ writeopen' = FALSE /\ readopen' = readopen
        /\ live' = (readopen' \/ writeopen')
        /\ UNCHANGED <<data, nread, nwrite>>
    BY <1>5 DEF PipeClose
  <2>2. live
    <3>1. pc[p] \notin {"none", "idle"}
      BY <1>5 DEF PipeClose
    <3>2. PICK f \in End : pc[p] = Closing[f]
      BY <1>5 DEF PipeClose, Closing, End
    <3>3. p \in Closers(f)
      BY <3>2 DEF Closers
    <3> QED
      BY <3>3 DEF PipeInv, Ends, EndOK, IsOpen
  <2>3. FirstBytes(Count)' = FirstBytes(Count)
    BY <2>1 DEF FirstBytes, Count
  <2>4. Window' = IF readopen' \/ writeopen' THEN Window ELSE <<>>
    BY <2>1, <2>2, <2>3 DEF Window
  <2> QED
    BY <2>1, <2>4 DEF Fifo!Next, Fifo!Close
<1> QED
  BY <1>1, <1>2, <1>3, <1>4, <1>5 DEF Next, InCall

\* Whatever sleeps, closes, kills and failing copies come between, the pipe is a
\* bounded first-in first-out channel (pipe.c:76-130).
THEOREM PipeImplementsChannel == Spec => IsChannel
<1>1. Init => Fifo!Init
  <2> SUFFICES ASSUME Init PROVE Fifo!Init
    OBVIOUS
  <2> QED
    BY DEF Init, Fifo!Init, Window
<1> QED
  BY <1>1, RefineStep, PipeInvariant, PTL DEF Spec, IsChannel, Fifo!Spec
=============================================================================
