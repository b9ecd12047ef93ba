------------------------------ MODULE LogProof ------------------------------
(***************************************************************************)
(* Proofs about the write-ahead log (Log.tla), for every number of         *)
(* processes, blocks, values and every geometry LogAssumption allows:      *)
(* LogInv is an invariant; from it follow the safety properties TLC checks *)
(* on a small instance, and that the log implements AtomicDisk.            *)
(***************************************************************************)
EXTENDS Log, FiniteSetTheorems, SequenceTheorems, TLAPS

-----------------------------------------------------------------------------
\* Types

\* Every step keeps every variable in its type, as long as the header names
\* no more blocks than the log area has (log.c as a whole).
LEMMA TypeStep == TypeOK /\ Len(lh) <= LOGSIZE /\ [Next]_vars => TypeOK'
<1> SUFFICES ASSUME TypeOK, Len(lh) <= LOGSIZE, [Next]_vars PROVE TypeOK'
  OBVIOUS
<1> USE DEF TypeOK, PCs, Committing
<1>0. <<>> \in Seq(Block)
  BY EmptySeq
<1>1. ASSUME NEW p \in Proc, BeginOp(p) PROVE TypeOK'
  BY <1>1 DEF BeginOp, disk, bootVars
<1>1a. ASSUME NEW p \in Proc, BeginSleep(p) PROVE TypeOK'
  BY <1>1a DEF BeginSleep, memLog, disk, callVars, bootVars
<1>2. ASSUME NEW p \in Proc, EndOp(p) PROVE TypeOK'
  BY <1>2 DEF EndOp, Wakeup, disk, callVars, bootVars
<1>2a. ASSUME NEW p \in Proc, EndOpLast(p) PROVE TypeOK'
  BY <1>2a DEF EndOpLast, disk, callVars, bootVars
<1>3. ASSUME NEW p \in Proc, CommitStart(p) PROVE TypeOK'
  BY <1>3 DEF CommitStart, memLog, disk, callVars, bootVars
<1>4. ASSUME NEW p \in Proc, WriteLog(p) PROVE TypeOK'
  <2>1. CASE tail[p] <= Len(lh)
    <3>1. lh[tail[p]] \in Block
      BY <2>1, ElementOfSeq
    <3>2. logarea' \in [1..LOGSIZE -> Val]
      BY <1>4, <2>1, <3>1 DEF WriteLog
    <3>3. tail' \in [Proc -> Nat \ {0}]
      BY <1>4, <2>1 DEF WriteLog
    <3> QED
      BY <1>4, <2>1, <3>2, <3>3 DEF WriteLog, memLog, callVars, bootVars
  <2>2. CASE ~(tail[p] <= Len(lh))
    BY <1>4, <2>2 DEF WriteLog, memLog, callVars, bootVars
  <2> QED
    BY <2>1, <2>2
<1>5. ASSUME NEW p \in Proc, WriteHead(p) PROVE TypeOK'
  BY <1>5 DEF WriteHead, memLog, callVars, bootVars
<1>6. ASSUME NEW p \in Proc, InstallTrans(p) PROVE TypeOK'
  <2>1. CASE tail[p] <= Len(lh)
    <3>0. logarea[tail[p]] \in Val
      <4>1. tail[p] \in 1..LOGSIZE
        BY <2>1, LogAssumption
      <4> QED
        BY <4>1
    <3>1. /\ pins' \in [Block -> Int] /\ tail' \in [Proc -> Nat \ {0}]
          /\ home' \in [Block -> Val] /\ cache' \in [Block -> Val]
      <4>1. pins' \in [Block -> Int]
        BY <1>6, <2>1 DEF InstallTrans
      <4>2. tail' \in [Proc -> Nat \ {0}]
        BY <1>6, <2>1 DEF InstallTrans
      <4>3. home' = [home EXCEPT ![lh[tail[p]]] = logarea[tail[p]]]
        BY <1>6, <2>1 DEF InstallTrans
      <4>4. cache' = [cache EXCEPT ![lh[tail[p]]] = logarea[tail[p]]]
        BY <1>6, <2>1 DEF InstallTrans
      <4> QED
        BY <4>1, <4>2, <4>3, <4>4, <3>0
    <3>2. UNCHANGED <<outstanding, committing, lh, logarea, dhead, pc, callVars, bootVars>>
      BY <1>6, <2>1 DEF InstallTrans
    <3> QED
      BY <3>1, <3>2 DEF callVars, bootVars
  <2>2. CASE ~(tail[p] <= Len(lh))
    <3>1. lh' \in Seq(Block)
      BY <1>0, <1>6, <2>2 DEF InstallTrans
    <3>2. pc' \in [Proc -> PCs]
      BY <1>6, <2>2 DEF InstallTrans
    <3>3. UNCHANGED <<outstanding, committing, pins, cache, home, logarea, dhead,
                      tail, callVars, bootVars>>
      BY <1>6, <2>2 DEF InstallTrans
    <3> QED
      BY <3>1, <3>2, <3>3 DEF callVars, bootVars
  <2> QED
    BY <2>1, <2>2
<1>7. ASSUME NEW p \in Proc, ClearHead(p) PROVE TypeOK'
  BY <1>7 DEF ClearHead, memLog, callVars, bootVars
<1>8. ASSUME NEW p \in Proc, CommitDone(p) PROVE TypeOK'
  BY <1>8 DEF CommitDone, Wakeup, disk, callVars, bootVars
<1>9. ASSUME NEW p \in Proc, NEW b \in Block, NEW v \in Val, Modify(p, b, v)
      PROVE  TypeOK'
  BY <1>9 DEF Modify, memLog, disk, bootVars
<1>10. ASSUME NEW p \in Proc, NEW b \in Block, LogWrite(p, b) PROVE TypeOK'
  <2>1. CASE Absorbed(b)
    BY <1>10, <2>1 DEF LogWrite, disk, bootVars
  <2>2. CASE ~Absorbed(b)
    <3>1. lh' \in Seq(Block)
      <4>1. lh' = Append(lh, b)
        BY <1>10, <2>2 DEF LogWrite
      <4> QED
        BY <4>1, AppendProperties
    <3>2. /\ pins' \in [Block -> Int] /\ held' \in [Proc -> SUBSET Block]
          /\ wrote' \in [Proc -> SUBSET Block]
      BY <1>10, <2>2 DEF LogWrite
    <3>3. UNCHANGED <<outstanding, committing, cache, home, logarea, dhead, pc, tail,
                      bootVars>>
      BY <1>10 DEF LogWrite, disk
    <3> QED
      BY <3>1, <3>2, <3>3 DEF bootVars
  <2> QED
    BY <2>1, <2>2
<1>11. ASSUME NEW b \in Block, Evict(b) PROVE TypeOK'
  BY <1>11 DEF Evict, memLog, disk, callVars, bootVars
<1>12. CASE ReadHead
  BY <1>12 DEF ReadHead, disk, callVars
<1>13. CASE RecoverInstall
  <2>1. CASE rtail <= Len(lh)
    <3>1. rtail \in 1..LOGSIZE
      BY <2>1, LogAssumption
    <3>2. home' \in [Block -> Val] /\ cache' \in [Block -> Val]
      BY <1>13, <2>1, <3>1 DEF RecoverInstall
    <3>3. rtail' \in Nat \ {0}
      BY <1>13, <2>1 DEF RecoverInstall
    <3>4. UNCHANGED <<outstanding, committing, pins, lh, logarea, dhead, pc, tail,
                      callVars, boot>>
      BY <1>13, <2>1 DEF RecoverInstall
    <3> QED
      BY <3>2, <3>3, <3>4 DEF callVars
  <2>2. CASE ~(rtail <= Len(lh))
    <3>1. lh' \in Seq(Block)
      <4>1. lh' = <<>>
        BY <1>13, <2>2 DEF RecoverInstall
      <4> QED
        BY <4>1, <1>0
    <3>2. UNCHANGED <<outstanding, committing, pins, cache, home, logarea, dhead, pc, tail,
                      callVars, rtail>> /\ boot' = "clear"
      BY <1>13, <2>2 DEF RecoverInstall
    <3> QED
      BY <3>1, <3>2 DEF callVars
  <2> QED
    BY <2>1, <2>2
<1>14. CASE RecoverClear
  BY <1>14 DEF RecoverClear, memLog, callVars
<1>15. CASE Crash
  <2>0. lh' \in Seq(Block)
    BY <1>0, <1>15 DEF Crash
  <2>1. outstanding' = 0 /\ committing' = 0
    BY <1>15 DEF Crash
  <2>1a. pins' \in [Block -> Int] /\ cache' \in [Block -> Val]
    BY <1>15 DEF Crash
  <2>2. /\ pc' \in [Proc -> PCs] /\ tail' \in [Proc -> Nat \ {0}]
        /\ held' \in [Proc -> SUBSET Block] /\ wrote' \in [Proc -> SUBSET Block]
    BY <1>15 DEF Crash
  <2>3. boot' \in {"read", "inst", "clear", "up"} /\ rtail' \in Nat \ {0}
    BY <1>15 DEF Crash
  <2>4. /\ home' \in [Block -> Val] /\ logarea' \in [1..LOGSIZE -> Val]
        /\ dhead' \in Seq(Block)
    BY <1>15 DEF Crash, disk
  <2>5. outstanding' \in Int /\ committing' \in {0, 1}
    BY <2>1
  <2> QED
    BY <2>0, <2>1a, <2>2, <2>3, <2>4, <2>5
<1>16. CASE UNCHANGED vars
  BY <1>16 DEF vars
<1> QED
  BY <1>1, <1>1a, <1>2, <1>2a, <1>3, <1>4, <1>5, <1>6, <1>7, <1>8, <1>9, <1>10, <1>11,
     <1>12, <1>13, <1>14, <1>15, <1>16 DEF Next, Commit, Recover

-----------------------------------------------------------------------------
\* Control

\* The calls between begin_op() and end_op() can be counted.
LEMMA OpenFinite == IsFiniteSet(Open) /\ IsFiniteSet(Open') /\ Cardinality(Open) \in Nat
BY FS_Subset, FS_CardinalityType, LogAssumption DEF Open

\* Every step keeps Control: in particular end_op() hands the log to one
\* committer only when no call is open, and begin_op() admits none meanwhile.
LEMMA ControlStep == TypeOK /\ Control /\ [Next]_vars => Control'
<1> SUFFICES ASSUME TypeOK, Control, [Next]_vars PROVE Control'
  OBVIOUS
<1> USE DEF TypeOK, Control, SleeperHasWaker, Committing, PCs
<1>0. Cardinality(Open) \in Nat /\ \A p \in Proc : pc[p] = "in" => outstanding # 0
  <2>1. Open # {} => Cardinality(Open) # 0
    BY OpenFinite, FS_EmptySet
  <2> QED
    BY <2>1, OpenFinite DEF Open
<1>1. ASSUME NEW p \in Proc, BeginOp(p) PROVE Control'
  <2>1. outstanding' = Cardinality(Open')
    <3>1. p \notin Open /\ Open' = Open \cup {p}
      BY <1>1 DEF BeginOp, Open
    <3>2. Cardinality(Open') = Cardinality(Open) + 1
      BY <3>1, OpenFinite, FS_AddElement
    <3> QED
      BY <1>1, <3>2 DEF BeginOp
  <2>2. outstanding' # 0 /\ (committing = 1 => FALSE) /\ UNCHANGED lh
    BY <1>0, <1>1 DEF BeginOp
  <2>3. /\ pc' = [pc EXCEPT ![p] = "in"]
        /\ UNCHANGED <<committing, held, boot>> /\ committing = 0 /\ boot = "up"
    BY <1>1 DEF BeginOp, bootVars
  <2>4. SleeperHasWaker'
    BY <1>0, <1>1 DEF BeginOp
  <2>5. outstanding' = Cardinality(Open') /\ (committing' = 1 => outstanding' = 0)
    BY <2>1, <2>3
  <2>6. \A x, q \in Proc : pc'[x] \in Committing /\ pc'[q] \in Committing => x = q
    BY <2>3
  <2>7. \A x \in Proc : pc'[x] \in Committing => committing' = 1
    BY <2>3
  <2>8. \A x \in Proc : pc'[x] \in {"clear", "done"} => lh' = <<>>
    BY <2>3, <2>2
  <2>9. \A x \in Proc : held'[x] # {} => pc'[x] = "in"
    BY <2>3, <2>2
  <2>10. boot' # "up" => outstanding' = 0 /\ committing' = 0 /\ \A x \in Proc : pc'[x] = "out"
    BY <2>3, <2>2
  <2>11. /\ boot' = "up" /\ committing' = 0 /\ outstanding' = 0 => lh' = <<>>
         /\ boot' \in {"read", "clear"} => lh' = <<>>
    BY <2>3, <2>2
  <2> QED
    BY <2>4, <2>5, <2>6, <2>7, <2>8, <2>9, <2>10, <2>11
<1>2. ASSUME NEW p \in Proc, BeginSleep(p) PROVE Control'
  <2>1. Open' = Open
    BY <1>2 DEF BeginSleep, Open
  <2>2. committing = 1 \/ outstanding > 0
    <3>1. ASSUME committing = 0, outstanding = 0 PROVE LogHasRoom
      <4>1. lh = <<>>
        BY <3>1, <1>2 DEF BeginSleep
      <4>2. Len(lh) = 0
        BY <4>1
      <4> QED
        BY <3>1, <4>2, LogAssumption DEF LogHasRoom
    <3>2. committing = 1 \/ ~LogHasRoom
      BY <1>2 DEF BeginSleep
    <3> QED
      BY <1>0, <3>1, <3>2
  <2> QED
    BY <1>2, <2>1, <2>2 DEF BeginSleep, memLog, callVars, bootVars
<1>3. ASSUME NEW p \in Proc, EndOp(p) PROVE Control'
  <2>1. outstanding' = Cardinality(Open')
    <3>1. p \in Open /\ Open' = Open \ {p}
      BY <1>3 DEF EndOp, Wakeup, Open
    <3>2. Cardinality(Open') = Cardinality(Open) - 1
      BY <3>1, OpenFinite, FS_RemoveElement
    <3> QED
      BY <1>3, <3>2 DEF EndOp
  <2> QED
    BY <1>0, <1>3, <2>1 DEF EndOp, Wakeup, callVars, bootVars
<1>4. ASSUME NEW p \in Proc, EndOpLast(p) PROVE Control'
  <2>1. outstanding' = Cardinality(Open')
    <3>1. p \in Open /\ Open' = Open \ {p}
      BY <1>4 DEF EndOpLast, Open
    <3>2. Cardinality(Open') = Cardinality(Open) - 1
      BY <3>1, OpenFinite, FS_RemoveElement
    <3>3. outstanding = 1 /\ outstanding' = 0
      BY <1>4 DEF EndOpLast
    <3> QED
      BY <3>2, <3>3, OpenFinite
  <2> QED
    BY <1>0, <1>4, <2>1 DEF EndOpLast, callVars, bootVars
<1>5. ASSUME NEW p \in Proc, CommitStart(p) PROVE Control'
  <2>1. Open' = Open
    BY <1>5 DEF CommitStart, Open
  <2> QED
    BY <1>5, <2>1 DEF CommitStart, memLog, callVars, bootVars
<1>6. ASSUME NEW p \in Proc, WriteLog(p) PROVE Control'
  <2>1. Open' = Open
    BY <1>6 DEF WriteLog, Open
  <2> QED
    BY <1>6, <2>1 DEF WriteLog, memLog, callVars, bootVars
<1>7. ASSUME NEW p \in Proc, WriteHead(p) PROVE Control'
  <2>1. Open' = Open
    BY <1>7 DEF WriteHead, Open
  <2> QED
    BY <1>7, <2>1 DEF WriteHead, memLog, callVars, bootVars
<1>8. ASSUME NEW p \in Proc, InstallTrans(p) PROVE Control'
  <2>1. Open' = Open
    BY <1>8 DEF InstallTrans, Open
  <2> QED
    BY <1>8, <2>1 DEF InstallTrans, callVars, bootVars
<1>9. ASSUME NEW p \in Proc, ClearHead(p) PROVE Control'
  <2>1. Open' = Open
    BY <1>9 DEF ClearHead, Open
  <2> QED
    BY <1>9, <2>1 DEF ClearHead, memLog, callVars, bootVars
<1>10. ASSUME NEW p \in Proc, CommitDone(p) PROVE Control'
  <2>1. Open' = Open
    BY <1>10 DEF CommitDone, Wakeup, Open
  <2> QED
    BY <1>10, <2>1 DEF CommitDone, Wakeup, callVars, bootVars
<1>11. ASSUME NEW p \in Proc, NEW b \in Block, NEW v \in Val, Modify(p, b, v)
       PROVE  Control'
  BY <1>11 DEF Modify, memLog, bootVars, Open
<1>12. ASSUME NEW p \in Proc, NEW b \in Block, LogWrite(p, b) PROVE Control'
  BY <1>0, <1>12 DEF LogWrite, bootVars, Open
<1>13. ASSUME NEW b \in Block, Evict(b) PROVE Control'
  BY <1>13 DEF Evict, memLog, callVars, bootVars, Open
<1>14. CASE Recover
  <2>1. CASE ReadHead
    BY <2>1 DEF ReadHead, callVars, Open
  <2>2. CASE RecoverInstall
    BY <2>2 DEF RecoverInstall, callVars, Open
  <2>3. CASE RecoverClear
    BY <2>3 DEF RecoverClear, memLog, callVars, Open
  <2> QED
    BY <1>14, <2>1, <2>2, <2>3 DEF Recover
<1>15. CASE Crash
  <2>1. Open' = {} /\ outstanding' = 0
    BY <1>15 DEF Crash, Open
  <2> QED
    BY <1>15, <2>1, FS_EmptySet DEF Crash
<1>16. CASE UNCHANGED vars
  BY <1>16 DEF vars, Open
<1> QED
  BY <1>1, <1>2, <1>3, <1>4, <1>5, <1>6, <1>7, <1>8, <1>9, <1>10, <1>11, <1>12,
     <1>13, <1>14, <1>15, <1>16 DEF Next, Commit

-----------------------------------------------------------------------------
\* Log space

\* So can the log slots begin_op() has promised them.
LEMMA TokensFinite == /\ IsFiniteSet(Tokens) /\ Cardinality(Tokens) \in Nat
                      /\ IsFiniteSet(Tokens') /\ Cardinality(Tokens') \in Nat
<1>1. IsFiniteSet(1..MAXOPBLOCKS)
  BY FS_Interval, LogAssumption
<1>2. IsFiniteSet(Open \X (1..MAXOPBLOCKS)) /\ IsFiniteSet(Open' \X (1..MAXOPBLOCKS))
  BY <1>1, OpenFinite, FS_Product
<1>3. /\ Tokens \in SUBSET (Open \X (1..MAXOPBLOCKS))
      /\ Tokens' \in SUBSET (Open' \X (1..MAXOPBLOCKS))
  BY DEF Tokens
<1> QED
  BY <1>2, <1>3, FS_Subset, FS_CardinalityType

\* An open call holds at most MAXOPBLOCKS tokens.
LEMMA TokenBound == Cardinality(Tokens') <= Cardinality(Open') * MAXOPBLOCKS
<1>1. IsFiniteSet(1..MAXOPBLOCKS) /\ Cardinality(1..MAXOPBLOCKS) = MAXOPBLOCKS
  BY FS_Interval, LogAssumption
<1>2. /\ IsFiniteSet(Open' \X (1..MAXOPBLOCKS))
      /\ Cardinality(Open' \X (1..MAXOPBLOCKS)) = Cardinality(Open') * MAXOPBLOCKS
  BY <1>1, OpenFinite, FS_Product
<1>3. Tokens' \in SUBSET (Open' \X (1..MAXOPBLOCKS))
  BY DEF Tokens
<1> QED
  BY <1>2, <1>3, FS_Subset

\* Calls that stay open keep their reservations; calls that end give them back.
LEMMA ReservedShrink ==
    ASSUME Reserved, Open' \subseteq Open, UNCHANGED <<lh, wrote, held>>,
           Len(dhead') <= LOGSIZE
    PROVE  Reserved'
<1>1. Tokens' \in SUBSET Tokens
  BY DEF Tokens
<1>2. Cardinality(Tokens') <= Cardinality(Tokens)
  BY <1>1, TokensFinite, FS_Subset
<1>3. Len(lh') = Len(lh)
  OBVIOUS
<1>4. \A p \in Open' : /\ wrote'[p] \subseteq RangeOf(lh')
                       /\ Cardinality(wrote'[p] \cup held'[p]) <= OpBlocks
  BY DEF Reserved
<1>5. Len(lh') + Cardinality(Tokens') <= LOGSIZE
  <2> DEFINE k == Cardinality(Tokens)
             l == Cardinality(Tokens')
             m == Len(lh)
  <2>1. m + k <= LOGSIZE /\ l <= k /\ Len(lh') = m
    BY <1>2, <1>3 DEF Reserved
  <2>2. l \in Nat /\ k \in Nat
    BY TokensFinite
  <2> QED
    BY <2>1, <2>2, LogAssumption
<1> QED
  BY <1>4, <1>5 DEF Reserved

\* With no call open nothing is reserved.
LEMMA ReservedIdle ==
    ASSUME Open' = {}, Len(lh') <= LOGSIZE, Len(lh') \in Nat, Len(dhead') <= LOGSIZE
    PROVE  Reserved'
<1>1. Tokens' = {}
  BY DEF Tokens
<1>2. Cardinality(Tokens') = 0
  BY <1>1, FS_EmptySet
<1> QED
  BY <1>2 DEF Reserved

\* Reservations keep the header within logheader.block[].
LEMMA LenFits == TypeOK /\ Reserved => Len(lh) \in Nat /\ Len(lh) <= LOGSIZE
<1> SUFFICES ASSUME TypeOK, Reserved PROVE Len(lh) \in Nat /\ Len(lh) <= LOGSIZE
  OBVIOUS
<1>1. Len(lh) \in Nat
  BY LenProperties DEF TypeOK
<1>2. Len(lh) + Cardinality(Tokens) <= LOGSIZE
  BY DEF Reserved
<1> QED
  BY <1>1, <1>2, TokensFinite, LogAssumption

\* begin_op() grants a reservation only if it fits beside all earlier ones.
LEMMA ReservedBegin ==
    ASSUME TypeOK, Control, Reserved, NEW p \in Proc, BeginOp(p)
    PROVE  Reserved'
<1>1. p \notin Open /\ Open' = Open \cup {p}
  BY DEF BeginOp, Open, TypeOK
<1>2. Cardinality(Open') = outstanding + 1
  BY <1>1, OpenFinite, FS_AddElement DEF Control
<1>3. Len(lh) + (outstanding + 1) * MAXOPBLOCKS <= LOGSIZE
  BY DEF BeginOp, LogHasRoom
<1>4. Len(lh) + Cardinality(Open') * MAXOPBLOCKS <= LOGSIZE
  BY <1>2, <1>3
<1>5. Len(lh) + Cardinality(Tokens') <= LOGSIZE
  <2> DEFINE k == Cardinality(Open') * MAXOPBLOCKS
             l == Cardinality(Tokens')
             m == Len(lh)
  <2>1. k \in Nat
    BY <1>2, OpenFinite, FS_CardinalityType, LogAssumption
  <2>2. l \in Nat /\ l <= k /\ m + k <= LOGSIZE /\ m \in Nat
    BY <1>4, TokenBound, TokensFinite, LenProperties DEF TypeOK
  <2> HIDE DEF k, l, m
  <2>3. m + l <= LOGSIZE
    BY <2>1, <2>2, LogAssumption
  <2> QED
    BY <2>3 DEF l, m
<1>6. /\ wrote'[p] = {} /\ held'[p] = {}
      /\ \A q \in Open : wrote'[q] = wrote[q] /\ held'[q] = held[q]
      /\ UNCHANGED <<lh, dhead>>
  BY <1>1 DEF BeginOp, Control, TypeOK, disk, Open
<1>7. Cardinality(wrote'[p] \cup held'[p]) = 0
  BY <1>6, FS_EmptySet
<1>8. \A q \in Open : /\ wrote'[q] \subseteq RangeOf(lh')
                      /\ Cardinality(wrote'[q] \cup held'[q]) <= OpBlocks
  BY <1>6 DEF Reserved
<1>9. wrote'[p] \subseteq RangeOf(lh') /\ Cardinality(wrote'[p] \cup held'[p]) <= OpBlocks
  BY <1>6, <1>7, LogAssumption
<1>10. Len(lh') + Cardinality(Tokens') <= LOGSIZE /\ Len(dhead') <= LOGSIZE
  BY <1>5, <1>6 DEF Reserved
<1> QED
  BY <1>1, <1>8, <1>9, <1>10 DEF Reserved

\* log_write() spends one of the call's own tokens for each block it appends.
LEMMA ReservedLogWrite ==
    ASSUME TypeOK, Control, Reserved, NEW p \in Proc, NEW b \in Block, LogWrite(p, b)
    PROVE  Reserved'
<1>1. p \in Open /\ Open' = Open
  BY DEF LogWrite, Open
<1>2. UNCHANGED dhead
  BY DEF LogWrite, disk
<1>3. /\ wrote'[p] = wrote[p] \cup {b} /\ held'[p] = held[p] \ {b}
      /\ \A q \in Open \ {p} : wrote'[q] = wrote[q] /\ held'[q] = held[q]
  BY <1>1 DEF LogWrite, Open, TypeOK
<1>4. /\ wrote'[p] \cup held'[p] = wrote[p] \cup held[p]
      /\ Cardinality(wrote[p] \cup held[p]) <= OpBlocks
  BY <1>1, <1>3 DEF LogWrite, Reserved
<1>5. /\ IsFiniteSet(wrote[p]) /\ Cardinality(wrote[p]) \in Nat
      /\ Cardinality(wrote[p] \cup {b}) \in Nat
      /\ b \in wrote[p] => Cardinality(wrote[p] \cup {b}) = Cardinality(wrote[p])
      /\ b \notin wrote[p] => Cardinality(wrote[p] \cup {b}) = Cardinality(wrote[p]) + 1
      /\ Cardinality(wrote[p] \cup {b}) <= Cardinality(wrote[p] \cup held[p])
      /\ Cardinality(wrote[p] \cup held[p]) \in Nat
  <2>1. IsFiniteSet(wrote[p]) /\ IsFiniteSet(wrote[p] \cup held[p])
    BY LogAssumption, FS_Subset DEF TypeOK
  <2>2. wrote[p] \cup {b} \in SUBSET (wrote[p] \cup held[p])
    BY DEF LogWrite
  <2> QED
    BY <2>1, <2>2, FS_AddElement, FS_Subset, FS_CardinalityType
<1>6. Tokens' \in SUBSET Tokens
  <2>1. \A q \in Open : /\ Cardinality(wrote[q]) \in Nat
                        /\ Cardinality(wrote'[q]) \in Nat
                        /\ Cardinality(wrote[q]) <= Cardinality(wrote'[q])
    <3>1. \A q \in Open : Cardinality(wrote[q]) \in Nat
      BY LogAssumption, FS_Subset, FS_CardinalityType DEF TypeOK, Open
    <3>2. Cardinality(wrote[p]) <= Cardinality(wrote'[p]) /\ Cardinality(wrote'[p]) \in Nat
      BY <1>3, <1>5
    <3> QED
      BY <1>3, <3>1, <3>2
  <2>2. \A t \in Tokens' : t \in Open \X (1..MAXOPBLOCKS) /\ t[2] > Cardinality(wrote'[t[1]])
    BY <1>1 DEF Tokens
  <2>3. \A t \in Tokens' : t[2] > Cardinality(wrote[t[1]])
    BY <2>1, <2>2, LogAssumption
  <2> QED
    BY <2>2, <2>3 DEF Tokens
<1>7. CASE Absorbed(b)
  <2>1. UNCHANGED lh
    BY <1>7 DEF LogWrite
  <2>2. Cardinality(Tokens') <= Cardinality(Tokens)
    BY <1>6, TokensFinite, FS_Subset
  <2>3. Len(lh') + Cardinality(Tokens') <= LOGSIZE
    <3> DEFINE k == Cardinality(Tokens)
               l == Cardinality(Tokens')
               m == Len(lh)
    <3>1. k \in Nat /\ l \in Nat /\ l <= k /\ m \in Nat /\ m + k <= LOGSIZE
      BY <2>2, TokensFinite, LenFits DEF Reserved
    <3> HIDE DEF k, l, m
    <3>2. m + l <= LOGSIZE
      BY <3>1, LogAssumption
    <3> QED
      BY <3>2, <2>1 DEF l, m
  <2>4. \A q \in Open : wrote'[q] \subseteq RangeOf(lh)
    BY <1>1, <1>3, <1>7 DEF Absorbed, Reserved
  <2> QED
    BY <1>1, <1>2, <1>3, <1>4, <2>1, <2>3, <2>4 DEF Reserved
<1>8. CASE ~Absorbed(b)
  <2>1. lh' = Append(lh, b)
    BY <1>8 DEF LogWrite
  <2>2. /\ Len(lh') = Len(lh) + 1
        /\ \A i \in 1..Len(lh) : lh'[i] = lh[i]
        /\ lh'[Len(lh) + 1] = b
        /\ Len(lh) \in Nat
    BY <2>1, AppendProperties, LenProperties DEF TypeOK
  <2>3. RangeOf(lh) \subseteq RangeOf(lh') /\ b \in RangeOf(lh')
    BY <2>2 DEF RangeOf
  <2>4. b \notin wrote[p]
    BY <1>1, <1>8 DEF Reserved, Absorbed
  <2>5. <<p, Cardinality(wrote[p]) + 1>> \in Tokens
    <3>1. Cardinality(wrote[p]) + 1 <= OpBlocks
      BY <1>4, <1>5, <2>4, LogAssumption
    <3>2. Cardinality(wrote[p]) + 1 \in 1..MAXOPBLOCKS
      BY <1>5, <3>1, LogAssumption
    <3> QED
      BY <1>1, <1>5, <3>2 DEF Tokens
  <2>6. <<p, Cardinality(wrote[p]) + 1>> \notin Tokens'
    <3>1. Cardinality(wrote'[p]) = Cardinality(wrote[p]) + 1
      BY <1>3, <1>5, <2>4
    <3>2. ~(Cardinality(wrote[p]) + 1 > Cardinality(wrote'[p]))
      BY <1>5, <3>1
    <3> QED
      BY <3>2 DEF Tokens
  <2>7. Tokens' \in SUBSET (Tokens \ {<<p, Cardinality(wrote[p]) + 1>>})
    BY <1>6, <2>6
  <2>8. Cardinality(Tokens') <= Cardinality(Tokens) - 1
    BY <2>5, <2>7, TokensFinite, FS_RemoveElement, FS_Subset
  <2>9. Len(lh') + Cardinality(Tokens') <= LOGSIZE
    <3> DEFINE k == Cardinality(Tokens)
               l == Cardinality(Tokens')
               m == Len(lh)
    <3>1. k \in Nat /\ l \in Nat /\ l <= k - 1 /\ m \in Nat /\ m + k <= LOGSIZE
      BY <2>8, TokensFinite, LenFits DEF Reserved
    <3> HIDE DEF k, l, m
    <3>2. m + 1 + l <= LOGSIZE
      BY <3>1, LogAssumption
    <3> QED
      BY <3>2, <2>2 DEF l, m
  <2>10. \A q \in Open : wrote'[q] \subseteq RangeOf(lh')
    BY <1>1, <1>3, <2>3 DEF Reserved
  <2> QED
    BY <1>1, <1>2, <1>3, <1>4, <2>9, <2>10 DEF Reserved
<1> QED
  BY <1>7, <1>8

\* Every step keeps the promise that reserved slots exist.
LEMMA ReservedStep == TypeOK /\ Control /\ Reserved /\ [Next]_vars => Reserved'
<1> SUFFICES ASSUME TypeOK, Control, Reserved, [Next]_vars PROVE Reserved'
  OBVIOUS
<1>0. /\ Len(lh) \in Nat /\ Len(lh) <= LOGSIZE
      /\ Len(dhead) \in Nat /\ Len(dhead) <= LOGSIZE
  BY LenFits, LenProperties DEF TypeOK, Reserved
<1>e. Len(<<>>) = 0 /\ 0 <= LOGSIZE
  BY LogAssumption
<1>1. ASSUME NEW p \in Proc, BeginSleep(p) PROVE Reserved'
  <2>1. Open' = Open
    BY <1>1 DEF BeginSleep, Open, TypeOK
  <2> QED
    BY <1>0, <1>1, <2>1, ReservedShrink DEF BeginSleep, memLog, disk, callVars
<1>2. ASSUME NEW p \in Proc, EndOp(p) PROVE Reserved'
  <2>1. Open' \subseteq Open
    BY <1>2 DEF EndOp, Wakeup, Open, TypeOK
  <2> QED
    BY <1>0, <1>2, <2>1, ReservedShrink DEF EndOp, disk, callVars
<1>3. ASSUME NEW p \in Proc, EndOpLast(p) PROVE Reserved'
  <2>1. Open' \subseteq Open
    BY <1>3 DEF EndOpLast, Open, TypeOK
  <2> QED
    BY <1>0, <1>3, <2>1, ReservedShrink DEF EndOpLast, disk, callVars
<1>4. ASSUME NEW p \in Proc, CommitStart(p) PROVE Reserved'
  <2>1. Open' = Open
    BY <1>4 DEF CommitStart, Open, TypeOK
  <2> QED
    BY <1>0, <1>4, <2>1, ReservedShrink DEF CommitStart, memLog, disk, callVars
<1>5. ASSUME NEW p \in Proc, WriteLog(p) PROVE Reserved'
  <2>1. Open' = Open
    BY <1>5 DEF WriteLog, Open, TypeOK
  <2> QED
    BY <1>0, <1>5, <2>1, ReservedShrink DEF WriteLog, memLog, callVars
<1>6. ASSUME NEW p \in Proc, WriteHead(p) PROVE Reserved'
  <2>1. Open' = Open
    BY <1>6 DEF WriteHead, Open, TypeOK
  <2> QED
    BY <1>0, <1>6, <2>1, ReservedShrink DEF WriteHead, memLog, callVars
<1>7. ASSUME NEW p \in Proc, InstallTrans(p) PROVE Reserved'
  <2>1. Open' = {}
    <3>1. outstanding = 0
      BY <1>7 DEF InstallTrans, Control, Committing
    <3>2. Open = {}
      BY <3>1, OpenFinite, FS_EmptySet DEF Control
    <3> QED
      BY <1>7, <3>2 DEF InstallTrans, Open, TypeOK
  <2>2. UNCHANGED dhead
    BY <1>7 DEF InstallTrans
  <2>3. lh' = lh \/ lh' = <<>>
    BY <1>7 DEF InstallTrans
  <2> QED
    BY <1>0, <1>e, <2>1, <2>2, <2>3, ReservedIdle
<1>8. ASSUME NEW p \in Proc, ClearHead(p) PROVE Reserved'
  <2>1. Open' = Open
    BY <1>8 DEF ClearHead, Open, TypeOK
  <2> QED
    BY <1>0, <1>8, <2>1, ReservedShrink DEF ClearHead, memLog, callVars
<1>9. ASSUME NEW p \in Proc, CommitDone(p) PROVE Reserved'
  <2>1. Open' = Open
    BY <1>9 DEF CommitDone, Wakeup, Open, TypeOK
  <2> QED
    BY <1>0, <1>9, <2>1, ReservedShrink DEF CommitDone, disk, callVars
<1>10. ASSUME NEW p \in Proc, NEW b \in Block, NEW v \in Val, Modify(p, b, v)
       PROVE  Reserved'
  <2>1. /\ p \in Open /\ Open' = Open /\ UNCHANGED <<lh, dhead, wrote>>
        /\ Cardinality(wrote[p] \cup held[p] \cup {b}) <= OpBlocks
    BY <1>10 DEF Modify, Open, memLog, disk
  <2>2. /\ held'[p] = held[p] \cup {b}
        /\ \A q \in Open \ {p} : held'[q] = held[q]
    BY <1>10 DEF Modify, Open, TypeOK
  <2>3. wrote'[p] \cup held'[p] = wrote[p] \cup held[p] \cup {b}
    BY <2>1, <2>2
  <2>4. Tokens' = Tokens
    BY <2>1 DEF Tokens
  <2> QED
    BY <2>1, <2>2, <2>3, <2>4 DEF Reserved
<1>11. ASSUME NEW b \in Block, Evict(b) PROVE Reserved'
  <2>1. Open' = Open
    BY <1>11 DEF Evict, Open
  <2> QED
    BY <1>0, <1>11, <2>1, ReservedShrink DEF Evict, memLog, disk, callVars
<1>12. CASE boot # "up" /\ Recover
  <2>1. Open' = {}
    BY <1>12 DEF Control, Open, Recover, ReadHead, RecoverInstall, RecoverClear
  <2>2. lh' \in {lh, dhead, <<>>}
    BY <1>12 DEF Recover, ReadHead, RecoverInstall, RecoverClear, memLog
  <2>3. dhead' \in {dhead, lh}
    BY <1>12 DEF Recover, ReadHead, RecoverInstall, RecoverClear, disk
  <2> QED
    BY <1>0, <1>e, <2>1, <2>2, <2>3, ReservedIdle
<1>13. CASE Crash
  <2>1. Open' = {} /\ lh' = <<>> /\ UNCHANGED dhead
    BY <1>13 DEF Crash, Open, disk
  <2> QED
    BY <1>0, <1>e, <2>1, ReservedIdle
<1>14. CASE UNCHANGED vars
  <2>1. Open' = Open
    BY <1>14 DEF vars, Open
  <2> QED
    BY <1>0, <1>14, <2>1, ReservedShrink DEF vars
<1>15. Recover => boot # "up"
  BY DEF Recover, ReadHead, RecoverInstall, RecoverClear
<1> QED
  BY <1>1, <1>2, <1>3, <1>4, <1>5, <1>6, <1>7, <1>8, <1>9, <1>10, <1>11, <1>12,
     <1>13, <1>14, <1>15, ReservedBegin, ReservedLogWrite DEF Next, Commit

-----------------------------------------------------------------------------
\* What disk and cache hold

\* While a call is open, or another process commits, nobody else commits.
LEMMA Alone ==
    ASSUME TypeOK, Control, NEW p \in Proc
    PROVE  /\ pc[p] = "in" => \A q \in Proc : pc[q] \notin Committing
           /\ pc[p] \in Committing => /\ \A q \in Proc \ {p} : pc[q] \notin Committing
                                      /\ \A q \in Proc : pc[q] # "in" /\ held[q] = {}
<1>1. pc[p] = "in" => outstanding # 0
  BY OpenFinite, FS_EmptySet DEF Control, Open
<1>2. pc[p] \in Committing => Open = {}
  BY OpenFinite, FS_EmptySet DEF Control
<1> QED
  BY <1>1, <1>2 DEF Control, Open

\* Steps that touch neither disk nor cache, nor a process between CommitStart
\* and ClearHead, keep Data.
LEMMA DataFrame ==
    ASSUME TypeOK, Data, boot = "up", boot' = "up",
           UNCHANGED <<lh, pins, cache, home, logarea, dhead, held>>,
           \A x \in Proc : \/ pc'[x] = pc[x] /\ tail'[x] = tail[x]
                           \/ /\ pc[x] \notin {"wlog", "whead", "inst", "clear"}
                              /\ pc'[x] \notin {"wlog", "whead", "inst", "clear"}
    PROVE  Data'
<1>1. Pinned' = Pinned
  BY DEF Pinned
<1>2. Dirty' = Dirty
  BY DEF Dirty
<1>3. Distinct(lh)' /\ Distinct(dhead)'
  BY DEF Data, Distinct
<1>4. UpData'
  <2>1. UpData
    BY DEF Data
  <2>2. (\A x \in Proc : pc'[x] \notin {"inst", "clear"}) => dhead' = <<>>
    BY <2>1 DEF UpData
  <2>3. \A x \in Proc :
          /\ pc'[x] = "wlog" => \A i \in 1..Len(lh') :
                                   i < tail'[x] => logarea'[i] = cache'[lh'[i]]
          /\ pc'[x] \in {"whead", "inst"} => \A i \in 1..Len(lh') :
                                                logarea'[i] = cache'[lh'[i]]
          /\ pc'[x] = "inst" => /\ dhead' = lh'
                                /\ \A i \in 1..Len(lh') :
                                      i < tail'[x] => home'[lh'[i]] = logarea'[i]
          /\ pc'[x] = "clear" => \A i \in 1..Len(dhead') : home'[dhead'[i]] = logarea'[i]
    BY <2>1 DEF UpData
  <2>4. /\ \A b \in Block : pins'[b] = IF b \in Pinned' THEN 1 ELSE 0
        /\ \A b \in Block \ Dirty' : cache'[b] = home'[b]
    BY <1>1, <1>2, <2>1 DEF UpData
  <2> QED
    BY <2>2, <2>3, <2>4 DEF UpData
<1> QED
  BY <1>3, <1>4 DEF Data

\* write_log() copies the next logged block from the cache to the log area.
LEMMA DataWriteLog ==
    ASSUME TypeOK, Control, Reserved, Data, NEW p \in Proc, WriteLog(p)
    PROVE  Data'
<1>0. /\ boot = "up" /\ boot' = "up" /\ pc[p] = "wlog"
      /\ UNCHANGED <<lh, pins, cache, home, dhead, held>>
      /\ \A q \in Proc \ {p} : pc[q] \notin Committing /\ pc'[q] = pc[q]
      /\ pc'[p] \in {"wlog", "whead"}
  BY Alone DEF WriteLog, memLog, callVars, bootVars, Committing, TypeOK
<1>1. UpData /\ Distinct(lh) /\ Distinct(dhead)
  BY <1>0 DEF Data
<1>2. Pinned' = Pinned /\ Dirty' = Dirty
  BY <1>0 DEF Pinned, Dirty, Committing
<1>3. dhead' = <<>>
  BY <1>0, <1>1 DEF UpData, Committing
<1>4. CASE tail[p] <= Len(lh)
  <2>1. /\ logarea' = [logarea EXCEPT ![tail[p]] = cache[lh[tail[p]]]]
        /\ tail'[p] = tail[p] + 1 /\ UNCHANGED pc
    BY <1>4 DEF WriteLog, TypeOK
  <2>2. tail[p] \in 1..LOGSIZE /\ Len(lh) \in Nat
    BY <1>4, LenFits, LogAssumption DEF TypeOK
  <2>3. \A i \in 1..Len(lh) : i < tail[p] + 1 => logarea'[i] = cache[lh[i]]
    <3>1. \A i \in 1..Len(lh) : i < tail[p] => logarea'[i] = cache[lh[i]]
      BY <1>0, <1>1, <2>1, <2>2, LenFits, LogAssumption DEF UpData, TypeOK
    <3>2. logarea'[tail[p]] = cache[lh[tail[p]]]
      BY <2>1, <2>2 DEF TypeOK
    <3> QED
      BY <2>2, <3>1, <3>2
  <2>4. UpData'
    BY <1>0, <1>1, <1>2, <1>3, <2>1, <2>3 DEF UpData, Committing
  <2> QED
    BY <1>0, <1>1, <2>4 DEF Data, Distinct
<1>5. CASE ~(tail[p] <= Len(lh))
  <2>1. pc'[p] = "whead" /\ UNCHANGED <<logarea, tail>>
    BY <1>5 DEF WriteLog, TypeOK
  <2>2. \A i \in 1..Len(lh) : logarea'[i] = cache[lh[i]]
    BY <1>0, <1>1, <1>5, <2>1, LenFits DEF UpData, TypeOK
  <2>3. UpData'
    BY <1>0, <1>1, <1>2, <1>3, <2>1, <2>2 DEF UpData, Committing
  <2> QED
    BY <1>0, <1>1, <2>3 DEF Data, Distinct
<1> QED
  BY <1>4, <1>5

\* write_head() names on disk exactly the blocks write_log() has copied.
LEMMA DataWriteHead ==
    ASSUME TypeOK, Control, Reserved, Data, NEW p \in Proc, WriteHead(p)
    PROVE  Data'
<1>0. /\ boot = "up" /\ boot' = "up" /\ pc[p] = "whead" /\ dhead' = lh
      /\ UNCHANGED <<lh, pins, cache, home, logarea, held>>
      /\ \A q \in Proc \ {p} : pc[q] \notin Committing /\ pc'[q] = pc[q]
      /\ pc'[p] = "inst" /\ tail'[p] = 1
  BY Alone DEF WriteHead, memLog, callVars, bootVars, Committing, TypeOK
<1>1. UpData /\ Distinct(lh)
  BY <1>0 DEF Data
<1>2. Pinned' = Pinned /\ Dirty' = Dirty
  <2>1. \A j \in 1..Len(lh) : 1 <= j
    BY LenFits
  <2>2. Pinned = {lh[i] : i \in 1..Len(lh)}
    BY <1>0 DEF Pinned, Committing
  <2>3. Pinned' = {lh[i] : i \in 1..Len(lh)}
    BY <1>0, <2>1 DEF Pinned, Committing
  <2> QED
    BY <1>0, <2>2, <2>3 DEF Dirty
<1>3. \A i \in 1..Len(lh) : logarea[i] = cache[lh[i]]
  BY <1>0, <1>1 DEF UpData
<1>4. \A i \in 1..Len(lh) : ~(i < 1)
  BY LenFits
<1>5. UpData'
  BY <1>0, <1>1, <1>2, <1>3, <1>4 DEF UpData, Committing
<1> QED
  BY <1>0, <1>1, <1>5 DEF Data, Distinct

\* install_trans(0) copies the next log block home and unpins its buffer; at
\* the end every block is clean and the header may be erased.
LEMMA DataInstall ==
    ASSUME TypeOK, Control, Reserved, Data, NEW p \in Proc, InstallTrans(p)
    PROVE  Data'
<1>0. /\ boot = "up" /\ boot' = "up" /\ pc[p] = "inst"
      /\ UNCHANGED <<logarea, dhead, held>>
      /\ \A q \in Proc \ {p} : pc[q] \notin Committing /\ pc'[q] = pc[q]
      /\ \A q \in Proc : held[q] = {}
  BY Alone DEF InstallTrans, callVars, bootVars, Committing, TypeOK
<1>1. /\ UpData /\ Distinct(lh) /\ Distinct(dhead) /\ dhead = lh
      /\ \A i \in 1..Len(lh) : logarea[i] = cache[lh[i]]
      /\ \A i \in 1..Len(lh) : i < tail[p] => home[lh[i]] = logarea[i]
  BY <1>0 DEF Data, UpData
<1>2. Pinned = {lh[i] : i \in {j \in 1..Len(lh) : tail[p] <= j}}
  BY <1>0 DEF Pinned, Committing
<1>3. Len(lh) \in Nat /\ \A i \in 1..Len(lh) : lh[i] \in Block
  BY LenFits, ElementOfSeq DEF TypeOK
<1>4. CASE tail[p] <= Len(lh)
  <2> DEFINE t == tail[p]
             b == lh[t]
  <2>1. /\ home' = [home EXCEPT ![b] = logarea[t]]
        /\ cache' = [cache EXCEPT ![b] = logarea[t]]
        /\ pins' = [pins EXCEPT ![b] = @ - 1]
        /\ tail'[p] = t + 1 /\ UNCHANGED <<lh, pc>>
    BY <1>4 DEF InstallTrans, TypeOK
  <2>2. t \in 1..Len(lh) /\ b \in Block
    BY <1>3, <1>4 DEF TypeOK
  <2> HIDE DEF t, b
  <2>3. cache' = cache
    BY <1>1, <2>1, <2>2 DEF TypeOK, b
  <2>4. Pinned' = {lh[i] : i \in {j \in 1..Len(lh) : t + 1 <= j}}
    BY <1>0, <2>1 DEF Pinned, Committing
  <2>5. b \in Pinned /\ Pinned' = Pinned \ {b}
    <3>1. \A j \in 1..Len(lh) : t <= j <=> (t + 1 <= j \/ j = t)
      BY <1>3, <2>2
    <3>2. ~(t + 1 <= t) /\ t <= t
      BY <1>3, <2>2
    <3>3. \A j \in 1..Len(lh) : lh[j] = b => j = t
      BY <1>1, <2>2 DEF Distinct, b
    <3> QED
      BY <1>2, <2>2, <2>4, <3>1, <3>2, <3>3 DEF b, t
  <2>6. \A x \in Block : pins'[x] = IF x \in Pinned' THEN 1 ELSE 0
    BY <1>1, <2>1, <2>2, <2>5 DEF UpData, TypeOK
  <2>7. \A x \in Block \ Dirty' : cache'[x] = home'[x]
    <3>1. Dirty' = Dirty /\ b \in Dirty
      BY <1>0, <2>1, <2>2 DEF Dirty, RangeOf, b
    <3> QED
      BY <1>1, <2>1, <2>2, <2>3, <3>1 DEF UpData, TypeOK
  <2>8. \A i \in 1..Len(lh) : i < t + 1 => home'[lh[i]] = logarea[i]
    <3>1. \A i \in 1..Len(lh) : i < t + 1 => i < t \/ i = t
      BY <1>3, <2>2
    <3>2. home'[b] = logarea[t] /\ \A x \in Block : x # b => home'[x] = home[x]
      BY <2>1, <2>2 DEF TypeOK
    <3>3. \A i \in 1..Len(lh) : i < t => home'[lh[i]] = logarea[i]
      <4>1. \A i \in 1..Len(lh) : i < t => lh[i] # b
        BY <1>1, <1>3, <2>2 DEF Distinct, b
      <4> QED
        BY <1>1, <1>3, <3>2, <4>1 DEF t
    <3> QED
      BY <3>1, <3>2, <3>3 DEF b
  <2>9. UpData'
    BY <1>0, <1>1, <2>1, <2>3, <2>6, <2>7, <2>8 DEF UpData, Committing, t
  <2> QED
    BY <1>0, <1>1, <2>1, <2>9 DEF Data, Distinct
<1>5. CASE ~(tail[p] <= Len(lh))
  <2>1. lh' = <<>> /\ pc'[p] = "clear" /\ UNCHANGED <<home, cache, pins, tail>>
    BY <1>5 DEF InstallTrans, TypeOK
  <2>2. \A i \in 1..Len(lh) : i < tail[p] /\ ~(tail[p] <= i)
    BY <1>3, <1>5 DEF TypeOK
  <2>3. Pinned = {} /\ Pinned' = {}
    BY <1>2, <2>1, <2>2 DEF Pinned
  <2>4. \A x \in Block : cache[x] = home[x]
    BY <1>0, <1>1, <2>2 DEF UpData, Dirty, RangeOf
  <2>5. \A i \in 1..Len(dhead) : home[dhead[i]] = logarea[i]
    BY <1>1, <2>2
  <2>6. UpData'
    BY <1>0, <1>1, <2>1, <2>3, <2>4, <2>5 DEF UpData, Committing
  <2> QED
    BY <1>0, <1>1, <2>1, <2>6 DEF Data, Distinct
<1> QED
  BY <1>4, <1>5

\* A call changes only buffers it holds; log_write() takes the block over.
LEMMA DataModify ==
    ASSUME TypeOK, Control, Data,
           NEW p \in Proc, NEW b \in Block, NEW v \in Val, Modify(p, b, v)
    PROVE  Data'
<1>0. /\ boot = "up" /\ boot' = "up"
      /\ UNCHANGED <<lh, pins, home, logarea, dhead, pc, tail>>
      /\ \A q \in Proc : pc[q] \notin Committing
  BY Alone DEF Modify, memLog, disk, bootVars
<1>1. UpData /\ Distinct(lh) /\ Distinct(dhead)
  BY <1>0 DEF Data
<1>2. Pinned' = Pinned
  BY <1>0 DEF Pinned
<1>3. \A x \in Block \ Dirty' : x \notin Dirty /\ x # b
  BY <1>0 DEF Modify, Dirty, TypeOK
<1>4. \A x \in Block \ Dirty' : cache'[x] = home'[x]
  BY <1>0, <1>1, <1>3 DEF UpData, Modify, TypeOK
<1>5. UpData'
  BY <1>0, <1>1, <1>2, <1>4 DEF UpData, Committing
<1> QED
  BY <1>0, <1>1, <1>5 DEF Data, Distinct

\* log_write() lists a block it had not listed, or absorbs one it had, and
\* pins exactly the listed ones.
LEMMA DataLogWrite ==
    ASSUME TypeOK, Control, Reserved, Data, NEW p \in Proc, NEW b \in Block, LogWrite(p, b)
    PROVE  Data'
<1>0. /\ boot = "up" /\ boot' = "up" /\ b \in held[p]
      /\ UNCHANGED <<cache, home, logarea, dhead, pc, tail>>
      /\ held' = [held EXCEPT ![p] = @ \ {b}]
      /\ \A q \in Proc : pc[q] \notin Committing
  BY Alone DEF LogWrite, disk, bootVars
<1>1. UpData /\ Distinct(lh) /\ Distinct(dhead)
  BY <1>0 DEF Data
<1>2. CASE Absorbed(b)
  <2>1. UNCHANGED <<lh, pins>>
    BY <1>2 DEF LogWrite
  <2>2. Pinned' = Pinned /\ Dirty' = Dirty
    BY <1>0, <1>2, <2>1 DEF Pinned, Dirty, Absorbed, TypeOK
  <2>3. UpData'
    BY <1>0, <1>1, <2>1, <2>2 DEF UpData, Committing
  <2> QED
    BY <1>0, <1>1, <2>1, <2>3 DEF Data, Distinct
<1>3. CASE ~Absorbed(b)
  <2>1. lh' = Append(lh, b) /\ pins' = [pins EXCEPT ![b] = @ + 1]
    BY <1>3 DEF LogWrite
  <2>2. /\ Len(lh') = Len(lh) + 1
        /\ \A i \in 1..Len(lh) : lh'[i] = lh[i]
        /\ lh'[Len(lh) + 1] = b
        /\ Len(lh) \in Nat
    BY <2>1, AppendProperties, LenProperties DEF TypeOK
  <2>3. RangeOf(lh') = RangeOf(lh) \cup {b}
    BY <2>2 DEF RangeOf
  <2>4. Pinned = RangeOf(lh) /\ Pinned' = RangeOf(lh')
    BY <1>0 DEF Pinned, RangeOf, Committing
  <2>5. \A x \in Block : pins'[x] = IF x \in Pinned' THEN 1 ELSE 0
    BY <1>1, <1>3, <2>1, <2>3, <2>4 DEF UpData, Absorbed, TypeOK
  <2>6. Dirty' = Dirty
    BY <1>0, <2>3 DEF Dirty, TypeOK
  <2>7. Distinct(lh')
    BY <1>1, <1>3, <2>2 DEF Distinct, Absorbed, RangeOf
  <2>8. UpData'
    BY <1>0, <1>1, <2>5, <2>6 DEF UpData, Committing
  <2> QED
    BY <1>0, <1>1, <2>7, <2>8 DEF Data, Distinct
<1> QED
  BY <1>2, <1>3

\* A buffer nobody references or pins is clean: evicting it loses nothing.
LEMMA EvictIsClean ==
    ASSUME TypeOK, Data, NEW b \in Block, Evict(b)
    PROVE  cache' = cache
<1>0. boot = "up" /\ pins[b] = 0 /\ b \notin UNION {held[p] : p \in Proc}
  BY DEF Evict
<1>1. UpData
  BY <1>0 DEF Data
<1>2. b \notin Pinned
  BY <1>0, <1>1 DEF UpData
<1>3. CASE b \in RangeOf(lh)
  <2>1. PICK j \in 1..Len(lh) : b = lh[j]
    BY <1>3 DEF RangeOf
  <2>2. PICK q \in Proc : pc[q] = "inst" /\ ~(tail[q] <= j)
    BY <1>2, <2>1 DEF Pinned
  <2>3. j < tail[q]
    BY <2>1, <2>2, LenProperties DEF TypeOK
  <2>4. home[lh[j]] = cache[lh[j]]
    BY <1>1, <2>1, <2>2, <2>3 DEF UpData
  <2> QED
    BY <2>1, <2>4 DEF Evict, TypeOK
<1>4. CASE b \notin RangeOf(lh)
  BY <1>0, <1>1, <1>4 DEF UpData, Dirty, Evict, TypeOK
<1> QED
  BY <1>3, <1>4

\* Recovery repeats the installation the crash interrupted, from the start.
LEMMA DataRecover ==
    ASSUME TypeOK, Control, Reserved, Data, Recover
    PROVE  Data'
<1>1. BootData /\ boot # "up" /\ Distinct(lh) /\ Distinct(dhead)
  BY DEF Data, Recover, ReadHead, RecoverInstall, RecoverClear
<1>e. Distinct(<<>>) /\ \A i \in 1..Len(<<>>) : FALSE
  BY DEF Distinct
<1>2. CASE ReadHead
  <2>1. /\ boot' = "inst" /\ lh' = dhead /\ rtail' = 1
        /\ UNCHANGED <<cache, home, logarea, dhead, pins>>
    BY <1>2 DEF ReadHead, disk
  <2>2. \A i \in 1..Len(dhead) : ~(i < 1)
    BY LenProperties DEF TypeOK
  <2>3. BootData'
    BY <1>1, <2>1, <2>2 DEF BootData
  <2> QED
    BY <1>1, <2>1, <2>3 DEF Data, Distinct
<1>3. CASE RecoverInstall /\ rtail <= Len(lh)
  <2> DEFINE b == lh[rtail]
  <2>1. /\ boot = "inst" /\ boot' = "inst" /\ rtail' = rtail + 1 /\ lh = dhead
        /\ home' = [home EXCEPT ![b] = logarea[rtail]]
        /\ cache' = [cache EXCEPT ![b] = logarea[rtail]]
        /\ UNCHANGED <<lh, logarea, dhead, pins>>
    BY <1>1, <1>3 DEF RecoverInstall, BootData
  <2>2. rtail \in 1..Len(lh) /\ b \in Block /\ Len(lh) \in Nat
    BY <1>3, LenFits, ElementOfSeq DEF TypeOK
  <2> HIDE DEF b
  <2>3. cache' = home'
    BY <1>1, <2>1 DEF BootData
  <2>4. \A i \in 1..Len(dhead) : i < rtail + 1 => home'[dhead[i]] = logarea[i]
    <3>1. \A i \in 1..Len(lh) : i < rtail + 1 => i < rtail \/ i = rtail
      BY <2>2
    <3>2. home'[b] = logarea[rtail] /\ \A x \in Block : x # b => home'[x] = home[x]
      BY <2>1, <2>2 DEF TypeOK
    <3>3. \A i \in 1..Len(lh) : i < rtail => lh[i] # b /\ lh[i] \in Block
      BY <1>1, <2>2, ElementOfSeq DEF Distinct, b, TypeOK
    <3>4. \A i \in 1..Len(lh) : i < rtail => home[lh[i]] = logarea[i]
      BY <1>1, <2>1 DEF BootData
    <3> QED
      BY <2>1, <3>1, <3>2, <3>3, <3>4 DEF b
  <2>5. BootData'
    BY <1>1, <2>1, <2>3, <2>4 DEF BootData
  <2> QED
    BY <1>1, <2>1, <2>5 DEF Data, Distinct
<1>4. CASE RecoverInstall /\ ~(rtail <= Len(lh))
  <2>1. /\ boot = "inst" /\ boot' = "clear" /\ lh' = <<>> /\ lh = dhead
        /\ UNCHANGED <<home, cache, logarea, dhead, pins>>
    BY <1>1, <1>4 DEF RecoverInstall, BootData
  <2>2. \A i \in 1..Len(lh) : i < rtail
    BY <1>4, LenFits DEF TypeOK
  <2>3. BootData'
    BY <1>1, <2>1, <2>2 DEF BootData
  <2> QED
    BY <1>1, <1>e, <2>1, <2>3 DEF Data, Distinct
<1>5. CASE RecoverClear
  <2>1. /\ boot = "clear" /\ boot' = "up" /\ lh = <<>> /\ lh' = lh /\ dhead' = <<>>
        /\ \A q \in Proc : pc'[q] = "out"
        /\ UNCHANGED <<home, cache, pins>>
    BY <1>1, <1>5 DEF RecoverClear, Control, memLog
  <2>2. Pinned' = {}
    BY <1>e, <2>1 DEF Pinned
  <2>3. /\ \A x \in Block : pins'[x] = IF x \in Pinned' THEN 1 ELSE 0
        /\ \A x \in Block \ Dirty' : cache'[x] = home'[x]
    BY <1>1, <2>1, <2>2 DEF BootData
  <2>4. UpData'
    BY <2>1, <2>3 DEF UpData
  <2> QED
    BY <1>e, <2>1, <2>4 DEF Data
<1> QED
  BY <1>2, <1>3, <1>4, <1>5 DEF Recover

\* Every step keeps what disk and cache hold in line with commit()'s progress.
LEMMA DataStep == TypeOK /\ Control /\ Reserved /\ Data /\ [Next]_vars => Data'
<1> SUFFICES ASSUME TypeOK, Control, Reserved, Data, [Next]_vars PROVE Data'
  OBVIOUS
<1>1. ASSUME NEW p \in Proc, BeginOp(p) \/ BeginSleep(p) PROVE Data'
  <2>1. /\ boot = "up" /\ boot' = "up"
        /\ UNCHANGED <<lh, pins, cache, home, logarea, dhead, held, tail>>
        /\ \A x \in Proc \ {p} : pc'[x] = pc[x]
        /\ pc[p] \in {"out", "retry"} /\ pc'[p] \in {"in", "wait"}
    BY <1>1 DEF BeginOp, BeginSleep, memLog, disk, callVars, bootVars, TypeOK
  <2> QED
    BY <2>1, DataFrame
<1>2. ASSUME NEW p \in Proc, EndOp(p) \/ EndOpLast(p) PROVE Data'
  <2>1. /\ boot = "up" /\ boot' = "up"
        /\ UNCHANGED <<lh, pins, cache, home, logarea, dhead, held, tail>>
        /\ \A x \in Proc : \/ pc'[x] = pc[x]
                           \/ pc[x] = "wait" /\ pc'[x] = "retry"
                           \/ pc[x] = "in" /\ pc'[x] \in {"out", "commit"}
    BY <1>2 DEF EndOp, EndOpLast, Wakeup, disk, callVars, bootVars, TypeOK
  <2> QED
    BY <2>1, DataFrame
<1>3. ASSUME NEW p \in Proc, CommitStart(p) PROVE Data'
  <2>1. /\ boot = "up" /\ boot' = "up" /\ pc[p] = "commit" /\ tail'[p] = 1
        /\ UNCHANGED <<lh, pins, cache, home, logarea, dhead, held>>
        /\ pc'[p] \in {"done", "wlog"}
        /\ \A x \in Proc \ {p} : pc'[x] = pc[x] /\ tail'[x] = tail[x] /\ pc[x] \notin Committing
    BY <1>3, Alone DEF CommitStart, memLog, disk, callVars, bootVars, TypeOK, Committing
  <2>2. UpData /\ Distinct(lh) /\ Distinct(dhead)
    BY <2>1 DEF Data
  <2>3. Pinned' = Pinned /\ Dirty' = Dirty
    BY <2>1 DEF Pinned, Dirty, Committing
  <2>4. \A i \in 1..Len(lh) : ~(i < 1)
    BY LenFits
  <2>5. UpData'
    BY <2>1, <2>2, <2>3, <2>4 DEF UpData, Committing
  <2> QED
    BY <2>1, <2>2, <2>5 DEF Data, Distinct
<1>4. ASSUME NEW p \in Proc, ClearHead(p) PROVE Data'
  <2>1. /\ boot = "up" /\ boot' = "up" /\ pc[p] = "clear" /\ pc'[p] = "done"
        /\ UNCHANGED <<lh, pins, cache, home, logarea, held>>
        /\ lh = <<>> /\ dhead' = <<>>
        /\ \A x \in Proc \ {p} : pc'[x] = pc[x] /\ pc[x] \notin Committing
    BY <1>4, Alone DEF ClearHead, memLog, callVars, bootVars, TypeOK, Committing, Control
  <2>2. UpData
    BY <2>1 DEF Data
  <2>3. Pinned' = Pinned /\ Dirty' = Dirty
    BY <2>1 DEF Pinned, Dirty, Committing
  <2>4. UpData'
    BY <2>1, <2>2, <2>3 DEF UpData, Committing
  <2>5. Distinct(lh)' /\ Distinct(dhead)'
    BY <2>1 DEF Distinct
  <2> QED
    BY <2>1, <2>4, <2>5 DEF Data
<1>5. ASSUME NEW p \in Proc, CommitDone(p) PROVE Data'
  <2>1. /\ boot = "up" /\ boot' = "up"
        /\ UNCHANGED <<lh, pins, cache, home, logarea, dhead, held, tail>>
        /\ \A x \in Proc : \/ pc'[x] = pc[x]
                           \/ pc[x] = "wait" /\ pc'[x] = "retry"
                           \/ pc[x] = "done" /\ pc'[x] = "out"
    BY <1>5 DEF CommitDone, Wakeup, disk, callVars, bootVars, TypeOK
  <2> QED
    BY <2>1, DataFrame
<1>6. ASSUME NEW b \in Block, Evict(b) PROVE Data'
  <2>1. /\ boot = "up" /\ boot' = "up"
        /\ UNCHANGED <<lh, pins, cache, home, logarea, dhead, held, tail, pc>>
    BY <1>6, EvictIsClean DEF Evict, memLog, disk, callVars, bootVars
  <2> QED
    BY <2>1, DataFrame
<1>7. CASE Crash
  <2>1. /\ boot' = "read" /\ lh' = <<>> /\ cache' = home' /\ dhead' = dhead
        /\ pins' = [b \in Block |-> 0]
    BY <1>7 DEF Crash, disk
  <2>2. Distinct(lh)' /\ Distinct(dhead)'
    BY <2>1 DEF Data, Distinct
  <2>3. BootData'
    BY <2>1 DEF BootData
  <2> QED
    BY <2>1, <2>2, <2>3 DEF Data
<1>8. CASE UNCHANGED vars
  <2>1. CASE boot = "up"
    BY <1>8, <2>1, DataFrame DEF vars
  <2>2. CASE boot # "up"
    BY <1>8, <2>2 DEF vars, Data, BootData, Distinct
  <2> QED
    BY <2>1, <2>2
<1> QED
  BY <1>1, <1>2, <1>3, <1>4, <1>5, <1>6, <1>7, <1>8, DataWriteLog, DataWriteHead,
     DataInstall, DataModify, DataLogWrite, DataRecover DEF Next, Commit

-----------------------------------------------------------------------------
\* The theorems

\* The freshly made file system satisfies LogInv.
LEMMA InitInv == Init => LogInv
<1> SUFFICES ASSUME Init PROVE LogInv
  OBVIOUS
<1>1. TypeOK
  <2>1. logarea \in [1..LOGSIZE -> Val]
    BY LogAssumption DEF Init
  <2>2. lh \in Seq(Block) /\ dhead \in Seq(Block)
    BY EmptySeq DEF Init
  <2> QED
    BY <2>1, <2>2 DEF Init, TypeOK, PCs
<1>2. Open = {}
  BY DEF Init, Open
<1>3. Control
  BY <1>2, FS_EmptySet DEF Init, Control, SleeperHasWaker, Committing
<1>4. Reserved
  <2>1. Tokens = {} /\ Len(lh) = 0 /\ Len(dhead) = 0
    BY <1>2 DEF Tokens, Init
  <2> QED
    BY <1>2, <2>1, FS_EmptySet, LogAssumption DEF Reserved
<1>5. Data
  BY DEF Init, Data, BootData, Distinct
<1> QED
  BY <1>1, <1>3, <1>4, <1>5 DEF LogInv

\* LogInv is inductive.
LEMMA InvStep == LogInv /\ [Next]_vars => LogInv'
BY TypeStep, ControlStep, ReservedStep, DataStep, LenFits DEF LogInv

\* LogInv holds in every state of log.c, whatever the number of processes,
\* blocks and crashes.
THEOREM LogInvariant == Spec => []LogInv
BY InitInv, InvStep, PTL DEF Spec

\* Types, in particular lh never outgrows logheader.block[] (log.c:35-38).
THEOREM TypeCorrect == Spec => []TypeOK
<1>1. LogInv => TypeOK
  BY DEF LogInv
<1> QED
  BY <1>1, LogInvariant, PTL

\* commit() runs alone: no other committer, no open call (log.c:12-16).
THEOREM CommitIsAlone == Spec => []CommitAlone
<1>1. LogInv => CommitAlone
  <2> SUFFICES ASSUME LogInv, NEW p \in Proc, pc[p] \in Committing
               PROVE  /\ committing = 1
                      /\ outstanding = 0
                      /\ \A q \in Proc \ {p} : pc[q] \notin Committing \cup {"in"}
    BY DEF CommitAlone
  <2> QED
    BY Alone DEF LogInv, Control
<1> QED
  BY <1>1, LogInvariant, PTL

\* A process asleep in begin_op() is never left without a future wakeup().
THEOREM SleeperNeverForgotten == Spec => []SleeperHasWaker
<1>1. LogInv => SleeperHasWaker
  BY DEF LogInv, Control
<1> QED
  BY <1>1, LogInvariant, PTL

\* When the last end_op() returns, what the kernel reads is on the disk.
THEOREM EndOpIsDurable == Spec => []DoneIsDurable
<1>1. LogInv => DoneIsDurable
  <2> SUFFICES ASSUME LogInv, NEW p \in Proc, pc[p] = "done"
               PROVE  /\ Durable = cache /\ lh = <<>> /\ dhead = <<>>
                      /\ \A b \in Block : pins[b] = 0
    BY DEF DoneIsDurable
  <2>1. TypeOK /\ Control /\ Data
    BY DEF LogInv
  <2>2. /\ \A q \in Proc \ {p} : pc[q] \notin Committing
        /\ \A q \in Proc : held[q] = {}
    BY <2>1, Alone DEF Committing
  <2>3. boot = "up" /\ lh = <<>> /\ UpData
    BY <2>1 DEF Control, Data
  <2>4. dhead = <<>>
    BY <2>2, <2>3 DEF UpData, Committing
  <2>5. Dirty = {} /\ Pinned = {} /\ RangeOf(dhead) = {}
    BY <2>2, <2>3, <2>4 DEF Dirty, Pinned, RangeOf
  <2>6. \A b \in Block : pins[b] = 0 /\ cache[b] = home[b]
    BY <2>3, <2>5 DEF UpData
  <2>7. Durable = cache
    BY <2>1, <2>5, <2>6 DEF Durable, TypeOK
  <2> QED
    BY <2>3, <2>4, <2>6, <2>7
<1> QED
  BY <1>1, LogInvariant, PTL

\* A call finds the log too full only on the slots that begin_op() counts and
\* the log does not have, and it is always inside a call: for every size of the
\* log and every number of blocks that the calls log.
THEOREM LogPanicsOnLastSlot == Spec => []PanicsOnLastSlot
<1>1. LogInv => PanicsOnLastSlot
  <2> SUFFICES ASSUME LogInv, NEW p \in Proc, pc[p] = "in"
               PROVE  outstanding >= 1 /\ (TooBig => Cardinality(Tokens) <= Missing)
    BY DEF PanicsOnLastSlot
  <2>1. TypeOK /\ Control /\ Reserved /\ p \in Open
    BY DEF LogInv, Open
  <2>2. outstanding >= 1
    BY <2>1, OpenFinite, FS_EmptySet DEF Control
  <2> DEFINE k == Cardinality(Tokens)
             m == Len(lh)
  <2>3. k \in Nat /\ m \in Nat /\ m + k <= LOGSIZE
    BY <2>1, TokensFinite, LenFits DEF Reserved
  <2>4. TooBig <=> m >= LOGSIZE \/ m >= NLOG - 1
    BY DEF TooBig
  <2> HIDE DEF k, m
  <2>5. TooBig => k <= Missing
    BY <2>3, <2>4, LogAssumption DEF Missing
  <2> QED
    BY <2>2, <2>5 DEF k
<1> QED
  BY <1>1, LogInvariant, PTL

\* The data blocks of a committed transaction are not overwritten until its
\* header is erased (log.c: write_log() runs only with an empty header).
THEOREM LogFrozenWhileCommitted == Spec => CommittedLogFrozen
<1>1. LogInv /\ [Next]_vars => (dhead # <<>> => UNCHANGED logarea)
  <2> SUFFICES ASSUME LogInv, [Next]_vars, ~UNCHANGED logarea PROVE dhead = <<>>
    OBVIOUS
  <2>1. PICK p \in Proc : WriteLog(p)
    BY DEF Next, vars, Commit, Recover, BeginOp, BeginSleep, EndOp, EndOpLast,
           CommitStart, WriteHead, InstallTrans, ClearHead, CommitDone, Modify,
           LogWrite, Evict, ReadHead, RecoverInstall, RecoverClear, Crash, disk
  <2>2. /\ TypeOK /\ Control /\ UpData /\ pc[p] = "wlog"
        /\ \A q \in Proc \ {p} : pc[q] \notin Committing
    BY <2>1, Alone DEF WriteLog, LogInv, Data, Committing
  <2> QED
    BY <2>2 DEF UpData, Committing
<1>2. LogInv /\ [Next]_vars => [dhead # <<>> => UNCHANGED logarea]_vars
  BY <1>1
<1> QED
  BY <1>2, LogInvariant, PTL DEF Spec, CommittedLogFrozen

-----------------------------------------------------------------------------
\* Refinement

\* What recovery would leave: the log's copy of a block the header names.
LEMMA DurableIs ==
    ASSUME TypeOK, Distinct(dhead)
    PROVE  /\ \A i \in 1..Len(dhead) : Durable[dhead[i]] = logarea[i]
           /\ \A b \in Block : b \notin RangeOf(dhead) => Durable[b] = home[b]
           /\ Durable = [b \in Block |-> Durable[b]]
<1>1. \A i \in 1..Len(dhead) : dhead[i] \in Block /\ dhead[i] \in RangeOf(dhead)
  BY ElementOfSeq DEF TypeOK, RangeOf
<1>2. \A i \in 1..Len(dhead) :
        (CHOOSE j \in 1..Len(dhead) : dhead[j] = dhead[i]) = i
  BY DEF Distinct
<1>3. \A i \in 1..Len(dhead) : Durable[dhead[i]] = logarea[i]
  BY <1>1, <1>2 DEF Durable
<1>4. \A b \in Block : b \notin RangeOf(dhead) => Durable[b] = home[b]
  BY DEF Durable
<1>5. Durable = [b \in Block |-> Durable[b]]
  BY DEF Durable
<1> QED
  BY <1>3, <1>4, <1>5

\* Steps that leave the disk alone leave Durable alone.
LEMMA DurableSame == UNCHANGED <<home, logarea, dhead>> => UNCHANGED Durable
BY DEF Durable

\* An installation step writes a block the header names: recovery is unmoved.
LEMMA DurableInstall ==
    ASSUME TypeOK, Distinct(dhead), NEW t \in 1..Len(dhead),
           home' = [home EXCEPT ![dhead[t]] = logarea[t]], UNCHANGED <<logarea, dhead>>
    PROVE  UNCHANGED Durable
<1>1. dhead[t] \in RangeOf(dhead)
  BY DEF RangeOf
<1>2. \A b \in Block : b \notin RangeOf(dhead) => home'[b] = home[b]
  BY <1>1 DEF TypeOK
<1> QED
  BY <1>2 DEF Durable

\* Once every block the header names is installed, the header may be dropped.
LEMMA DurableInstalled ==
    ASSUME TypeOK, Distinct(dhead), \A i \in 1..Len(dhead) : home[dhead[i]] = logarea[i]
    PROVE  Durable = home
<1>1. \A b \in Block : Durable[b] = home[b]
  <2>1. ASSUME NEW b \in Block, b \in RangeOf(dhead) PROVE Durable[b] = home[b]
    <3>1. PICK i \in 1..Len(dhead) : b = dhead[i]
      BY <2>1 DEF RangeOf
    <3> QED
      BY <3>1, DurableIs
  <2> QED
    BY <2>1, DurableIs
<1> QED
  BY <1>1 DEF Durable, TypeOK

\* With an empty header the disk is what it is.
LEMMA DurableEmpty == TypeOK /\ dhead = <<>> => Durable = home
BY DEF Durable, RangeOf, TypeOK

\* write_head() makes the whole cache durable in one step.
LEMMA CommitPoint ==
    ASSUME LogInv, NEW p \in Proc, WriteHead(p)
    PROVE  Durable' = cache
<1>0. /\ TypeOK /\ Control /\ Data /\ UpData /\ pc[p] = "whead" /\ Distinct(lh)
      /\ dhead' = lh /\ UNCHANGED <<home, logarea>>
      /\ \A q \in Proc : held[q] = {}
  BY Alone DEF WriteHead, LogInv, Data, Committing
<1>1. \A i \in 1..Len(lh) : lh[i] \in Block /\ logarea[i] = cache[lh[i]]
  BY <1>0, ElementOfSeq DEF UpData, TypeOK
<1>2. \A b \in Block : b \notin RangeOf(lh) => cache[b] = home[b]
  BY <1>0 DEF UpData, Dirty
<1>3. \A b \in Block : b \in RangeOf(lh) =>
         logarea[CHOOSE i \in 1..Len(lh) : lh[i] = b] = cache[b]
  <2> SUFFICES ASSUME NEW b \in Block, b \in RangeOf(lh)
               PROVE  logarea[CHOOSE i \in 1..Len(lh) : lh[i] = b] = cache[b]
    OBVIOUS
  <2>1. \E i \in 1..Len(lh) : lh[i] = b
    BY DEF RangeOf
  <2> QED
    BY <1>1, <2>1
<1>4. Durable' = [b \in Block |-> cache[b]]
  BY <1>0, <1>2, <1>3 DEF Durable
<1> QED
  BY <1>0, <1>4 DEF TypeOK

\* Every step of the log is a step of AtomicDisk or none.
LEMMA RefineStep == LogInv /\ [Next]_vars => [Disk!Next]_(Disk!vars)
<1> SUFFICES ASSUME LogInv, [Next]_vars PROVE [Disk!Next]_(Disk!vars)
  OBVIOUS
<1> USE DEF Disk!Next, Disk!vars, Current
<1>0. TypeOK /\ Control /\ Data /\ Reserved
  BY DEF LogInv
<1>1. ASSUME NEW p \in Proc, BeginOp(p) PROVE Disk!Begin(p)
  <2>1. boot = "up" /\ boot' = "up" /\ UNCHANGED <<cache, home, logarea, dhead>>
    BY <1>1 DEF BeginOp, disk, bootVars
  <2>2. p \notin Open /\ Open' = Open \cup {p}
    BY <1>0, <1>1 DEF BeginOp, Open, TypeOK
  <2> QED
    BY <2>1, <2>2, DurableSame DEF Disk!Begin, Open
<1>2. ASSUME NEW p \in Proc, EndOp(p) \/ EndOpLast(p) PROVE Disk!End(p)
  <2>1. boot = "up" /\ boot' = "up" /\ UNCHANGED <<cache, home, logarea, dhead>>
    BY <1>2 DEF EndOp, EndOpLast, disk, bootVars
  <2>2. p \in Open /\ Open' = Open \ {p}
    BY <1>0, <1>2 DEF EndOp, EndOpLast, Wakeup, Open, TypeOK
  <2> QED
    BY <2>1, <2>2, DurableSame DEF Disk!End, Open
<1>3. ASSUME NEW p \in Proc, NEW b \in Block, NEW v \in Val, Modify(p, b, v)
      PROVE  Disk!Write(p, b, v)
  <2>1. /\ boot = "up" /\ boot' = "up" /\ UNCHANGED <<home, logarea, dhead, pc>>
        /\ cache' = [cache EXCEPT ![b] = v] /\ p \in Open /\ Open' = Open
    BY <1>3 DEF Modify, disk, bootVars, Open
  <2> QED
    BY <2>1, DurableSame DEF Disk!Write, Open
<1>4. ASSUME NEW p \in Proc, BeginSleep(p) \/ CommitStart(p) \/ CommitDone(p)
      PROVE  UNCHANGED Disk!vars
  <2>1. boot = "up" /\ boot' = "up" /\ UNCHANGED <<cache, home, logarea, dhead>>
    BY <1>4 DEF BeginSleep, CommitStart, CommitDone, disk, bootVars
  <2>2. Open' = Open
    BY <1>0, <1>4 DEF BeginSleep, CommitStart, CommitDone, Wakeup, Open, TypeOK
  <2> QED
    BY <2>1, <2>2, DurableSame DEF Open
<1>5. ASSUME NEW p \in Proc, NEW b \in Block, LogWrite(p, b) PROVE UNCHANGED Disk!vars
  <2>1. boot = "up" /\ boot' = "up" /\ UNCHANGED <<cache, home, logarea, dhead, pc>>
    BY <1>5 DEF LogWrite, disk, bootVars
  <2> QED
    BY <2>1, DurableSame
<1>6. ASSUME NEW b \in Block, Evict(b) PROVE UNCHANGED Disk!vars
  <2>1. boot = "up" /\ boot' = "up" /\ UNCHANGED <<cache, home, logarea, dhead, pc>>
    BY <1>0, <1>6, EvictIsClean DEF Evict, disk, bootVars
  <2> QED
    BY <2>1, DurableSame
<1>7. ASSUME NEW p \in Proc, WriteLog(p) PROVE UNCHANGED Disk!vars
  <2>1. boot = "up" /\ boot' = "up" /\ UNCHANGED <<cache, home, dhead>> /\ pc[p] = "wlog"
    BY <1>7 DEF WriteLog, bootVars
  <2>2. Open' = Open
    BY <1>0, <1>7 DEF WriteLog, Open, TypeOK
  <2>3. dhead = <<>>
    BY <1>0, <2>1, Alone DEF Data, UpData, Committing
  <2>4. UNCHANGED Durable
    BY <2>1, <2>3 DEF Durable, RangeOf
  <2> QED
    BY <2>1, <2>2, <2>4 DEF Open
<1>8. ASSUME NEW p \in Proc, WriteHead(p) PROVE Disk!Commit
  <2>1. boot = "up" /\ boot' = "up" /\ UNCHANGED cache /\ pc[p] = "whead"
    BY <1>8 DEF WriteHead, bootVars
  <2>2. Open = {} /\ Open' = Open
    BY <1>0, <1>8, <2>1, Alone DEF WriteHead, Open, TypeOK, Committing
  <2> QED
    BY <1>8, <2>1, <2>2, CommitPoint DEF Disk!Commit, Open
<1>9. ASSUME NEW p \in Proc, InstallTrans(p) PROVE UNCHANGED Disk!vars
  <2>1. /\ boot = "up" /\ boot' = "up" /\ UNCHANGED <<logarea, dhead>> /\ pc[p] = "inst"
        /\ UpData /\ dhead = lh /\ Distinct(dhead)
    BY <1>0, <1>9 DEF InstallTrans, bootVars, Data, UpData
  <2>2. Open' = Open
    BY <1>0, <1>9 DEF InstallTrans, Open, TypeOK
  <2>3. CASE tail[p] <= Len(lh)
    <3>1. tail[p] \in 1..Len(dhead) /\ lh[tail[p]] \in Block
      BY <1>0, <2>1, <2>3, LenFits, ElementOfSeq DEF TypeOK
    <3>2. /\ home' = [home EXCEPT ![dhead[tail[p]]] = logarea[tail[p]]]
          /\ cache' = [cache EXCEPT ![lh[tail[p]]] = logarea[tail[p]]]
      BY <1>9, <2>1, <2>3 DEF InstallTrans
    <3>3. cache' = cache
      BY <1>0, <2>1, <3>1, <3>2 DEF UpData, TypeOK
    <3>4. UNCHANGED Durable
      BY <1>0, <2>1, <3>1, <3>2, DurableInstall
    <3> QED
      BY <2>1, <2>2, <3>3, <3>4 DEF Open
  <2>4. CASE ~(tail[p] <= Len(lh))
    <3>1. UNCHANGED <<home, cache>>
      BY <1>9, <2>4 DEF InstallTrans
    <3> QED
      BY <2>1, <2>2, <3>1, DurableSame DEF Open
  <2> QED
    BY <2>3, <2>4
<1>10. ASSUME NEW p \in Proc, ClearHead(p) PROVE UNCHANGED Disk!vars
  <2>1. /\ boot = "up" /\ boot' = "up" /\ UNCHANGED <<cache, home, logarea>>
        /\ dhead' = <<>> /\ pc[p] = "clear"
    BY <1>0, <1>10 DEF ClearHead, bootVars, Control
  <2>2. Open' = Open
    BY <1>0, <1>10 DEF ClearHead, Open, TypeOK
  <2>3. Durable = home
    BY <1>0, <2>1, DurableInstalled DEF Data, UpData
  <2>4. Durable' = home
    BY <1>0, <2>1 DEF Durable, RangeOf, TypeOK
  <2> QED
    BY <2>1, <2>2, <2>3, <2>4 DEF Open
<1>11. CASE ReadHead
  <2>1. boot # "up" /\ boot' # "up" /\ UNCHANGED <<home, logarea, dhead, pc>>
    BY <1>11 DEF ReadHead, disk
  <2> QED
    BY <2>1, DurableSame
<1>12. CASE RecoverInstall
  <2>1. /\ boot = "inst" /\ boot' # "up" /\ UNCHANGED <<logarea, dhead, pc>>
        /\ lh = dhead /\ Distinct(dhead)
    BY <1>0, <1>12 DEF RecoverInstall, Data, BootData
  <2>2. CASE rtail <= Len(lh)
    <3>1. rtail \in 1..Len(dhead)
      BY <1>0, <2>1, <2>2, LenFits DEF TypeOK
    <3>2. home' = [home EXCEPT ![dhead[rtail]] = logarea[rtail]]
      BY <1>12, <2>1, <2>2 DEF RecoverInstall
    <3>3. UNCHANGED Durable
      BY <1>0, <2>1, <3>1, <3>2, DurableInstall
    <3> QED
      BY <2>1, <3>3
  <2>3. CASE ~(rtail <= Len(lh))
    <3>1. UNCHANGED home
      BY <1>12, <2>3 DEF RecoverInstall
    <3> QED
      BY <2>1, <3>1, DurableSame
  <2> QED
    BY <2>2, <2>3
<1>13. CASE RecoverClear
  <2>1. /\ boot = "clear" /\ boot' = "up" /\ UNCHANGED <<cache, home, logarea, pc>>
        /\ dhead' = <<>> /\ cache = home
    BY <1>0, <1>13 DEF RecoverClear, Control, Data, BootData
  <2>2. Durable = home
    BY <1>0, <2>1, DurableInstalled DEF Data, BootData
  <2>3. Durable' = home
    BY <1>0, <2>1 DEF Durable, RangeOf, TypeOK
  <2> QED
    BY <2>1, <2>2, <2>3
<1>14. CASE Crash
  <2>1. boot' # "up" /\ Open' = {} /\ UNCHANGED <<home, logarea, dhead>>
    BY <1>14 DEF Crash, disk, Open
  <2>2. UNCHANGED Durable
    BY <2>1, DurableSame
  <2>3. Disk!Crash
    BY <2>1, <2>2 DEF Disk!Crash, Open
  <2> QED
    BY <2>3
<1>15. CASE UNCHANGED vars
  BY <1>15, DurableSame DEF vars
<1> QED
  BY <1>1, <1>2, <1>3, <1>4, <1>5, <1>6, <1>7, <1>8, <1>9, <1>10, <1>11, <1>12,
     <1>13, <1>14, <1>15 DEF Next, Commit, Recover

\* The log keeps its promise (log.c:10-16): whatever crashes, eviction and
\* interleaving do, the disk takes the calls' updates in atomic groups.
THEOREM LogImplementsAtomicDisk == Spec => IsAtomicDisk
<1>1. Init => Disk!Init
  <2> SUFFICES ASSUME Init PROVE Disk!Init
    OBVIOUS
  <2>1. LogInv
    BY InitInv
  <2>2. Durable = home
    BY <2>1, DurableEmpty DEF Init, LogInv
  <2>3. Open = {}
    BY DEF Init, Open
  <2> QED
    BY <2>2, <2>3 DEF Init, Disk!Init, Current, Open
<1> QED
  BY <1>1, RefineStep, LogInvariant, PTL DEF Spec, IsAtomicDisk, Disk!Spec
=============================================================================
