------------------------------ MODULE InodeProof ------------------------------
(***************************************************************************)
(* Theorems about Inode, for any finite sets of processes, inodes and      *)
(* names, and any paths:                                                   *)
(*                                                                         *)
(*   - references are counted exactly, on every path of the calls          *)
(*     (RefsExact);                                                        *)
(*   - no name and no pointer leads to a free inode, and no link count is  *)
(*     below the names (NoDangling);                                       *)
(*   - iput() never sleeps for a lock under itable.lock (IputDoesNotWait). *)
(*                                                                         *)
(* The inductive invariant InodeInv says what a call holds at each place   *)
(* in it: which inodes its locals point to (Shape), which ones it has      *)
(* locked (Locks), and which links it has counted that are not in a        *)
(* directory, or not any more (Pending).  One step changes the locals of   *)
(* one process, so the proof of a step looks at that process (StepOK), and *)
(* AfterStep shows for all steps at once that the other processes do not   *)
(* notice.                                                                 *)
(***************************************************************************)
EXTENDS Inode, TLAPS, FiniteSetTheorems

-----------------------------------------------------------------------------
(***************************************************************************)
(* Where a process is, and what it points to                               *)
(***************************************************************************)

Dropping == {"iput", "itrunc", "ifreed", "iputref"}

Places == {"idle", "walk", "open", "create", "exists", "new", "made", "link", "linknew",
           "dirlink", "badlink", "unlink", "unlink2", "full", "unlink3"}

\* Where the call is, iput() on the way to there left out.
Place(p) == IF pc[p] \in Dropping THEN ret[p] ELSE pc[p]

Is(x, i) == IF x = i THEN 1 ELSE 0

InSeq(s, k, i) == IF k \in DOMAIN s /\ s[k] = i THEN 1 ELSE 0

\* The pointers of a process to an inode: what p adds to Pointers(i).
Own(p, i) == Is(file[p], i) + Is(cur[p], i) + Is(dp[p], i) + Is(ip[p], i)
               + InSeq(drop[p], 1, i) + InSeq(drop[p], 2, i)

\* The process points to the inode, and not only to let go of what it has freed.
Uses(p, i) ==
    \/ file[p] = i \/ cur[p] = i \/ dp[p] = i \/ ip[p] = i
    \/ InSeq(drop[p], 1, i) = 1 /\ pc[p] \notin {"ifreed", "iputref"}
    \/ InSeq(drop[p], 2, i) = 1

\* The process has counted a link to its ip that is not made yet, or has
\* removed one that is still counted.
LinkPlace(p) == \/ Place(p) \in {"linknew", "dirlink", "badlink"}
                \/ Place(p) = "walk" /\ call[p].op = "link2"
Pending(i) == {p \in Proc : ip[p] = i /\ (LinkPlace(p) \/ Place(p) = "unlink3")}

Calls == {NoCall, [op |-> "open"], [op |-> "unlink"], [op |-> "link2"]}
           \cup [op : {"create"}, type : Type] \cup [op : {"link"}, new : Path]

DiskTypes ==
    /\ type \in [Inum -> {Free} \cup Type] /\ nlink \in [Inum -> Nat]
    /\ entry \in [Inum -> [Name -> Inum \cup {0}]] /\ up \in [Inum -> Inum \cup {0}]

TableTypes ==
    /\ ref \in [Inum -> Nat] /\ valid \in [Inum -> BOOLEAN]
    /\ lock \in [Inum -> Proc \cup {NoProc}]

LocalTypes ==
    /\ call \in [Proc -> Calls]
    /\ pc \in [Proc -> Places \cup Dropping] /\ ret \in [Proc -> Places]
    /\ cur \in [Proc -> Inum \cup {0}] /\ dp \in [Proc -> Inum \cup {0}]
    /\ ip \in [Proc -> Inum \cup {0}] /\ file \in [Proc -> Inum \cup {0}]
    /\ rest \in [Proc -> Seq(Name)]
    /\ drop \in [Proc -> Seq(Inum)]
    /\ \A p \in Proc : Len(drop[p]) <= 2 /\ (drop[p] = <<>> <=> pc[p] \notin Dropping)

TypeOK == DiskTypes /\ TableTypes /\ LocalTypes

\* What the locals hold at each place.
Shape(p) ==
    /\ cur[p] # 0 <=> Place(p) = "walk"
    /\ dp[p] # 0 <=> Place(p) \in {"create", "new", "dirlink", "unlink", "unlink2", "full"}
    /\ ip[p] # 0 <=> \/ Place(p) \in {"open", "exists", "new", "made", "link", "unlink2",
                                      "unlink3"}
                     \/ LinkPlace(p)
    /\ Place(p) \in {"walk", "create", "new", "dirlink", "unlink", "unlink2"} => rest[p] # <<>>
    /\ Place(p) \in {"create", "exists", "new", "made"} => call[p].op = "create"
    /\ Place(p) = "walk" => call[p].op # "none"
    /\ Place(p) \in {"link", "linknew"} => call[p].op = "link"
    /\ Place(p) = "dirlink" => call[p].op = "link2"
    /\ Place(p) = "open" => call[p].op = "open"
    /\ Place(p) \in {"new", "unlink2"} => pc[p] = Place(p)
    /\ call[p].op = "open" => file[p] = 0
    /\ call[p].op = "create" => (call[p].type = "file" => file[p] = 0)

\* Who has locked an inode.
Holds(p, i) ==
    \/ Place(p) \in {"new", "unlink2", "full"} /\ dp[p] = i
    \/ Place(p) \in {"made", "unlink3"} /\ ip[p] = i
    \/ pc[p] \in {"itrunc", "ifreed"} /\ Head(drop[p]) = i

Locks == \A i \in Inum, p \in Proc : lock[i] = p <=> Holds(p, i)

\* An inode in use is allocated.
Live == \A i \in Inum, p \in Proc : Uses(p, i) => type[i] # Free

\* A new inode has no links, and is used by the call that makes it only.
Fresh(p) ==
    Place(p) = "new" =>
        /\ nlink[ip[p]] = 0
        /\ \A q \in Proc : Uses(q, ip[p]) => q = p
        /\ file[p] # ip[p] /\ dp[p] # ip[p]

\* An inode that is being freed has no links and no other pointer, and is locked for that
\* alone.
Freeing(p) ==
    /\ pc[p] = "itrunc" => ref[Head(drop[p])] = 1 /\ nlink[Head(drop[p])] = 0
    /\ pc[p] \in {"itrunc", "ifreed"} => Head(drop[p]) \notin {dp[p], ip[p]}

\* A free inode has no names and no subdirectories.
FreeOK(i) == type[i] = Free => i # ROOTINO /\ NamesOf(i) = {} /\ Subdirs(i) = {}

RootLink(i) == IF i = ROOTINO THEN 1 ELSE 0

LinksOK(i) ==
    type[i] # Free =>
        nlink[i] >= Cardinality(NamesOf(i)) + Cardinality(Subdirs(i)) + RootLink(i)
                      + Cardinality(Pending(i))

\* A directory has one name at most, in the directory that its ".." names.
DirOK(i) ==
    type[i] = "dir" =>
        /\ \A e, f \in NamesOf(i) : e = f
        /\ \A e \in NamesOf(i) : up[i] = e[1]

\* Only files are linked, a new inode has the type that was asked for, and what
\* unlink() has found stays in the directory.
CallOK(p) ==
    /\ Place(p) \in {"new", "made"} => type[ip[p]] = call[p].type
    /\ LinkPlace(p) => type[ip[p]] = "file"
    /\ Place(p) = "unlink2" => entry[dp[p]][Head(rest[p])] = ip[p]

InodeInv ==
    /\ TypeOK
    /\ \A p \in Proc : Shape(p) /\ Fresh(p) /\ Freeing(p) /\ CallOK(p)
    /\ Locks
    /\ RefsExact
    /\ Live
    /\ \A i \in Inum : FreeOK(i) /\ LinksOK(i) /\ DirOK(i)

-----------------------------------------------------------------------------
(***************************************************************************)
(* Counting pointers                                                       *)
(***************************************************************************)

\* Of a set of processes, the pointers in one of the locals, and in drop.
CountOf(f, S, i) == Cardinality({p \in S : f[p] = i})
DropSet(S, i) == {e \in S \X (1 .. 2) : e[2] \in DOMAIN drop[e[1]] /\ drop[e[1]][e[2]] = i}
PointersOf(S, i) == CountOf(file, S, i) + CountOf(cur, S, i) + CountOf(dp, S, i)
                      + CountOf(ip, S, i) + Cardinality(DropSet(S, i))

\* One process more or less in a set of those with f[p] = i.
LEMMA CountOne ==
    ASSUME NEW S, IsFiniteSet(S), NEW p \in S, NEW f, NEW i
    PROVE  /\ CountOf(f, S, i) \in Nat /\ CountOf(f, S \ {p}, i) \in Nat
           /\ CountOf(f, S, i) = CountOf(f, S \ {p}, i) + Is(f[p], i)
  <1> DEFINE A == {q \in S : f[q] = i}
             B == {q \in S \ {p} : f[q] = i}
  <1>1. IsFiniteSet(A) /\ IsFiniteSet(B) /\ p \notin B
    BY FS_Subset
  <1>2. Cardinality(A) \in Nat /\ Cardinality(B) \in Nat
    BY <1>1, FS_CardinalityType
  <1>3. f[p] = i => A = B \cup {p}
    OBVIOUS
  <1>4. f[p] # i => A = B
    OBVIOUS
  <1>5. CountOf(f, S, i) = Cardinality(A) /\ CountOf(f, S \ {p}, i) = Cardinality(B)
    BY DEF CountOf
  <1> HIDE DEF A, B
  <1>6. f[p] = i => Cardinality(A) = Cardinality(B) + 1
    BY <1>1, <1>3, FS_AddElement
  <1> QED
    BY <1>2, <1>4, <1>5, <1>6 DEF Is

\* The same for the inodes to iput().
LEMMA CountDrop ==
    ASSUME NEW S, IsFiniteSet(S), NEW p \in S, NEW i
    PROVE  /\ Cardinality(DropSet(S, i)) \in Nat
           /\ Cardinality(DropSet(S \ {p}, i)) \in Nat
           /\ Cardinality(DropSet(S, i))
                = Cardinality(DropSet(S \ {p}, i)) + InSeq(drop[p], 1, i) + InSeq(drop[p], 2, i)
  <1> DEFINE D == DropSet(S, i)
             B == DropSet(S \ {p}, i)
             E(k) == IF InSeq(drop[p], k, i) = 1 THEN {<<p, k>>} ELSE {}
  <1>1. IsFiniteSet(D) /\ IsFiniteSet(B)
    <2>1. IsFiniteSet(1 .. 2)
      <3>1. 1 \in Int /\ 2 \in Int
        OBVIOUS
      <3> QED
        BY <3>1, FS_Interval, Zenon
    <2>2. IsFiniteSet(S \X (1 .. 2))
      BY <2>1, FS_Product
    <2>3. D \subseteq S \X (1 .. 2) /\ B \subseteq S \X (1 .. 2)
      BY DEF DropSet
    <2> QED
      BY <2>2, <2>3, FS_Subset
  <1>2. D = (B \cup E(1)) \cup E(2)
    <2>1. ASSUME NEW e \in S \X (1 .. 2), e[1] = p
          PROVE  e \in D <=> e \in E(1) \cup E(2)
      BY <2>1 DEF InSeq, DropSet
    <2>2. ASSUME NEW e \in S \X (1 .. 2), e[1] # p
          PROVE  /\ e \in D <=> e \in B
                 /\ e \notin E(1) \cup E(2)
      BY <2>2 DEF DropSet
    <2>3. \A e \in B : e \in S \X (1 .. 2) /\ e[1] # p
      BY DEF DropSet
    <2>4. \A e \in E(1) \cup E(2) : e \in S \X (1 .. 2) /\ e[1] = p
      OBVIOUS
    <2>5. \A e \in D : e \in S \X (1 .. 2)
      BY DEF DropSet
    <2> QED
      BY <2>1, <2>2, <2>3, <2>4, <2>5
  <1>3. <<p, 1>> \notin B /\ <<p, 2>> \notin B \cup E(1)
    BY DEF DropSet
  <1> HIDE DEF D, B
  <1>4. /\ IsFiniteSet(B \cup E(1))
        /\ Cardinality(B \cup E(1)) = Cardinality(B) + InSeq(drop[p], 1, i)
    <2>1. CASE InSeq(drop[p], 1, i) = 1
      BY <1>1, <1>3, <2>1, FS_AddElement, FS_CardinalityType
    <2>2. CASE InSeq(drop[p], 1, i) # 1
      BY <1>1, <2>2, FS_CardinalityType DEF InSeq
    <2> QED
      BY <2>1, <2>2
  <1>5. Cardinality(D) = Cardinality(B \cup E(1)) + InSeq(drop[p], 2, i)
    <2>1. CASE InSeq(drop[p], 2, i) = 1
      <3>1. D = (B \cup E(1)) \cup {<<p, 2>>}
        BY <1>2, <2>1
      <3> HIDE DEF E
      <3>2. Cardinality(D) = Cardinality(B \cup E(1)) + 1
        BY <1>3, <1>4, <3>1, FS_AddElement
      <3> QED
        BY <2>1, <3>2
    <2>2. CASE InSeq(drop[p], 2, i) # 1
      BY <1>1, <1>2, <1>4, <2>2, FS_CardinalityType DEF InSeq
    <2> QED
      BY <2>1, <2>2
  <1>6. Cardinality(D) \in Nat /\ Cardinality(B) \in Nat
    BY <1>1, FS_CardinalityType
  <1>7. InSeq(drop[p], 1, i) \in Nat /\ InSeq(drop[p], 2, i) \in Nat
    BY DEF InSeq
  <1>8. Cardinality(D) = Cardinality(B) + InSeq(drop[p], 1, i) + InSeq(drop[p], 2, i)
    BY <1>4, <1>5, <1>6, <1>7
  <1> QED
    BY <1>6, <1>8 DEF D, B

\* The numbers that are added up.
LEMMA OwnType ==
    ASSUME NEW p, NEW i
    PROVE  /\ Is(file[p], i) \in Nat /\ Is(cur[p], i) \in Nat
           /\ Is(dp[p], i) \in Nat /\ Is(ip[p], i) \in Nat
           /\ InSeq(drop[p], 1, i) \in Nat /\ InSeq(drop[p], 2, i) \in Nat
           /\ Own(p, i) \in Nat
  BY DEF Own, Is, InSeq

\* The pointers of a set are those of one process and of the others.
LEMMA CountPointers ==
    ASSUME NEW S, IsFiniteSet(S), NEW p \in S, NEW i
    PROVE  /\ PointersOf(S, i) \in Nat /\ PointersOf(S \ {p}, i) \in Nat
           /\ PointersOf(S, i) = PointersOf(S \ {p}, i) + Own(p, i)
  <1> DEFINE Counted(f) == /\ CountOf(f, S, i) \in Nat /\ CountOf(f, S \ {p}, i) \in Nat
                           /\ CountOf(f, S, i) = CountOf(f, S \ {p}, i) + Is(f[p], i)
  <1>1. Counted(file) /\ Counted(cur) /\ Counted(dp) /\ Counted(ip)
    BY CountOne
  <1>2. /\ Cardinality(DropSet(S, i)) \in Nat
        /\ Cardinality(DropSet(S \ {p}, i)) \in Nat
        /\ Cardinality(DropSet(S, i))
             = Cardinality(DropSet(S \ {p}, i)) + InSeq(drop[p], 1, i) + InSeq(drop[p], 2, i)
    BY CountDrop
  <1>3. /\ Is(file[p], i) \in Nat /\ Is(cur[p], i) \in Nat
        /\ Is(dp[p], i) \in Nat /\ Is(ip[p], i) \in Nat
        /\ InSeq(drop[p], 1, i) \in Nat /\ InSeq(drop[p], 2, i) \in Nat
    BY OwnType
  <1>4. PointersOf(S, i) \in Nat /\ PointersOf(S \ {p}, i) \in Nat
    BY <1>1, <1>2 DEF PointersOf
  <1>5. PointersOf(S, i) = PointersOf(S \ {p}, i) + Own(p, i)
    BY <1>1, <1>2, <1>3 DEF PointersOf, Own
  <1> QED
    BY <1>4, <1>5

\* What two processes have of the pointers.
LEMMA PointersSplit ==
    ASSUME NEW p \in Proc, NEW i
    PROVE  /\ Pointers(i) \in Nat /\ PointersOf(Proc \ {p}, i) \in Nat
           /\ Pointers(i) = PointersOf(Proc \ {p}, i) + Own(p, i)
           /\ \A q \in Proc \ {p} : Own(p, i) + Own(q, i) <= Pointers(i)
  <1>1. Pointers(i) = PointersOf(Proc, i)
    BY DEF Pointers, PointersOf, CountOf, DropSet
  <1>2. /\ PointersOf(Proc, i) \in Nat /\ PointersOf(Proc \ {p}, i) \in Nat
        /\ PointersOf(Proc, i) = PointersOf(Proc \ {p}, i) + Own(p, i)
    BY CountPointers, InodeAssumption
  <1>3. ASSUME NEW q \in Proc \ {p}
        PROVE  Own(q, i) <= PointersOf(Proc \ {p}, i)
    <2>1. IsFiniteSet(Proc \ {p})
      BY InodeAssumption, FS_Subset
    <2>2. /\ PointersOf((Proc \ {p}) \ {q}, i) \in Nat
          /\ PointersOf(Proc \ {p}, i) = PointersOf((Proc \ {p}) \ {q}, i) + Own(q, i)
      BY <2>1, CountPointers
    <2> QED
      BY <2>2, OwnType
  <1> QED
    BY <1>1, <1>2, <1>3, OwnType

-----------------------------------------------------------------------------
(***************************************************************************)
(* The steps of a process                                                  *)
(***************************************************************************)

\* The first of the inodes to iput().
LEMMA HeadDropped ==
    ASSUME TypeOK, NEW p \in Proc, pc[p] \in Dropping
    PROVE  /\ drop[p] # <<>> /\ Head(drop[p]) \in Inum /\ Head(drop[p]) = drop[p][1]
           /\ \A i : InSeq(drop[p], 1, i) = Is(Head(drop[p]), i)
           /\ Own(p, Head(drop[p])) > 0
  <1>1. drop[p] # <<>> /\ drop[p] \in Seq(Inum)
    BY DEF TypeOK, DiskTypes, TableTypes, LocalTypes
  <1>2. Head(drop[p]) \in Inum /\ Head(drop[p]) = drop[p][1] /\ 1 \in DOMAIN drop[p]
    BY <1>1
  <1>3. \A i : InSeq(drop[p], 1, i) = Is(Head(drop[p]), i)
    BY <1>2 DEF InSeq, Is
  <1>4. InSeq(drop[p], 1, Head(drop[p])) = 1
    BY <1>3 DEF Is
  <1>5. Own(p, Head(drop[p])) > 0
    BY <1>4, OwnType DEF Own
  <1> QED
    BY <1>1, <1>2, <1>3, <1>5

\* Whoever uses an inode points to it.
LEMMA UsedIsOwned ==
    ASSUME NEW p, NEW i, Uses(p, i)
    PROVE  Own(p, i) > 0
  BY OwnType DEF Uses, Own, Is

\* Of two pointers each counts, and so does each of one process.
LEMMA TwoPointers ==
    ASSUME RefsExact, NEW p \in Proc, NEW i \in Inum
    PROVE  /\ Own(p, i) <= ref[i]
           /\ \A q \in Proc \ {p} : Own(p, i) + Own(q, i) <= ref[i]
  <1>1. ref[i] = Pointers(i)
    BY DEF RefsExact
  <1>2. /\ Pointers(i) \in Nat /\ PointersOf(Proc \ {p}, i) \in Nat
        /\ Pointers(i) = PointersOf(Proc \ {p}, i) + Own(p, i)
        /\ \A q \in Proc \ {p} : Own(p, i) + Own(q, i) <= Pointers(i)
    BY PointersSplit
  <1> QED
    BY <1>1, <1>2, OwnType

\* The sets that link counts are compared with are finite.
LEMMA FiniteNames ==
    ASSUME NEW i
    PROVE  /\ IsFiniteSet(NamesOf(i)) /\ IsFiniteSet(Subdirs(i)) /\ IsFiniteSet(Pending(i))
  <1>1. IsFiniteSet(Inum \X Name)
    BY FS_Product, InodeAssumption
  <1>2. NamesOf(i) \subseteq Inum \X Name /\ Subdirs(i) \subseteq Inum /\ Pending(i) \subseteq Proc
    BY DEF NamesOf, Subdirs, Pending
  <1> QED
    BY <1>1, <1>2, FS_Subset, InodeAssumption

\* Their numbers.
LEMMA LinkNumbers ==
    ASSUME NEW i
    PROVE  /\ Cardinality(NamesOf(i)) \in Nat /\ Cardinality(Subdirs(i)) \in Nat
           /\ Cardinality(Pending(i)) \in Nat /\ RootLink(i) \in 0 .. 1
  BY FiniteNames, FS_CardinalityType DEF RootLink

\* A set with an element has not none.
LEMMA NonEmptyCount ==
    ASSUME NEW S, IsFiniteSet(S), S # {}
    PROVE  Cardinality(S) > 0
  BY FS_EmptySet, FS_CardinalityType

\* An inode that has a name, or no need of one.
Named(i) == i = ROOTINO \/ NamesOf(i) # {}

\* An inode with a name is allocated and has a link.
LEMMA NamedIsLinked ==
    ASSUME TypeOK, NEW i \in Inum, FreeOK(i), LinksOK(i), Named(i)
    PROVE  type[i] # Free /\ nlink[i] > 0
  <1>1. type[i] # Free
    BY DEF FreeOK, Named
  <1>2. nlink[i] >= Cardinality(NamesOf(i)) + Cardinality(Subdirs(i)) + RootLink(i)
                      + Cardinality(Pending(i))
    BY <1>1 DEF LinksOK
  <1>3. i = ROOTINO => RootLink(i) = 1
    BY DEF RootLink
  <1>4. NamesOf(i) # {} => Cardinality(NamesOf(i)) > 0
    BY FiniteNames, NonEmptyCount
  <1> QED
    BY <1>1, <1>2, <1>3, <1>4, LinkNumbers DEF Named, TypeOK, DiskTypes, TableTypes, LocalTypes

\* The locals of the other processes.
Others(p) ==
    \A q \in Proc \ {p} :
        /\ call'[q] = call[q] /\ pc'[q] = pc[q] /\ cur'[q] = cur[q] /\ rest'[q] = rest[q]
        /\ dp'[q] = dp[q] /\ ip'[q] = ip[q] /\ drop'[q] = drop[q] /\ ret'[q] = ret[q]
        /\ file'[q] = file[q]

\* What a step of a process may change of an inode.
Table(p) ==
    \A i \in Inum :
        /\ ref'[i] = ref[i] + Own(p, i)' - Own(p, i)
        /\ lock'[i] = p <=> Holds(p, i)'
        /\ \A q \in Proc \ {p} : lock'[i] = q <=> lock[i] = q

Disk(p) ==
    \A i \in Inum :
        /\ \/ type'[i] = type[i]
           \/ type[i] = Free
           \/ pc[p] = "itrunc" /\ Head(drop[p]) = i /\ ~Uses(p, i)'
        /\ nlink'[i] # nlink[i] => Uses(p, i) \/ type[i] = Free
        /\ entry'[i] # entry[i] => lock[i] \in {p, NoProc}

Gains(p) ==
    \A i \in Inum :
        /\ Uses(p, i)' => Uses(p, i) \/ Named(i) \/ (type[i] = Free /\ type'[i] # Free)
        /\ Own(p, i)' > 0 => Own(p, i) > 0 \/ Named(i) \/ type[i] = Free

\* The invariant at the process itself.
Here(p) == Shape(p) /\ Fresh(p) /\ Freeing(p) /\ CallOK(p)

StepOK(p) == Others(p) /\ Table(p) /\ Disk(p) /\ Gains(p) /\ TypeOK' /\ Here(p)'

\* What is said of a process depends on its locals.
LEMMA Unmoved ==
    ASSUME NEW p \in Proc, Others(p), NEW q \in Proc \ {p}
    PROVE  /\ Place(q)' = Place(q) /\ LinkPlace(q)' = LinkPlace(q)
           /\ \A i : /\ Own(q, i)' = Own(q, i)
                     /\ Uses(q, i)' <=> Uses(q, i)
                     /\ Holds(q, i)' <=> Holds(q, i)
  BY DEF Others, Place, LinkPlace, Own, Uses, Holds

\* The pointers of the others stay.
LEMMA OthersPointers ==
    ASSUME NEW p \in Proc, Others(p), NEW i
    PROVE  PointersOf(Proc \ {p}, i)' = PointersOf(Proc \ {p}, i)
  <1> DEFINE S == Proc \ {p}
  <1>1. /\ {q \in S : file'[q] = i} = {q \in S : file[q] = i}
        /\ {q \in S : cur'[q] = i} = {q \in S : cur[q] = i}
        /\ {q \in S : dp'[q] = i} = {q \in S : dp[q] = i}
        /\ {q \in S : ip'[q] = i} = {q \in S : ip[q] = i}
    BY DEF Others
  <1>2. DropSet(S, i)' = DropSet(S, i)
    BY DEF Others, DropSet
  <1> QED
    BY <1>1, <1>2 DEF PointersOf, CountOf

\* References are counted exactly after the step.
LEMMA RefsStay ==
    ASSUME TypeOK, RefsExact, NEW p \in Proc, Others(p), Table(p)
    PROVE  RefsExact'
  <1> SUFFICES ASSUME NEW i \in Inum PROVE ref'[i] = Pointers(i)'
    BY DEF RefsExact
  <1>1. ref[i] = Pointers(i)
    BY DEF RefsExact
  <1>2. /\ PointersOf(Proc \ {p}, i) \in Nat
        /\ Pointers(i) = PointersOf(Proc \ {p}, i) + Own(p, i)
    BY PointersSplit
  <1>3. (/\ PointersOf(Proc \ {p}, i) \in Nat
         /\ Pointers(i) = PointersOf(Proc \ {p}, i) + Own(p, i))'
    BY PointersSplit, PTL
  <1>4. Own(p, i) \in Nat /\ Own(p, i)' \in Nat
    BY OwnType DEF Own, Is, InSeq
  <1>5. ref'[i] = ref[i] + Own(p, i)' - Own(p, i)
    BY DEF Table
  <1>6. PointersOf(Proc \ {p}, i)' = PointersOf(Proc \ {p}, i)
    BY OthersPointers
  <1> QED
    BY <1>1, <1>2, <1>3, <1>4, <1>5, <1>6

\* Who uses an inode of which there is one pointer only is the one that has it.
LEMMA OnlyOne ==
    ASSUME RefsExact, NEW p \in Proc, NEW q \in Proc \ {p}, NEW i \in Inum,
           ref[i] = 1, Own(q, i) > 0
    PROVE  Own(p, i) = 0 /\ ~Uses(p, i)
  <1>1. Own(q, i) + Own(p, i) <= ref[i]
    BY TwoPointers
  <1>2. Own(p, i) = 0
    BY <1>1, OwnType
  <1> QED
    BY <1>2, UsedIsOwned

\* A step does not change an inode without links that the process does not use.
LEMMA NotReached ==
    ASSUME InodeInv, NEW p \in Proc, StepOK(p), NEW i \in Inum,
           type[i] # Free, nlink[i] = 0, ~Uses(p, i)
    PROVE  /\ nlink'[i] = 0 /\ ~Uses(p, i)'
           /\ Own(p, i) = 0 => ref'[i] = ref[i]
  <1>1. ~Named(i)
    BY NamedIsLinked DEF InodeInv
  <1>2. nlink'[i] = 0 /\ ~Uses(p, i)'
    BY <1>1 DEF StepOK, Disk, Gains
  <1>3. Own(p, i) = 0 => ~(Own(p, i)' > 0)
    BY <1>1 DEF StepOK, Gains
  <1>4. Own(p, i)' \in Nat
    BY DEF Own, Is, InSeq
  <1>5. ref[i] \in Nat /\ ref'[i] = ref[i] + Own(p, i)' - Own(p, i)
    BY DEF StepOK, Table, InodeInv, TypeOK, DiskTypes, TableTypes, LocalTypes
  <1> QED
    BY <1>2, <1>3, <1>4, <1>5

\* The type of an inode that another process uses does not change.
LEMMA TypeKept ==
    ASSUME InodeInv, NEW p \in Proc, StepOK(p), NEW q \in Proc \ {p}, NEW i \in Inum,
           Uses(q, i)
    PROVE  type'[i] = type[i] /\ type[i] # Free
  <1>1. type[i] # Free
    BY DEF InodeInv, Live
  <1>2. ASSUME pc[p] = "itrunc", Head(drop[p]) = i
        PROVE  FALSE
    <2>1. ref[i] = 1
      BY <1>2 DEF InodeInv, Freeing
    <2>2. Own(p, i) > 0
      BY <1>2, HeadDropped DEF Dropping, InodeInv
    <2>3. Own(q, i) > 0
      BY UsedIsOwned
    <2> QED
      BY <2>1, <2>2, <2>3, OnlyOne DEF InodeInv
  <1> QED
    BY <1>1, <1>2 DEF StepOK, Disk

\* Locks are where they are held.
LEMMA LocksStay ==
    ASSUME InodeInv, NEW p \in Proc, StepOK(p)
    PROVE  Locks'
  <1> SUFFICES ASSUME NEW i \in Inum, NEW q \in Proc
               PROVE  lock'[i] = q <=> Holds(q, i)'
    BY DEF Locks
  <1>1. CASE q = p
    BY <1>1 DEF StepOK, Table
  <1>2. CASE q # p
    <2>1. Holds(q, i)' <=> Holds(q, i)
      BY <1>2, Unmoved DEF StepOK
    <2>2. lock'[i] = q <=> lock[i] = q
      BY <1>2 DEF StepOK, Table
    <2> QED
      BY <2>1, <2>2 DEF InodeInv, Locks
  <1> QED
    BY <1>1, <1>2

\* Inodes in use are allocated.
LEMMA LiveStays ==
    ASSUME InodeInv, NEW p \in Proc, StepOK(p)
    PROVE  Live'
  <1> SUFFICES ASSUME NEW i \in Inum, NEW q \in Proc, Uses(q, i)'
               PROVE  type'[i] # Free
    BY DEF Live
  <1>1. CASE q = p
    <2>1. CASE type[i] = Free
      <3>1. ~Uses(p, i) /\ ~Named(i)
        BY <2>1 DEF InodeInv, Live, FreeOK, Named
      <3> QED
        BY <1>1, <3>1 DEF StepOK, Gains
    <2>2. CASE type[i] # Free
      BY <1>1, <2>2 DEF StepOK, Disk
    <2> QED
      BY <2>1, <2>2
  <1>2. CASE q # p
    <2>1. Uses(q, i)
      BY <1>2, Unmoved DEF StepOK
    <2> QED
      BY <1>2, <2>1, TypeKept
  <1> QED
    BY <1>1, <1>2

\* What holds of the other processes goes on to hold of them.
LEMMA OthersStay ==
    ASSUME InodeInv, NEW p \in Proc, StepOK(p), NEW q \in Proc \ {p}
    PROVE  Here(q)'
  <1>1. Shape(q)'
    BY DEF StepOK, Others, InodeInv, Shape, Place, LinkPlace
  <1>2. ASSUME Place(q)' = "new"
        PROVE  Fresh(q)'
    <2>1. Place(q) = "new" /\ ip'[q] = ip[q] /\ file'[q] = file[q] /\ dp'[q] = dp[q]
      BY <1>2, Unmoved DEF StepOK, Others
    <2>2. PICK i \in Inum : i = ip[q]
      BY <2>1 DEF InodeInv, Shape, TypeOK, DiskTypes, TableTypes, LocalTypes
    <2>3. /\ nlink[i] = 0 /\ \A r \in Proc : Uses(r, i) => r = q
          /\ file[q] # i /\ dp[q] # i
      BY <2>1, <2>2 DEF InodeInv, Fresh
    <2>4. Uses(q, i)
      BY <2>2 DEF Uses
    <2>5. type[i] # Free
      BY <2>4 DEF InodeInv, Live
    <2>6. nlink'[i] = 0 /\ ~Uses(p, i)'
      BY <2>3, <2>5, NotReached
    <2>7. \A r \in Proc \ {p} : Uses(r, i)' <=> Uses(r, i)
      BY Unmoved DEF StepOK
    <2> QED
      BY <2>1, <2>2, <2>3, <2>6, <2>7 DEF Fresh
  <1>3. ASSUME pc'[q] = "itrunc"
        PROVE  ref'[Head(drop'[q])] = 1 /\ nlink'[Head(drop'[q])] = 0
    <2> DEFINE i == Head(drop[q])
    <2>1. pc[q] = "itrunc" /\ drop'[q] = drop[q]
      BY <1>3 DEF StepOK, Others
    <2>2. ref[i] = 1 /\ nlink[i] = 0
      BY <2>1 DEF InodeInv, Freeing
    <2>3. /\ i \in Inum /\ Own(q, i) > 0
          /\ InSeq(drop[q], 1, i) = Is(i, i)
      BY <2>1, HeadDropped DEF Dropping, InodeInv
    <2>4. Uses(q, i)
      BY <2>1, <2>3 DEF Uses, Is
    <2>5. type[i] # Free
      BY <2>3, <2>4 DEF InodeInv, Live
    <2>6. Own(p, i) = 0 /\ ~Uses(p, i)
      BY <2>2, <2>3, OnlyOne DEF InodeInv
    <2> HIDE DEF i
    <2>7. nlink'[i] = 0 /\ ref'[i] = 1
      BY <2>2, <2>3, <2>5, <2>6, NotReached
    <2> QED
      BY <2>1, <2>7 DEF i
  <1>4. Freeing(q)'
    BY <1>3 DEF Freeing, StepOK, Others, InodeInv
  <1>5. CallOK(q)'
    <2>1. ASSUME LinkPlace(q)'
          PROVE  type'[ip'[q]] = "file"
      <3>1. LinkPlace(q) /\ ip'[q] = ip[q]
        BY <2>1, Unmoved DEF StepOK, Others
      <3>2. ip[q] \in Inum /\ Uses(q, ip[q])
        BY <3>1 DEF InodeInv, Shape, TypeOK, DiskTypes, TableTypes, LocalTypes, Uses
      <3>3. type'[ip[q]] = type[ip[q]]
        BY <3>2, TypeKept
      <3> QED
        BY <3>1, <3>3 DEF InodeInv, CallOK
    <2>2. ASSUME Place(q)' = "unlink2"
          PROVE  entry'[dp'[q]][Head(rest'[q])] = ip'[q]
      <3>1. Place(q) = "unlink2" /\ ip'[q] = ip[q] /\ dp'[q] = dp[q] /\ rest'[q] = rest[q]
        BY <2>2, Unmoved DEF StepOK, Others
      <3>2. dp[q] \in Inum
        BY <3>1 DEF InodeInv, Shape, TypeOK, DiskTypes, TableTypes, LocalTypes
      <3>3. Holds(q, dp[q])
        BY <3>1 DEF Holds
      <3>4. lock[dp[q]] = q
        BY <3>2, <3>3 DEF InodeInv, Locks
      <3>5. entry'[dp[q]] = entry[dp[q]]
        BY <3>2, <3>4, InodeAssumption DEF StepOK, Disk
      <3> QED
        BY <3>1, <3>5 DEF InodeInv, CallOK
    <2>3. ASSUME Place(q)' \in {"new", "made"}
          PROVE  type'[ip'[q]] = call'[q].type
      <3>1. Place(q) \in {"new", "made"} /\ ip'[q] = ip[q] /\ call'[q] = call[q]
        BY <2>3, Unmoved DEF StepOK, Others
      <3>2. ip[q] \in Inum /\ Uses(q, ip[q])
        BY <3>1 DEF InodeInv, Shape, TypeOK, DiskTypes, TableTypes, LocalTypes, Uses
      <3>3. type'[ip[q]] = type[ip[q]]
        BY <3>2, TypeKept
      <3> QED
        BY <3>1, <3>3 DEF InodeInv, CallOK
    <2> QED
      BY <2>1, <2>2, <2>3 DEF CallOK
  <1> QED
    BY <1>1, <1>2, <1>4, <1>5 DEF Here, Fresh

\* The invariant after a step, but for what is said of single inodes.
LEMMA AfterStep ==
    ASSUME InodeInv, NEW p \in Proc, StepOK(p),
           \A i \in Inum : (FreeOK(i) /\ LinksOK(i) /\ DirOK(i))'
    PROVE  InodeInv'
  <1>1. \A q \in Proc : Here(q)'
    BY OthersStay DEF StepOK
  <1>2. RefsExact'
    BY RefsStay DEF InodeInv, StepOK
  <1> QED
    BY <1>1, <1>2, LocksStay, LiveStays DEF InodeInv, Here, StepOK

\* Steps that leave the disk and the pending links alone.
LEMMA DiskStays ==
    ASSUME InodeInv, NEW p \in Proc, Others(p), UNCHANGED diskVars,
           \A i \in Inum : p \in Pending(i)' <=> p \in Pending(i)
    PROVE  \A i \in Inum : (FreeOK(i) /\ LinksOK(i) /\ DirOK(i))'
  <1> SUFFICES ASSUME NEW i \in Inum
               PROVE  (FreeOK(i) /\ LinksOK(i) /\ DirOK(i))'
    OBVIOUS
  <1>1. NamesOf(i)' = NamesOf(i) /\ Subdirs(i)' = Subdirs(i)
    BY DEF diskVars, NamesOf, Subdirs
  <1>2. Pending(i)' = Pending(i)
    <2>1. \A q \in Proc \ {p} : q \in Pending(i)' <=> q \in Pending(i)
      BY Unmoved DEF Others, Pending
    <2>2. \A q : (q \in Pending(i)' => q \in Proc) /\ (q \in Pending(i) => q \in Proc)
      BY DEF Pending
    <2> QED
      BY <2>1, <2>2
  <1>3. FreeOK(i) /\ LinksOK(i) /\ DirOK(i)
    BY DEF InodeInv
  <1> QED
    BY <1>1, <1>2, <1>3 DEF diskVars, FreeOK, LinksOK, DirOK

\* The pointers in short sequences of inodes, and where there is none.
LEMMA FewPointers ==
    /\ \A i \in Inum : Is(0, i) = 0
    /\ \A i : InSeq(<<>>, 1, i) = 0 /\ InSeq(<<>>, 2, i) = 0
    /\ \A x, i : InSeq(<<x>>, 1, i) = Is(x, i) /\ InSeq(<<x>>, 2, i) = 0
    /\ \A x, y, i : InSeq(<<x, y>>, 1, i) = Is(x, i) /\ InSeq(<<x, y>>, 2, i) = Is(y, i)
  BY InodeAssumption DEF Is, InSeq

\* A step of p changes the locals of p only.
Moves(p) ==
    /\ call' = [call EXCEPT ![p] = call'[p]] /\ pc' = [pc EXCEPT ![p] = pc'[p]]
    /\ ret' = [ret EXCEPT ![p] = ret'[p]] /\ cur' = [cur EXCEPT ![p] = cur'[p]]
    /\ dp' = [dp EXCEPT ![p] = dp'[p]] /\ ip' = [ip EXCEPT ![p] = ip'[p]]
    /\ file' = [file EXCEPT ![p] = file'[p]] /\ rest' = [rest EXCEPT ![p] = rest'[p]]
    /\ drop' = [drop EXCEPT ![p] = drop'[p]]

\* The types of the locals of a process.
OneTypes(p) ==
    /\ call[p] \in Calls /\ pc[p] \in Places \cup Dropping /\ ret[p] \in Places
    /\ cur[p] \in Inum \cup {0} /\ dp[p] \in Inum \cup {0} /\ ip[p] \in Inum \cup {0}
    /\ file[p] \in Inum \cup {0} /\ rest[p] \in Seq(Name) /\ drop[p] \in Seq(Inum)
    /\ Len(drop[p]) <= 2 /\ (drop[p] = <<>> <=> pc[p] \notin Dropping)

\* A step that changes one process keeps the types of all.
LEMMA LocalsMove ==
    ASSUME LocalTypes, NEW p \in Proc, Moves(p), OneTypes(p)'
    PROVE  LocalTypes' /\ Others(p)
  <1>1. Others(p)
    BY DEF LocalTypes, Moves, Others
  <1>2. /\ call' \in [Proc -> Calls] /\ ret' \in [Proc -> Places]
        /\ pc' \in [Proc -> Places \cup Dropping]
    BY DEF LocalTypes, Moves, OneTypes
  <1>3. /\ cur' \in [Proc -> Inum \cup {0}] /\ dp' \in [Proc -> Inum \cup {0}]
        /\ ip' \in [Proc -> Inum \cup {0}] /\ file' \in [Proc -> Inum \cup {0}]
    BY DEF LocalTypes, Moves, OneTypes
  <1>4. rest' \in [Proc -> Seq(Name)] /\ drop' \in [Proc -> Seq(Inum)]
    <2>1. rest \in [Proc -> Seq(Name)] /\ rest'[p] \in Seq(Name)
      BY DEF LocalTypes, OneTypes
    <2>2. drop \in [Proc -> Seq(Inum)] /\ drop'[p] \in Seq(Inum)
      BY DEF LocalTypes, OneTypes
    <2>3. rest' = [rest EXCEPT ![p] = rest'[p]] /\ drop' = [drop EXCEPT ![p] = drop'[p]]
      BY DEF Moves
    <2>4. rest' \in [Proc -> Seq(Name)]
      BY <2>1, <2>3, Zenon
    <2>5. drop' \in [Proc -> Seq(Inum)]
      BY <2>2, <2>3, Zenon
    <2> QED
      BY <2>4, <2>5
  <1>5. \A q \in Proc : Len(drop'[q]) <= 2 /\ (drop'[q] = <<>> <=> pc'[q] \notin Dropping)
    BY <1>1 DEF LocalTypes, OneTypes, Others
  <1> QED
    BY <1>1, <1>2, <1>3, <1>4, <1>5 DEF LocalTypes

\* The locals of a process before its step.
LEMMA LocalsBefore ==
    ASSUME InodeInv, NEW p \in Proc
    PROVE  /\ OneTypes(p) /\ Shape(p) /\ Fresh(p) /\ Freeing(p) /\ CallOK(p)
           /\ pc[p] \notin Dropping => Place(p) = pc[p] /\ drop[p] = <<>>
           /\ DiskTypes /\ TableTypes /\ LocalTypes
  BY DEF InodeInv, TypeOK, LocalTypes, OneTypes, Place

\* What a process calls.
LEMMA CallParts ==
    ASSUME NEW c \in Calls
    PROVE  /\ c.op \in {"none", "open", "unlink", "link2", "create", "link"}
           /\ c.op = "create" => c.type \in Type
           /\ c.op = "link" => c.new \in Path
  BY DEF Calls, NoCall

\* The first step of a path that is left to go.
LEMMA Step1 ==
    ASSUME NEW s \in Seq(Name), s # <<>>
    PROVE  /\ Head(s) \in Name /\ Tail(s) \in Seq(Name) /\ Len(s) \in Nat
           /\ Len(s) # 1 => Tail(s) # <<>>
  <1>1. Head(s) \in Name /\ Tail(s) \in Seq(Name) /\ Len(s) \in Nat
    OBVIOUS
  <1>2. Len(s) # 1 => Len(Tail(s)) # 0
    OBVIOUS
  <1>3. \A x \in Seq(Name) : Len(x) # 0 => x # <<>>
    OBVIOUS
  <1> QED
    BY <1>1, <1>2, <1>3

\* A name in a directory is one of the names of its inode.
LEMMA NameOf ==
    ASSUME NEW d \in Inum, NEW n \in Name, NEW i \in Inum, entry[d][n] = i
    PROVE  Named(i) /\ <<d, n>> \in NamesOf(i)
  BY DEF Named, NamesOf

\* A step that leaves the disk, the locks and what the process holds as it is.
LEMMA QuietTable ==
    ASSUME InodeInv, NEW p \in Proc, lock' = lock,
           \A i \in Inum : Holds(p, i)' <=> Holds(p, i),
           \A i \in Inum : ref'[i] = ref[i] + Own(p, i)' - Own(p, i)
    PROVE  Table(p)
  BY DEF Table, InodeInv, Locks

\* Such a step keeps the invariant when it keeps it at the process itself.
LEMMA QuietStep ==
    ASSUME InodeInv, NEW p \in Proc, Moves(p), OneTypes(p)', TableTypes', Here(p)',
           UNCHANGED diskVars, Table(p), Gains(p),
           \A i \in Inum : p \in Pending(i)' <=> p \in Pending(i)
    PROVE  InodeInv'
  <1>1. LocalTypes' /\ Others(p)
    BY LocalsMove DEF InodeInv, TypeOK
  <1>2. TypeOK'
    BY <1>1 DEF InodeInv, TypeOK, DiskTypes, diskVars
  <1>3. Disk(p)
    BY DEF Disk, diskVars
  <1> QED
    BY <1>1, <1>2, <1>3, AfterStep, DiskStays DEF StepOK

-----------------------------------------------------------------------------
(***************************************************************************)
(* Steps that leave the disk as it is                                      *)
(***************************************************************************)

\* Outside of iput() a process uses what it points to.
LEMMA UsesIsOwn ==
    ASSUME NEW p \in Proc, NEW i, pc[p] \notin {"ifreed", "iputref"}
    PROVE  Uses(p, i) <=> Own(p, i) > 0
  BY OwnType DEF Uses, Own, Is, InSeq

\* The pointers that a process may gain.
LEMMA GainsOwn ==
    ASSUME NEW p \in Proc, pc[p] \notin {"ifreed", "iputref"}, pc'[p] \notin {"ifreed", "iputref"},
           \A i \in Inum : Own(p, i)' > 0 =>
             Own(p, i) > 0 \/ Named(i) \/ (type[i] = Free /\ type'[i] # Free)
    PROVE  Gains(p)
  <1>1. \A i \in Inum : Uses(p, i) <=> Own(p, i) > 0
    BY UsesIsOwn
  <1>2. \A i \in Inum : Uses(p, i)' <=> Own(p, i)' > 0
    BY OwnType DEF Uses, Own, Is, InSeq
  <1> QED
    BY <1>1, <1>2 DEF Gains

\* A call that returns and has some inodes to put.
LEMMA Returns ==
    ASSUME InodeInv, NEW p \in Proc, NEW s \in Seq(Inum), Len(s) <= 2, Return(p, s),
           file'[p] \in Inum \cup {0}, file' = [file EXCEPT ![p] = file'[p]]
    PROVE  /\ Moves(p) /\ OneTypes(p)' /\ Here(p)'
           /\ pc'[p] \in {"idle", "iput"}
           /\ \A i \in Inum :
                /\ ~Holds(p, i)' /\ p \notin Pending(i)'
                /\ Own(p, i)' = Is(file'[p], i) + InSeq(s, 1, i) + InSeq(s, 2, i)
  <1> USE LocalsBefore
  <1>1. /\ call'[p] = NoCall /\ pc'[p] = (IF s = <<>> THEN "idle" ELSE "iput")
        /\ ret'[p] = "idle" /\ cur'[p] = 0 /\ rest'[p] = <<>> /\ dp'[p] = 0 /\ ip'[p] = 0
        /\ drop'[p] = s
    BY DEF Return, Put, Set, LocalTypes
  <1>2. Moves(p)
    BY <1>1 DEF Return, Put, Set, Moves
  <1>3. OneTypes(p)'
    BY <1>1 DEF OneTypes, Places, Dropping, Calls
  <1>4. Place(p)' = "idle" /\ ~LinkPlace(p)'
    BY <1>1 DEF Place, LinkPlace, Dropping
  <1>5. Here(p)'
    <2>1. Shape(p)'
      BY <1>1, <1>4 DEF Shape, NoCall
    <2> QED
      BY <1>1, <1>4, <2>1 DEF Here, Fresh, Freeing, CallOK
  <1>6. ASSUME NEW i \in Inum
        PROVE  /\ ~Holds(p, i)' /\ p \notin Pending(i)'
               /\ Own(p, i)' = Is(file'[p], i) + InSeq(s, 1, i) + InSeq(s, 2, i)
    <2>1. ~Holds(p, i)' /\ p \notin Pending(i)'
      BY <1>1, <1>4 DEF Holds, Pending
    <2>2. Is(0, i) = 0
      BY FewPointers
    <2>3. Own(p, i)' = Is(file'[p], i) + InSeq(s, 1, i) + InSeq(s, 2, i)
      BY <1>1, <2>2 DEF Own, Is, InSeq
    <2> QED
      BY <2>1, <2>3
  <1> QED
    BY <1>1, <1>2, <1>3, <1>5, <1>6

\* A lock that the process lets go, or none.
LEMMA TableRelease ==
    ASSUME InodeInv, NEW p \in Proc, NEW x,
           \A i \in Inum : Holds(p, i) <=> i = x,
           lock' = [lock EXCEPT ![x] = NoProc],
           \A i \in Inum : ~Holds(p, i)' /\ ref'[i] = ref[i] + Own(p, i)' - Own(p, i)
    PROVE  Table(p) /\ lock' \in [Inum -> Proc \cup {NoProc}]
  <1>1. \A i \in Inum : lock'[i] = IF i = x THEN NoProc ELSE lock[i]
    BY DEF InodeInv, TypeOK, TableTypes
  <1>2. \A i \in Inum : lock[i] = p <=> i = x
    BY DEF InodeInv, Locks
  <1>3. lock' \in [Inum -> Proc \cup {NoProc}]
    BY DEF InodeInv, TypeOK, TableTypes
  <1> QED
    BY <1>1, <1>2, <1>3, InodeAssumption DEF Table

\* A call that returns, having changed nothing on the disk.
LEMMA QuietReturn ==
    ASSUME InodeInv, NEW p \in Proc, NEW s \in Seq(Inum), Len(s) <= 2, Return(p, s),
           file'[p] \in Inum \cup {0}, file' = [file EXCEPT ![p] = file'[p]],
           UNCHANGED diskVars, ref' = ref, valid' \in [Inum -> BOOLEAN],
           pc[p] \notin Dropping,
           \A i \in Inum : p \notin Pending(i),
           \A i \in Inum : Own(p, i) = Is(file'[p], i) + InSeq(s, 1, i) + InSeq(s, 2, i),
           \/ lock' = lock /\ \A i \in Inum : ~Holds(p, i)
           \/ \E x \in Inum : /\ \A i \in Inum : Holds(p, i) <=> i = x
                              /\ lock' = [lock EXCEPT ![x] = NoProc]
    PROVE  InodeInv'
  <1>1. /\ Moves(p) /\ OneTypes(p)' /\ Here(p)'
        /\ pc'[p] \in {"idle", "iput"}
        /\ \A i \in Inum :
             /\ ~Holds(p, i)' /\ p \notin Pending(i)'
             /\ Own(p, i)' = Is(file'[p], i) + InSeq(s, 1, i) + InSeq(s, 2, i)
    BY Returns
  <1>2. \A i \in Inum : Own(p, i)' = Own(p, i) /\ Own(p, i) \in Nat
    BY <1>1, OwnType
  <1>3. \A i \in Inum : ref'[i] = ref[i] + Own(p, i)' - Own(p, i)
    BY <1>2 DEF InodeInv, TypeOK, TableTypes
  <1>4. Table(p) /\ TableTypes'
    <2>1. CASE lock' = lock /\ \A i \in Inum : ~Holds(p, i)
      <3>1. Table(p)
        BY <1>1, <1>3, <2>1, QuietTable
      <3> QED
        BY <2>1, <3>1 DEF TableTypes, InodeInv, TypeOK
    <2>2. ASSUME NEW x \in Inum,
                 \A i \in Inum : Holds(p, i) <=> i = x,
                 lock' = [lock EXCEPT ![x] = NoProc]
          PROVE  Table(p) /\ TableTypes'
      <3>1. Table(p) /\ lock' \in [Inum -> Proc \cup {NoProc}]
        BY <1>1, <1>3, <2>2, TableRelease
      <3> QED
        BY <3>1 DEF TableTypes, InodeInv, TypeOK
    <2> QED
      BY <2>1, <2>2
  <1>5. Gains(p)
    <2>1. pc[p] \notin {"ifreed", "iputref"} /\ pc'[p] \notin {"ifreed", "iputref"}
      BY <1>1 DEF Dropping
    <2> QED
      BY <1>2, <2>1, GainsOwn
  <1> QED
    BY <1>1, <1>4, <1>5, QuietStep

\* The pointers of a process that has no inodes to put.
LEMMA OwnNow ==
    ASSUME NEW p \in Proc, drop[p] = <<>>
    PROVE  \A i \in Inum :
             /\ Own(p, i) = Is(file[p], i) + Is(cur[p], i) + Is(dp[p], i) + Is(ip[p], i)
             /\ Is(0, i) = 0
  <1> TAKE i \in Inum
  <1>1. InSeq(drop[p], 1, i) = 0 /\ InSeq(drop[p], 2, i) = 0 /\ Is(0, i) = 0
    BY FewPointers
  <1>2. /\ Is(file[p], i) \in Nat /\ Is(cur[p], i) \in Nat /\ Is(dp[p], i) \in Nat
        /\ Is(ip[p], i) \in Nat
    BY OwnType
  <1> QED
    BY <1>1, <1>2 DEF Own

\* Locals at the places where a call holds its inode only.
LEMMA AtInode ==
    ASSUME InodeInv, NEW p \in Proc, pc[p] \in {"open", "exists", "made", "unlink3"}
    PROVE  /\ pc[p] \notin Dropping /\ ip[p] \in Inum
           /\ \A i \in Inum : Own(p, i) = Is(file[p], i) + Is(ip[p], i)
           /\ pc[p] \in {"open", "exists"} => \A i \in Inum : ~Holds(p, i)
           /\ pc[p] \in {"made", "unlink3"} => \A i \in Inum : Holds(p, i) <=> i = ip[p]
           /\ pc[p] # "unlink3" => \A i \in Inum : p \notin Pending(i)
  <1> USE LocalsBefore
  <1>1. /\ pc[p] \notin Dropping /\ Place(p) = pc[p] /\ ~LinkPlace(p) /\ drop[p] = <<>>
    BY DEF Dropping, LinkPlace
  <1>2. cur[p] = 0 /\ dp[p] = 0 /\ ip[p] \in Inum
    BY <1>1 DEF Shape, OneTypes
  <1>3. \A i \in Inum : Own(p, i) = Is(file[p], i) + Is(ip[p], i)
    BY <1>1, <1>2, OwnNow, OwnType
  <1>4. /\ pc[p] \in {"open", "exists"} => \A i \in Inum : ~Holds(p, i)
        /\ pc[p] \in {"made", "unlink3"} => \A i \in Inum : Holds(p, i) <=> i = ip[p]
    BY <1>1, <1>2 DEF Holds
  <1>5. pc[p] # "unlink3" => \A i \in Inum : p \notin Pending(i)
    BY <1>1 DEF Pending
  <1> QED
    BY <1>1, <1>2, <1>3, <1>4, <1>5

\* The inode is put when the call returns, or becomes the open file.
LEMMA IpReturn ==
    ASSUME InodeInv, NEW p \in Proc, pc[p] \in {"open", "exists", "made"},
           \/ file[p] = 0 /\ OpenFile(p)
           \/ file' = file /\ Return(p, <<ip[p]>>),
           UNCHANGED <<diskVars, ref>>, valid' \in [Inum -> BOOLEAN],
           lock' = IF pc[p] = "made" THEN [lock EXCEPT ![ip[p]] = NoProc] ELSE lock
    PROVE  InodeInv'
  <1> USE LocalsBefore
  <1>1. /\ pc[p] \notin Dropping /\ ip[p] \in Inum
        /\ \A i \in Inum : Own(p, i) = Is(file[p], i) + Is(ip[p], i)
        /\ pc[p] \in {"open", "exists"} => \A i \in Inum : ~Holds(p, i)
        /\ pc[p] = "made" => \A i \in Inum : Holds(p, i) <=> i = ip[p]
        /\ \A i \in Inum : p \notin Pending(i)
    BY AtInode
  <1>2. \/ lock' = lock /\ \A i \in Inum : ~Holds(p, i)
        \/ \E x \in Inum : /\ \A i \in Inum : Holds(p, i) <=> i = x
                           /\ lock' = [lock EXCEPT ![x] = NoProc]
    BY <1>1
  <1>3. CASE file' = file /\ Return(p, <<ip[p]>>)
    <2>1. <<ip[p]>> \in Seq(Inum) /\ Len(<<ip[p]>>) <= 2
      BY <1>1
    <2>2. \A i \in Inum : Own(p, i) = Is(file'[p], i) + InSeq(<<ip[p]>>, 1, i)
                                        + InSeq(<<ip[p]>>, 2, i)
      BY <1>1, <1>3, FewPointers, OwnType
    <2>3. file'[p] \in Inum \cup {0} /\ file' = [file EXCEPT ![p] = file'[p]]
      BY <1>3 DEF LocalTypes
    <2> QED
      BY <1>1, <1>2, <1>3, <2>1, <2>2, <2>3, QuietReturn
  <1>4. CASE file[p] = 0 /\ file' = Set(file, p, ip[p]) /\ Return(p, <<>>)
    <2>1. <<>> \in Seq(Inum) /\ Len(<<>>) <= 2
      OBVIOUS
    <2>2. file'[p] = ip[p] /\ file' = [file EXCEPT ![p] = file'[p]]
      BY <1>4 DEF Set, LocalTypes
    <2>3. \A i \in Inum : Own(p, i) = Is(file'[p], i) + InSeq(<<>>, 1, i) + InSeq(<<>>, 2, i)
      BY <1>1, <1>4, <2>2, FewPointers, OwnType
    <2> QED
      BY <1>1, <1>2, <1>4, <2>1, <2>2, <2>3, QuietReturn
  <1> QED
    BY <1>3, <1>4 DEF OpenFile

\* open() of a file that is there, or of a directory.
LEMMA OpenDoneStep ==
    ASSUME InodeInv, NEW p \in Proc, OpenDone(p)
    PROVE  InodeInv'
  <1> USE LocalsBefore
  <1>1. pc[p] = "open" /\ file[p] = 0 /\ ip[p] \in Inum
    BY DEF OpenDone, Shape, Dropping, OneTypes
  <1>2. valid' \in [Inum -> BOOLEAN]
    BY DEF OpenDone, Load, TableTypes
  <1> QED
    BY <1>1, <1>2, IpReturn DEF OpenDone

\* create() of what is there.
LEMMA CreateOldStep ==
    ASSUME InodeInv, NEW p \in Proc, CreateOld(p)
    PROVE  InodeInv'
  <1> USE LocalsBefore
  <1>1. pc[p] = "exists" /\ (call[p].type = "file" => file[p] = 0)
    BY DEF CreateOld, Shape, Dropping, OneTypes
  <1>2. valid' \in [Inum -> BOOLEAN]
    BY DEF CreateOld, Load, TableTypes
  <1> QED
    BY <1>1, <1>2, IpReturn DEF CreateOld

\* create() returns with the new inode.
LEMMA CreateDoneStep ==
    ASSUME InodeInv, NEW p \in Proc, CreateDone(p)
    PROVE  InodeInv'
  <1> USE LocalsBefore
  <1>1. pc[p] = "made" /\ (type[ip[p]] = "file" => file[p] = 0)
    BY DEF CreateDone, Shape, CallOK, Dropping, OneTypes
  <1>2. valid' \in [Inum -> BOOLEAN]
    BY DEF CreateDone, TableTypes
  <1> QED
    BY <1>1, <1>2, IpReturn DEF CreateDone

\* Locals at the places where unlink() holds its directory only.
LEMMA DpReturn ==
    ASSUME InodeInv, NEW p \in Proc, pc[p] \in {"unlink", "full"},
           Return(p, <<dp[p]>>),
           UNCHANGED <<diskVars, ref, file>>, valid' \in [Inum -> BOOLEAN],
           lock' = IF pc[p] = "full" THEN [lock EXCEPT ![dp[p]] = NoProc] ELSE lock
    PROVE  InodeInv'
  <1> USE LocalsBefore
  <1>1. /\ pc[p] \notin Dropping /\ Place(p) = pc[p] /\ ~LinkPlace(p) /\ drop[p] = <<>>
    BY DEF Dropping, LinkPlace
  <1>2. cur[p] = 0 /\ ip[p] = 0 /\ dp[p] \in Inum
    BY <1>1 DEF Shape, OneTypes
  <1>3. \A i \in Inum : Own(p, i) = Is(file[p], i) + Is(dp[p], i)
    BY <1>1, <1>2, OwnNow, OwnType
  <1>4. \/ lock' = lock /\ \A i \in Inum : ~Holds(p, i)
        \/ \E x \in Inum : /\ \A i \in Inum : Holds(p, i) <=> i = x
                           /\ lock' = [lock EXCEPT ![x] = NoProc]
    BY <1>1, <1>2 DEF Holds
  <1>5. <<dp[p]>> \in Seq(Inum) /\ Len(<<dp[p]>>) <= 2
    BY <1>2
  <1>6. \A i \in Inum : Own(p, i) = Is(file'[p], i) + InSeq(<<dp[p]>>, 1, i)
                                      + InSeq(<<dp[p]>>, 2, i)
    BY <1>3, FewPointers, OwnType
  <1>7. file'[p] \in Inum \cup {0} /\ file' = [file EXCEPT ![p] = file'[p]]
    BY DEF LocalTypes
  <1>8. \A i \in Inum : p \notin Pending(i)
    BY <1>1 DEF Pending
  <1> QED
    BY <1>1, <1>4, <1>5, <1>6, <1>7, <1>8, QuietReturn

\* unlink() of no name returns.
LEMMA UnlinkMissStep ==
    ASSUME InodeInv, NEW p \in Proc, UnlinkMiss(p)
    PROVE  InodeInv'
  <1> USE LocalsBefore
  <1>1. dp[p] \in Inum
    BY DEF UnlinkMiss, Shape, Dropping, OneTypes
  <1>2. valid' \in [Inum -> BOOLEAN]
    BY <1>1 DEF UnlinkMiss, Load, TableTypes
  <1> QED
    BY <1>2, DpReturn DEF UnlinkMiss

\* unlink() of a directory that is not empty returns.
LEMMA UnlinkBadStep ==
    ASSUME InodeInv, NEW p \in Proc, UnlinkBad(p)
    PROVE  InodeInv'
  <1>1. valid' \in [Inum -> BOOLEAN]
    BY LocalsBefore DEF UnlinkBad, TableTypes
  <1> QED
    BY <1>1, DpReturn DEF UnlinkBad

\* A step that only moves pointers about, and may get one more.
LEMMA Walks ==
    ASSUME InodeInv, NEW p \in Proc, Moves(p), OneTypes(p)', Shape(p)', CallOK(p)',
           pc[p] \notin Dropping,
           pc'[p] \in {"walk", "create", "unlink", "dirlink", "exists", "iput"},
           Place(p) \notin {"new", "unlink2", "full", "made", "unlink3"},
           Place(p)' \notin {"new", "unlink2", "full", "made", "unlink3"},
           LinkPlace(p)' <=> LinkPlace(p), LinkPlace(p) => ip'[p] = ip[p],
           UNCHANGED <<diskVars, lock>>, valid' \in [Inum -> BOOLEAN],
           NEW x, x # 0 => x \in Inum /\ Named(x) /\ ref' = [ref EXCEPT ![x] = @ + 1],
           x = 0 => ref' = ref,
           \A i \in Inum : Own(p, i)' = Own(p, i) + Is(x, i)
    PROVE  InodeInv'
  <1>1. Here(p)'
    BY DEF Here, Fresh, Freeing
  <1>2. \A i \in Inum : ~Holds(p, i) /\ ~Holds(p, i)'
    BY DEF Holds, Dropping
  <1>3. \A i \in Inum : p \in Pending(i)' <=> p \in Pending(i)
    BY DEF Pending
  <1>4. \A i \in Inum : ref'[i] = ref[i] + Own(p, i)' - Own(p, i) /\ ref'[i] \in Nat
    <2> TAKE i \in Inum
    <2>1. Own(p, i) \in Nat /\ Own(p, i)' = Own(p, i) + Is(x, i) /\ ref[i] \in Nat
      BY OwnType DEF InodeInv, TypeOK, TableTypes
    <2>2. CASE x = 0
      BY <2>1, <2>2, FewPointers
    <2>3. CASE x # 0
      <3>1. ref'[i] = ref[i] + Is(x, i)
        BY <2>1, <2>3 DEF Is, InodeInv, TypeOK, TableTypes
      <3> QED
        BY <2>1, <3>1 DEF Is
    <2> QED
      BY <2>2, <2>3
  <1>5. TableTypes'
    <2>1. ref' \in [Inum -> Nat]
      BY DEF InodeInv, TypeOK, TableTypes
    <2> QED
      BY <2>1 DEF InodeInv, TypeOK, TableTypes
  <1>6. Table(p)
    BY <1>2, <1>4, QuietTable
  <1>7. Gains(p)
    <2>1. pc[p] \notin {"ifreed", "iputref"} /\ pc'[p] \notin {"ifreed", "iputref"}
      BY DEF Dropping
    <2>2. \A i \in Inum : Own(p, i)' > 0 => Own(p, i) > 0 \/ Named(i)
      BY OwnType, InodeAssumption DEF Is
    <2> QED
      BY <2>1, <2>2, GainsOwn
  <1> QED
    BY <1>1, <1>3, <1>5, <1>6, <1>7, QuietStep

\* Locals in namex().
LEMMA AtWalk ==
    ASSUME InodeInv, NEW p \in Proc, pc[p] = "walk"
    PROVE  /\ pc[p] \notin Dropping /\ Place(p) = "walk" /\ drop[p] = <<>>
           /\ cur[p] \in Inum /\ dp[p] = 0 /\ ip[p] \in Inum \cup {0}
           /\ Head(rest[p]) \in Name /\ Tail(rest[p]) \in Seq(Name)
           /\ Len(rest[p]) # 1 => Tail(rest[p]) # <<>>
           /\ call[p] \in Calls /\ call[p].op \in {"open", "unlink", "link2", "create", "link"}
           /\ LinkPlace(p) <=> call[p].op = "link2"
           /\ ip[p] # 0 <=> call[p].op = "link2"
           /\ \A i \in Inum : Own(p, i) = Is(file[p], i) + Is(cur[p], i) + Is(ip[p], i)
  <1> USE LocalsBefore
  <1>1. /\ pc[p] \notin Dropping /\ Place(p) = "walk" /\ drop[p] = <<>>
        /\ LinkPlace(p) <=> call[p].op = "link2"
    BY DEF Dropping, LinkPlace
  <1>2. /\ cur[p] \in Inum /\ dp[p] = 0 /\ ip[p] \in Inum \cup {0}
        /\ rest[p] # <<>> /\ rest[p] \in Seq(Name)
        /\ ip[p] # 0 <=> call[p].op = "link2"
    BY <1>1 DEF Shape, OneTypes
  <1>3. call[p] \in Calls /\ call[p].op \in {"open", "unlink", "link2", "create", "link"}
    BY <1>1, CallParts DEF Shape, OneTypes
  <1>4. \A i \in Inum : Own(p, i) = Is(file[p], i) + Is(cur[p], i) + Is(ip[p], i)
    BY <1>1, <1>2, OwnNow, OwnType
  <1> QED
    BY <1>1, <1>2, <1>3, <1>4, Step1

\* What put and valid look like after a step.
LEMMA Loads ==
    ASSUME TableTypes, NEW d \in Inum, NEW e \in Inum,
           \/ valid' = [valid EXCEPT ![d] = TRUE]
           \/ valid' = [valid EXCEPT ![d] = FALSE]
           \/ valid' = [valid EXCEPT ![d] = TRUE, ![e] = IF ref[e] = 0 THEN FALSE ELSE @]
           \/ valid' = IF ref[d] = 0 THEN [valid EXCEPT ![d] = FALSE] ELSE valid
           \/ valid' = valid
    PROVE  valid' \in [Inum -> BOOLEAN]
  BY DEF TableTypes

\* nameiparent() stops in front of the last name.
LEMMA WalkParentStep ==
    ASSUME InodeInv, NEW p \in Proc, WalkParent(p)
    PROVE  InodeInv'
  <1> USE LocalsBefore
  <1>1. pc[p] = "walk"
    BY DEF WalkParent
  <1>2. /\ cur[p] \in Inum /\ Place(p) = "walk" /\ dp[p] = 0 /\ drop[p] = <<>>
        /\ LinkPlace(p) <=> call[p].op = "link2"
        /\ ip[p] # 0 <=> call[p].op = "link2"
        /\ call[p].op \in {"create", "unlink", "link2"}
    BY <1>1, AtWalk DEF WalkParent, WantsParent
  <1>3. /\ pc'[p] = Walked(p) /\ cur'[p] = 0 /\ dp'[p] = cur[p]
        /\ call'[p] = call[p] /\ ret'[p] = ret[p] /\ rest'[p] = rest[p] /\ ip'[p] = ip[p]
        /\ drop'[p] = drop[p] /\ file'[p] = file[p]
        /\ UNCHANGED <<diskVars, lock, ref>>
    BY DEF WalkParent, Set, LocalTypes
  <1>4. Moves(p)
    BY <1>3 DEF WalkParent, Set, Moves, LocalTypes
  <1>5. /\ Walked(p) \in {"create", "unlink", "dirlink"}
        /\ Walked(p) = "dirlink" <=> call[p].op = "link2"
        /\ Walked(p) = "create" <=> call[p].op = "create"
    BY <1>2 DEF Walked
  <1>6. OneTypes(p)'
    BY <1>2, <1>3, <1>5 DEF OneTypes, Places, Dropping
  <1>7. Place(p)' = Walked(p) /\ (LinkPlace(p)' <=> LinkPlace(p))
    BY <1>2, <1>3, <1>5 DEF Place, LinkPlace, Dropping
  <1>8. Shape(p)' /\ CallOK(p)'
    BY <1>2, <1>3, <1>5, <1>7, InodeAssumption DEF Shape, CallOK, diskVars
  <1>9. \A i \in Inum : Own(p, i)' = Own(p, i) + Is(0, i)
    BY <1>2, <1>3, OwnType, FewPointers DEF Own, Is
  <1>10. valid' \in [Inum -> BOOLEAN]
    BY <1>2, Loads DEF WalkParent, Load
  <1> QED
    BY <1>1, <1>2, <1>3, <1>4, <1>5, <1>6, <1>7, <1>8, <1>9, <1>10, AtWalk, Walks

\* A name is not there: link() goes on to take its link back.
LEMMA WalkFailStep ==
    ASSUME InodeInv, NEW p \in Proc, WalkFail(p)
    PROVE  InodeInv'
  <1> USE LocalsBefore
  <1>1. pc[p] = "walk" /\ UNCHANGED <<diskVars, lock, ref>> /\ file' = file
    BY DEF WalkFail
  <1>2. /\ cur[p] \in Inum /\ Place(p) = "walk" /\ dp[p] = 0 /\ drop[p] = <<>>
        /\ LinkPlace(p) <=> call[p].op = "link2"
        /\ ip[p] # 0 <=> call[p].op = "link2"
        /\ pc[p] \notin Dropping
        /\ \A i \in Inum : Own(p, i) = Is(file[p], i) + Is(cur[p], i) + Is(ip[p], i)
    BY <1>1, AtWalk
  <1>3. valid' \in [Inum -> BOOLEAN]
    BY <1>2, Loads DEF WalkFail, Load
  <1>4. /\ <<cur[p]>> \in Seq(Inum) /\ Len(<<cur[p]>>) = 1 /\ <<cur[p]>> # <<>>
        /\ Len(<<cur[p]>>) <= 2
    BY <1>2
  <1>5. CASE call[p].op = "link2"
    <2>1. /\ pc'[p] = "iput" /\ ret'[p] = "badlink" /\ cur'[p] = 0 /\ rest'[p] = <<>>
          /\ dp'[p] = dp[p] /\ ip'[p] = ip[p] /\ call'[p] = call[p] /\ file'[p] = file[p]
          /\ drop'[p] = <<cur[p]>>
      BY <1>1, <1>4, <1>5 DEF WalkFail, Put, Set, LocalTypes
    <2>2. Moves(p)
      BY <1>1, <1>5, <2>1 DEF WalkFail, Put, Set, Moves, LocalTypes
    <2>3. OneTypes(p)'
      BY <1>2, <1>4, <2>1 DEF OneTypes, Places, Dropping
    <2>4. Place(p)' = "badlink" /\ LinkPlace(p)'
      BY <2>1 DEF Place, LinkPlace, Dropping
    <2>5. Shape(p)' /\ CallOK(p)'
      BY <1>1, <1>2, <1>5, <2>1, <2>4 DEF Shape, CallOK, diskVars
    <2>6. \A i \in Inum : Own(p, i)' = Own(p, i) + Is(0, i)
      <3> TAKE i \in Inum
      <3>1. /\ InSeq(<<>>, 1, i) = 0 /\ InSeq(<<>>, 2, i) = 0 /\ Is(0, i) = 0
            /\ InSeq(<<cur[p]>>, 1, i) = Is(cur[p], i) /\ InSeq(<<cur[p]>>, 2, i) = 0
        BY FewPointers
      <3> QED
        BY <1>2, <2>1, <3>1, OwnType DEF Own, Is
    <2> QED
      BY <1>1, <1>2, <1>3, <1>5, <2>1, <2>2, <2>3, <2>4, <2>5, <2>6, Walks
  <1>6. CASE call[p].op # "link2"
    <2>1. Return(p, <<cur[p]>>)
      BY <1>6 DEF WalkFail
    <2>2. \A i \in Inum : Own(p, i) = Is(file'[p], i) + InSeq(<<cur[p]>>, 1, i)
                                        + InSeq(<<cur[p]>>, 2, i)
      BY <1>1, <1>2, <1>6, FewPointers, OwnType
    <2>3. file'[p] \in Inum \cup {0} /\ file' = [file EXCEPT ![p] = file'[p]]
      BY <1>1 DEF LocalTypes
    <2>4. \A i \in Inum : p \notin Pending(i)
      BY <1>2, <1>6 DEF Pending
    <2>5. \A i \in Inum : ~Holds(p, i)
      BY <1>2, <1>6 DEF Holds, Dropping
    <2>6. UNCHANGED diskVars /\ ref' = ref /\ lock' = lock
      BY <1>1
    <2> QED
      BY <1>2, <1>3, <1>4, <2>1, <2>2, <2>3, <2>4, <2>5, <2>6, QuietReturn
  <1> QED
    BY <1>5, <1>6

\* dirlookup() finds the next name.
LEMMA WalkNextStep ==
    ASSUME InodeInv, NEW p \in Proc, WalkNext(p)
    PROVE  InodeInv'
  <1> USE LocalsBefore
  <1>1. pc[p] = "walk" /\ UNCHANGED <<diskVars, lock, call, file, dp>>
    BY DEF WalkNext
  <1>2. /\ cur[p] \in Inum /\ Place(p) = "walk" /\ dp[p] = 0 /\ drop[p] = <<>>
        /\ LinkPlace(p) <=> call[p].op = "link2"
        /\ ip[p] # 0 <=> call[p].op = "link2"
        /\ pc[p] \notin Dropping /\ call[p].op \in {"open", "unlink", "link2", "create", "link"}
        /\ \A i \in Inum : Own(p, i) = Is(file[p], i) + Is(cur[p], i) + Is(ip[p], i)
    BY <1>1, AtWalk
  <1>3. PICK d \in Inum, e \in Inum, n \in Name : d = cur[p] /\ n = Head(rest[p]) /\ e = entry[d][n]
    <2>1. Head(rest[p]) \in Name
      BY <1>1, AtWalk
    <2>2. entry[cur[p]][Head(rest[p])] \in Inum
      BY <1>2, <2>1 DEF WalkNext, DiskTypes
    <2> QED
      BY <1>2, <2>1, <2>2
  <1>4. Named(e) /\ e # 0
    BY <1>3, NameOf, InodeAssumption
  <1>5. valid' \in [Inum -> BOOLEAN]
    BY <1>3, Loads DEF WalkNext
  <1>6. /\ pc'[p] = "iput" /\ ret'[p] = (IF Len(rest[p]) = 1 THEN Walked(p) ELSE "walk")
        /\ cur'[p] = (IF Len(rest[p]) = 1 THEN 0 ELSE e) /\ rest'[p] = Tail(rest[p])
        /\ dp'[p] = 0 /\ ip'[p] = (IF Len(rest[p]) = 1 THEN e ELSE ip[p])
        /\ drop'[p] = <<d>> /\ call'[p] = call[p] /\ file'[p] = file[p]
        /\ ref' = [ref EXCEPT ![e] = @ + 1]
    BY <1>1, <1>2, <1>3 DEF WalkNext, Put, Set, LocalTypes
  <1>7. Moves(p)
    BY <1>1 DEF WalkNext, Put, Set, Moves, LocalTypes
  <1>8. <<d>> \in Seq(Inum) /\ Len(<<d>>) = 1 /\ <<d>> # <<>>
    BY <1>3
  <1>9. Len(rest[p]) = 1 => call[p].op \in {"open", "link"} /\ Walked(p) = call[p].op /\ ip[p] = 0
    BY <1>2 DEF WalkNext, WantsParent, Walked
  <1>10. OneTypes(p)'
    BY <1>1, <1>2, <1>3, <1>6, <1>8, <1>9, AtWalk DEF OneTypes, Places, Dropping
  <1>11. /\ Place(p)' = (IF Len(rest[p]) = 1 THEN call[p].op ELSE "walk")
         /\ LinkPlace(p)' <=> LinkPlace(p)
    BY <1>2, <1>6, <1>9 DEF Place, LinkPlace, Dropping
  <1>12. Shape(p)'
    BY <1>1, <1>2, <1>3, <1>4, <1>6, <1>9, <1>11, AtWalk DEF Shape
  <1>13. CallOK(p)'
    BY <1>1, <1>2, <1>6, <1>9, <1>11 DEF CallOK, diskVars
  <1>14. \A i \in Inum : Own(p, i)' = Own(p, i) + Is(e, i)
    <2>1. \A i \in Inum : Is(0, i) = 0
      BY FewPointers
    <2> QED
      BY <1>2, <1>3, <1>6, <1>9, <2>1, OwnType, FewPointers DEF Own, Is
  <1> QED
    BY <1>1, <1>2, <1>4, <1>5, <1>6, <1>7, <1>9, <1>10, <1>11, <1>12, <1>13, <1>14, Walks

\* The root has a pointer more.
LEMMA RootLoads ==
    ASSUME InodeInv, Iget(ROOTINO)
    PROVE  valid' \in [Inum -> BOOLEAN] /\ ref' = [ref EXCEPT ![ROOTINO] = @ + 1] /\ Named(ROOTINO)
  BY LocalsBefore, Loads, InodeAssumption DEF Iget, Named, InodeInv, TypeOK

\* A call starts.
LEMMA BeginStep ==
    ASSUME InodeInv, NEW p \in Proc, NEW c \in Calls, NEW path \in Path, Begin(p, c, path),
           c.op \in {"open", "unlink", "create", "link"},
           c.op = "open" => file[p] = 0,
           c.op = "create" => (c.type = "file" => file[p] = 0)
    PROVE  InodeInv'
  <1> USE LocalsBefore
  <1>1. /\ pc[p] = "idle" /\ UNCHANGED <<diskVars, lock, dp, ip, drop, ret, file>>
        /\ Iget(ROOTINO)
    BY DEF Begin, Namex
  <1>2. /\ pc[p] \notin Dropping /\ Place(p) = "idle" /\ ~LinkPlace(p) /\ drop[p] = <<>>
        /\ cur[p] = 0 /\ dp[p] = 0 /\ ip[p] = 0
    BY <1>1 DEF Dropping, LinkPlace, Shape
  <1>3. /\ pc'[p] = "walk" /\ call'[p] = c /\ cur'[p] = ROOTINO /\ rest'[p] = path
        /\ dp'[p] = 0 /\ ip'[p] = 0 /\ ret'[p] = ret[p] /\ drop'[p] = <<>> /\ file'[p] = file[p]
    BY <1>1, <1>2 DEF Begin, Namex, Set, LocalTypes
  <1>4. Moves(p)
    BY <1>1, <1>3 DEF Begin, Namex, Set, Moves, LocalTypes
  <1>5. path \in Seq(Name) /\ path # <<>>
    BY InodeAssumption
  <1>6. OneTypes(p)'
    BY <1>2, <1>3, <1>5, InodeAssumption DEF OneTypes, Places, Dropping
  <1>7. Place(p)' = "walk" /\ ~LinkPlace(p)'
    BY <1>3 DEF Place, LinkPlace, Dropping
  <1>8. Shape(p)' /\ CallOK(p)'
    BY <1>3, <1>5, <1>7, InodeAssumption DEF Shape, CallOK
  <1>9. \A i \in Inum : Own(p, i)' = Own(p, i) + Is(ROOTINO, i)
    <2> TAKE i \in Inum
    <2>1. InSeq(<<>>, 1, i) = 0 /\ InSeq(<<>>, 2, i) = 0 /\ Is(0, i) = 0
      BY FewPointers
    <2> QED
      BY <1>2, <1>3, <2>1, OwnType DEF Own, Is
  <1> QED
    BY <1>1, <1>2, <1>3, <1>4, <1>6, <1>7, <1>8, <1>9, RootLoads, InodeAssumption, Walks

\* link() looks for the parent of the new name.
LEMMA LinkNewStep ==
    ASSUME InodeInv, NEW p \in Proc, LinkNew(p)
    PROVE  InodeInv'
  <1> USE LocalsBefore
  <1> DEFINE path == call[p].new
  <1>1. /\ pc[p] = "linknew" /\ UNCHANGED <<diskVars, lock, dp, ip, drop, ret, file>>
        /\ Iget(ROOTINO)
    BY DEF LinkNew, Namex
  <1>2. /\ pc[p] \notin Dropping /\ Place(p) = "linknew" /\ LinkPlace(p) /\ drop[p] = <<>>
        /\ cur[p] = 0 /\ dp[p] = 0 /\ ip[p] \in Inum /\ call[p].op = "link"
    BY <1>1 DEF Dropping, LinkPlace, Shape, OneTypes
  <1>3. path \in Seq(Name) /\ path # <<>>
    BY <1>2, CallParts, InodeAssumption DEF OneTypes
  <1> HIDE DEF path
  <1>4. /\ pc'[p] = "walk" /\ call'[p] = [op |-> "link2"] /\ cur'[p] = ROOTINO /\ rest'[p] = path
        /\ dp'[p] = 0 /\ ip'[p] = ip[p] /\ ret'[p] = ret[p] /\ drop'[p] = <<>> /\ file'[p] = file[p]
    BY <1>1, <1>2 DEF LinkNew, Namex, Set, LocalTypes, path
  <1>5. Moves(p)
    BY <1>1, <1>4 DEF LinkNew, Namex, Set, Moves, LocalTypes, path
  <1>6. OneTypes(p)'
    BY <1>2, <1>3, <1>4, InodeAssumption DEF OneTypes, Places, Dropping, Calls
  <1>7. Place(p)' = "walk" /\ LinkPlace(p)'
    BY <1>4 DEF Place, LinkPlace, Dropping
  <1>8. Shape(p)' /\ CallOK(p)'
    BY <1>1, <1>2, <1>3, <1>4, <1>7, InodeAssumption DEF Shape, CallOK, diskVars
  <1>9. \A i \in Inum : Own(p, i)' = Own(p, i) + Is(ROOTINO, i)
    <2> TAKE i \in Inum
    <2>1. InSeq(<<>>, 1, i) = 0 /\ InSeq(<<>>, 2, i) = 0 /\ Is(0, i) = 0
      BY FewPointers
    <2> QED
      BY <1>2, <1>4, <2>1, OwnType DEF Own, Is
  <1> QED
    BY <1>1, <1>2, <1>4, <1>5, <1>6, <1>7, <1>8, <1>9, RootLoads, InodeAssumption, Walks

\* create() finds the name.
LEMMA CreateFoundStep ==
    ASSUME InodeInv, NEW p \in Proc, CreateFound(p)
    PROVE  InodeInv'
  <1> USE LocalsBefore
  <1>1. pc[p] = "create" /\ UNCHANGED <<diskVars, lock, call, cur, rest, file>>
    BY DEF CreateFound
  <1>2. /\ pc[p] \notin Dropping /\ Place(p) = "create" /\ ~LinkPlace(p) /\ drop[p] = <<>>
        /\ cur[p] = 0 /\ dp[p] \in Inum /\ ip[p] = 0 /\ call[p].op = "create"
        /\ rest[p] # <<>> /\ rest[p] \in Seq(Name)
    BY <1>1 DEF Dropping, LinkPlace, Shape, OneTypes
  <1>3. PICK d \in Inum, e \in Inum, n \in Name : d = dp[p] /\ n = Head(rest[p]) /\ e = entry[d][n]
    <2>1. Head(rest[p]) \in Name
      BY <1>2, Step1
    <2>2. entry[dp[p]][Head(rest[p])] \in Inum
      BY <1>2, <2>1 DEF CreateFound, name, DiskTypes
    <2> QED
      BY <1>2, <2>1, <2>2
  <1>4. Named(e) /\ e # 0
    BY <1>3, NameOf, InodeAssumption
  <1>5. valid' \in [Inum -> BOOLEAN]
    BY <1>3, Loads DEF CreateFound, name
  <1>6. /\ pc'[p] = "iput" /\ ret'[p] = "exists" /\ cur'[p] = 0 /\ rest'[p] = rest[p]
        /\ dp'[p] = 0 /\ ip'[p] = e
        /\ drop'[p] = <<d>> /\ call'[p] = call[p] /\ file'[p] = file[p]
        /\ ref' = [ref EXCEPT ![e] = @ + 1]
    BY <1>1, <1>2, <1>3 DEF CreateFound, Put, Set, LocalTypes, name
  <1>7. Moves(p)
    BY <1>1, <1>6 DEF CreateFound, Put, Set, Moves, LocalTypes
  <1>8. <<d>> \in Seq(Inum) /\ Len(<<d>>) = 1 /\ <<d>> # <<>>
    BY <1>3
  <1>9. OneTypes(p)'
    BY <1>1, <1>2, <1>3, <1>6, <1>8 DEF OneTypes, Places, Dropping
  <1>10. Place(p)' = "exists" /\ ~LinkPlace(p)'
    BY <1>6 DEF Place, LinkPlace, Dropping
  <1>11. Shape(p)' /\ CallOK(p)'
    BY <1>1, <1>2, <1>4, <1>6, <1>10, InodeAssumption DEF Shape, CallOK
  <1>12. \A i \in Inum : Own(p, i)' = Own(p, i) + Is(e, i)
    <2> TAKE i \in Inum
    <2>1. /\ InSeq(<<>>, 1, i) = 0 /\ InSeq(<<>>, 2, i) = 0 /\ Is(0, i) = 0
          /\ InSeq(<<d>>, 1, i) = Is(d, i) /\ InSeq(<<d>>, 2, i) = 0
      BY FewPointers
    <2> QED
      BY <1>2, <1>3, <1>6, <2>1, OwnType DEF Own, Is
  <1> QED
    BY <1>1, <1>2, <1>4, <1>5, <1>6, <1>7, <1>9, <1>10, <1>11, <1>12, Walks

\* close() and exit() give up the open file.
LEMMA CloseStep ==
    ASSUME InodeInv, NEW p \in Proc, Close(p)
    PROVE  InodeInv'
  <1> USE LocalsBefore
  <1>1. /\ pc[p] = "idle" /\ UNCHANGED <<diskVars, tableVars, call, cur, rest, dp, ip>>
        /\ UNCHANGED <<ref, lock, valid>> /\ file[p] \in Inum
    BY DEF Close, tableVars, OneTypes
  <1>2. /\ pc[p] \notin Dropping /\ Place(p) = "idle" /\ ~LinkPlace(p) /\ drop[p] = <<>>
        /\ cur[p] = 0 /\ dp[p] = 0 /\ ip[p] = 0
    BY <1>1 DEF Dropping, LinkPlace, Shape
  <1>3. <<file[p]>> \in Seq(Inum) /\ Len(<<file[p]>>) = 1 /\ <<file[p]>> # <<>>
    BY <1>1
  <1>4. /\ pc'[p] = "iput" /\ ret'[p] = "idle" /\ cur'[p] = 0 /\ rest'[p] = rest[p]
        /\ dp'[p] = 0 /\ ip'[p] = 0
        /\ drop'[p] = <<file[p]>> /\ call'[p] = call[p] /\ file'[p] = 0
    BY <1>1, <1>2, <1>3 DEF Close, Put, Set, LocalTypes
  <1>5. Moves(p)
    BY <1>1, <1>4 DEF Close, Put, Set, Moves, LocalTypes
  <1>6. OneTypes(p)'
    BY <1>2, <1>3, <1>4 DEF OneTypes, Places, Dropping
  <1>7. Place(p)' = "idle" /\ ~LinkPlace(p)'
    BY <1>4 DEF Place, LinkPlace, Dropping
  <1>8. Shape(p)' /\ CallOK(p)'
    BY <1>1, <1>2, <1>4, <1>7, InodeAssumption DEF Shape, CallOK
  <1>9. \A i \in Inum : Own(p, i)' = Own(p, i) + Is(0, i)
    <2> TAKE i \in Inum
    <2>1. /\ InSeq(<<>>, 1, i) = 0 /\ InSeq(<<>>, 2, i) = 0 /\ Is(0, i) = 0
          /\ InSeq(<<file[p]>>, 1, i) = Is(file[p], i) /\ InSeq(<<file[p]>>, 2, i) = 0
      BY FewPointers
    <2> QED
      BY <1>2, <1>4, <2>1, OwnType DEF Own, Is
  <1> QED
    BY <1>1, <1>2, <1>4, <1>5, <1>6, <1>7, <1>8, <1>9, Walks DEF TableTypes

-----------------------------------------------------------------------------
(***************************************************************************)
(* Steps that take and release locks                                       *)
(***************************************************************************)

\* Locks are taken when they are free, and released by those who hold them.
LEMMA LockMove ==
    ASSUME InodeInv, NEW p \in Proc,
           \A i \in Inum :
             /\ lock'[i] = IF Holds(p, i)' THEN p ELSE IF Holds(p, i) THEN NoProc ELSE lock[i]
             /\ Holds(p, i)' => Holds(p, i) \/ lock[i] = NoProc
             /\ ref'[i] = ref[i] + Own(p, i)' - Own(p, i)
    PROVE  Table(p)
  <1> SUFFICES ASSUME NEW i \in Inum
               PROVE  /\ lock'[i] = p <=> Holds(p, i)'
                      /\ \A q \in Proc \ {p} : lock'[i] = q <=> lock[i] = q
    BY DEF Table
  <1>1. lock[i] = p <=> Holds(p, i)
    BY DEF InodeInv, Locks
  <1>2. NoProc \notin Proc
    BY InodeAssumption
  <1> QED
    BY <1>1, <1>2

\* Locals where unlink() holds both inodes.
LEMMA AtUnlink2 ==
    ASSUME InodeInv, NEW p \in Proc, pc[p] = "unlink2"
    PROVE  /\ pc[p] \notin Dropping /\ Place(p) = "unlink2" /\ ~LinkPlace(p) /\ drop[p] = <<>>
           /\ cur[p] = 0 /\ dp[p] \in Inum /\ ip[p] \in Inum /\ Head(rest[p]) \in Name
           /\ entry[dp[p]][Head(rest[p])] = ip[p]
           /\ lock[dp[p]] = p
           /\ \A i \in Inum : /\ Holds(p, i) <=> i = dp[p]
                              /\ Own(p, i) = Is(file[p], i) + Is(dp[p], i) + Is(ip[p], i)
                              /\ p \notin Pending(i)
  <1> USE LocalsBefore
  <1>1. /\ pc[p] \notin Dropping /\ Place(p) = "unlink2" /\ ~LinkPlace(p) /\ drop[p] = <<>>
    BY DEF Dropping, LinkPlace
  <1>2. /\ cur[p] = 0 /\ dp[p] \in Inum /\ ip[p] \in Inum /\ rest[p] # <<>> /\ rest[p] \in Seq(Name)
    BY <1>1 DEF Shape, OneTypes
  <1>3. entry[dp[p]][Head(rest[p])] = ip[p]
    BY <1>1 DEF CallOK
  <1>4. \A i \in Inum : (Holds(p, i) <=> i = dp[p]) /\ p \notin Pending(i)
    BY <1>1, <1>2 DEF Holds, Pending
  <1>5. \A i \in Inum : Own(p, i) = Is(file[p], i) + Is(dp[p], i) + Is(ip[p], i)
    BY <1>1, <1>2, OwnNow, OwnType
  <1>6. lock[dp[p]] = p
    BY <1>2, <1>4 DEF InodeInv, Locks
  <1> QED
    BY <1>1, <1>2, <1>3, <1>4, <1>5, <1>6, Step1

\* unlink() finds the name and keeps the directory locked.
LEMMA UnlinkFoundStep ==
    ASSUME InodeInv, NEW p \in Proc, UnlinkFound(p)
    PROVE  InodeInv'
  <1> USE LocalsBefore
  <1>1. /\ pc[p] = "unlink" /\ UNCHANGED <<diskVars, call, cur, rest, dp, drop, ret, file>>
        /\ UNCHANGED entry
    BY DEF UnlinkFound, diskVars
  <1>2. /\ pc[p] \notin Dropping /\ Place(p) = "unlink" /\ ~LinkPlace(p) /\ drop[p] = <<>>
        /\ cur[p] = 0 /\ dp[p] \in Inum /\ ip[p] = 0 /\ rest[p] # <<>> /\ rest[p] \in Seq(Name)
    BY <1>1 DEF Dropping, LinkPlace, Shape, OneTypes
  <1>3. PICK d \in Inum, e \in Inum, n \in Name : d = dp[p] /\ n = Head(rest[p]) /\ e = entry[d][n]
    <2>1. Head(rest[p]) \in Name
      BY <1>2, Step1
    <2>2. entry[dp[p]][Head(rest[p])] \in Inum
      BY <1>2, <2>1 DEF UnlinkFound, name, DiskTypes
    <2> QED
      BY <1>2, <2>1, <2>2
  <1>4. Named(e) /\ e # 0
    BY <1>3, NameOf, InodeAssumption
  <1>5. valid' \in [Inum -> BOOLEAN]
    BY <1>3, Loads DEF UnlinkFound, name
  <1>6. /\ pc'[p] = "unlink2" /\ ret'[p] = ret[p] /\ cur'[p] = 0 /\ rest'[p] = rest[p]
        /\ dp'[p] = d /\ ip'[p] = e
        /\ drop'[p] = <<>> /\ call'[p] = call[p] /\ file'[p] = file[p]
        /\ ref' = [ref EXCEPT ![e] = @ + 1]
        /\ lock[d] = NoProc /\ lock' = [lock EXCEPT ![d] = p]
    BY <1>1, <1>2, <1>3 DEF UnlinkFound, Ilock, Unlocked, Set, LocalTypes, name
  <1>7. Moves(p)
    <2>1. /\ ip' = Set(ip, p, ip'[p]) /\ pc' = Set(pc, p, pc'[p])
      BY <1>3, <1>6 DEF UnlinkFound, name
    <2> QED
      BY <1>1, <2>1 DEF Set, Moves, LocalTypes
  <1>8. OneTypes(p)'
    BY <1>1, <1>2, <1>3, <1>6 DEF OneTypes, Places, Dropping
  <1>9. Place(p)' = "unlink2" /\ ~LinkPlace(p)'
    BY <1>6 DEF Place, LinkPlace, Dropping
  <1>10. Here(p)'
    <2>1. Shape(p)'
      BY <1>1, <1>2, <1>3, <1>4, <1>6, <1>9, InodeAssumption DEF Shape
    <2>2. CallOK(p)'
      BY <1>1, <1>3, <1>6, <1>9 DEF CallOK
    <2> QED
      BY <1>6, <1>9, <2>1, <2>2 DEF Here, Fresh, Freeing
  <1>11. \A i \in Inum : /\ Own(p, i)' = Own(p, i) + Is(e, i)
                         /\ Own(p, i) \in Nat
    <2> TAKE i \in Inum
    <2>1. /\ InSeq(<<>>, 1, i) = 0 /\ InSeq(<<>>, 2, i) = 0 /\ Is(0, i) = 0
      BY FewPointers
    <2> QED
      BY <1>2, <1>3, <1>6, <2>1, OwnType DEF Own, Is
  <1>12. \A i \in Inum : ref'[i] = ref[i] + Own(p, i)' - Own(p, i)
    BY <1>3, <1>6, <1>11 DEF Is, TableTypes
  <1>13. TableTypes'
    BY <1>3, <1>5, <1>6 DEF TableTypes
  <1>14. \A i \in Inum : ~Holds(p, i) /\ (Holds(p, i)' <=> i = d)
    BY <1>1, <1>2, <1>3, <1>6, <1>9 DEF Holds, Dropping
  <1>15. Table(p)
    BY <1>3, <1>6, <1>12, <1>14, LockMove DEF TableTypes
  <1>16. Gains(p)
    <2>1. pc[p] \notin {"ifreed", "iputref"} /\ pc'[p] \notin {"ifreed", "iputref"}
      BY <1>1, <1>6
    <2>2. \A i \in Inum : Own(p, i)' > 0 => Own(p, i) > 0 \/ Named(i)
      BY <1>4, <1>11 DEF Is
    <2> QED
      BY <2>1, <2>2, GainsOwn
  <1>17. \A i \in Inum : p \notin Pending(i) /\ p \notin Pending(i)'
    BY <1>2, <1>9 DEF Pending
  <1> QED
    BY <1>1, <1>7, <1>8, <1>10, <1>13, <1>15, <1>16, <1>17, QuietStep

\* unlink() leaves a directory that is not empty, and puts it first.
LEMMA UnlinkFullStep ==
    ASSUME InodeInv, NEW p \in Proc, UnlinkFull(p)
    PROVE  InodeInv'
  <1> USE LocalsBefore
  <1>1. pc[p] = "unlink2" /\ UNCHANGED <<diskVars, ref, lock, call, cur, rest, dp, file>>
    BY DEF UnlinkFull
  <1>2. /\ pc[p] \notin Dropping /\ Place(p) = "unlink2" /\ ~LinkPlace(p) /\ drop[p] = <<>>
        /\ cur[p] = 0 /\ dp[p] \in Inum /\ ip[p] \in Inum
        /\ \A i \in Inum : /\ Holds(p, i) <=> i = dp[p]
                           /\ p \notin Pending(i)
    BY <1>1, AtUnlink2
  <1>3. <<ip[p]>> \in Seq(Inum) /\ Len(<<ip[p]>>) = 1 /\ <<ip[p]>> # <<>>
    BY <1>2
  <1>4. valid' \in [Inum -> BOOLEAN]
    BY <1>2, Loads DEF UnlinkFull, Load
  <1>5. /\ pc'[p] = "iput" /\ ret'[p] = "full" /\ cur'[p] = 0 /\ rest'[p] = rest[p]
        /\ dp'[p] = dp[p] /\ ip'[p] = 0
        /\ drop'[p] = <<ip[p]>> /\ call'[p] = call[p] /\ file'[p] = file[p]
    BY <1>1, <1>2, <1>3 DEF UnlinkFull, Put, Set, LocalTypes
  <1>6. Moves(p)
    BY <1>1, <1>5 DEF UnlinkFull, Put, Set, Moves, LocalTypes
  <1>7. OneTypes(p)'
    BY <1>1, <1>2, <1>3, <1>5 DEF OneTypes, Places, Dropping
  <1>8. Place(p)' = "full" /\ ~LinkPlace(p)'
    BY <1>5 DEF Place, LinkPlace, Dropping
  <1>9. Here(p)'
    <2>1. Shape(p)'
      BY <1>1, <1>2, <1>5, <1>8, InodeAssumption DEF Shape
    <2> QED
      BY <1>5, <1>8, <2>1 DEF Here, Fresh, Freeing, CallOK
  <1>10. \A i \in Inum : Own(p, i)' = Own(p, i) /\ Own(p, i) \in Nat
    <2> TAKE i \in Inum
    <2>1. /\ InSeq(<<>>, 1, i) = 0 /\ InSeq(<<>>, 2, i) = 0 /\ Is(0, i) = 0
          /\ InSeq(<<ip[p]>>, 1, i) = Is(ip[p], i) /\ InSeq(<<ip[p]>>, 2, i) = 0
      BY FewPointers
    <2> QED
      BY <1>2, <1>5, <2>1, OwnType DEF Own, Is
  <1>11. \A i \in Inum : Holds(p, i)' <=> Holds(p, i)
    BY <1>2, <1>5, <1>8 DEF Holds
  <1>12. Table(p) /\ TableTypes'
    <2>1. \A i \in Inum : ref'[i] = ref[i] + Own(p, i)' - Own(p, i)
      BY <1>1, <1>10 DEF TableTypes
    <2> QED
      BY <1>1, <1>4, <1>11, <2>1, QuietTable DEF TableTypes
  <1>13. Gains(p)
    <2>1. pc[p] \notin {"ifreed", "iputref"} /\ pc'[p] \notin {"ifreed", "iputref"}
      BY <1>1, <1>5
    <2> QED
      BY <1>10, <2>1, GainsOwn
  <1>14. \A i \in Inum : p \notin Pending(i)'
    BY <1>8 DEF Pending
  <1> QED
    BY <1>1, <1>2, <1>6, <1>7, <1>9, <1>12, <1>13, <1>14, QuietStep

\* Steps within iput(), with what stays the same in them.
LEMMA PutLocals ==
    ASSUME InodeInv, NEW p \in Proc, pc[p] \in Dropping,
           pc' = [pc EXCEPT ![p] = pc'[p]], pc'[p] \in Dropping,
           UNCHANGED <<call, cur, rest, dp, ip, drop, ret, file>>
    PROVE  /\ Moves(p) /\ OneTypes(p)'
           /\ Place(p)' = Place(p) /\ (LinkPlace(p)' <=> LinkPlace(p))
           /\ Shape(p)' /\ drop'[p] = drop[p] /\ dp'[p] = dp[p] /\ ip'[p] = ip[p]
           /\ \A i : Own(p, i)' = Own(p, i)
           /\ \A i : p \in Pending(i)' <=> p \in Pending(i)
  <1> USE LocalsBefore
  <1>1. Moves(p)
    BY DEF Moves, LocalTypes
  <1>2. OneTypes(p)'
    BY DEF OneTypes
  <1>3. Place(p)' = Place(p) /\ (LinkPlace(p)' <=> LinkPlace(p))
    BY DEF Place, LinkPlace
  <1>4. Place(p) \notin {"new", "unlink2"}
    BY DEF Shape, Dropping
  <1>5. Shape(p)'
    BY <1>3, <1>4 DEF Shape
  <1> QED
    BY <1>1, <1>2, <1>3, <1>5 DEF Own, Pending

\* The last pointer to an inode without links is about to go: lock the inode.
LEMMA IputLastStep ==
    ASSUME InodeInv, NEW p \in Proc, IputLast(p)
    PROVE  InodeInv'
  <1> USE LocalsBefore
  <1>1. /\ pc[p] = "iput" /\ pc[p] \in Dropping /\ pc' = [pc EXCEPT ![p] = pc'[p]]
        /\ pc'[p] = "itrunc" /\ pc'[p] \in Dropping
        /\ UNCHANGED <<diskVars, ref, valid, call, cur, rest, dp, ip, drop, ret, file>>
        /\ UNCHANGED nlink
    BY DEF IputLast, Dropping, Set, LocalTypes, diskVars
  <1>2. /\ Moves(p) /\ OneTypes(p)' /\ Shape(p)'
        /\ Place(p)' = Place(p) /\ (LinkPlace(p)' <=> LinkPlace(p))
        /\ drop'[p] = drop[p] /\ dp'[p] = dp[p] /\ ip'[p] = ip[p]
        /\ \A i : Own(p, i)' = Own(p, i)
        /\ \A i : p \in Pending(i)' <=> p \in Pending(i)
    BY <1>1, PutLocals
  <1>3. PICK h \in Inum : h = Head(drop[p])
    BY <1>1, HeadDropped DEF InodeInv
  <1>4. /\ ref[h] = 1 /\ nlink[h] = 0 /\ lock[h] = NoProc /\ lock' = [lock EXCEPT ![h] = p]
    BY <1>3 DEF IputLast, Last, Ilock, Unlocked
  <1>5. dp[p] # h /\ ip[p] # h
    <2>1. Own(p, h) <= 1
      BY <1>4, TwoPointers DEF InodeInv
    <2>2. InSeq(drop[p], 1, h) = 1
      BY <1>1, <1>3, HeadDropped DEF Is, InodeInv
    <2>3. /\ Is(file[p], h) \in Nat /\ Is(cur[p], h) \in Nat
          /\ Is(dp[p], h) \in Nat /\ Is(ip[p], h) \in Nat
          /\ InSeq(drop[p], 2, h) \in Nat
      BY OwnType
    <2>4. Is(dp[p], h) = 0 /\ Is(ip[p], h) = 0
      BY <2>1, <2>2, <2>3 DEF Own
    <2> QED
      BY <2>4 DEF Is
  <1>6. Here(p)'
    <2>1. Freeing(p)'
      BY <1>1, <1>2, <1>3, <1>4, <1>5 DEF Freeing
    <2>2. Fresh(p)'
      <3>1. Place(p)' # "new"
        BY <1>1, <1>2 DEF Shape
      <3> QED
        BY <3>1 DEF Fresh
    <2>3. CallOK(p)'
      BY <1>1, <1>2 DEF CallOK, diskVars
    <2> QED
      BY <1>2, <2>1, <2>2, <2>3 DEF Here
  <1>7. \A i \in Inum : Holds(p, i)' <=> Holds(p, i) \/ i = h
    BY <1>1, <1>2, <1>3 DEF Holds
  <1>8. TableTypes' /\ Table(p)
    <2>1. \A i \in Inum : ref'[i] = ref[i] + Own(p, i)' - Own(p, i)
      BY <1>1, <1>2, OwnType DEF TableTypes
    <2>2. \A i \in Inum : Holds(p, i) => lock[i] = p
      BY DEF InodeInv, Locks
    <2> QED
      BY <1>1, <1>3, <1>4, <1>7, <2>1, <2>2, LockMove DEF TableTypes
  <1>9. Gains(p)
    BY <1>1, <1>2, GainsOwn
  <1> QED
    BY <1>1, <1>2, <1>6, <1>8, <1>9, QuietStep

\* The inode is freed: unlock it.
LEMMA IputUnlockStep ==
    ASSUME InodeInv, NEW p \in Proc, IputUnlock(p)
    PROVE  InodeInv'
  <1> USE LocalsBefore
  <1>1. /\ pc[p] = "ifreed" /\ pc[p] \in Dropping /\ pc' = [pc EXCEPT ![p] = pc'[p]]
        /\ pc'[p] = "iputref" /\ pc'[p] \in Dropping
        /\ UNCHANGED <<diskVars, ref, call, cur, rest, dp, ip, drop, ret, file>>
    BY DEF IputUnlock, Dropping, Set, LocalTypes
  <1>2. /\ Moves(p) /\ OneTypes(p)' /\ Shape(p)'
        /\ Place(p)' = Place(p) /\ (LinkPlace(p)' <=> LinkPlace(p))
        /\ drop'[p] = drop[p] /\ dp'[p] = dp[p] /\ ip'[p] = ip[p]
        /\ \A i : Own(p, i)' = Own(p, i)
        /\ \A i : p \in Pending(i)' <=> p \in Pending(i)
    BY <1>1, PutLocals
  <1>3. PICK h \in Inum : h = Head(drop[p])
    BY <1>1, HeadDropped DEF InodeInv
  <1>4. lock' = [lock EXCEPT ![h] = NoProc] /\ valid' = [valid EXCEPT ![h] = FALSE]
    BY <1>3 DEF IputUnlock
  <1>5. h \notin {dp[p], ip[p]}
    BY <1>1, <1>3 DEF Freeing
  <1>6. Here(p)'
    <2>1. Place(p)' # "new"
      BY <1>1, <1>2 DEF Shape
    <2>2. Fresh(p)' /\ Freeing(p)'
      BY <1>1, <2>1 DEF Fresh, Freeing
    <2>3. CallOK(p)'
      BY <1>1, <1>2 DEF CallOK, diskVars
    <2> QED
      BY <1>2, <2>2, <2>3 DEF Here
  <1>7. \A i \in Inum : (Holds(p, i)' <=> Holds(p, i) /\ i # h) /\ Holds(p, h)
    BY <1>1, <1>2, <1>3, <1>5 DEF Holds
  <1>8. TableTypes' /\ Table(p)
    <2>1. \A i \in Inum : ref'[i] = ref[i] + Own(p, i)' - Own(p, i)
      BY <1>1, <1>2, OwnType DEF TableTypes
    <2>2. \A i \in Inum : Holds(p, i) => lock[i] = p
      BY DEF InodeInv, Locks
    <2> QED
      BY <1>1, <1>3, <1>4, <1>7, <2>1, <2>2, LockMove DEF TableTypes
  <1>9. Gains(p)
    <2>1. \A i \in Inum : Uses(p, i)' <=> Uses(p, i)
      BY <1>1, <1>2 DEF Uses
    <2> QED
      BY <1>2, <2>1 DEF Gains
  <1> QED
    BY <1>1, <1>2, <1>6, <1>8, <1>9, QuietStep

\* The pointers in what is left to put.
LEMMA RestPointers ==
    ASSUME NEW s \in Seq(Inum), s # <<>>, Len(s) <= 2
    PROVE  /\ Tail(s) \in Seq(Inum) /\ Len(Tail(s)) <= 1
           /\ \A i : InSeq(Tail(s), 1, i) = InSeq(s, 2, i) /\ InSeq(Tail(s), 2, i) = 0
  <1>1. Tail(s) \in Seq(Inum) /\ Len(Tail(s)) = Len(s) - 1 /\ Len(s) \in Nat
    OBVIOUS
  <1>2. 2 \notin DOMAIN Tail(s) /\ (1 \in DOMAIN Tail(s) <=> 2 \in DOMAIN s)
    BY <1>1
  <1>3. 2 \in DOMAIN s => Tail(s)[1] = s[2]
    BY <1>1, <1>2
  <1> QED
    BY <1>1, <1>2, <1>3 DEF InSeq

\* iput() counts a pointer less.
LEMMA IputRefStep ==
    ASSUME InodeInv, NEW p \in Proc, IputRef(p)
    PROVE  InodeInv'
  <1> USE LocalsBefore
  <1>1. /\ pc[p] \in {"iput", "iputref"} /\ pc[p] \in Dropping /\ drop[p] # <<>>
        /\ UNCHANGED <<diskVars, valid, lock, call, cur, rest, dp, ip, file>>
        /\ Place(p) = ret[p] /\ ret[p] \in Places
    BY DEF IputRef, Dropping, OneTypes, Place
  <1>2. PICK h \in Inum : h = Head(drop[p])
    BY <1>1, HeadDropped DEF InodeInv
  <1>3. /\ Tail(drop[p]) \in Seq(Inum) /\ Len(Tail(drop[p])) <= 1 /\ Len(Tail(drop[p])) <= 2
        /\ \A i : InSeq(Tail(drop[p]), 1, i) = InSeq(drop[p], 2, i)
        /\ \A i : InSeq(Tail(drop[p]), 2, i) = 0 /\ InSeq(drop[p], 1, i) = Is(h, i)
    <2>1. drop[p] \in Seq(Inum) /\ Len(drop[p]) <= 2
      BY DEF OneTypes
    <2>2. Tail(drop[p]) \in Seq(Inum) /\ Len(Tail(drop[p])) <= 1
      BY <1>1, <2>1, RestPointers
    <2>3. \A i : InSeq(Tail(drop[p]), 1, i) = InSeq(drop[p], 2, i) /\ InSeq(Tail(drop[p]), 2, i) = 0
      BY <1>1, <2>1, RestPointers
    <2>4. \A i : InSeq(drop[p], 1, i) = Is(h, i)
      BY <1>1, <1>2, HeadDropped DEF InodeInv
    <2>5. Len(Tail(drop[p])) <= 2
      BY <2>2
    <2> QED
      BY <2>2, <2>3, <2>4, <2>5
  <1>4. /\ pc'[p] = (IF Tail(drop[p]) = <<>> THEN ret[p] ELSE "iput") /\ ret'[p] = ret[p]
        /\ drop'[p] = Tail(drop[p])
        /\ call'[p] = call[p] /\ cur'[p] = cur[p] /\ rest'[p] = rest[p]
        /\ dp'[p] = dp[p] /\ ip'[p] = ip[p] /\ file'[p] = file[p]
        /\ ref' = [ref EXCEPT ![h] = @ - 1]
    BY <1>1, <1>2 DEF IputRef, Put, Set, LocalTypes
  <1>5. Moves(p)
    <2>1. /\ pc' = Set(pc, p, pc'[p]) /\ ret' = Set(ret, p, ret'[p])
          /\ drop' = Set(drop, p, drop'[p])
      BY <1>4 DEF IputRef, Put
    <2> QED
      BY <1>1, <2>1 DEF Set, Moves, LocalTypes
  <1>6. OneTypes(p)'
    BY <1>1, <1>3, <1>4 DEF OneTypes, Places, Dropping
  <1>7. Place(p)' = Place(p) /\ (LinkPlace(p)' <=> LinkPlace(p))
    BY <1>1, <1>4 DEF Place, LinkPlace, Dropping, Places
  <1>8. Place(p) \notin {"new", "unlink2"}
    BY <1>1 DEF Shape
  <1>9. Here(p)'
    <2>1. Shape(p)'
      BY <1>4, <1>7, <1>8 DEF Shape
    <2>2. Fresh(p)' /\ Freeing(p)'
      BY <1>1, <1>4, <1>7, <1>8 DEF Fresh, Freeing, Places
    <2>3. CallOK(p)'
      BY <1>1, <1>4, <1>7 DEF CallOK, diskVars
    <2> QED
      BY <2>1, <2>2, <2>3 DEF Here
  <1>10. \A i \in Inum : Own(p, i) = Own(p, i)' + Is(h, i) /\ Own(p, i)' \in Nat
    <2> TAKE i \in Inum
    <2>1. /\ InSeq(Tail(drop[p]), 1, i) = InSeq(drop[p], 2, i)
          /\ InSeq(Tail(drop[p]), 2, i) = 0 /\ InSeq(drop[p], 1, i) = Is(h, i)
      BY <1>3
    <2>2. Own(p, i)' \in Nat
      BY DEF Own, Is, InSeq
    <2>3. /\ Is(file[p], i) \in Nat /\ Is(cur[p], i) \in Nat
          /\ Is(dp[p], i) \in Nat /\ Is(ip[p], i) \in Nat
          /\ InSeq(drop[p], 2, i) \in Nat /\ Is(h, i) \in Nat
      BY OwnType DEF Is
    <2>4. Own(p, i)' = Is(file[p], i) + Is(cur[p], i) + Is(dp[p], i) + Is(ip[p], i)
                         + InSeq(drop[p], 2, i)
      BY <1>4, <2>1, <2>3 DEF Own
    <2>5. Own(p, i) = Is(file[p], i) + Is(cur[p], i) + Is(dp[p], i) + Is(ip[p], i)
                         + Is(h, i) + InSeq(drop[p], 2, i)
      BY <2>1 DEF Own
    <2> QED
      BY <2>2, <2>3, <2>4, <2>5
  <1>11. \A i \in Inum : Uses(p, i)' => Uses(p, i)
    <2> TAKE i \in Inum
    <2>1. InSeq(drop'[p], 1, i) = InSeq(drop[p], 2, i) /\ InSeq(drop'[p], 2, i) = 0
      BY <1>3, <1>4
    <2> QED
      BY <1>4, <2>1 DEF Uses
  <1>12. \A i \in Inum : Holds(p, i)' <=> Holds(p, i)
    BY <1>1, <1>4, <1>7 DEF Holds, Places
  <1>13. ref[h] > 0 /\ ref[h] \in Nat
    <2>1. Own(p, h) <= ref[h]
      BY TwoPointers DEF InodeInv
    <2>2. Is(h, h) = 1
      BY DEF Is
    <2> QED
      BY <1>10, <2>1, <2>2 DEF TableTypes
  <1>14. TableTypes' /\ Table(p)
    <2>1. \A i \in Inum : ref'[i] = ref[i] + Own(p, i)' - Own(p, i)
      BY <1>2, <1>4, <1>10 DEF TableTypes, Is
    <2> QED
      BY <1>1, <1>4, <1>12, <1>13, <2>1, QuietTable DEF TableTypes
  <1>15. Gains(p)
    <2>1. \A i \in Inum : Is(h, i) \in Nat
      BY DEF Is
    <2> QED
      BY <1>10, <1>11, <2>1 DEF Gains
  <1>16. \A i \in Inum : p \in Pending(i)' <=> p \in Pending(i)
    BY <1>4, <1>7 DEF Pending
  <1> QED
    BY <1>1, <1>5, <1>6, <1>9, <1>14, <1>15, <1>16, QuietStep

-----------------------------------------------------------------------------
(***************************************************************************)
(* Counting links                                                          *)
(***************************************************************************)

In(x, S) == IF x \in S THEN 1 ELSE 0

\* One element counts at most once.
LEMMA InType ==
    ASSUME NEW x, NEW S
    PROVE  In(x, S) \in 0 .. 1 /\ In(x, S) \in Nat
  BY DEF In

\* Two sets that are the same, or shrink, but for one element.
LEMMA OneApart ==
    ASSUME NEW S, NEW T, NEW x, IsFiniteSet(S), IsFiniteSet(T), T \ {x} \subseteq S
    PROVE  /\ Cardinality(S) \in Nat /\ Cardinality(T) \in Nat
           /\ Cardinality(T) + In(x, S) <= Cardinality(S) + In(x, T)
  <1>1. Cardinality(S) \in Nat /\ Cardinality(T) \in Nat
    BY FS_CardinalityType
  <1>2. /\ Cardinality(T \ {x}) = Cardinality(T) - In(x, T)
        /\ Cardinality(S \ {x}) = Cardinality(S) - In(x, S)
        /\ IsFiniteSet(S \ {x})
    BY <1>1, FS_RemoveElement DEF In
  <1>3. T \ {x} \in SUBSET (S \ {x})
    OBVIOUS
  <1>4. Cardinality(T \ {x}) <= Cardinality(S \ {x})
    BY <1>2, <1>3, FS_Subset
  <1> QED
    BY <1>1, <1>2, <1>4, InType

\* The pending links of the other processes stay.
LEMMA PendingOthers ==
    ASSUME NEW p \in Proc, Others(p), NEW i
    PROVE  Pending(i)' \ {p} \subseteq Pending(i)
  <1> SUFFICES ASSUME NEW q \in Pending(i)', q # p
               PROVE  q \in Pending(i)
    OBVIOUS
  <1>1. q \in Proc \ {p}
    BY DEF Pending
  <1> QED
    BY <1>1, Unmoved DEF Pending, Others

\* Link counts go with the names, the subdirectories and the pending links.
LEMMA LinksCount ==
    ASSUME InodeInv, NEW p \in Proc, Others(p), DiskTypes', NEW i \in Inum, type[i] # Free,
           NEW e, NamesOf(i)' \ {e} \subseteq NamesOf(i),
           NEW x, Subdirs(i)' \ {x} \subseteq Subdirs(i),
           nlink'[i] + In(e, NamesOf(i)) + In(x, Subdirs(i)) + In(p, Pending(i))
             >= nlink[i] + In(e, NamesOf(i)') + In(x, Subdirs(i)') + In(p, Pending(i)')
    PROVE  LinksOK(i)'
  <1>1. IsFiniteSet(NamesOf(i)) /\ IsFiniteSet(Subdirs(i)) /\ IsFiniteSet(Pending(i))
    BY FiniteNames
  <1>2. (IsFiniteSet(NamesOf(i)) /\ IsFiniteSet(Subdirs(i)) /\ IsFiniteSet(Pending(i)))'
    BY <1>1, FiniteNames, PTL
  <1>3. /\ Cardinality(NamesOf(i)) \in Nat /\ Cardinality(NamesOf(i)') \in Nat
        /\ Cardinality(NamesOf(i)') + In(e, NamesOf(i))
             <= Cardinality(NamesOf(i)) + In(e, NamesOf(i)')
    BY <1>1, <1>2, OneApart
  <1>4. /\ Cardinality(Subdirs(i)) \in Nat /\ Cardinality(Subdirs(i)') \in Nat
        /\ Cardinality(Subdirs(i)') + In(x, Subdirs(i))
             <= Cardinality(Subdirs(i)) + In(x, Subdirs(i)')
    BY <1>1, <1>2, OneApart
  <1>5. /\ Cardinality(Pending(i)) \in Nat /\ Cardinality(Pending(i)') \in Nat
        /\ Cardinality(Pending(i)') + In(p, Pending(i))
             <= Cardinality(Pending(i)) + In(p, Pending(i)')
    BY <1>1, <1>2, PendingOthers, OneApart
  <1>6. nlink[i] >= Cardinality(NamesOf(i)) + Cardinality(Subdirs(i)) + RootLink(i)
                      + Cardinality(Pending(i))
    BY DEF InodeInv, LinksOK
  <1>7. /\ In(e, NamesOf(i)) \in Nat /\ In(e, NamesOf(i)') \in Nat
        /\ In(x, Subdirs(i)) \in Nat /\ In(x, Subdirs(i)') \in Nat
        /\ In(p, Pending(i)) \in Nat /\ In(p, Pending(i)') \in Nat
    BY InType
  <1>8. nlink[i] \in Nat /\ nlink'[i] \in Nat /\ RootLink(i) \in Nat /\ RootLink(i)' = RootLink(i)
    BY DEF InodeInv, TypeOK, DiskTypes, RootLink
  <1>9. nlink'[i] >= Cardinality(NamesOf(i)') + Cardinality(Subdirs(i)') + RootLink(i)'
                       + Cardinality(Pending(i)')
    BY <1>3, <1>4, <1>5, <1>6, <1>7, <1>8
  <1> QED
    BY <1>9 DEF LinksOK

\* An inode whose names and links do not grow.
LEMMA InodeStays ==
    ASSUME InodeInv, NEW p \in Proc, Others(p), DiskTypes', NEW i \in Inum,
           type'[i] = type[i],
           NamesOf(i)' \subseteq NamesOf(i), Subdirs(i)' \subseteq Subdirs(i),
           nlink'[i] + In(p, Pending(i)) >= nlink[i] + In(p, Pending(i)'),
           type[i] = "dir" => up'[i] = up[i] \/ NamesOf(i)' = {}
    PROVE  (FreeOK(i) /\ LinksOK(i) /\ DirOK(i))'
  <1>1. FreeOK(i) /\ DirOK(i)
    BY DEF InodeInv
  <1>2. FreeOK(i)'
    BY <1>1 DEF FreeOK
  <1>3. DirOK(i)'
    BY <1>1 DEF DirOK
  <1>4. CASE type[i] # Free
    <2> DEFINE e == CHOOSE e : e \notin NamesOf(i)
               x == CHOOSE x : x \notin Subdirs(i)
    <2>1. In(e, NamesOf(i)') <= In(e, NamesOf(i)) /\ In(x, Subdirs(i)') <= In(x, Subdirs(i))
      BY DEF In
    <2>2. /\ In(e, NamesOf(i)) \in Nat /\ In(e, NamesOf(i)') \in Nat
          /\ In(x, Subdirs(i)) \in Nat /\ In(x, Subdirs(i)') \in Nat
          /\ In(p, Pending(i)) \in Nat /\ In(p, Pending(i)') \in Nat
      BY InType
    <2>3. nlink[i] \in Nat /\ nlink'[i] \in Nat
      BY DEF InodeInv, TypeOK, DiskTypes
    <2>4. NamesOf(i)' \ {e} \subseteq NamesOf(i) /\ Subdirs(i)' \ {x} \subseteq Subdirs(i)
      OBVIOUS
    <2> HIDE DEF e, x
    <2>5. nlink'[i] + In(e, NamesOf(i)) + In(x, Subdirs(i)) + In(p, Pending(i))
             >= nlink[i] + In(e, NamesOf(i)') + In(x, Subdirs(i)') + In(p, Pending(i)')
      BY <2>1, <2>2, <2>3
    <2>6. LinksOK(i)'
      BY <1>4, <2>4, <2>5, LinksCount
    <2> QED
      BY <1>2, <1>3, <2>6
  <1>5. CASE type[i] = Free
    BY <1>2, <1>3, <1>5 DEF LinksOK
  <1> QED
    BY <1>4, <1>5

\* An inode without links has no names, no subdirectories and no pending links.
LEMMA NoLinks ==
    ASSUME InodeInv, NEW i \in Inum, type[i] # Free, nlink[i] = 0
    PROVE  NamesOf(i) = {} /\ Subdirs(i) = {} /\ Pending(i) = {} /\ i # ROOTINO
  <1>1. 0 >= Cardinality(NamesOf(i)) + Cardinality(Subdirs(i)) + RootLink(i)
               + Cardinality(Pending(i))
    BY DEF InodeInv, LinksOK
  <1>2. /\ Cardinality(NamesOf(i)) = 0 /\ Cardinality(Subdirs(i)) = 0
        /\ Cardinality(Pending(i)) = 0 /\ RootLink(i) = 0
    BY <1>1, LinkNumbers
  <1>3. NamesOf(i) = {} /\ Subdirs(i) = {} /\ Pending(i) = {}
    BY <1>2, FiniteNames, FS_EmptySet
  <1> QED
    BY <1>2, <1>3 DEF RootLink

\* A pending link is counted.
LEMMA PendingCounts ==
    ASSUME InodeInv, NEW i \in Inum, NEW p \in Proc, p \in Pending(i)
    PROVE  type[i] # Free /\ nlink[i] > 0 /\ Uses(p, i)
  <1>1. Uses(p, i)
    BY DEF Pending, Uses
  <1>2. type[i] # Free
    BY <1>1 DEF InodeInv, Live
  <1>3. nlink[i] # 0
    BY <1>2, NoLinks
  <1> QED
    BY <1>1, <1>2, <1>3 DEF InodeInv, TypeOK, DiskTypes

\* A step that counts or takes back a link.
LEMMA CountStep ==
    ASSUME InodeInv, NEW p \in Proc, Moves(p), OneTypes(p)', TableTypes', Here(p)',
           UNCHANGED <<type, entry, up>>, Table(p), Gains(p),
           NEW k \in Inum, Uses(p, k), nlink'[k] \in Nat,
           nlink' = [nlink EXCEPT ![k] = nlink'[k]],
           \A i \in Inum \ {k} : p \notin Pending(i)',
           nlink'[k] + In(p, Pending(k)) >= nlink[k] + In(p, Pending(k)')
    PROVE  InodeInv'
  <1>1. LocalTypes' /\ Others(p)
    BY LocalsMove DEF InodeInv, TypeOK
  <1>2. DiskTypes'
    BY DEF InodeInv, TypeOK, DiskTypes
  <1>3. \A i \in Inum \ {k} : nlink'[i] = nlink[i]
    BY DEF InodeInv, TypeOK, DiskTypes
  <1>4. Disk(p)
    BY <1>3 DEF Disk
  <1>5. ASSUME NEW i \in Inum
        PROVE  (FreeOK(i) /\ LinksOK(i) /\ DirOK(i))'
    <2>1. NamesOf(i)' = NamesOf(i) /\ Subdirs(i)' = Subdirs(i)
      BY DEF NamesOf, Subdirs
    <2>2. nlink'[i] + In(p, Pending(i)) >= nlink[i] + In(p, Pending(i)')
      <3>1. CASE i = k
        BY <3>1
      <3>2. CASE i # k
        <4>1. nlink'[i] = nlink[i] /\ In(p, Pending(i)') = 0 /\ In(p, Pending(i)) \in Nat
          BY <1>3, <3>2, InType DEF In
        <4> QED
          BY <4>1 DEF InodeInv, TypeOK, DiskTypes
      <3> QED
        BY <3>1, <3>2
    <2> QED
      BY <1>1, <1>2, <2>1, <2>2, InodeStays
  <1> QED
    BY <1>1, <1>2, <1>4, <1>5, AfterStep DEF StepOK, TypeOK

-----------------------------------------------------------------------------
(***************************************************************************)
(* Steps that change link counts and directories                           *)
(***************************************************************************)

\* link() and unlink() take back a link that is not in a directory any more.
LEMMA TakeBack ==
    ASSUME InodeInv, NEW p \in Proc, pc[p] \in {"badlink", "unlink3"},
           nlink' = [nlink EXCEPT ![ip[p]] = @ - 1], Return(p, <<ip[p]>>),
           UNCHANGED <<type, entry, up, ref, file>>, valid' \in [Inum -> BOOLEAN],
           lock' = IF pc[p] = "unlink3" THEN [lock EXCEPT ![ip[p]] = NoProc] ELSE lock
    PROVE  InodeInv'
  <1> USE LocalsBefore
  <1>1. /\ pc[p] \notin Dropping /\ Place(p) = pc[p] /\ drop[p] = <<>>
        /\ LinkPlace(p) \/ Place(p) = "unlink3"
    BY DEF Dropping, LinkPlace
  <1>2. cur[p] = 0 /\ dp[p] = 0 /\ ip[p] \in Inum
    BY <1>1 DEF Shape, OneTypes
  <1>3. PICK k \in Inum : k = ip[p]
    BY <1>2
  <1>4. \A i \in Inum : Own(p, i) = Is(file[p], i) + Is(k, i)
    BY <1>1, <1>2, <1>3, OwnNow, OwnType
  <1>5. p \in Pending(k) /\ \A i \in Inum : Holds(p, i) <=> pc[p] = "unlink3" /\ i = k
    BY <1>1, <1>2, <1>3 DEF Pending, Holds
  <1>6. nlink[k] \in Nat /\ nlink[k] > 0 /\ Uses(p, k)
    BY <1>5, PendingCounts DEF DiskTypes
  <1>7. nlink'[k] = nlink[k] - 1 /\ nlink' = [nlink EXCEPT ![k] = nlink'[k]]
    BY <1>3 DEF DiskTypes
  <1>8. <<k>> \in Seq(Inum) /\ Len(<<k>>) <= 2 /\ Return(p, <<k>>)
    BY <1>3
  <1>9. file'[p] \in Inum \cup {0} /\ file' = [file EXCEPT ![p] = file'[p]]
    BY DEF LocalTypes
  <1>10. /\ Moves(p) /\ OneTypes(p)' /\ Here(p)' /\ pc'[p] \in {"idle", "iput"}
         /\ \A i \in Inum :
              /\ ~Holds(p, i)' /\ p \notin Pending(i)'
              /\ Own(p, i)' = Is(file'[p], i) + InSeq(<<k>>, 1, i) + InSeq(<<k>>, 2, i)
    BY <1>8, <1>9, Returns
  <1>11. \A i \in Inum : Own(p, i)' = Own(p, i) /\ Own(p, i) \in Nat
    <2> TAKE i \in Inum
    <2>1. InSeq(<<k>>, 1, i) = Is(k, i) /\ InSeq(<<k>>, 2, i) = 0
      BY FewPointers
    <2>2. Is(file[p], i) \in Nat /\ Is(k, i) \in Nat
      BY DEF Is
    <2> QED
      BY <1>4, <1>10, <2>1, <2>2
  <1>12. \A i \in Inum : ref'[i] = ref[i] + Own(p, i)' - Own(p, i)
    BY <1>11 DEF TableTypes
  <1>13. Table(p) /\ TableTypes'
    <2>1. CASE pc[p] = "unlink3"
      <3>1. lock' = [lock EXCEPT ![k] = NoProc] /\ \A i \in Inum : Holds(p, i) <=> i = k
        BY <1>3, <1>5, <2>1
      <3>2. Table(p) /\ lock' \in [Inum -> Proc \cup {NoProc}]
        BY <1>10, <1>12, <3>1, TableRelease
      <3> QED
        BY <3>2 DEF TableTypes
    <2>2. CASE pc[p] # "unlink3"
      BY <1>5, <1>10, <1>12, <2>2, QuietTable DEF TableTypes
    <2> QED
      BY <2>1, <2>2
  <1>14. Gains(p)
    <2>1. pc[p] \notin {"ifreed", "iputref"} /\ pc'[p] \notin {"ifreed", "iputref"}
      BY <1>10
    <2> QED
      BY <1>11, <2>1, GainsOwn
  <1>15. nlink'[k] \in Nat /\ nlink'[k] + In(p, Pending(k)) >= nlink[k] + In(p, Pending(k)')
    BY <1>5, <1>6, <1>7, <1>10 DEF In
  <1> QED
    BY <1>6, <1>7, <1>10, <1>13, <1>14, <1>15, CountStep

\* link() did not make its link.
LEMMA LinkBadStep ==
    ASSUME InodeInv, NEW p \in Proc, LinkBad(p)
    PROVE  InodeInv'
  <1>1. pc[p] = "badlink" /\ ip[p] \in Inum
    BY LocalsBefore DEF LinkBad, Shape, LinkPlace, Dropping, OneTypes
  <1>2. valid' \in [Inum -> BOOLEAN]
    BY <1>1, LocalsBefore, Loads DEF LinkBad, Load
  <1> QED
    BY <1>1, <1>2, TakeBack DEF LinkBad

\* unlink() has erased the entry.
LEMMA UnlinkInodeStep ==
    ASSUME InodeInv, NEW p \in Proc, UnlinkInode(p)
    PROVE  InodeInv'
  <1>1. valid' \in [Inum -> BOOLEAN]
    BY LocalsBefore DEF UnlinkInode, TableTypes
  <1> QED
    BY <1>1, TakeBack DEF UnlinkInode

\* link() counts the link that it is going to make.
LEMMA LinkOldStep ==
    ASSUME InodeInv, NEW p \in Proc, LinkOld(p)
    PROVE  InodeInv'
  <1> USE LocalsBefore
  <1>1. pc[p] = "link" /\ UNCHANGED <<type, entry, up, ref, lock, file>>
    BY DEF LinkOld
  <1>2. /\ pc[p] \notin Dropping /\ Place(p) = "link" /\ ~LinkPlace(p) /\ drop[p] = <<>>
        /\ cur[p] = 0 /\ dp[p] = 0 /\ ip[p] \in Inum /\ call[p].op = "link"
    BY <1>1 DEF Dropping, LinkPlace, Shape, OneTypes
  <1>3. PICK k \in Inum : k = ip[p]
    BY <1>2
  <1>4. valid' \in [Inum -> BOOLEAN]
    BY <1>3, Loads DEF LinkOld, Load
  <1>5. \A i \in Inum : ~Holds(p, i) /\ p \notin Pending(i)
    BY <1>2 DEF Holds, Pending
  <1>6. \A i \in Inum : Own(p, i) = Is(file[p], i) + Is(k, i)
    BY <1>2, <1>3, OwnNow, OwnType
  <1>7. CASE type[k] = "dir"
    <2>1. Return(p, <<k>>) /\ UNCHANGED diskVars
      BY <1>1, <1>3, <1>7 DEF LinkOld, diskVars
    <2>2. <<k>> \in Seq(Inum) /\ Len(<<k>>) <= 2
      BY <1>3
    <2>3. file'[p] \in Inum \cup {0} /\ file' = [file EXCEPT ![p] = file'[p]]
      BY <1>1 DEF LocalTypes
    <2>4. \A i \in Inum : Own(p, i) = Is(file'[p], i) + InSeq(<<k>>, 1, i) + InSeq(<<k>>, 2, i)
      BY <1>1, <1>6, FewPointers, OwnType DEF Is
    <2> QED
      BY <1>1, <1>2, <1>4, <1>5, <2>1, <2>2, <2>3, <2>4, QuietReturn
  <1>8. CASE type[k] # "dir"
    <2>1. /\ nlink'[k] = nlink[k] + 1 /\ nlink' = [nlink EXCEPT ![k] = nlink'[k]]
          /\ pc' = Set(pc, p, "linknew") /\ UNCHANGED <<call, cur, rest, dp, ip, drop, ret>>
      BY <1>3, <1>8 DEF LinkOld, DiskTypes
    <2>2. pc'[p] = "linknew" /\ Moves(p)
      BY <1>1, <2>1 DEF Set, Moves, LocalTypes
    <2>3. OneTypes(p)'
      BY <1>1, <1>2, <2>1, <2>2 DEF OneTypes, Places, Dropping
    <2>4. Place(p)' = "linknew" /\ LinkPlace(p)'
      BY <2>2 DEF Place, LinkPlace, Dropping
    <2>5. Uses(p, k) /\ type[k] = "file"
      <3>1. Uses(p, k)
        BY <1>3 DEF Uses
      <3>2. type[k] # Free
        BY <3>1 DEF InodeInv, Live
      <3> QED
        BY <1>8, <3>1, <3>2 DEF DiskTypes, Type
    <2>6. Here(p)'
      <3>1. Shape(p)'
        BY <1>1, <1>2, <2>1, <2>4, InodeAssumption DEF Shape
      <3>2. CallOK(p)'
        BY <1>1, <1>3, <2>1, <2>4, <2>5 DEF CallOK
      <3> QED
        BY <2>2, <2>4, <3>1, <3>2 DEF Here, Fresh, Freeing
    <2>7. \A i \in Inum : Own(p, i)' = Own(p, i) /\ Own(p, i) \in Nat
      BY <1>1, <2>1, OwnType DEF Own
    <2>8. Table(p) /\ TableTypes'
      <3>1. \A i \in Inum : ref'[i] = ref[i] + Own(p, i)' - Own(p, i)
        BY <1>1, <2>7 DEF TableTypes
      <3>2. \A i \in Inum : ~Holds(p, i)'
        BY <2>2, <2>4 DEF Holds
      <3> QED
        BY <1>1, <1>4, <1>5, <3>1, <3>2, QuietTable DEF TableTypes
    <2>9. Gains(p)
      <3>1. pc[p] \notin {"ifreed", "iputref"} /\ pc'[p] \notin {"ifreed", "iputref"}
        BY <1>1, <2>2
      <3> QED
        BY <2>7, <3>1, GainsOwn
    <2>10. nlink'[k] \in Nat /\ nlink'[k] + In(p, Pending(k)) >= nlink[k] + In(p, Pending(k)')
      <3>1. In(p, Pending(k)) = 0 /\ In(p, Pending(k)') \in 0 .. 1 /\ nlink[k] \in Nat
        BY <1>5, InType DEF In, DiskTypes
      <3> QED
        BY <2>1, <3>1
    <2>11. \A i \in Inum \ {k} : p \notin Pending(i)'
      BY <1>3, <2>1 DEF Pending
    <2> QED
      BY <1>1, <2>1, <2>2, <2>3, <2>5, <2>6, <2>8, <2>9, <2>10, <2>11, CountStep
  <1> QED
    BY <1>7, <1>8

\* Names and subdirectories after a change.
LEMMA NamesAfter ==
    ASSUME DiskTypes, NEW d \in Inum, NEW n \in Name, NEW v,
           entry' = [entry EXCEPT ![d][n] = v], NEW i \in Inum
    PROVE  /\ NamesOf(i)' \ {<<d, n>>} \subseteq NamesOf(i)
           /\ <<d, n>> \in NamesOf(i)' <=> v = i
           /\ <<d, n>> \in NamesOf(i) <=> entry[d][n] = i
           /\ v # i => NamesOf(i)' \subseteq NamesOf(i)
           /\ \A j \in Inum : j # d => entry'[j] = entry[j]
           /\ v \in Inum \cup {0} => entry' \in [Inum -> [Name -> Inum \cup {0}]]
  <1>1. /\ entry'[d][n] = v
        /\ \A j \in Inum : j # d => entry'[j] = entry[j]
        /\ \A m \in Name : m # n => entry'[d][m] = entry[d][m]
    BY DEF DiskTypes
  <1>2. ASSUME NEW e \in Inum \X Name, e # <<d, n>>
        PROVE  entry'[e[1]][e[2]] = entry[e[1]][e[2]]
    BY <1>1, <1>2
  <1>3. NamesOf(i)' \ {<<d, n>>} \subseteq NamesOf(i)
    BY <1>2 DEF NamesOf
  <1>4. /\ <<d, n>> \in NamesOf(i)' <=> v = i
        /\ <<d, n>> \in NamesOf(i) <=> entry[d][n] = i
    BY <1>1 DEF NamesOf
  <1>5. v \in Inum \cup {0} => entry' \in [Inum -> [Name -> Inum \cup {0}]]
    BY DEF DiskTypes
  <1> QED
    BY <1>1, <1>3, <1>4, <1>5

\* The same for the entry ".." of a directory.
LEMMA SubdirsAfter ==
    ASSUME DiskTypes, NEW x \in Inum, NEW v, up' = [up EXCEPT ![x] = v], NEW i \in Inum
    PROVE  /\ Subdirs(i)' \ {x} \subseteq Subdirs(i)
           /\ v # i => Subdirs(i)' \subseteq Subdirs(i)
           /\ x \in Subdirs(i)' <=> v = i
           /\ x \in Subdirs(i) <=> up[x] = i
           /\ \A j \in Inum : up'[j] = IF j = x THEN v ELSE up[j]
           /\ v \in Inum \cup {0} => up' \in [Inum -> Inum \cup {0}]
  BY DEF DiskTypes, Subdirs

\* link() finds its new name, or makes it.
LEMMA DirLinkStep ==
    ASSUME InodeInv, NEW p \in Proc, DirLink(p)
    PROVE  InodeInv'
  <1> USE LocalsBefore
  <1>1. pc[p] = "dirlink" /\ UNCHANGED <<type, nlink, up, ref, lock, file>>
    BY DEF DirLink
  <1>2. /\ pc[p] \notin Dropping /\ Place(p) = "dirlink" /\ LinkPlace(p) /\ drop[p] = <<>>
        /\ cur[p] = 0 /\ dp[p] \in Inum /\ ip[p] \in Inum /\ call[p].op = "link2"
        /\ rest[p] # <<>> /\ rest[p] \in Seq(Name)
    BY <1>1 DEF Dropping, LinkPlace, Shape, OneTypes
  <1>3. PICK d \in Inum, k \in Inum, n \in Name : d = dp[p] /\ k = ip[p] /\ n = Head(rest[p])
    BY <1>2, Step1
  <1>4. valid' \in [Inum -> BOOLEAN] /\ lock[d] = NoProc
    BY <1>3, Loads DEF DirLink, Load, Unlocked
  <1>5. /\ \A i \in Inum : ~Holds(p, i) /\ (p \in Pending(i) <=> i = k)
        /\ Uses(p, k) /\ type[k] = "file"
    BY <1>2, <1>3 DEF Holds, Pending, Uses, CallOK
  <1>6. \A i \in Inum : Own(p, i) = Is(file[p], i) + Is(d, i) + Is(k, i)
    BY <1>2, <1>3, OwnNow, OwnType
  <1>7. CASE entry[d][n] # 0
    <2>1. /\ Put(p, <<d>>, "badlink") /\ dp' = Set(dp, p, 0)
          /\ UNCHANGED <<entry, call, cur, rest, ip>>
          /\ UNCHANGED diskVars
      BY <1>1, <1>3, <1>7 DEF DirLink, name, diskVars
    <2>2. <<d>> \in Seq(Inum) /\ Len(<<d>>) = 1 /\ <<d>> # <<>>
      BY <1>3
    <2>3. /\ pc'[p] = "iput" /\ ret'[p] = "badlink" /\ cur'[p] = 0 /\ rest'[p] = rest[p]
          /\ dp'[p] = 0 /\ ip'[p] = k
          /\ drop'[p] = <<d>> /\ call'[p] = call[p] /\ file'[p] = file[p]
      BY <1>1, <1>2, <1>3, <2>1, <2>2 DEF Put, Set, LocalTypes
    <2>4. Moves(p)
      BY <1>1, <2>1, <2>3 DEF Put, Set, Moves, LocalTypes
    <2>5. OneTypes(p)'
      BY <1>1, <1>2, <1>3, <2>2, <2>3 DEF OneTypes, Places, Dropping
    <2>6. Place(p)' = "badlink" /\ LinkPlace(p)'
      BY <2>3 DEF Place, LinkPlace, Dropping
    <2>7. Shape(p)' /\ CallOK(p)'
      BY <1>1, <1>2, <1>3, <1>5, <2>3, <2>6, InodeAssumption DEF Shape, CallOK
    <2>8. \A i \in Inum : Own(p, i)' = Own(p, i) + Is(0, i)
      <3> TAKE i \in Inum
      <3>1. /\ Is(0, i) = 0 /\ InSeq(<<d>>, 1, i) = Is(d, i) /\ InSeq(<<d>>, 2, i) = 0
        BY FewPointers
      <3>2. Is(file[p], i) \in Nat /\ Is(d, i) \in Nat /\ Is(k, i) \in Nat
        BY DEF Is
      <3> QED
        BY <1>6, <2>3, <3>1, <3>2 DEF Own
    <2> QED
      BY <1>1, <1>2, <1>3, <1>4, <2>1, <2>3, <2>4, <2>5, <2>6, <2>7, <2>8, Walks
  <1>8. CASE entry[d][n] = 0
    <2>1. /\ entry' = [entry EXCEPT ![d][n] = k] /\ Return(p, <<d, k>>)
      BY <1>3, <1>8 DEF DirLink, name
    <2>2. <<d, k>> \in Seq(Inum) /\ Len(<<d, k>>) <= 2
      BY <1>3
    <2>3. file'[p] \in Inum \cup {0} /\ file' = [file EXCEPT ![p] = file'[p]]
      BY <1>1 DEF LocalTypes
    <2>4. /\ Moves(p) /\ OneTypes(p)' /\ Here(p)' /\ pc'[p] \in {"idle", "iput"}
          /\ \A i \in Inum :
               /\ ~Holds(p, i)' /\ p \notin Pending(i)'
               /\ Own(p, i)' = Is(file'[p], i) + InSeq(<<d, k>>, 1, i) + InSeq(<<d, k>>, 2, i)
      BY <2>1, <2>2, <2>3, Returns
    <2>5. \A i \in Inum : Own(p, i)' = Own(p, i) /\ Own(p, i) \in Nat
      <3> TAKE i \in Inum
      <3>1. InSeq(<<d, k>>, 1, i) = Is(d, i) /\ InSeq(<<d, k>>, 2, i) = Is(k, i)
        BY FewPointers
      <3>2. Is(file[p], i) \in Nat /\ Is(d, i) \in Nat /\ Is(k, i) \in Nat
        BY DEF Is
      <3> QED
        BY <1>1, <1>6, <2>4, <3>1, <3>2
    <2>6. Table(p) /\ TableTypes'
      <3>1. \A i \in Inum : ref'[i] = ref[i] + Own(p, i)' - Own(p, i)
        BY <1>1, <2>5 DEF TableTypes
      <3> QED
        BY <1>1, <1>4, <1>5, <2>4, <3>1, QuietTable DEF TableTypes
    <2>7. Gains(p)
      <3>1. pc[p] \notin {"ifreed", "iputref"} /\ pc'[p] \notin {"ifreed", "iputref"}
        BY <1>1, <2>4
      <3> QED
        BY <2>5, <3>1, GainsOwn
    <2>8. LocalTypes' /\ Others(p)
      BY <2>4, LocalsMove
    <2>9. DiskTypes'
      BY <1>1, <2>1, NamesAfter DEF DiskTypes
    <2>10. Disk(p)
      BY <1>1, <1>4, <2>1, NamesAfter DEF Disk
    <2>11. ASSUME NEW i \in Inum
           PROVE  (FreeOK(i) /\ LinksOK(i) /\ DirOK(i))'
      <3>1. Subdirs(i)' = Subdirs(i)
        BY <1>1 DEF Subdirs
      <3>2. nlink[i] \in Nat /\ nlink'[i] = nlink[i] /\ type'[i] = type[i] /\ up'[i] = up[i]
        BY <1>1 DEF DiskTypes
      <3>3. CASE i = k
        <4>1. /\ NamesOf(k)' \ {<<d, n>>} \subseteq NamesOf(k)
              /\ In(<<d, n>>, NamesOf(k)) = 0 /\ In(<<d, n>>, NamesOf(k)') = 1
          BY <1>8, <2>1, NamesAfter, InodeAssumption DEF In
        <4>2. In(p, Pending(k)) = 1 /\ In(p, Pending(k)') = 0
          BY <1>5, <2>4 DEF In
        <4>3. In(k, Subdirs(k)') = In(k, Subdirs(k)) /\ In(k, Subdirs(k)) \in Nat
          BY <3>1, <3>3, InType
        <4>4. nlink'[k] + In(<<d, n>>, NamesOf(k)) + In(k, Subdirs(k)) + In(p, Pending(k))
                >= nlink[k] + In(<<d, n>>, NamesOf(k)') + In(k, Subdirs(k)') + In(p, Pending(k)')
          BY <3>2, <3>3, <4>1, <4>2, <4>3
        <4>5. type[k] # Free /\ type[k] # "dir"
          BY <1>5 DEF Free
        <4>6. LinksOK(k)'
          BY <2>8, <2>9, <3>1, <3>3, <4>1, <4>4, <4>5, LinksCount
        <4> QED
          BY <3>2, <3>3, <4>5, <4>6 DEF FreeOK, DirOK
      <3>4. CASE i # k
        <4>1. NamesOf(i)' \subseteq NamesOf(i)
          BY <2>1, <3>4, NamesAfter
        <4>2. nlink'[i] + In(p, Pending(i)) >= nlink[i] + In(p, Pending(i)')
          <5>1. In(p, Pending(i)) = 0 /\ In(p, Pending(i)') = 0
            BY <1>5, <2>4, <3>4 DEF In
          <5> QED
            BY <3>2, <5>1
        <4> QED
          BY <2>8, <2>9, <3>1, <3>2, <4>1, <4>2, InodeStays
      <3> QED
        BY <3>3, <3>4
    <2> QED
      BY <2>4, <2>6, <2>7, <2>8, <2>9, <2>10, <2>11, AfterStep DEF StepOK, TypeOK
  <1> QED
    BY <1>7, <1>8

\* iput() frees an inode that nobody else points to.
LEMMA IputFreeStep ==
    ASSUME InodeInv, NEW p \in Proc, IputFree(p)
    PROVE  InodeInv'
  <1> USE LocalsBefore
  <1>1. /\ pc[p] = "itrunc" /\ pc[p] \in Dropping /\ pc' = [pc EXCEPT ![p] = pc'[p]]
        /\ pc'[p] = "ifreed" /\ pc'[p] \in Dropping
        /\ UNCHANGED <<nlink, tableVars, call, cur, rest, dp, ip, drop, ret, file>>
        /\ UNCHANGED <<ref, valid, lock>>
    BY DEF IputFree, Dropping, Set, LocalTypes, tableVars
  <1>2. /\ Moves(p) /\ OneTypes(p)' /\ Shape(p)'
        /\ Place(p)' = Place(p) /\ (LinkPlace(p)' <=> LinkPlace(p))
        /\ drop'[p] = drop[p] /\ dp'[p] = dp[p] /\ ip'[p] = ip[p]
        /\ \A i : Own(p, i)' = Own(p, i)
        /\ \A i : p \in Pending(i)' <=> p \in Pending(i)
    BY <1>1, PutLocals
  <1>3. PICK h \in Inum : h = Head(drop[p])
    BY <1>1, HeadDropped DEF InodeInv
  <1>4. /\ type' = [type EXCEPT ![h] = Free]
        /\ entry' = [entry EXCEPT ![h] = NoEntries]
        /\ up' = [up EXCEPT ![h] = 0]
    BY <1>3 DEF IputFree
  <1>5. /\ ref[h] = 1 /\ nlink[h] = 0 /\ h \notin {dp[p], ip[p]} /\ Holds(p, h)
        /\ lock[h] = p /\ InSeq(drop[p], 1, h) = 1 /\ Uses(p, h)
    <2>1. ref[h] = 1 /\ nlink[h] = 0 /\ h \notin {dp[p], ip[p]} /\ Holds(p, h)
      BY <1>1, <1>3 DEF Freeing, Holds
    <2>2. InSeq(drop[p], 1, h) = 1
      BY <1>1, <1>3, HeadDropped DEF Is, InodeInv
    <2> QED
      BY <1>1, <2>1, <2>2 DEF Uses, InodeInv, Locks
  <1>6. type[h] # Free
    BY <1>5 DEF InodeInv, Live
  <1>7. NamesOf(h) = {} /\ Subdirs(h) = {} /\ Pending(h) = {} /\ h # ROOTINO
    BY <1>5, <1>6, NoLinks
  <1>8. ~Uses(p, h)'
    <2>1. Own(p, h) <= 1
      BY <1>5, TwoPointers DEF InodeInv
    <2>2. /\ Is(file[p], h) \in Nat /\ Is(cur[p], h) \in Nat
          /\ Is(dp[p], h) \in Nat /\ Is(ip[p], h) \in Nat
          /\ InSeq(drop[p], 2, h) \in Nat
      BY OwnType
    <2>3. Is(file[p], h) = 0 /\ Is(cur[p], h) = 0 /\ InSeq(drop[p], 2, h) = 0
      BY <1>5, <2>1, <2>2 DEF Own
    <2> QED
      BY <1>1, <1>5, <2>3 DEF Uses, Is
  <1>9. \A i \in Inum : Uses(p, i)' => Uses(p, i)
    BY <1>1 DEF Uses
  <1>10. Here(p)'
    <2>1. Place(p) \notin {"new", "unlink2"}
      BY <1>1 DEF Shape
    <2>2. Fresh(p)' /\ Freeing(p)'
      BY <1>1, <1>2, <1>3, <1>5, <2>1 DEF Fresh, Freeing
    <2>3. type'[ip[p]] = type[ip[p]]
      BY <1>4, <1>5 DEF DiskTypes
    <2>4. CallOK(p)'
      BY <1>1, <1>2, <2>1, <2>3 DEF CallOK
    <2> QED
      BY <1>2, <2>2, <2>4 DEF Here
  <1>11. TableTypes' /\ Table(p)
    <2>1. \A i \in Inum : ref'[i] = ref[i] + Own(p, i)' - Own(p, i)
      BY <1>1, <1>2, OwnType DEF TableTypes
    <2>2. \A i \in Inum : Holds(p, i)' <=> Holds(p, i)
      BY <1>1, <1>2 DEF Holds
    <2> QED
      BY <1>1, <2>1, <2>2, QuietTable DEF TableTypes
  <1>12. Gains(p)
    BY <1>2, <1>9 DEF Gains
  <1>13. LocalTypes' /\ Others(p)
    BY <1>2, LocalsMove
  <1>14. /\ type' \in [Inum -> {Free} \cup Type] /\ entry' \in [Inum -> [Name -> Inum \cup {0}]]
         /\ up' \in [Inum -> Inum \cup {0}]
         /\ \A i \in Inum : i # h => /\ type'[i] = type[i] /\ entry'[i] = entry[i]
                                     /\ up'[i] = up[i]
         /\ type'[h] = Free /\ entry'[h] = NoEntries /\ up'[h] = 0
    BY <1>4 DEF DiskTypes, NoEntries
  <1>15. DiskTypes'
    BY <1>1, <1>14 DEF DiskTypes
  <1>16. Disk(p)
    BY <1>1, <1>3, <1>5, <1>8, <1>14 DEF Disk
  <1>17. ASSUME NEW i \in Inum
         PROVE  (FreeOK(i) /\ LinksOK(i) /\ DirOK(i))'
    <2>1. NamesOf(i)' \subseteq NamesOf(i)
      <3>1. ASSUME NEW e \in Inum \X Name, entry'[e[1]][e[2]] = i
            PROVE  entry[e[1]][e[2]] = i
        BY <1>14, <3>1, InodeAssumption DEF NoEntries
      <3> QED
        BY <3>1 DEF NamesOf
    <2>2. Subdirs(i)' \subseteq Subdirs(i)
      BY <1>14, InodeAssumption DEF Subdirs
    <2>3. CASE i = h
      BY <1>7, <1>14, <2>1, <2>2, <2>3 DEF FreeOK, LinksOK, DirOK, Free
    <2>4. CASE i # h
      <3>1. nlink'[i] + In(p, Pending(i)) >= nlink[i] + In(p, Pending(i)')
        <4>1. In(p, Pending(i)') = In(p, Pending(i)) /\ In(p, Pending(i)) \in Nat
          BY <1>2, InType DEF In
        <4> QED
          BY <1>1, <4>1 DEF DiskTypes
      <3> QED
        BY <1>13, <1>14, <1>15, <2>1, <2>2, <2>4, <3>1, InodeStays
    <2> QED
      BY <2>3, <2>4
  <1> QED
    BY <1>10, <1>11, <1>12, <1>13, <1>15, <1>16, <1>17, AfterStep DEF StepOK, TypeOK

\* create() takes a free inode.
LEMMA CreateNewStep ==
    ASSUME InodeInv, NEW p \in Proc, CreateNew(p)
    PROVE  InodeInv'
  <1> USE LocalsBefore
  <1>1. /\ pc[p] = "create" /\ UNCHANGED <<entry, up, call, cur, rest, dp, drop, ret, file>>
        /\ pc' = Set(pc, p, "new")
    BY DEF CreateNew
  <1>2. /\ pc[p] \notin Dropping /\ Place(p) = "create" /\ ~LinkPlace(p) /\ drop[p] = <<>>
        /\ cur[p] = 0 /\ dp[p] \in Inum /\ ip[p] = 0 /\ call[p].op = "create"
        /\ rest[p] # <<>> /\ call[p].type \in Type
    BY <1>1, CallParts DEF Dropping, LinkPlace, Shape, OneTypes
  <1>3. PICK d \in Inum : d = dp[p] /\ lock[d] = NoProc /\ lock' = [lock EXCEPT ![d] = p]
    BY <1>2 DEF CreateNew, Ilock, Unlocked
  <1>4. PICK k \in Inum :
          /\ type[k] = Free
          /\ type' = [type EXCEPT ![k] = call[p].type]
          /\ nlink' = [nlink EXCEPT ![k] = 0]
          /\ ref' = [ref EXCEPT ![k] = @ + 1]
          /\ valid' = [valid EXCEPT ![d] = TRUE, ![k] = IF ref[k] = 0 THEN FALSE ELSE @]
          /\ ip' = Set(ip, p, k)
    BY <1>3 DEF CreateNew
  <1>5. /\ pc'[p] = "new" /\ ip'[p] = k /\ dp'[p] = d /\ cur'[p] = 0 /\ rest'[p] = rest[p]
        /\ call'[p] = call[p] /\ ret'[p] = ret[p] /\ drop'[p] = <<>> /\ file'[p] = file[p]
    BY <1>1, <1>2, <1>3, <1>4 DEF Set, LocalTypes
  <1>6. Moves(p)
    BY <1>1, <1>4, <1>5 DEF Set, Moves, LocalTypes
  <1>7. OneTypes(p)'
    BY <1>1, <1>2, <1>4, <1>5 DEF OneTypes, Places, Dropping
  <1>8. LocalTypes' /\ Others(p)
    BY <1>6, <1>7, LocalsMove
  <1>9. Place(p)' = "new" /\ ~LinkPlace(p)'
    BY <1>5 DEF Place, LinkPlace, Dropping
  <1>10. /\ NamesOf(k) = {} /\ Subdirs(k) = {} /\ k # ROOTINO /\ k # 0
         /\ \A q \in Proc : ~Uses(q, k)
    BY <1>4, InodeAssumption DEF InodeInv, FreeOK, Live
  <1>11. file[p] # k /\ d # k
    BY <1>3, <1>10 DEF Uses
  <1>12. /\ type'[k] = call[p].type /\ nlink'[k] = 0
         /\ \A i \in Inum : i # k => type'[i] = type[i] /\ nlink'[i] = nlink[i]
         /\ DiskTypes'
    BY <1>1, <1>2, <1>4 DEF DiskTypes
  <1>13. Here(p)'
    <2>1. Shape(p)'
      BY <1>2, <1>3, <1>5, <1>9, <1>10, InodeAssumption DEF Shape
    <2>2. \A q \in Proc : Uses(q, k)' => q = p
      BY <1>8, <1>10, Unmoved
    <2>3. Fresh(p)'
      BY <1>5, <1>11, <1>12, <2>2 DEF Fresh
    <2>4. Freeing(p)' /\ CallOK(p)'
      BY <1>5, <1>9, <1>12 DEF Freeing, CallOK
    <2> QED
      BY <2>1, <2>3, <2>4 DEF Here
  <1>14. \A i \in Inum : Own(p, i)' = Own(p, i) + Is(k, i) /\ Own(p, i) \in Nat
    <2> TAKE i \in Inum
    <2>1. /\ InSeq(<<>>, 1, i) = 0 /\ InSeq(<<>>, 2, i) = 0 /\ Is(0, i) = 0
      BY FewPointers
    <2> QED
      BY <1>2, <1>3, <1>5, <2>1, OwnType DEF Own, Is
  <1>15. \A i \in Inum : ref'[i] = ref[i] + Own(p, i)' - Own(p, i)
    BY <1>4, <1>14 DEF Is, TableTypes
  <1>16. TableTypes'
    <2>1. valid' \in [Inum -> BOOLEAN]
      BY <1>4, Loads
    <2>2. ref' \in [Inum -> Nat] /\ lock' \in [Inum -> Proc \cup {NoProc}]
      BY <1>3, <1>4 DEF TableTypes
    <2> QED
      BY <2>1, <2>2 DEF TableTypes
  <1>17. Table(p)
    <2>1. \A i \in Inum : ~Holds(p, i) /\ (Holds(p, i)' <=> i = d)
      BY <1>1, <1>2, <1>5, <1>9 DEF Holds
    <2> QED
      BY <1>3, <1>15, <2>1, LockMove DEF TableTypes
  <1>18. Gains(p)
    <2>1. pc[p] \notin {"ifreed", "iputref"} /\ pc'[p] \notin {"ifreed", "iputref"}
      BY <1>1, <1>5
    <2>2. type'[k] # Free
      BY <1>2, <1>12 DEF Type, Free
    <2>3. \A i \in Inum :
            Own(p, i)' > 0 => Own(p, i) > 0 \/ (type[i] = Free /\ type'[i] # Free)
      BY <1>4, <1>14, <2>2 DEF Is
    <2> QED
      BY <2>1, <2>3, GainsOwn
  <1>19. Disk(p)
    BY <1>1, <1>4, <1>12 DEF Disk
  <1>20. ASSUME NEW i \in Inum
         PROVE  (FreeOK(i) /\ LinksOK(i) /\ DirOK(i))'
    <2>1. NamesOf(i)' = NamesOf(i) /\ Subdirs(i)' = Subdirs(i)
      BY <1>1 DEF NamesOf, Subdirs
    <2>2. p \notin Pending(i) /\ p \notin Pending(i)'
      BY <1>2, <1>9 DEF Pending
    <2>3. CASE i = k
      <3>1. Pending(k)' = {}
        <4>1. \A q \in Pending(k)' : q \in Pending(k)
          BY <1>8, <2>2, <2>3, PendingOthers
        <4>2. \A q \in Pending(k) : q \in Proc /\ Uses(q, k)
          BY DEF Pending, Uses
        <4> QED
          BY <1>10, <4>1, <4>2
      <3>2. FreeOK(k)' /\ DirOK(k)'
        BY <1>10, <2>1, <2>3 DEF FreeOK, DirOK
      <3>3. LinksOK(k)'
        <4>1. NamesOf(k)' = {} /\ Subdirs(k)' = {}
          BY <1>10, <2>1, <2>3
        <4>2. /\ Cardinality(NamesOf(k)') = 0 /\ Cardinality(Subdirs(k)') = 0
              /\ Cardinality(Pending(k)') = 0
          BY <3>1, <4>1, FS_EmptySet
        <4>3. RootLink(k)' = 0 /\ nlink'[k] = 0
          BY <1>10, <1>12 DEF RootLink
        <4>4. nlink'[k] >= Cardinality(NamesOf(k)') + Cardinality(Subdirs(k)') + RootLink(k)'
                             + Cardinality(Pending(k)')
          BY <4>2, <4>3
        <4> QED
          BY <4>4 DEF LinksOK
      <3> QED
        BY <2>3, <3>2, <3>3
    <2>4. CASE i # k
      <3>1. nlink'[i] + In(p, Pending(i)) >= nlink[i] + In(p, Pending(i)')
        BY <1>12, <2>2, <2>4 DEF In, DiskTypes
      <3> QED
        BY <1>1, <1>8, <1>12, <2>1, <2>4, <3>1, InodeStays
    <2> QED
      BY <2>3, <2>4
  <1> QED
    BY <1>8, <1>12, <1>13, <1>16, <1>17, <1>18, <1>19, <1>20, AfterStep DEF StepOK, TypeOK

\* unlink() erases the entry.
LEMMA UnlinkEntryStep ==
    ASSUME InodeInv, NEW p \in Proc, UnlinkEntry(p)
    PROVE  InodeInv'
  <1> USE LocalsBefore
  <1>1. pc[p] = "unlink2" /\ UNCHANGED <<type, ref, call, cur, rest, ip, file>>
    BY DEF UnlinkEntry
  <1>2. /\ pc[p] \notin Dropping /\ Place(p) = "unlink2" /\ ~LinkPlace(p) /\ drop[p] = <<>>
        /\ cur[p] = 0 /\ dp[p] \in Inum /\ ip[p] \in Inum /\ Head(rest[p]) \in Name
        /\ lock[dp[p]] = p
    BY <1>1, AtUnlink2
  <1>3. PICK d \in Inum, k \in Inum, n \in Name : d = dp[p] /\ k = ip[p] /\ n = Head(rest[p])
    BY <1>2
  <1>4. /\ entry[d][n] = k
        /\ \A i \in Inum : /\ Holds(p, i) <=> i = d
                           /\ Own(p, i) = Is(file[p], i) + Is(d, i) + Is(k, i)
                           /\ p \notin Pending(i)
    BY <1>1, <1>3, AtUnlink2
  <1>5. /\ lock[k] = NoProc /\ lock[d] = p /\ k # d
        /\ entry' = [entry EXCEPT ![d][n] = 0]
        /\ nlink' = [nlink EXCEPT ![d] = IF type[k] = "dir" THEN @ - 1 ELSE @]
        /\ up' = [up EXCEPT ![k] = 0]
        /\ lock' = [lock EXCEPT ![d] = NoProc, ![k] = p]
        /\ valid' = [valid EXCEPT ![k] = TRUE]
    BY <1>2, <1>3, InodeAssumption DEF UnlinkEntry, Unlocked, Load, name
  <1>6. <<d>> \in Seq(Inum) /\ Len(<<d>>) = 1 /\ <<d>> # <<>> /\ d # 0 /\ k # 0
    BY InodeAssumption
  <1>7. /\ pc'[p] = "iput" /\ ret'[p] = "unlink3" /\ cur'[p] = 0 /\ rest'[p] = rest[p]
        /\ dp'[p] = 0 /\ ip'[p] = k
        /\ drop'[p] = <<d>> /\ call'[p] = call[p] /\ file'[p] = file[p]
    BY <1>1, <1>2, <1>3, <1>6 DEF UnlinkEntry, Put, Set, LocalTypes
  <1>8. Moves(p)
    <2>1. /\ pc' = Set(pc, p, pc'[p]) /\ ret' = Set(ret, p, ret'[p])
          /\ drop' = Set(drop, p, drop'[p]) /\ dp' = Set(dp, p, dp'[p])
      BY <1>3, <1>6, <1>7 DEF UnlinkEntry, Put
    <2> QED
      BY <1>1, <2>1 DEF Set, Moves, LocalTypes
  <1>9. OneTypes(p)'
    BY <1>1, <1>2, <1>3, <1>6, <1>7 DEF OneTypes, Places, Dropping
  <1>10. LocalTypes' /\ Others(p)
    BY <1>8, <1>9, LocalsMove
  <1>11. Place(p)' = "unlink3" /\ ~LinkPlace(p)'
    BY <1>7 DEF Place, LinkPlace, Dropping
  <1>12. Here(p)'
    <2>1. Shape(p)'
      BY <1>1, <1>2, <1>3, <1>6, <1>7, <1>11 DEF Shape
    <2> QED
      BY <1>7, <1>11, <2>1 DEF Here, Fresh, Freeing, CallOK
  <1>13. \A i \in Inum : Own(p, i)' = Own(p, i) /\ Own(p, i) \in Nat
    <2> TAKE i \in Inum
    <2>1. /\ InSeq(<<d>>, 1, i) = Is(d, i) /\ InSeq(<<d>>, 2, i) = 0 /\ Is(0, i) = 0
      BY FewPointers
    <2>2. Is(file[p], i) \in Nat /\ Is(d, i) \in Nat /\ Is(k, i) \in Nat
      BY DEF Is
    <2> QED
      BY <1>4, <1>7, <2>1, <2>2 DEF Own
  <1>14. TableTypes' /\ Table(p)
    <2>1. \A i \in Inum : ref'[i] = ref[i] + Own(p, i)' - Own(p, i)
      BY <1>1, <1>13 DEF TableTypes
    <2>2. \A i \in Inum : Holds(p, i)' <=> i = k
      BY <1>7, <1>11 DEF Holds
    <2>3. TableTypes'
      BY <1>1, <1>5 DEF TableTypes
    <2> QED
      BY <1>4, <1>5, <2>1, <2>2, <2>3, LockMove DEF TableTypes
  <1>15. Gains(p)
    <2>1. pc[p] \notin {"ifreed", "iputref"} /\ pc'[p] \notin {"ifreed", "iputref"}
      BY <1>1, <1>7
    <2> QED
      BY <1>13, <2>1, GainsOwn
  <1>16. Uses(p, d) /\ Uses(p, k) /\ type[d] # Free /\ type[k] # Free
    <2>1. Uses(p, d) /\ Uses(p, k)
      BY <1>3 DEF Uses
    <2> QED
      BY <2>1 DEF InodeInv, Live
  <1>17. type[k] = "dir" => up[k] = d /\ nlink[d] > 0
    <2> SUFFICES ASSUME type[k] = "dir"
                 PROVE  up[k] = d /\ nlink[d] > 0
      OBVIOUS
    <2>1. <<d, n>> \in NamesOf(k)
      BY <1>4, NameOf
    <2>2. up[k] = d
      BY <2>1 DEF InodeInv, DirOK
    <2>3. Subdirs(d) # {}
      BY <2>2 DEF Subdirs
    <2>4. nlink[d] # 0
      BY <1>16, <2>3, NoLinks
    <2> QED
      BY <2>2, <2>4 DEF DiskTypes
  <1>18. /\ DiskTypes'
         /\ nlink'[d] = (IF type[k] = "dir" THEN nlink[d] - 1 ELSE nlink[d])
         /\ \A i \in Inum : i # d => nlink'[i] = nlink[i]
    <2>1. /\ nlink'[d] = (IF type[k] = "dir" THEN nlink[d] - 1 ELSE nlink[d])
          /\ \A i \in Inum : i # d => nlink'[i] = nlink[i]
          /\ nlink' \in [Inum -> Nat]
      BY <1>5, <1>17 DEF DiskTypes
    <2>2. entry' \in [Inum -> [Name -> Inum \cup {0}]] /\ up' \in [Inum -> Inum \cup {0}]
      BY <1>5, NamesAfter, SubdirsAfter
    <2> QED
      BY <1>1, <2>1, <2>2 DEF DiskTypes
  <1>19. Disk(p)
    <2>1. \A i \in Inum : i # d => entry'[i] = entry[i]
      BY <1>5, NamesAfter
    <2> QED
      BY <1>1, <1>5, <1>16, <1>18, <2>1 DEF Disk
  <1>20. ASSUME NEW i \in Inum
         PROVE  (FreeOK(i) /\ LinksOK(i) /\ DirOK(i))'
    <2> DEFINE e == <<d, n>>
    <2>1. /\ NamesOf(i)' \ {e} \subseteq NamesOf(i) /\ NamesOf(i)' \subseteq NamesOf(i)
          /\ e \notin NamesOf(i)' /\ (e \in NamesOf(i) <=> i = k)
      <3>1. 0 # i /\ DiskTypes
        BY InodeAssumption
      <3>2. /\ NamesOf(i)' \ {e} \subseteq NamesOf(i) /\ NamesOf(i)' \subseteq NamesOf(i)
            /\ e \notin NamesOf(i)' /\ (e \in NamesOf(i) <=> entry[d][n] = i)
        BY <1>5, <3>1, NamesAfter
      <3> QED
        BY <1>4, <3>2
    <2>2. /\ Subdirs(i)' \ {k} \subseteq Subdirs(i) /\ Subdirs(i)' \subseteq Subdirs(i)
          /\ k \notin Subdirs(i)' /\ (k \in Subdirs(i) <=> up[k] = i)
          /\ i # k => up'[i] = up[i]
      <3>1. 0 # i /\ DiskTypes
        BY InodeAssumption
      <3> QED
        BY <1>5, <3>1, SubdirsAfter
    <2>3. (p \in Pending(i)' <=> i = k) /\ p \notin Pending(i)
      BY <1>4, <1>7, <1>11 DEF Pending
    <2>4. /\ nlink[i] \in Nat /\ nlink'[i] \in Nat /\ type'[i] = type[i]
          /\ In(k, Subdirs(i)) \in Nat
      BY <1>1, <1>18, InType DEF DiskTypes
    <2> HIDE DEF e
    <2>5. CASE i = k
      <3>1. nlink'[i] + In(e, NamesOf(i)) + In(k, Subdirs(i)) + In(p, Pending(i))
              >= nlink[i] + In(e, NamesOf(i)') + In(k, Subdirs(i)') + In(p, Pending(i)')
        <4>1. /\ In(e, NamesOf(i)) = 1 /\ In(e, NamesOf(i)') = 0 /\ In(k, Subdirs(i)') = 0
              /\ In(p, Pending(i)) = 0 /\ In(p, Pending(i)') = 1
          BY <2>1, <2>2, <2>3, <2>5 DEF In
        <4>2. nlink'[i] = nlink[i]
          BY <1>5, <1>18, <2>5
        <4> QED
          BY <2>4, <4>1, <4>2
      <3>2. LinksOK(i)'
        BY <1>10, <1>16, <1>18, <2>1, <2>2, <2>5, <3>1, LinksCount
      <3>3. DirOK(i)'
        <4>1. type[i] = "dir" => \A f, g \in NamesOf(i) : f = g
          BY DEF InodeInv, DirOK
        <4>2. type[i] = "dir" => NamesOf(i)' = {}
          BY <2>1, <2>5, <4>1
        <4> QED
          BY <2>4, <4>2 DEF DirOK
      <3> QED
        BY <1>16, <2>4, <2>5, <3>2, <3>3 DEF FreeOK
    <2>6. CASE i = d
      <3>1. nlink'[i] + In(e, NamesOf(i)) + In(k, Subdirs(i)) + In(p, Pending(i))
              >= nlink[i] + In(e, NamesOf(i)') + In(k, Subdirs(i)') + In(p, Pending(i)')
        <4>1. /\ In(e, NamesOf(i)) = 0 /\ In(e, NamesOf(i)') = 0 /\ In(k, Subdirs(i)') = 0
              /\ In(p, Pending(i)) = 0 /\ In(p, Pending(i)') = 0
          BY <1>5, <2>1, <2>2, <2>3, <2>6 DEF In
        <4>2. type[k] = "dir" => In(k, Subdirs(i)) = 1 /\ nlink'[i] = nlink[i] - 1
          BY <1>17, <1>18, <2>2, <2>6 DEF In
        <4>3. type[k] # "dir" => nlink'[i] = nlink[i]
          BY <1>18, <2>6
        <4> QED
          BY <2>4, <4>1, <4>2, <4>3
      <3>2. LinksOK(i)'
        BY <1>10, <1>16, <1>18, <2>1, <2>2, <2>6, <3>1, LinksCount
      <3>3. DirOK(i)'
        <4>1. DirOK(i) /\ up'[i] = up[i]
          BY <1>5, <2>2, <2>6 DEF InodeInv
        <4> QED
          BY <2>1, <2>4, <4>1 DEF DirOK
      <3> QED
        BY <1>16, <2>4, <2>6, <3>2, <3>3 DEF FreeOK
    <2>7. CASE i \notin {d, k}
      <3>1. nlink'[i] + In(p, Pending(i)) >= nlink[i] + In(p, Pending(i)')
        BY <1>18, <2>3, <2>4, <2>7 DEF In
      <3> QED
        BY <1>10, <1>18, <2>1, <2>2, <2>4, <2>7, <3>1, InodeStays
    <2> QED
      BY <2>5, <2>6, <2>7
  <1> QED
    BY <1>10, <1>12, <1>14, <1>15, <1>18, <1>19, <1>20, AfterStep DEF StepOK, TypeOK

\* create() links the new inode.
LEMMA CreateLinkStep ==
    ASSUME InodeInv, NEW p \in Proc, CreateLink(p)
    PROVE  InodeInv'
  <1> USE LocalsBefore
  <1>1. pc[p] = "new" /\ UNCHANGED <<type, ref, call, cur, rest, ip, file>>
    BY DEF CreateLink
  <1>2. /\ pc[p] \notin Dropping /\ Place(p) = "new" /\ ~LinkPlace(p) /\ drop[p] = <<>>
        /\ cur[p] = 0 /\ dp[p] \in Inum /\ ip[p] \in Inum /\ Head(rest[p]) \in Name
        /\ call[p].op = "create" /\ dp[p] # ip[p] /\ nlink[ip[p]] = 0
    BY <1>1, Step1 DEF Dropping, LinkPlace, Shape, OneTypes, Fresh
  <1>3. PICK d \in Inum, k \in Inum, n \in Name : d = dp[p] /\ k = ip[p] /\ n = Head(rest[p])
    BY <1>2
  <1>4. PICK v \in {0, d} : v = IF type[k] = "dir" THEN d ELSE 0
    OBVIOUS
  <1>5. /\ lock[k] = NoProc /\ k # d /\ nlink[k] = 0
        /\ entry' = [entry EXCEPT ![d][n] = k]
        /\ nlink' = [nlink EXCEPT ![k] = 1, ![d] = IF type[k] = "dir" THEN @ + 1 ELSE @]
        /\ up' = [up EXCEPT ![k] = v]
        /\ lock' = [lock EXCEPT ![k] = p, ![d] = NoProc]
        /\ valid' = [valid EXCEPT ![k] = TRUE]
    BY <1>2, <1>3, <1>4 DEF CreateLink, Unlocked, Load, name
  <1>6. <<d>> \in Seq(Inum) /\ Len(<<d>>) = 1 /\ <<d>> # <<>> /\ d # 0 /\ k # 0
    BY InodeAssumption
  <1>7. /\ pc'[p] = "iput" /\ ret'[p] = "made" /\ cur'[p] = 0 /\ rest'[p] = rest[p]
        /\ dp'[p] = 0 /\ ip'[p] = k
        /\ drop'[p] = <<d>> /\ call'[p] = call[p] /\ file'[p] = file[p]
    BY <1>1, <1>2, <1>3, <1>6 DEF CreateLink, Put, Set, LocalTypes
  <1>8. Moves(p)
    <2>1. /\ pc' = Set(pc, p, pc'[p]) /\ ret' = Set(ret, p, ret'[p])
          /\ drop' = Set(drop, p, drop'[p]) /\ dp' = Set(dp, p, dp'[p])
      BY <1>3, <1>6, <1>7 DEF CreateLink, Put
    <2> QED
      BY <1>1, <2>1 DEF Set, Moves, LocalTypes
  <1>9. OneTypes(p)'
    BY <1>1, <1>2, <1>3, <1>6, <1>7 DEF OneTypes, Places, Dropping
  <1>10. LocalTypes' /\ Others(p)
    BY <1>8, <1>9, LocalsMove
  <1>11. Place(p)' = "made" /\ ~LinkPlace(p)'
    BY <1>7 DEF Place, LinkPlace, Dropping
  <1>12. Here(p)'
    <2>1. Shape(p)'
      BY <1>1, <1>2, <1>3, <1>6, <1>7, <1>11 DEF Shape
    <2>2. CallOK(p)'
      BY <1>1, <1>2, <1>3, <1>7, <1>11 DEF CallOK
    <2> QED
      BY <1>7, <1>11, <2>1, <2>2 DEF Here, Fresh, Freeing
  <1>13. \A i \in Inum : Own(p, i)' = Own(p, i) /\ Own(p, i) \in Nat
    <2> TAKE i \in Inum
    <2>1. /\ InSeq(<<d>>, 1, i) = Is(d, i) /\ InSeq(<<d>>, 2, i) = 0 /\ Is(0, i) = 0
      BY FewPointers
    <2>2. Is(file[p], i) \in Nat /\ Is(d, i) \in Nat /\ Is(k, i) \in Nat
      BY DEF Is
    <2>3. Own(p, i) = Is(file[p], i) + Is(cur[p], i) + Is(d, i) + Is(k, i)
      BY <1>2, <1>3, OwnNow
    <2> QED
      BY <1>2, <1>7, <2>1, <2>2, <2>3 DEF Own
  <1>14. Holds(p, d) /\ lock[d] = p /\ \A i \in Inum : Holds(p, i) <=> i = d
    <2>1. \A i \in Inum : Holds(p, i) <=> i = d
      BY <1>1, <1>2, <1>3 DEF Holds
    <2> QED
      BY <2>1 DEF InodeInv, Locks
  <1>15. TableTypes' /\ Table(p)
    <2>1. \A i \in Inum : ref'[i] = ref[i] + Own(p, i)' - Own(p, i)
      BY <1>1, <1>13 DEF TableTypes
    <2>2. \A i \in Inum : Holds(p, i)' <=> i = k
      BY <1>7, <1>11 DEF Holds
    <2>3. TableTypes'
      BY <1>1, <1>5 DEF TableTypes
    <2> QED
      BY <1>5, <1>14, <2>1, <2>2, <2>3, LockMove DEF TableTypes
  <1>16. Gains(p)
    <2>1. pc[p] \notin {"ifreed", "iputref"} /\ pc'[p] \notin {"ifreed", "iputref"}
      BY <1>1, <1>7
    <2> QED
      BY <1>13, <2>1, GainsOwn
  <1>17. Uses(p, d) /\ Uses(p, k) /\ type[d] # Free /\ type[k] # Free
    <2>1. Uses(p, d) /\ Uses(p, k)
      BY <1>3 DEF Uses
    <2> QED
      BY <2>1 DEF InodeInv, Live
  <1>18. NamesOf(k) = {} /\ Subdirs(k) = {} /\ Pending(k) = {} /\ k # ROOTINO
    BY <1>5, <1>17, NoLinks
  <1>19. /\ DiskTypes' /\ nlink'[k] = 1
         /\ nlink'[d] = (IF type[k] = "dir" THEN nlink[d] + 1 ELSE nlink[d])
         /\ \A i \in Inum : i \notin {d, k} => nlink'[i] = nlink[i]
    <2>1. /\ nlink'[k] = 1
          /\ nlink'[d] = (IF type[k] = "dir" THEN nlink[d] + 1 ELSE nlink[d])
          /\ \A i \in Inum : i \notin {d, k} => nlink'[i] = nlink[i]
          /\ nlink' \in [Inum -> Nat]
      <3>1. nlink \in [Inum -> Nat]
        BY DEF DiskTypes
      <3>2. /\ nlink'[k] = 1
            /\ nlink'[d] = (IF type[k] = "dir" THEN nlink[d] + 1 ELSE nlink[d])
            /\ \A i \in Inum : i \notin {d, k} => nlink'[i] = nlink[i]
        BY <1>5, <3>1
      <3>3. nlink' = [i \in Inum |-> nlink'[i]]
        BY <1>5, <3>1
      <3>4. \A i \in Inum : nlink'[i] \in Nat
        BY <3>1, <3>2
      <3> QED
        BY <3>2, <3>3, <3>4
    <2>2. entry' \in [Inum -> [Name -> Inum \cup {0}]] /\ up' \in [Inum -> Inum \cup {0}]
      BY <1>5, NamesAfter, SubdirsAfter
    <2> QED
      BY <1>1, <2>1, <2>2 DEF DiskTypes
  <1>20. Disk(p)
    <2>1. \A i \in Inum : i # d => entry'[i] = entry[i]
      BY <1>5, NamesAfter
    <2> QED
      BY <1>1, <1>14, <1>17, <1>19, <2>1 DEF Disk
  <1>21. ASSUME NEW i \in Inum
         PROVE  (FreeOK(i) /\ LinksOK(i) /\ DirOK(i))'
    <2> DEFINE e == <<d, n>>
    <2>1. /\ NamesOf(i)' \ {e} \subseteq NamesOf(i)
          /\ e \in NamesOf(i)' <=> i = k
          /\ i # k => NamesOf(i)' \subseteq NamesOf(i)
      BY <1>5, NamesAfter
    <2>2. /\ Subdirs(i)' \ {k} \subseteq Subdirs(i)
          /\ v # i => Subdirs(i)' \subseteq Subdirs(i)
          /\ k \in Subdirs(i)' <=> v = i
          /\ up'[i] = IF i = k THEN v ELSE up[i]
      BY <1>5, SubdirsAfter
    <2>3. p \notin Pending(i)' /\ p \notin Pending(i)
      BY <1>2, <1>11 DEF Pending
    <2>4. /\ nlink[i] \in Nat /\ nlink'[i] \in Nat /\ type'[i] = type[i]
          /\ In(k, Subdirs(i)) \in Nat /\ In(e, NamesOf(i)) \in Nat /\ v # k
          /\ In(p, Pending(i)) = 0 /\ In(p, Pending(i)') = 0
      BY <1>1, <1>5, <1>6, <1>19, <2>3, InType DEF DiskTypes, In
    <2> HIDE DEF e
    <2>5. CASE i = k
      <3>1. nlink'[i] + In(e, NamesOf(i)) + In(k, Subdirs(i)) + In(p, Pending(i))
              >= nlink[i] + In(e, NamesOf(i)') + In(k, Subdirs(i)') + In(p, Pending(i)')
        <4>1. In(e, NamesOf(i)') = 1 /\ In(k, Subdirs(i)') = 0
          BY <2>1, <2>2, <2>4, <2>5 DEF In
        <4>2. nlink'[i] = 1 /\ nlink[i] = 0
          BY <1>5, <1>19, <2>5
        <4> QED
          BY <2>4, <4>1, <4>2
      <3>2. LinksOK(i)'
        BY <1>10, <1>17, <1>19, <2>1, <2>2, <2>5, <3>1, LinksCount
      <3>3. DirOK(i)'
        <4>1. \A f \in NamesOf(i)' : f = e
          BY <1>18, <2>1, <2>5
        <4>2. e[1] = d
          BY DEF e
        <4>3. type[i] = "dir" => up'[i] = d
          BY <1>4, <2>2, <2>5
        <4> QED
          BY <2>4, <4>1, <4>2, <4>3 DEF DirOK
      <3> QED
        BY <1>17, <2>4, <2>5, <3>2, <3>3 DEF FreeOK
    <2>6. CASE i = d
      <3>1. nlink'[i] + In(e, NamesOf(i)) + In(k, Subdirs(i)) + In(p, Pending(i))
              >= nlink[i] + In(e, NamesOf(i)') + In(k, Subdirs(i)') + In(p, Pending(i)')
        <4>1. In(e, NamesOf(i)') = 0
          BY <1>5, <2>1, <2>6 DEF In
        <4>2. type[k] = "dir" => In(k, Subdirs(i)') = 1 /\ nlink'[i] = nlink[i] + 1
          BY <1>4, <1>19, <2>2, <2>6 DEF In
        <4>3. type[k] # "dir" => In(k, Subdirs(i)') = 0 /\ nlink'[i] = nlink[i]
          BY <1>4, <1>6, <1>19, <2>2, <2>6 DEF In
        <4> QED
          BY <2>4, <4>1, <4>2, <4>3
      <3>2. LinksOK(i)'
        BY <1>10, <1>17, <1>19, <2>1, <2>2, <2>6, <3>1, LinksCount
      <3>3. DirOK(i)'
        <4>1. DirOK(i) /\ up'[i] = up[i] /\ NamesOf(i)' \subseteq NamesOf(i)
          BY <1>5, <2>1, <2>2, <2>6 DEF InodeInv
        <4> QED
          BY <2>4, <4>1 DEF DirOK
      <3> QED
        BY <1>17, <2>4, <2>6, <3>2, <3>3 DEF FreeOK
    <2>7. CASE i \notin {d, k}
      <3>1. nlink'[i] + In(p, Pending(i)) >= nlink[i] + In(p, Pending(i)')
        BY <1>19, <2>4, <2>7
      <3>2. v # i
        BY <2>7, InodeAssumption
      <3> QED
        BY <1>10, <1>19, <2>1, <2>2, <2>4, <2>7, <3>1, <3>2, InodeStays
    <2> QED
      BY <2>5, <2>6, <2>7
  <1> QED
    BY <1>10, <1>12, <1>15, <1>16, <1>19, <1>20, <1>21, AfterStep DEF StepOK, TypeOK

-----------------------------------------------------------------------------
(***************************************************************************)
(* The invariant                                                           *)
(***************************************************************************)

\* The first inode to iput() is pointed to.
LEMMA DroppedIsOwned ==
    ASSUME NEW p, NEW i, InSeq(drop[p], 1, i) = 1
    PROVE  Own(p, i) > 0
  BY OwnType DEF Own, Is, InSeq

\* An inode to which no process points.
LEMMA NoPointers ==
    ASSUME NEW i, \A p \in Proc : Own(p, i) = 0
    PROVE  Pointers(i) = 0
  <1>1. ASSUME NEW p \in Proc
        PROVE  /\ file[p] # i /\ cur[p] # i /\ dp[p] # i /\ ip[p] # i
               /\ InSeq(drop[p], 1, i) = 0 /\ InSeq(drop[p], 2, i) = 0
    <2>1. Own(p, i) = 0
      OBVIOUS
    <2>2. ~Uses(p, i)
      BY <2>1, UsedIsOwned
    <2>3. InSeq(drop[p], 1, i) # 1
      BY <2>1, DroppedIsOwned
    <2> QED
      BY <2>2, <2>3 DEF Uses, InSeq
  <1>2. /\ {p \in Proc : file[p] = i} = {} /\ {p \in Proc : cur[p] = i} = {}
        /\ {p \in Proc : dp[p] = i} = {} /\ {p \in Proc : ip[p] = i} = {}
    BY <1>1
  <1>3. {e \in Proc \X (1 .. 2) : e[2] \in DOMAIN drop[e[1]] /\ drop[e[1]][e[2]] = i} = {}
    <2>1. ASSUME NEW e \in Proc \X (1 .. 2), e[2] \in DOMAIN drop[e[1]], drop[e[1]][e[2]] = i
          PROVE  FALSE
      <3>1. e[1] \in Proc /\ e[2] \in {1, 2}
        OBVIOUS
      <3>2. InSeq(drop[e[1]], e[2], i) = 1
        BY <2>1 DEF InSeq
      <3> QED
        BY <1>1, <3>1, <3>2
    <2> QED
      BY <2>1
  <1>4. /\ CountOf(file, Proc, i) = 0 /\ CountOf(cur, Proc, i) = 0
        /\ CountOf(dp, Proc, i) = 0 /\ CountOf(ip, Proc, i) = 0
        /\ Cardinality(DropSet(Proc, i)) = 0
    BY <1>2, <1>3, FS_EmptySet DEF CountOf, DropSet
  <1>5. PointersOf(Proc, i) = 0
    BY <1>4 DEF PointersOf
  <1> QED
    BY <1>5 DEF Pointers, PointersOf, CountOf, DropSet

\* The invariant holds when mkfs has made the root directory.
LEMMA InitInv == Init => InodeInv
  <1> SUFFICES ASSUME Init PROVE InodeInv
    OBVIOUS
  <1> USE DEF Init, TableInit, ProcInit
  <1>1. \A p \in Proc :
          /\ call[p] = NoCall /\ pc[p] = "idle" /\ cur[p] = 0 /\ rest[p] = <<>>
          /\ dp[p] = 0 /\ ip[p] = 0 /\ drop[p] = <<>> /\ ret[p] = "idle" /\ file[p] = 0
    OBVIOUS
  <1>2. \A p \in Proc : Place(p) = "idle" /\ ~LinkPlace(p)
    BY <1>1 DEF Place, LinkPlace, Dropping
  <1>3. LocalTypes
    <2>1. /\ call \in [Proc -> Calls] /\ pc \in [Proc -> Places \cup Dropping]
          /\ ret \in [Proc -> Places]
      BY DEF Calls, Places
    <2>2. /\ cur \in [Proc -> Inum \cup {0}] /\ dp \in [Proc -> Inum \cup {0}]
          /\ ip \in [Proc -> Inum \cup {0}] /\ file \in [Proc -> Inum \cup {0}]
      OBVIOUS
    <2>3. rest \in [Proc -> Seq(Name)] /\ drop \in [Proc -> Seq(Inum)]
      <3>1. <<>> \in Seq(Name) /\ <<>> \in Seq(Inum)
        OBVIOUS
      <3> QED
        BY <3>1, Zenon
    <2>4. \A p \in Proc : Len(drop[p]) <= 2 /\ (drop[p] = <<>> <=> pc[p] \notin Dropping)
      BY <1>1 DEF Dropping
    <2> QED
      BY <2>1, <2>2, <2>3, <2>4 DEF LocalTypes
  <1>4. TypeOK
    BY <1>3, InodeAssumption DEF TypeOK, DiskTypes, TableTypes, NoEntries, Type
  <1>5. \A p \in Proc : Shape(p) /\ Fresh(p) /\ Freeing(p) /\ CallOK(p)
    BY <1>1, <1>2 DEF Shape, Fresh, Freeing, CallOK, NoCall
  <1>6. \A p \in Proc, i \in Inum : Own(p, i) = 0 /\ ~Uses(p, i) /\ ~Holds(p, i)
    <2> TAKE p \in Proc, i \in Inum
    <2>1. Is(0, i) = 0 /\ InSeq(<<>>, 1, i) = 0 /\ InSeq(<<>>, 2, i) = 0
      BY FewPointers
    <2>2. Own(p, i) = 0
      BY <1>1, <2>1 DEF Own
    <2>3. ~Uses(p, i)
      BY <2>2, UsedIsOwned
    <2>4. ~Holds(p, i)
      BY <1>1, <1>2 DEF Holds
    <2> QED
      BY <2>2, <2>3, <2>4
  <1>7. Locks /\ Live
    BY <1>6, InodeAssumption DEF Locks, Live
  <1>8. RefsExact
    BY <1>6, NoPointers DEF RefsExact
  <1>9. ASSUME NEW i \in Inum
        PROVE  FreeOK(i) /\ LinksOK(i) /\ DirOK(i)
    <2>1. NamesOf(i) = {} /\ Subdirs(i) = {} /\ Pending(i) = {}
      BY <1>1, InodeAssumption DEF NamesOf, Subdirs, Pending, NoEntries
    <2>2. /\ Cardinality(NamesOf(i)) = 0 /\ Cardinality(Subdirs(i)) = 0
          /\ Cardinality(Pending(i)) = 0
      BY <2>1, FS_EmptySet
    <2>3. nlink[i] = RootLink(i) /\ RootLink(i) \in Nat
      BY DEF RootLink
    <2>4. FreeOK(i)
      BY <2>1 DEF FreeOK, Free
    <2>5. LinksOK(i)
      BY <2>2, <2>3 DEF LinksOK
    <2> QED
      BY <2>1, <2>4, <2>5 DEF DirOK
  <1> QED
    BY <1>4, <1>5, <1>7, <1>8, <1>9 DEF InodeInv

\* What a step that changes nothing leaves.
LEMMA Stutters ==
    ASSUME InodeInv, UNCHANGED vars
    PROVE  InodeInv'
  <1> USE DEF vars, diskVars, tableVars, procVars
  <1>1. TypeOK'
    BY DEF InodeInv, TypeOK, DiskTypes, TableTypes, LocalTypes
  <1>2. \A p \in Proc : Place(p)' = Place(p) /\ (LinkPlace(p)' <=> LinkPlace(p))
    BY DEF Place, LinkPlace
  <1>3. \A p \in Proc, i \in Inum : (Uses(p, i)' <=> Uses(p, i)) /\ (Holds(p, i)' <=> Holds(p, i))
    BY <1>2 DEF Uses, Holds
  <1>4. ASSUME NEW p \in Proc
        PROVE  (Shape(p) /\ Fresh(p) /\ Freeing(p) /\ CallOK(p))'
    <2>1. Shape(p) /\ Fresh(p) /\ Freeing(p) /\ CallOK(p)
      BY DEF InodeInv
    <2>2. Shape(p)' /\ Freeing(p)' /\ CallOK(p)'
      BY <1>2, <2>1 DEF Shape, Freeing, CallOK
    <2>3. Fresh(p)'
      BY <2>1 DEF Fresh, Place, Uses
    <2> QED
      BY <2>2, <2>3
  <1>5. RefsExact'
    BY DEF InodeInv, RefsExact, Pointers
  <1>6. Locks' /\ Live'
    BY <1>3 DEF InodeInv, Locks, Live
  <1>7. ASSUME NEW i \in Inum
        PROVE  (FreeOK(i) /\ LinksOK(i) /\ DirOK(i))'
    <2>1. NamesOf(i)' = NamesOf(i) /\ Subdirs(i)' = Subdirs(i) /\ Pending(i)' = Pending(i)
      BY <1>2 DEF NamesOf, Subdirs, Pending
    <2>2. FreeOK(i) /\ LinksOK(i) /\ DirOK(i)
      BY DEF InodeInv
    <2> QED
      BY <2>1, <2>2 DEF FreeOK, LinksOK, DirOK, RootLink
  <1> QED
    BY <1>1, <1>4, <1>5, <1>6, <1>7 DEF InodeInv

\* The system calls start.
LEMMA SyscallStep ==
    ASSUME InodeInv, NEW p \in Proc, Syscall(p)
    PROVE  InodeInv'
  <1>1. CASE Close(p)
    BY <1>1, CloseStep
  <1>2. ASSUME NEW path \in Path, Open(p, path)
        PROVE  InodeInv'
    <2>1. [op |-> "open"] \in Calls /\ [op |-> "open"].op = "open"
      BY DEF Calls
    <2> QED
      BY <1>2, <2>1, BeginStep DEF Open
  <1>3. ASSUME NEW path \in Path, Unlink(p, path)
        PROVE  InodeInv'
    <2>1. [op |-> "unlink"] \in Calls /\ [op |-> "unlink"].op = "unlink"
      BY DEF Calls
    <2> QED
      BY <1>3, <2>1, BeginStep DEF Unlink
  <1>4. ASSUME NEW path \in Path, NEW t \in Type, Create(p, t, path)
        PROVE  InodeInv'
    <2> DEFINE c == [op |-> "create", type |-> t]
    <2>1. c \in Calls /\ c.op = "create" /\ c.type = t
      BY DEF Calls
    <2>2. Begin(p, c, path) /\ (t = "file" => file[p] = 0)
      BY <1>4 DEF Create
    <2> HIDE DEF c
    <2> QED
      BY <2>1, <2>2, BeginStep
  <1>5. ASSUME NEW path \in Path, NEW new \in Path, Link(p, path, new)
        PROVE  InodeInv'
    <2> DEFINE c == [op |-> "link", new |-> new]
    <2>1. c \in Calls /\ c.op = "link"
      BY DEF Calls
    <2>2. Begin(p, c, path)
      BY <1>5 DEF Link
    <2> HIDE DEF c
    <2> QED
      BY <2>1, <2>2, BeginStep
  <1> QED
    BY <1>1, <1>2, <1>3, <1>4, <1>5 DEF Syscall

\* Every step of every process keeps it.
LEMMA StepInv == InodeInv /\ [Next]_vars => InodeInv'
  <1> SUFFICES ASSUME InodeInv, [Next]_vars PROVE InodeInv'
    OBVIOUS
  <1>1. CASE UNCHANGED vars
    BY <1>1, Stutters
  <1>2. ASSUME NEW p \in Proc, Syscall(p)
        PROVE  InodeInv'
    BY <1>2, SyscallStep
  <1>3. ASSUME NEW p \in Proc, InCall(p)
        PROVE  InodeInv'
    <2>1. CASE IputLast(p) \/ IputFree(p) \/ IputUnlock(p) \/ IputRef(p)
      BY <2>1, IputLastStep, IputFreeStep, IputUnlockStep, IputRefStep
    <2>2. CASE WalkParent(p) \/ WalkFail(p) \/ WalkNext(p) \/ OpenDone(p)
      BY <2>2, WalkParentStep, WalkFailStep, WalkNextStep, OpenDoneStep
    <2>3. CASE \/ CreateFound(p) \/ CreateOld(p) \/ CreateNew(p) \/ CreateLink(p)
               \/ CreateDone(p)
      BY <2>3, CreateFoundStep, CreateOldStep, CreateNewStep, CreateLinkStep, CreateDoneStep
    <2>4. CASE LinkOld(p) \/ LinkNew(p) \/ DirLink(p) \/ LinkBad(p)
      BY <2>4, LinkOldStep, LinkNewStep, DirLinkStep, LinkBadStep
    <2>5. CASE \/ UnlinkMiss(p) \/ UnlinkFound(p) \/ UnlinkFull(p) \/ UnlinkBad(p)
               \/ UnlinkEntry(p) \/ UnlinkInode(p)
      BY <2>5, UnlinkMissStep, UnlinkFoundStep, UnlinkFullStep, UnlinkBadStep, UnlinkEntryStep,
         UnlinkInodeStep
    <2> QED
      BY <1>3, <2>1, <2>2, <2>3, <2>4, <2>5 DEF InCall
  <1> QED
    BY <1>1, <1>2, <1>3 DEF Next

-----------------------------------------------------------------------------
(***************************************************************************)
(* Theorems                                                                *)
(***************************************************************************)

\* The invariant of the inode layer.
THEOREM InodeInvariant == Spec => []InodeInv
  BY InitInv, StepInv, PTL DEF Spec

\* The variables have the types that fs.c and sysfile.c give them.
THEOREM TypeCorrect == Spec => []InodeTypeOK
  <1>1. InodeInv => InodeTypeOK
    BY DEF InodeInv, TypeOK, DiskTypes, TableTypes, LocalTypes, InodeTypeOK
  <1> QED
    BY <1>1, InodeInvariant, PTL

\* ip->ref counts the pointers to an inode, on every path of the calls: fs.c:131-132.
THEOREM ReferencesAreExact == Spec => []RefsExact
  <1>1. InodeInv => RefsExact
    BY DEF InodeInv
  <1> QED
    BY <1>1, InodeInvariant, PTL

\* No name and no pointer leads to a free inode, but the one of the iput() that has freed
\* it, and a link count is not below the names: ilock() finds a type, and unlink() a link.
THEOREM NothingDangles == Spec => []NoDangling
  <1>1. InodeInv => NoDangling
    <2> SUFFICES ASSUME InodeInv PROVE NoDangling
      OBVIOUS
    <2>1. ASSUME NEW i \in Inum, type[i] = Free
          PROVE  NamesOf(i) = {}
      BY <2>1 DEF InodeInv, FreeOK
    <2>2. ASSUME NEW i \in Inum, type[i] = Free, ref[i] > 0
          PROVE  \E p \in Proc : pc[p] \in {"ifreed", "iputref"} /\ Head(drop[p]) = i
      <3>1. Pointers(i) # 0
        BY <2>2 DEF InodeInv, RefsExact
      <3>2. PICK p \in Proc : Own(p, i) # 0
        BY <3>1, NoPointers
      <3>3. Own(p, i) > 0 /\ ~Uses(p, i)
        BY <2>2, <3>2, OwnType DEF InodeInv, Live
      <3>4. pc[p] \in {"ifreed", "iputref"}
        BY <3>3, UsesIsOwn
      <3>5. InSeq(drop[p], 1, i) = 1
        BY <3>3 DEF Uses, Own, Is, InSeq
      <3>6. Head(drop[p]) = i
        BY <3>4, <3>5, HeadDropped DEF InodeInv, Dropping, Is
      <3> QED
        BY <3>4, <3>6
    <2>3. ASSUME NEW i \in Inum, type[i] # Free
          PROVE  nlink[i] >= Cardinality(NamesOf(i)) + Cardinality(Subdirs(i))
                               + (IF i = ROOTINO THEN 1 ELSE 0)
      <3>1. nlink[i] >= Cardinality(NamesOf(i)) + Cardinality(Subdirs(i)) + RootLink(i)
                          + Cardinality(Pending(i))
        BY <2>3 DEF InodeInv, LinksOK
      <3>2. nlink[i] \in Nat
        BY DEF InodeInv, TypeOK, DiskTypes
      <3>3. nlink[i] >= Cardinality(NamesOf(i)) + Cardinality(Subdirs(i)) + RootLink(i)
        BY <3>1, <3>2, LinkNumbers
      <3> QED
        BY <3>3 DEF RootLink
    <2> QED
      BY <2>1, <2>2, <2>3 DEF NoDangling
  <1> QED
    BY <1>1, InodeInvariant, PTL

\* iput() does not sleep for the lock of an inode of which it has the last reference
\* (fs.c:341), with itable.lock held.
THEOREM IputNeverWaits == Spec => []IputDoesNotWait
  <1>1. InodeInv => IputDoesNotWait
    <2> SUFFICES ASSUME InodeInv, NEW p \in Proc, pc[p] = "iput", Last(Head(drop[p]))
                 PROVE  lock[Head(drop[p])] = NoProc
      BY DEF IputDoesNotWait, Unlocked
    <2>1. pc[p] \in Dropping
      BY DEF Dropping
    <2>2. PICK h \in Inum : h = Head(drop[p])
      BY <2>1, HeadDropped DEF InodeInv
    <2>3. ref[h] = 1 /\ Own(p, h) > 0 /\ Own(p, h) <= 1 /\ InSeq(drop[p], 1, h) = 1
      BY <2>1, <2>2, HeadDropped, TwoPointers DEF Last, Is, InodeInv
    <2>4. ASSUME NEW q \in Proc, lock[h] = q
          PROVE  FALSE
      <3>1. Holds(q, h)
        BY <2>4 DEF InodeInv, Locks
      <3>2. CASE q = p
        <4>1. dp[p] = h \/ ip[p] = h
          BY <3>1, <3>2 DEF Holds
        <4>2. /\ Is(file[p], h) \in Nat /\ Is(cur[p], h) \in Nat /\ Is(dp[p], h) \in Nat
              /\ Is(ip[p], h) \in Nat /\ InSeq(drop[p], 2, h) \in Nat
          BY OwnType
        <4>3. Is(dp[p], h) + Is(ip[p], h) = 0
          BY <2>3, <4>2 DEF Own
        <4> QED
          BY <4>1, <4>2, <4>3 DEF Is
      <3>3. CASE q # p
        <4>1. Own(q, h) > 0
          <5>1. CASE dp[q] = h \/ ip[q] = h
            BY <5>1, UsedIsOwned DEF Uses
          <5>2. CASE pc[q] \in {"itrunc", "ifreed"} /\ Head(drop[q]) = h
            BY <5>2, HeadDropped DEF InodeInv, Dropping
          <5> QED
            BY <3>1, <5>1, <5>2 DEF Holds
        <4>2. ~Uses(p, h) /\ Own(p, h) = 0
          BY <2>3, <3>3, <4>1, OnlyOne DEF InodeInv
        <4> QED
          BY <2>3, <4>2
      <3> QED
        BY <3>2, <3>3
    <2> QED
      BY <2>2, <2>4 DEF InodeInv, TypeOK, TableTypes
  <1> QED
    BY <1>1, InodeInvariant, PTL
=============================================================================
