------------------------------ MODULE BmapProof ------------------------------
(***************************************************************************)
(* Proofs about the block map (Bmap.tla), for every set of files and every *)
(* geometry that BmapAssumption allows: a block in use has one place, also *)
(* while itrunc() frees blocks and other files take them; the blocks of a  *)
(* file are mapped, each to a block of its own; and what an operation logs *)
(* is bounded by the blocks of the bitmap and of a chunk.                  *)
(***************************************************************************)
EXTENDS Bmap, TLAPS, FunctionTheorems, FiniteSetTheorems, WellFoundedInduction

-----------------------------------------------------------------------------
(***************************************************************************)
(* The inductive invariant                                                 *)
(*                                                                         *)
(* bmap() goes through states that are no states of the specification, so  *)
(* that what holds of a map is said of any addrs A and any contents E.     *)
(***************************************************************************)

Node == File \cup Block     \* what has places for block numbers
Pos  == Slot \cup Index

Maps(A, E) == /\ A \in [File -> [Slot -> 0 .. NBLOCK]]
              /\ E \in [Block -> [Index -> 0 .. NBLOCK]]

\* Block a is an indirect block of the file f.
Under(A, E, f, a) ==
    /\ a \in Block
    /\ \/ \E k \in NDIRECT .. TOP : A[f][k] = a
       \/ A[f][TOP] # 0 /\ \E j \in Index : E[A[f][TOP]][j] = a

\* Place i of the node n belongs to the file f.
Belongs(A, E, f, n, i) ==
    \/ n = f /\ i \in Slot
    \/ Under(A, E, f, n) /\ i \in Index

Child(A, E, n, i) == IF n \in File THEN A[n][i] ELSE E[n][i]

\* Place i of the node n has a block.
At(A, E, n, i) == (\E f \in File : Belongs(A, E, f, n, i)) /\ Child(A, E, n, i) # 0

\* The blocks in U have one place each, and the others none.
Exact(A, E, U) ==
    /\ \A n, m \in Node, i, j \in Pos :
         At(A, E, n, i) /\ At(A, E, m, j) /\ Child(A, E, n, i) = Child(A, E, m, j)
           => n = m /\ i = j
    /\ \A n \in Node, i \in Pos : At(A, E, n, i) => Child(A, E, n, i) \in U
    /\ \A u \in U : \E n \in Node, i \in Pos : At(A, E, n, i) /\ Child(A, E, n, i) = u

OpOK(f) ==
    /\ op[f] = [pc |-> op[f].pc, off |-> op[f].off, end |-> op[f].end, logged |-> op[f].logged]
    /\ op[f].pc \in {"idle", "write", "failed", "trunc"}
    /\ op[f].off \in 0 .. op[f].end
    /\ op[f].end \in 0 .. MAXFILE * BSIZE
    /\ op[f].pc = "idle" => op[f] = Idle

TypeOK ==
    /\ Maps(addrs, ent)
    /\ size \in [File -> Nat]
    /\ used \subseteq Block
    /\ op = [f \in File |-> op[f]] /\ \A f \in File : OpOK(f)
    /\ freed = [f \in File |-> freed[f]]

\* The map without the numbers of blocks that itrunc() has just freed.
Dead(b, j) == \E f \in File : freed[f] = <<b, j>>
Less(E) == [b \in Block |-> [j \in Index |-> IF Dead(b, j) THEN 0 ELSE E[b][j]]]
LA == [f \in File |-> [k \in Slot |-> Addr(f, k)]]
LE == [b \in Block |-> [j \in Index |-> Entry(b, j)]]

\* The place of such a block is the file's own.
FreedIn(f, A, E) == \E n \in Node, i \in Pos : freed[f] = <<n, i>> /\ Belongs(A, E, f, n, i)
FreedOK == \A f \in File :
    freed[f] # NoPlace => op[f].pc = "trunc" /\ FreedIn(f, LA, LE)

\* What has been written, in writes that are over or not, is mapped.
Mapped == \A f \in File, bn \in 0 .. MAXFILE - 1 :
              /\ op[f].pc # "trunc"
              /\ bn * BSIZE < size[f] \/ bn * BSIZE < op[f].off
              => Nth(f, bn) # 0

BmapInv == TypeOK /\ FreedOK /\ Exact(LA, LE, used) /\ Mapped

-----------------------------------------------------------------------------
(***************************************************************************)
(* Numbers                                                                 *)
(***************************************************************************)

\* The constants are numbers, and places and blocks are different things.
LEMMA Sizes ==
    /\ NDIRECT \in Nat \ {0} /\ NSINGLE \in Nat \ {0} /\ NINDIRECT \in Nat \ {0}
    /\ NBLOCK \in Nat \ {0} /\ BSIZE \in Nat \ {0} /\ BPB \in Nat \ {0}
    /\ NDIRECT < NINDIRECT /\ TOP \in Nat /\ NDIRECT < TOP
    /\ MAXFILE \in Nat
    /\ File \cap Block = {}
  <1>1. NINDIRECT * NSINGLE \in Nat /\ NINDIRECT * NINDIRECT \in Nat
    BY BmapAssumption
  <1> QED
    BY <1>1, BmapAssumption DEF TOP, MAXFILE, Block

\* Quotient and remainder.
LEMMA DivMod ==
    ASSUME NEW n \in Nat \ {0}, NEW a \in Int
    PROVE  a \div n \in Int /\ a % n \in 0..n-1 /\ a = n * (a \div n) + (a % n)
OBVIOUS

\* The quotient is the place of a number among the multiples.
LEMMA DivBounds ==
    ASSUME NEW n \in Nat \ {0}, NEW a \in Nat, NEW m \in Nat, a < m * n
    PROVE  a \div n \in 0 .. m - 1
  <1>1. /\ a \div n \in Int /\ a % n \in 0..n-1 /\ a = n * (a \div n) + (a % n)
    BY DivMod
  <1> DEFINE q == a \div n
             r == a % n
  <1> HIDE DEF q, r
  <1>2. q \in Int /\ r \in 0..n-1 /\ a = n * q + r
    BY <1>1 DEF q, r
  <1>3. q >= 0
    <2>1. SUFFICES ASSUME q <= -1 PROVE FALSE
      BY <1>2
    <2>2. n * q <= -n
      BY <1>2, <2>1
    <2> QED
      BY <1>2, <2>2
  <1>4. q < m
    <2>1. SUFFICES ASSUME q >= m PROVE FALSE
      BY <1>2
    <2>2. n * q >= n * m
      BY <1>2, <2>1
    <2> QED
      BY <1>2, <2>2
  <1> QED
    BY <1>2, <1>3, <1>4 DEF q

\* A set of naturals has a least element.
LEMMA LeastElement ==
    ASSUME NEW S \in SUBSET Nat, S # {}
    PROVE  Min(S) \in S /\ \A y \in S : Min(S) <= y
  <1> DEFINE R == OpToRel(<, Nat)
  <1>1. IsWellFoundedOn(R, Nat)
    BY NatLessThanWellFounded, Zenon
  <1> HIDE DEF R
  <1>2. \E x \in S : \A y \in S : ~ (<<y, x>> \in R)
    BY <1>1, WFMin
  <1>3. PICK x \in S : \A y \in S : ~ (<<y, x>> \in R)
    BY <1>2
  <1>4. \A y \in S : x <= y
    <2> TAKE y \in S
    <2>1. x \in Nat /\ y \in Nat
      OBVIOUS
    <2>2. y < x => <<y, x>> \in R
      BY <2>1 DEF R, OpToRel
    <2> QED
      BY <1>3, <2>1, <2>2
  <1> QED
    BY <1>3, <1>4 DEF Min

-----------------------------------------------------------------------------
(***************************************************************************)
(* Maps                                                                    *)
(***************************************************************************)

\* The places of a map and what is in them.
LEMMA Places ==
    ASSUME NEW A, NEW E, Maps(A, E), NEW f \in File, NEW n, NEW i, Belongs(A, E, f, n, i)
    PROVE  /\ n \in Node /\ i \in Pos /\ Child(A, E, n, i) \in 0 .. NBLOCK
           /\ Child(A, E, n, i) # 0 => Child(A, E, n, i) \in Block
           /\ n \in File => n = f /\ i \in Slot /\ Child(A, E, n, i) = A[f][i]
           /\ n \notin File => /\ n \in Block /\ i \in Index /\ Under(A, E, f, n)
                               /\ Child(A, E, n, i) = E[n][i]
  <1>1. n \in File => n = f /\ i \in Slot
    BY Sizes DEF Belongs, Under
  <1>2. n \notin File => n \in Block /\ i \in Index /\ Under(A, E, f, n)
    BY DEF Belongs, Under
  <1>3. CASE n \in File
    BY <1>1, <1>3, Sizes DEF Maps, Child, Node, Pos, Block
  <1>4. CASE n \notin File
    BY <1>2, <1>4, Sizes DEF Maps, Child, Node, Pos, Block
  <1> QED
    BY <1>3, <1>4

\* An indirect block is itself in a place of its file.
LEMMA UnderIsAt ==
    ASSUME NEW A, NEW E, Maps(A, E), NEW f \in File, NEW a, Under(A, E, f, a)
    PROVE  \/ \E k \in NDIRECT .. TOP : /\ A[f][k] = a /\ k \in Slot
                                        /\ At(A, E, f, k) /\ Child(A, E, f, k) = a
           \/ \E j \in Index : LET d == A[f][TOP] IN
                 /\ d \in Block /\ E[d][j] = a /\ Under(A, E, f, d)
                 /\ At(A, E, d, j) /\ Child(A, E, d, j) = a
  <1>1. a \in Block /\ a # 0
    BY DEF Under, Block
  <1>2. CASE \E k \in NDIRECT .. TOP : A[f][k] = a
    <2>1. PICK k \in NDIRECT .. TOP : A[f][k] = a
      BY <1>2
    <2>2. k \in Slot
      BY Sizes DEF Slot
    <2> QED
      BY <1>1, <2>1, <2>2 DEF At, Belongs, Child
  <1>3. CASE A[f][TOP] # 0 /\ \E j \in Index : E[A[f][TOP]][j] = a
    <2> DEFINE d == A[f][TOP]
    <2>1. TOP \in Slot /\ TOP \in NDIRECT .. TOP
      BY Sizes DEF Slot
    <2>2. d \in Block
      BY <1>3, <2>1, Sizes DEF Maps, Block
    <2>3. Under(A, E, f, d)
      BY <2>1, <2>2 DEF Under
    <2>4. d \notin File
      BY <2>2, Sizes
    <2>5. PICK j \in Index : E[d][j] = a
      BY <1>3
    <2>6. At(A, E, d, j) /\ Child(A, E, d, j) = a
      BY <1>1, <2>3, <2>4, <2>5 DEF At, Belongs, Child
    <2> QED
      BY <2>2, <2>3, <2>5, <2>6
  <1> QED
    BY <1>2, <1>3 DEF Under

\* An indirect block belongs to one file.
LEMMA SoleOwner ==
    ASSUME NEW A, NEW E, NEW U, Maps(A, E), Exact(A, E, U),
           NEW f \in File, NEW g \in File, NEW a, Under(A, E, f, a), Under(A, E, g, a)
    PROVE  f = g
  <1> DEFINE df == A[f][TOP]
             dg == A[g][TOP]
  <1>0. TOP \in Slot
    BY Sizes DEF Slot
  <1>1. \A n, m \in Node, i, j \in Pos :
         At(A, E, n, i) /\ At(A, E, m, j) /\ Child(A, E, n, i) = Child(A, E, m, j)
           => n = m /\ i = j
    BY DEF Exact
  <1>2. /\ f \in Node /\ g \in Node /\ Slot \subseteq Pos /\ Index \subseteq Pos
        /\ Block \subseteq Node
    BY DEF Node, Pos
  <1>3. CASE \E k \in Slot : At(A, E, f, k) /\ Child(A, E, f, k) = a
    <2>1. CASE \E k \in Slot : At(A, E, g, k) /\ Child(A, E, g, k) = a
      BY <1>1, <1>2, <1>3, <2>1
    <2>2. CASE \E j \in Index : dg \in Block /\ At(A, E, dg, j) /\ Child(A, E, dg, j) = a
      <3>1. f = dg
        BY <1>1, <1>2, <1>3, <2>2
      <3> QED
        BY <3>1, <2>2, Sizes
    <2> QED
      BY <2>1, <2>2, UnderIsAt
  <1>4. CASE \E j \in Index : df \in Block /\ At(A, E, df, j) /\ Child(A, E, df, j) = a
    <2>1. CASE \E k \in Slot : At(A, E, g, k) /\ Child(A, E, g, k) = a
      <3>1. g = df
        BY <1>1, <1>2, <1>4, <2>1
      <3> QED
        BY <3>1, <1>4, Sizes
    <2>2. CASE \E j \in Index : dg \in Block /\ At(A, E, dg, j) /\ Child(A, E, dg, j) = a
      <3>1. df = dg
        BY <1>1, <1>2, <1>4, <2>2
      <3>2. df # 0 /\ dg # 0
        BY <1>4, <2>2 DEF Block
      <3>3. At(A, E, f, TOP) /\ At(A, E, g, TOP)
        BY <1>0, <3>2 DEF At, Belongs, Child
      <3>4. Child(A, E, f, TOP) = df /\ Child(A, E, g, TOP) = dg
        BY DEF Child
      <3> QED
        BY <1>0, <1>1, <1>2, <3>1, <3>3, <3>4
    <2> QED
      BY <2>1, <2>2, UnderIsAt
  <1> QED
    BY <1>3, <1>4, UnderIsAt

\* Every block in a place is in use, indirect blocks among them.
LEMMA InUse ==
    ASSUME NEW A, NEW E, NEW U, Maps(A, E), Exact(A, E, U), NEW f \in File
    PROVE  /\ \A a : Under(A, E, f, a) => a \in U
           /\ \A k \in Slot : A[f][k] # 0 => A[f][k] \in U
  <1>1. \A n \in Node, i \in Pos : At(A, E, n, i) => Child(A, E, n, i) \in U
    BY DEF Exact
  <1>2. f \in Node /\ Slot \subseteq Pos /\ Index \subseteq Pos /\ Block \subseteq Node
    BY DEF Node, Pos
  <1>3. ASSUME NEW a, Under(A, E, f, a) PROVE a \in U
    BY <1>1, <1>2, <1>3, UnderIsAt
  <1>4. ASSUME NEW k \in Slot, A[f][k] # 0 PROVE A[f][k] \in U
    <2>1. At(A, E, f, k) /\ Child(A, E, f, k) = A[f][k]
      BY <1>4 DEF At, Belongs, Child
    <2> QED
      BY <1>1, <1>2, <2>1
  <1> QED
    BY <1>3, <1>4

\* What is in a place stays there.
Extends(A, E, A2, E2) ==
    \A n \in Node, i \in Pos : At(A, E, n, i) =>
        At(A2, E2, n, i) /\ Child(A2, E2, n, i) = Child(A, E, n, i)

\* A free block comes into an empty place.
LEMMA Attached ==
    ASSUME NEW A, NEW E, NEW A2, NEW E2, NEW U, Exact(A, E, U),
           NEW b, b \notin U, NEW n \in Node, NEW i \in Pos,
           ~At(A, E, n, i), Child(A2, E2, n, i) = b, Extends(A, E, A2, E2),
           \A m \in Node, j \in Pos :
             At(A2, E2, m, j) <=> At(A, E, m, j) \/ (m = n /\ j = i)
    PROVE  Exact(A2, E2, U \cup {b})
  <1>1. \A m \in Node, j \in Pos :
          At(A, E, m, j) => /\ Child(A, E, m, j) \in U
                            /\ Child(A2, E2, m, j) = Child(A, E, m, j)
    BY DEF Exact, Extends
  <1>2. ASSUME NEW m \in Node, NEW l \in Node, NEW j \in Pos, NEW k \in Pos,
               At(A2, E2, m, j), At(A2, E2, l, k),
               Child(A2, E2, m, j) = Child(A2, E2, l, k)
        PROVE  m = l /\ j = k
    <2>1. CASE At(A, E, m, j) /\ At(A, E, l, k)
      BY <1>1, <1>2, <2>1 DEF Exact
    <2>2. CASE ~At(A, E, m, j) /\ ~At(A, E, l, k)
      BY <1>2, <2>2
    <2>3. CASE At(A, E, m, j) /\ ~At(A, E, l, k)
      BY <1>1, <1>2, <2>3
    <2>4. CASE ~At(A, E, m, j) /\ At(A, E, l, k)
      BY <1>1, <1>2, <2>4
    <2> QED
      BY <2>1, <2>2, <2>3, <2>4
  <1>3. ASSUME NEW m \in Node, NEW j \in Pos, At(A2, E2, m, j)
        PROVE  Child(A2, E2, m, j) \in U \cup {b}
    BY <1>1, <1>3
  <1>4. ASSUME NEW u \in U \cup {b}
        PROVE  \E m \in Node, j \in Pos : At(A2, E2, m, j) /\ Child(A2, E2, m, j) = u
    <2>1. CASE u = b
      BY <2>1
    <2>2. CASE u \in U
      <3>1. PICK m \in Node, j \in Pos : At(A, E, m, j) /\ Child(A, E, m, j) = u
        BY <2>2 DEF Exact
      <3> QED
        BY <1>1, <3>1
    <2> QED
      BY <1>4, <2>1, <2>2
  <1> QED
    BY <1>2, <1>3, <1>4 DEF Exact

\* Slot k of the file f gets the block b, which is zeroed.
SlotGets(A, E, A2, E2, f, k, b) ==
    /\ \A g \in File, l \in Slot : A2[g][l] = IF g = f /\ l = k THEN b ELSE A[g][l]
    /\ \A c \in Block, j \in Index : E2[c][j] = IF c = b THEN 0 ELSE E[c][j]

\* Place i of the block a gets the block b, which is zeroed.
PlaceGets(E, E2, a, i, b) ==
    \A c \in Block, j \in Index :
        E2[c][j] = IF c = a /\ j = i THEN b ELSE IF c = b THEN 0 ELSE E[c][j]

\* A free block, zeroed, comes into an empty slot of an inode.
LEMMA AttachedToInode ==
    ASSUME NEW A, NEW E, NEW A2, NEW E2, NEW U, Maps(A, E), Maps(A2, E2), Exact(A, E, U),
           NEW f \in File, NEW k \in Slot, A[f][k] = 0, NEW b \in Block, b \notin U,
           SlotGets(A, E, A2, E2, f, k, b)
    PROVE  Exact(A2, E2, U \cup {b}) /\ Extends(A, E, A2, E2)
  <1> USE DEF SlotGets
  <1>0. b # 0 /\ TOP \in Slot /\ (\A l \in NDIRECT .. TOP : l \in Slot)
    BY Sizes DEF Block, Slot
  <1>1. /\ \A g \in File : \A a : Under(A, E, g, a) => a # b /\ a \in Block
        /\ \A g \in File, l \in Slot : A[g][l] # 0 => A[g][l] # b
    BY InUse DEF Under
  <1>2. ASSUME NEW g \in File, A[g][TOP] # 0
        PROVE  /\ A[g][TOP] \in Block /\ A[g][TOP] # b /\ A2[g][TOP] = A[g][TOP]
               /\ \A j \in Index : E2[A[g][TOP]][j] = E[A[g][TOP]][j]
    BY <1>0, <1>1, <1>2, Sizes DEF Maps, Block
  <1>3. ASSUME NEW g \in File, NEW a, Under(A, E, g, a) PROVE Under(A2, E2, g, a)
    <2>1. a \in Block /\ a # 0
      BY <1>3 DEF Under, Block
    <2>2. CASE \E l \in NDIRECT .. TOP : A[g][l] = a
      BY <1>0, <2>1, <2>2 DEF Under
    <2>3. CASE A[g][TOP] # 0 /\ \E j \in Index : E[A[g][TOP]][j] = a
      BY <1>2, <2>1, <2>3 DEF Under
    <2> QED
      BY <1>3, <2>2, <2>3 DEF Under
  <1>4. ASSUME NEW g \in File, NEW a, Under(A2, E2, g, a)
        PROVE  Under(A, E, g, a) \/ a = b
    <2>1. a \in Block /\ a # 0
      BY <1>4 DEF Under, Block
    <2>2. CASE \E l \in NDIRECT .. TOP : A2[g][l] = a
      BY <1>0, <2>1, <2>2 DEF Under
    <2>3. CASE A2[g][TOP] # 0 /\ \E j \in Index : E2[A2[g][TOP]][j] = a
      <3>1. CASE A[g][TOP] # 0
        BY <1>2, <2>1, <2>3, <3>1 DEF Under
      <3>2. CASE A[g][TOP] = 0
        BY <1>0, <2>1, <2>3, <3>2
      <3> QED
        BY <3>1, <3>2
    <2> QED
      BY <1>4, <2>2, <2>3 DEF Under
  <1>5. ASSUME NEW m \in Node, NEW j \in Pos, At(A, E, m, j)
        PROVE  At(A2, E2, m, j) /\ Child(A2, E2, m, j) = Child(A, E, m, j)
    <2>1. PICK g \in File : Belongs(A, E, g, m, j) /\ Child(A, E, m, j) # 0
      BY <1>5 DEF At
    <2>2. Belongs(A2, E2, g, m, j)
      BY <1>3, <2>1 DEF Belongs
    <2>3. Child(A2, E2, m, j) = Child(A, E, m, j)
      BY <1>1, <2>1, Sizes DEF Belongs, Child
    <2> QED
      BY <2>1, <2>2, <2>3 DEF At
  <1>6. ASSUME NEW m \in Node, NEW j \in Pos, At(A2, E2, m, j)
        PROVE  At(A, E, m, j) \/ (m = f /\ j = k)
    <2>1. PICK g \in File : Belongs(A2, E2, g, m, j) /\ Child(A2, E2, m, j) # 0
      BY <1>6 DEF At
    <2>2. CASE m = g /\ j \in Slot
      <3>1. Belongs(A, E, g, m, j)
        BY <2>2 DEF Belongs
      <3>2. (m = f /\ j = k) \/ Child(A, E, m, j) # 0
        BY <2>1, <2>2 DEF Child
      <3> QED
        BY <3>1, <3>2 DEF At
    <2>3. CASE Under(A2, E2, g, m) /\ j \in Index
      <3>1. m \in Block /\ m \notin File
        BY <2>3, Sizes DEF Under
      <3>2. Child(A2, E2, m, j) = IF m = b THEN 0 ELSE Child(A, E, m, j)
        BY <2>3, <3>1 DEF Child
      <3>3. m # b /\ Child(A, E, m, j) # 0
        BY <2>1, <3>2
      <3>4. Belongs(A, E, g, m, j)
        BY <1>4, <2>3, <3>3 DEF Belongs
      <3> QED
        BY <3>3, <3>4 DEF At
    <2> QED
      BY <2>1, <2>2, <2>3 DEF Belongs
  <1>7. f \in Node /\ k \in Pos
    BY DEF Node, Pos
  <1>8. ~At(A, E, f, k) /\ Child(A2, E2, f, k) = b /\ At(A2, E2, f, k)
    BY <1>0 DEF At, Belongs, Child
  <1>9. Extends(A, E, A2, E2)
    BY <1>5 DEF Extends
  <1> QED
    BY <1>5, <1>6, <1>7, <1>8, <1>9, Attached

\* A free block, zeroed, comes into an empty place of an indirect block.
LEMMA AttachedToBlock ==
    ASSUME NEW A, NEW E, NEW E2, NEW U, Maps(A, E), Maps(A, E2), Exact(A, E, U),
           NEW f \in File, NEW a, Under(A, E, f, a), NEW i \in Index, E[a][i] = 0,
           NEW b \in Block, b \notin U,
           PlaceGets(E, E2, a, i, b)
    PROVE  /\ Exact(A, E2, U \cup {b}) /\ Extends(A, E, A, E2)
           /\ Under(A, E2, f, a)
  <1> USE DEF PlaceGets
  <1>0. b # 0 /\ TOP \in Slot /\ (\A l \in NDIRECT .. TOP : l \in Slot)
    BY Sizes DEF Block, Slot
  <1>1. /\ \A g \in File : \A c : Under(A, E, g, c) => c # b /\ c \in Block
        /\ \A g \in File, l \in Slot : A[g][l] # 0 => A[g][l] # b
    BY InUse DEF Under
  <1>2. ASSUME NEW g \in File, A[g][TOP] # 0
        PROVE  /\ A[g][TOP] \in Block /\ A[g][TOP] # b
               /\ \A j \in Index : /\ E2[A[g][TOP]][j] \in {b, E[A[g][TOP]][j]}
                                   /\ E[A[g][TOP]][j] # 0 => E2[A[g][TOP]][j] = E[A[g][TOP]][j]
    <2>1. A[g][TOP] \in Block /\ A[g][TOP] # b
      BY <1>0, <1>1, <1>2, Sizes DEF Maps, Block
    <2>2. \A j \in Index : E2[A[g][TOP]][j] = IF A[g][TOP] = a /\ j = i THEN b ELSE E[A[g][TOP]][j]
      BY <2>1
    <2> QED
      BY <2>1, <2>2
  <1>3. ASSUME NEW g \in File, NEW c, Under(A, E, g, c) PROVE Under(A, E2, g, c)
    <2>1. c \in Block /\ c # 0
      BY <1>3 DEF Under, Block
    <2>2. CASE \E l \in NDIRECT .. TOP : A[g][l] = c
      BY <1>0, <2>1, <2>2 DEF Under
    <2>3. CASE A[g][TOP] # 0 /\ \E j \in Index : E[A[g][TOP]][j] = c
      <3>1. PICK j \in Index : E[A[g][TOP]][j] = c
        BY <2>3
      <3>2. E2[A[g][TOP]][j] = c
        BY <1>2, <2>1, <2>3, <3>1
      <3> QED
        BY <2>1, <2>3, <3>2 DEF Under
    <2> QED
      BY <1>3, <2>2, <2>3 DEF Under
  <1>4. ASSUME NEW g \in File, NEW c, Under(A, E2, g, c)
        PROVE  Under(A, E, g, c) \/ c = b
    <2>1. c \in Block /\ c # 0
      BY <1>4 DEF Under, Block
    <2>2. CASE \E l \in NDIRECT .. TOP : A[g][l] = c
      BY <2>1, <2>2 DEF Under
    <2>3. CASE A[g][TOP] # 0 /\ \E j \in Index : E2[A[g][TOP]][j] = c
      BY <1>2, <2>1, <2>3 DEF Under
    <2> QED
      BY <1>4, <2>2, <2>3 DEF Under
  <1>5. ASSUME NEW m \in Node, NEW j \in Pos, At(A, E, m, j)
        PROVE  At(A, E2, m, j) /\ Child(A, E2, m, j) = Child(A, E, m, j)
    <2>1. PICK g \in File : Belongs(A, E, g, m, j) /\ Child(A, E, m, j) # 0
      BY <1>5 DEF At
    <2>2. Belongs(A, E2, g, m, j)
      BY <1>3, <2>1 DEF Belongs
    <2>3. Child(A, E2, m, j) = Child(A, E, m, j)
      BY <1>1, <2>1, Sizes DEF Belongs, Child
    <2> QED
      BY <2>1, <2>2, <2>3 DEF At
  <1>6. ASSUME NEW m \in Node, NEW j \in Pos, At(A, E2, m, j)
        PROVE  At(A, E, m, j) \/ (m = a /\ j = i)
    <2>1. PICK g \in File : Belongs(A, E2, g, m, j) /\ Child(A, E2, m, j) # 0
      BY <1>6 DEF At
    <2>2. CASE m = g /\ j \in Slot
      BY <2>1, <2>2 DEF Belongs, At, Child
    <2>3. CASE Under(A, E2, g, m) /\ j \in Index
      <3>1. m \in Block /\ m \notin File
        BY <2>3, Sizes DEF Under
      <3>2. CASE m = a /\ j = i
        BY <3>2
      <3>3. CASE ~(m = a /\ j = i)
        <4>1. Child(A, E2, m, j) = IF m = b THEN 0 ELSE Child(A, E, m, j)
          BY <2>3, <3>1, <3>3 DEF Child
        <4>2. m # b /\ Child(A, E, m, j) # 0
          BY <2>1, <4>1
        <4>3. Belongs(A, E, g, m, j)
          BY <1>4, <2>3, <4>2 DEF Belongs
        <4> QED
          BY <4>2, <4>3 DEF At
      <3> QED
        BY <3>2, <3>3
    <2> QED
      BY <2>1, <2>2, <2>3 DEF Belongs
  <1>7. a \in Block /\ a \notin File /\ a # b /\ a \in Node /\ i \in Pos
    BY <1>1, Sizes DEF Node, Pos
  <1>8. ~At(A, E, a, i) /\ Child(A, E2, a, i) = b
    BY <1>7 DEF At, Child
  <1>9. At(A, E2, a, i)
    BY <1>0, <1>3, <1>8 DEF At, Belongs
  <1>10. Extends(A, E, A, E2)
    BY <1>5 DEF Extends
  <1> QED
    BY <1>3, <1>5, <1>6, <1>7, <1>8, <1>9, <1>10, Attached

\* Nothing moves in several steps either.
LEMMA ExtendsTwice ==
    ASSUME NEW A, NEW E, NEW A1, NEW E1, NEW A2, NEW E2,
           Extends(A, E, A1, E1), Extends(A1, E1, A2, E2)
    PROVE  Extends(A, E, A2, E2)
  <1>1. ASSUME NEW n \in Node, NEW i \in Pos, At(A, E, n, i)
        PROVE  At(A2, E2, n, i) /\ Child(A2, E2, n, i) = Child(A, E, n, i)
    <2>1. At(A1, E1, n, i) /\ Child(A1, E1, n, i) = Child(A, E, n, i)
      BY <1>1 DEF Extends
    <2> QED
      BY <2>1 DEF Extends
  <1> QED
    BY <1>1 DEF Extends

-----------------------------------------------------------------------------
(***************************************************************************)
(* Where a block of a file is                                              *)
(***************************************************************************)

\* The three zones of the block map.
LEMMA Zones ==
    ASSUME NEW bn \in 0 .. MAXFILE - 1
    PROVE  LET sn == bn - NDIRECT
               dn == sn - NINDIRECT * NSINGLE
           IN
           \/ /\ bn < NDIRECT /\ bn \in Slot
              /\ Where(bn) = <<bn>>
           \/ /\ sn \in 0 .. NINDIRECT * NSINGLE - 1
              /\ Where(bn) = <<NDIRECT + sn \div NINDIRECT, sn % NDIRECT>>
              /\ sn \div NINDIRECT \in 0 .. NSINGLE - 1 /\ sn % NDIRECT \in Index
              /\ NDIRECT + sn \div NINDIRECT \in NDIRECT .. TOP - 1
           \/ /\ dn \in 0 .. NINDIRECT * NINDIRECT - 1
              /\ Where(bn) = <<TOP, dn \div NINDIRECT, dn % NINDIRECT>>
              /\ dn \div NINDIRECT \in Index /\ dn % NINDIRECT \in Index
  <1> DEFINE sn == bn - NDIRECT
             dn == sn - NINDIRECT * NSINGLE
  <1>1. NINDIRECT * NSINGLE \in Nat /\ NINDIRECT * NINDIRECT \in Nat
    BY Sizes
  <1>2. bn \in Nat /\ sn \in Int /\ dn \in Int
        /\ bn < NDIRECT + NINDIRECT * NSINGLE + NINDIRECT * NINDIRECT
    BY <1>1, Sizes DEF MAXFILE
  <1>3. CASE bn < NDIRECT
    <2>1. bn \in Slot
      BY <1>2, <1>3, Sizes DEF Slot
    <2>2. Where(bn) = <<bn>>
      <3>1. ~(bn >= NDIRECT)
        BY <1>2, <1>3, Sizes
      <3> QED
        BY <1>3, <3>1 DEF Where
    <2> QED
      BY <1>3, <2>1, <2>2
  <1>4. CASE bn >= NDIRECT /\ dn < 0
    <2>1. sn \in Nat /\ sn < NINDIRECT * NSINGLE /\ sn < NSINGLE * NINDIRECT
      BY <1>1, <1>2, <1>4, Sizes
    <2>2. sn \div NINDIRECT \in 0 .. NSINGLE - 1
      BY <2>1, Sizes, DivBounds
    <2>3. sn % NDIRECT \in 0 .. NDIRECT - 1
      BY <1>2, Sizes, DivMod
    <2>4. sn % NDIRECT \in Index
      BY <2>3, Sizes DEF Index
    <2>5. NDIRECT + sn \div NINDIRECT \in NDIRECT .. TOP - 1
      BY <2>2, Sizes DEF TOP
    <2>6. Where(bn) = <<NDIRECT + sn \div NINDIRECT, sn % NDIRECT>>
      <3>1. ~(bn < NDIRECT)
        BY <1>2, <1>4, Sizes
      <3> QED
        BY <1>4, <3>1 DEF Where
    <2> QED
      BY <1>1, <2>1, <2>2, <2>4, <2>5, <2>6
  <1>5. CASE bn >= NDIRECT /\ dn >= 0
    <2>1. dn \in Nat /\ dn < NINDIRECT * NINDIRECT
      BY <1>1, <1>2, <1>5, Sizes
    <2>2. dn \div NINDIRECT \in 0 .. NINDIRECT - 1
      BY <2>1, Sizes, DivBounds
    <2>3. dn % NINDIRECT \in 0 .. NINDIRECT - 1
      BY <1>2, Sizes, DivMod
    <2>4. Where(bn) = <<TOP, dn \div NINDIRECT, dn % NINDIRECT>>
      <3>1. ~(bn < NDIRECT) /\ ~(dn < 0)
        BY <1>2, <1>5, Sizes
      <3> QED
        BY <3>1 DEF Where
    <2> QED
      BY <1>1, <2>1, <2>2, <2>3, <2>4 DEF Index
  <1> QED
    BY <1>2, <1>3, <1>4, <1>5, Sizes

\* A zone for each length of the path.
LEMMA Lengths ==
    ASSUME NEW bn \in 0 .. MAXFILE - 1
    PROVE  LET w  == Where(bn)
               sn == bn - NDIRECT
               dn == sn - NINDIRECT * NSINGLE
           IN
           /\ Len(w) \in {1, 2, 3}
           /\ Len(w) = 1 => w[1] = bn /\ bn \in Slot
           /\ Len(w) = 2 => /\ sn \in 0 .. NINDIRECT * NSINGLE - 1
                            /\ w[1] = NDIRECT + sn \div NINDIRECT /\ w[2] = sn % NDIRECT
                            /\ sn \div NINDIRECT \in 0 .. NSINGLE - 1
                            /\ w[1] \in NDIRECT .. TOP - 1 /\ w[2] \in Index
           /\ Len(w) = 3 => /\ w[1] = TOP /\ w[2] = dn \div NINDIRECT /\ w[3] = dn % NINDIRECT
                            /\ w[2] \in Index /\ w[3] \in Index
  <1> DEFINE w  == Where(bn)
             sn == bn - NDIRECT
             dn == sn - NINDIRECT * NSINGLE
  <1>1. CASE bn \in Slot /\ w = <<bn>>
    BY <1>1
  <1>2. CASE /\ sn \in 0 .. NINDIRECT * NSINGLE - 1
             /\ w = <<NDIRECT + sn \div NINDIRECT, sn % NDIRECT>>
             /\ sn \div NINDIRECT \in 0 .. NSINGLE - 1 /\ sn % NDIRECT \in Index
             /\ NDIRECT + sn \div NINDIRECT \in NDIRECT .. TOP - 1
    <2> DEFINE a == sn \div NINDIRECT
               b == sn % NDIRECT
    <2>1. w = <<NDIRECT + a, b>> /\ a \in 0 .. NSINGLE - 1 /\ b \in Index
          /\ NDIRECT + a \in NDIRECT .. TOP - 1
      BY <1>2
    <2> HIDE DEF a, b, w
    <2>2. Len(w) = 2 /\ w[1] = NDIRECT + a /\ w[2] = b
      BY <2>1
    <2> QED
      BY <1>2, <2>1, <2>2 DEF a, b, w
  <1>3. CASE /\ w = <<TOP, dn \div NINDIRECT, dn % NINDIRECT>>
             /\ dn \div NINDIRECT \in Index /\ dn % NINDIRECT \in Index
    <2> DEFINE a == dn \div NINDIRECT
               b == dn % NINDIRECT
    <2>1. w = <<TOP, a, b>> /\ a \in Index /\ b \in Index
      BY <1>3
    <2> HIDE DEF a, b, w
    <2>2. Len(w) = 3 /\ w[1] = TOP /\ w[2] = a /\ w[3] = b
      BY <2>1
    <2> QED
      BY <1>3, <2>1, <2>2 DEF a, b, w
  <1> QED
    BY <1>1, <1>2, <1>3, Zones

\* The node and the place in it where block bn of a file has its number.
Leads(A, E, f, bn, n, i) ==
    LET w == Where(bn) IN
    \/ Len(w) = 1 /\ n = f /\ i = w[1]
    \/ Len(w) = 2 /\ n # 0 /\ n = A[f][w[1]] /\ i = w[2]
    \/ Len(w) = 3 /\ A[f][w[1]] # 0 /\ n # 0 /\ n = E[A[f][w[1]]][w[2]] /\ i = w[3]

\* Nth() of any map.
NthOf(A, E, f, bn) ==
    LET w == Where(bn)
        deref(b, j) == IF b = 0 THEN 0 ELSE E[b][j]
    IN CASE Len(w) = 1 -> A[f][w[1]]
         [] Len(w) = 2 -> deref(A[f][w[1]], w[2])
         [] Len(w) = 3 -> deref(deref(A[f][w[1]], w[2]), w[3])

\* Nth() is NthOf() of the map there is.
LEMMA NthIsNow ==
    ASSUME Maps(addrs, ent), NEW f \in File, NEW bn \in 0 .. MAXFILE - 1
    PROVE  Nth(f, bn) = NthOf(LA, LE, f, bn)
  <1> DEFINE w == Where(bn)
  <1>1. /\ Len(w) \in {1, 2, 3} /\ w[1] \in Slot
        /\ Len(w) \in {2, 3} => w[2] \in Index
        /\ Len(w) = 3 => w[3] \in Index
    BY Lengths, Sizes DEF Slot
  <1> HIDE DEF w
  <1>2. /\ Maps(LA, LE)
        /\ \A x, k : x \in 0 .. NBLOCK => x = 0 \/ x \in Block
    BY Sizes DEF Maps, LA, LE, Addr, Entry, Block
  <1>3. /\ \A k \in Slot : LA[f][k] = Addr(f, k)
        /\ \A b \in Block, j \in Index : LE[b][j] = Entry(b, j)
    BY DEF LA, LE
  <1>4. Nth(f, bn) = NthOf(LA, LE, f, bn)
    <2>1. \A b \in 0 .. NBLOCK, j \in Index :
            /\ Deref(b, j) = IF b = 0 THEN 0 ELSE LE[b][j]
            /\ Deref(b, j) \in 0 .. NBLOCK
      <3> TAKE b \in 0 .. NBLOCK, j \in Index
      <3>1. CASE b = 0
        BY <3>1, Sizes DEF Deref
      <3>2. CASE b # 0
        <4>1. b \in Block
          BY <3>2, Sizes DEF Block
        <4>2. LE[b][j] \in 0 .. NBLOCK
          BY <1>2, <4>1 DEF Maps
        <4>3. Deref(b, j) = Entry(b, j)
          BY <3>2 DEF Deref
        <4> QED
          BY <1>3, <3>2, <4>1, <4>2, <4>3
      <3> QED
        BY <3>1, <3>2
    <2>2. PICK x : x = Addr(f, w[1])
      OBVIOUS
    <2>3. x = LA[f][w[1]] /\ x \in 0 .. NBLOCK
      BY <1>1, <1>2, <1>3, <2>2 DEF Maps
    <2>4. CASE Len(w) = 1
      BY <2>2, <2>3, <2>4 DEF Nth, NthOf, w
    <2>5. CASE Len(w) = 2
      <3>1. Nth(f, bn) = Deref(x, w[2])
        BY <2>2, <2>5 DEF Nth, w
      <3>2. NthOf(LA, LE, f, bn) = IF x = 0 THEN 0 ELSE LE[x][w[2]]
        BY <2>3, <2>5 DEF NthOf, w
      <3> QED
        BY <1>1, <2>1, <2>3, <2>5, <3>1, <3>2
    <2>6. CASE Len(w) = 3
      <3>1. PICK y : y = Deref(x, w[2])
        OBVIOUS
      <3>2. y = (IF x = 0 THEN 0 ELSE LE[x][w[2]]) /\ y \in 0 .. NBLOCK
        BY <1>1, <2>1, <2>3, <2>6, <3>1
      <3>3. Nth(f, bn) = Deref(y, w[3])
        BY <2>2, <2>6, <3>1 DEF Nth, w
      <3>4. NthOf(LA, LE, f, bn) = IF y = 0 THEN 0 ELSE LE[y][w[3]]
        BY <2>3, <2>6, <3>2 DEF NthOf, w
      <3> QED
        BY <1>1, <2>1, <2>6, <3>2, <3>3, <3>4
    <2> QED
      BY <1>1, <2>4, <2>5, <2>6
  <1> QED
    BY <1>4

\* Before and after a step, too.
LEMMA NthIsNthOf ==
    ASSUME Maps(addrs, ent), Maps(addrs', ent'),
           NEW f \in File, NEW bn \in 0 .. MAXFILE - 1
    PROVE  /\ Nth(f, bn) = NthOf(LA, LE, f, bn)
           /\ Nth(f, bn)' = NthOf(LA', LE', f, bn)
  <1> DEFINE w == Where(bn)
  <1>1. /\ Len(w) \in {1, 2, 3} /\ w[1] \in Slot
        /\ Len(w) \in {2, 3} => w[2] \in Index
        /\ Len(w) = 3 => w[3] \in Index
    BY Lengths, Sizes DEF Slot
  <1> HIDE DEF w
  <1>2. /\ Maps(LA, LE) /\ Maps(LA', LE')
        /\ \A x, k : x \in 0 .. NBLOCK => x = 0 \/ x \in Block
    BY Sizes DEF Maps, LA, LE, Addr, Entry, Block
  <1>3. /\ \A k \in Slot : LA[f][k] = Addr(f, k) /\ LA'[f][k] = Addr(f, k)'
        /\ \A b \in Block, j \in Index : LE[b][j] = Entry(b, j) /\ LE'[b][j] = Entry(b, j)'
    BY DEF LA, LE
  <1>4. Nth(f, bn) = NthOf(LA, LE, f, bn)
    BY NthIsNow
  <1>5. Nth(f, bn)' = NthOf(LA', LE', f, bn)
    <2>1. \A b \in 0 .. NBLOCK, j \in Index :
            /\ Deref(b, j)' = IF b = 0 THEN 0 ELSE LE'[b][j]
            /\ Deref(b, j)' \in 0 .. NBLOCK
      <3> TAKE b \in 0 .. NBLOCK, j \in Index
      <3>1. CASE b = 0
        BY <3>1, Sizes DEF Deref
      <3>2. CASE b # 0
        <4>1. b \in Block
          BY <3>2, Sizes DEF Block
        <4>2. LE'[b][j] \in 0 .. NBLOCK
          BY <1>2, <4>1 DEF Maps
        <4>3. Deref(b, j)' = Entry(b, j)'
          BY <3>2 DEF Deref
        <4> QED
          BY <1>3, <3>2, <4>1, <4>2, <4>3
      <3> QED
        BY <3>1, <3>2
    <2>2. PICK x : x = Addr(f, w[1])'
      OBVIOUS
    <2>3. x = LA'[f][w[1]] /\ x \in 0 .. NBLOCK
      BY <1>1, <1>2, <1>3, <2>2 DEF Maps
    <2>4. CASE Len(w) = 1
      BY <2>2, <2>3, <2>4 DEF Nth, NthOf, w
    <2>5. CASE Len(w) = 2
      <3>1. Nth(f, bn)' = Deref(x, w[2])'
        BY <2>2, <2>5 DEF Nth, w
      <3>2. NthOf(LA', LE', f, bn) = IF x = 0 THEN 0 ELSE LE'[x][w[2]]
        BY <2>3, <2>5 DEF NthOf, w
      <3> QED
        BY <1>1, <2>1, <2>3, <2>5, <3>1, <3>2
    <2>6. CASE Len(w) = 3
      <3>1. PICK y : y = Deref(x, w[2])'
        OBVIOUS
      <3>2. y = (IF x = 0 THEN 0 ELSE LE'[x][w[2]]) /\ y \in 0 .. NBLOCK
        BY <1>1, <2>1, <2>3, <2>6, <3>1
      <3>3. Nth(f, bn)' = Deref(y, w[3])'
        BY <2>2, <2>6, <3>1 DEF Nth, w
      <3>4. NthOf(LA', LE', f, bn) = IF y = 0 THEN 0 ELSE LE'[y][w[3]]
        BY <2>3, <2>6, <3>2 DEF NthOf, w
      <3> QED
        BY <1>1, <2>1, <2>6, <3>2, <3>3, <3>4
    <2> QED
      BY <1>1, <2>4, <2>5, <2>6
  <1> QED
    BY <1>4, <1>5

\* A place that a block number leads to belongs to the file, through nodes that
\* are in places themselves.
LEMMA LeadsToPlace ==
    ASSUME NEW A, NEW E, Maps(A, E), NEW f \in File, NEW bn \in 0 .. MAXFILE - 1,
           NEW n, NEW i, Leads(A, E, f, bn, n, i)
    PROVE  /\ n \in Node /\ i \in Pos /\ Belongs(A, E, f, n, i)
           /\ NthOf(A, E, f, bn) = Child(A, E, n, i)
           /\ Len(Where(bn)) = 1 => n = f /\ i = Where(bn)[1]
           /\ Len(Where(bn)) = 2 =>
                LET k == Where(bn)[1] IN
                /\ n \in Block /\ k \in Slot /\ At(A, E, f, k) /\ Child(A, E, f, k) = n
                /\ i = Where(bn)[2]
           /\ Len(Where(bn)) = 3 =>
                LET d == A[f][TOP]
                    j == Where(bn)[2]
                IN /\ n \in Block /\ d \in Block /\ TOP \in Slot /\ j \in Index
                   /\ At(A, E, f, TOP) /\ Child(A, E, f, TOP) = d
                   /\ At(A, E, d, j) /\ Child(A, E, d, j) = n
                   /\ Belongs(A, E, f, d, j)
                   /\ i = Where(bn)[3]
  <1> DEFINE w == Where(bn)
  <1>0. TOP \in Slot /\ (\A k \in NDIRECT .. TOP - 1 : k \in Slot /\ k \in NDIRECT .. TOP)
    BY Sizes DEF Slot
  <1>1. CASE Len(w) = 1 /\ n = f /\ i = w[1] /\ i \in Slot
    <2>1. Belongs(A, E, f, n, i)
      BY <1>1 DEF Belongs
    <2>2. NthOf(A, E, f, bn) = A[f][i]
      BY <1>1 DEF NthOf
    <2>3. Child(A, E, n, i) = A[f][i]
      BY <1>1 DEF Child
    <2> QED
      BY <1>1, <2>1, <2>2, <2>3 DEF Node, Pos
  <1>2. CASE Len(w) = 2 /\ n # 0 /\ n = A[f][w[1]] /\ i = w[2]
             /\ w[1] \in NDIRECT .. TOP - 1 /\ w[2] \in Index
    <2>1. n \in Block
      BY <1>0, <1>2, Sizes DEF Maps, Block
    <2>2. Under(A, E, f, n)
      BY <1>0, <1>2, <2>1 DEF Under
    <2>3. Belongs(A, E, f, n, i)
      BY <1>2, <2>2 DEF Belongs
    <2>4. NthOf(A, E, f, bn) = E[n][i]
      BY <1>2 DEF NthOf
    <2>5. Child(A, E, n, i) = E[n][i]
      BY <2>1, Sizes DEF Child
    <2>6. At(A, E, f, w[1]) /\ Child(A, E, f, w[1]) = n
      BY <1>0, <1>2 DEF At, Belongs, Child
    <2> QED
      BY <1>0, <1>2, <2>1, <2>3, <2>4, <2>5, <2>6 DEF Node, Pos
  <1>3. CASE Len(w) = 3 /\ A[f][w[1]] # 0 /\ n # 0 /\ n = E[A[f][w[1]]][w[2]] /\ i = w[3]
             /\ w[1] = TOP /\ w[2] \in Index /\ w[3] \in Index
    <2> DEFINE d == A[f][TOP]
    <2>1. d \in Block
      BY <1>0, <1>3, Sizes DEF Maps, Block
    <2>2. n \in Block
      BY <1>3, <2>1, Sizes DEF Maps, Block
    <2>3. Under(A, E, f, n)
      BY <1>3, <2>2 DEF Under
    <2>4. Belongs(A, E, f, n, i)
      BY <1>3, <2>3 DEF Belongs
    <2>5. NthOf(A, E, f, bn) = E[n][i]
      BY <1>3 DEF NthOf
    <2>6. Child(A, E, n, i) = E[n][i] /\ Child(A, E, d, w[2]) = n
      BY <1>3, <2>1, <2>2, Sizes DEF Child
    <2>7. At(A, E, f, TOP) /\ Child(A, E, f, TOP) = d
      BY <1>0, <1>3 DEF At, Belongs, Child
    <2>8. Under(A, E, f, d)
      <3>1. TOP \in NDIRECT .. TOP
        BY Sizes
      <3> QED
        BY <2>1, <3>1 DEF Under
    <2>9. At(A, E, d, w[2]) /\ Belongs(A, E, f, d, w[2])
      BY <1>3, <2>6, <2>8 DEF At, Belongs
    <2> QED
      BY <1>0, <1>3, <2>1, <2>2, <2>4, <2>5, <2>6, <2>7, <2>9 DEF Node, Pos
  <1>4. \/ Len(w) = 1 /\ w[1] \in Slot
        \/ Len(w) = 2 /\ w[1] \in NDIRECT .. TOP - 1 /\ w[2] \in Index
        \/ Len(w) = 3 /\ w[1] = TOP /\ w[2] \in Index /\ w[3] \in Index
    BY Lengths
  <1> QED
    BY <1>1, <1>2, <1>3, <1>4 DEF Leads

\* A block number leads somewhere if there is a block.
LEMMA LeadsIfThere ==
    ASSUME NEW A, NEW E, NEW f \in File, NEW bn \in 0 .. MAXFILE - 1, NthOf(A, E, f, bn) # 0
    PROVE  \E n, i : Leads(A, E, f, bn, n, i)
  <1> DEFINE w == Where(bn)
  <1>1. Len(w) = 1 \/ Len(w) = 2 \/ Len(w) = 3
    BY Lengths
  <1>2. CASE Len(w) = 1
    BY <1>2 DEF Leads
  <1>3. CASE Len(w) = 2
    <2>1. A[f][w[1]] # 0
      BY <1>3 DEF NthOf
    <2> QED
      BY <1>3, <2>1 DEF Leads
  <1>4. CASE Len(w) = 3
    <2>1. A[f][w[1]] # 0 /\ E[A[f][w[1]]][w[2]] # 0
      BY <1>4 DEF NthOf
    <2> QED
      BY <1>4, <2>1 DEF Leads
  <1> QED
    BY <1>1, <1>2, <1>3, <1>4

\* What a file has in its places stays there.
Keeps(A, E, A2, E2, f) ==
    \A n \in Node, i \in Pos : Belongs(A, E, f, n, i) /\ Child(A, E, n, i) # 0 =>
        Child(A2, E2, n, i) = Child(A, E, n, i)

\* A block that is mapped stays the one it is.
LEMMA NthStays ==
    ASSUME NEW A, NEW E, NEW A2, NEW E2, Maps(A, E), Maps(A2, E2),
           NEW f \in File, Keeps(A, E, A2, E2, f),
           NEW bn \in 0 .. MAXFILE - 1, NthOf(A, E, f, bn) # 0
    PROVE  NthOf(A2, E2, f, bn) = NthOf(A, E, f, bn)
  <1> DEFINE w == Where(bn)
  <1>1. PICK n, i : Leads(A, E, f, bn, n, i)
    BY LeadsIfThere
  <1>2. /\ n \in Node /\ i \in Pos /\ Belongs(A, E, f, n, i)
        /\ NthOf(A, E, f, bn) = Child(A, E, n, i)
    BY <1>1, LeadsToPlace
  <1>3. \A m \in Node, j \in Pos : Belongs(A, E, f, m, j) /\ Child(A, E, m, j) # 0 =>
          Child(A2, E2, m, j) = Child(A, E, m, j)
    BY DEF Keeps
  <1>4. Child(A2, E2, n, i) = NthOf(A, E, f, bn)
    BY <1>2, <1>3
  <1>5. /\ f \in Node /\ Slot \subseteq Pos /\ Index \subseteq Pos /\ Block \subseteq Node
    BY DEF Node, Pos
  <1>6. Leads(A2, E2, f, bn, n, i)
    <2>1. CASE Len(w) = 1
      BY <1>1, <2>1 DEF Leads
    <2>2. CASE Len(w) = 2
      <3>1. w[1] \in Slot /\ At(A, E, f, w[1]) /\ Child(A, E, f, w[1]) = n
        BY <1>1, <2>2, LeadsToPlace
      <3>2. Child(A2, E2, f, w[1]) = n
        BY <1>3, <1>5, <3>1 DEF Belongs, At
      <3> QED
        BY <1>1, <2>2, <3>2 DEF Leads, Child
    <2>3. CASE Len(w) = 3
      <3> DEFINE d == A[f][TOP]
      <3>1. /\ d \in Block /\ TOP \in Slot /\ w[2] \in Index
            /\ At(A, E, f, TOP) /\ Child(A, E, f, TOP) = d
            /\ At(A, E, d, w[2]) /\ Child(A, E, d, w[2]) = n
            /\ Belongs(A, E, f, d, w[2])
        BY <1>1, <2>3, LeadsToPlace
      <3>2. Child(A2, E2, f, TOP) = d /\ Child(A2, E2, d, w[2]) = n
        BY <1>3, <1>5, <3>1 DEF Belongs, At
      <3>3. A2[f][TOP] = d /\ E2[d][w[2]] = n
        BY <3>1, <3>2, Sizes DEF Child
      <3>4. w[1] = TOP /\ d # 0
        BY <2>3, <3>1, Lengths DEF Block
      <3> QED
        BY <1>1, <2>3, <3>3, <3>4 DEF Leads
    <2> QED
      BY <2>1, <2>2, <2>3, Lengths
  <1> QED
    BY <1>4, <1>6, LeadsToPlace

\* Two block numbers that lead to one place are one, or are taken for each other.
LEMMA SamePlace ==
    ASSUME NEW A, NEW E, NEW U, Maps(A, E), Exact(A, E, U),
           NEW f \in File, NEW g \in File,
           NEW m \in 0 .. MAXFILE - 1, NEW bn \in 0 .. MAXFILE - 1,
           NEW n, NEW i, Leads(A, E, f, m, n, i), Leads(A, E, g, bn, n, i)
    PROVE  f = g /\ (m = bn \/ SameIndex(m, bn))
  <1> DEFINE v == Where(m)
             w == Where(bn)
  <1>1. \A x, y \in Node, a, b \in Pos :
         At(A, E, x, a) /\ At(A, E, y, b) /\ Child(A, E, x, a) = Child(A, E, y, b)
           => x = y /\ a = b
    BY DEF Exact
  <1>2. /\ f \in Node /\ g \in Node /\ Slot \subseteq Pos /\ Index \subseteq Pos
        /\ Block \subseteq Node
    BY DEF Node, Pos
  <1>3. Len(v) = 1 => n = f /\ i = v[1]
    BY LeadsToPlace
  <1>4. Len(w) = 1 => n = g /\ i = w[1]
    BY LeadsToPlace
  <1>5. Len(v) = 2 => /\ n \in Block /\ v[1] \in Slot /\ At(A, E, f, v[1])
                      /\ Child(A, E, f, v[1]) = n /\ i = v[2]
    BY LeadsToPlace
  <1>6. Len(w) = 2 => /\ n \in Block /\ w[1] \in Slot /\ At(A, E, g, w[1])
                      /\ Child(A, E, g, w[1]) = n /\ i = w[2]
    BY LeadsToPlace
  <1>7. Len(v) = 3 => LET d == A[f][TOP] IN
          /\ n \in Block /\ d \in Block /\ TOP \in Slot /\ v[2] \in Index
          /\ At(A, E, f, TOP) /\ Child(A, E, f, TOP) = d
          /\ At(A, E, d, v[2]) /\ Child(A, E, d, v[2]) = n /\ i = v[3]
    BY LeadsToPlace
  <1>8. Len(w) = 3 => LET d == A[g][TOP] IN
          /\ n \in Block /\ d \in Block /\ TOP \in Slot /\ w[2] \in Index
          /\ At(A, E, g, TOP) /\ Child(A, E, g, TOP) = d
          /\ At(A, E, d, w[2]) /\ Child(A, E, d, w[2]) = n /\ i = w[3]
    BY LeadsToPlace
  <1>9. CASE Len(v) = 1 /\ Len(w) = 1
    <2>1. v[1] = m /\ w[1] = bn
      BY <1>9, Lengths
    <2> QED
      BY <1>3, <1>4, <1>9, <2>1
  <1>10. CASE Len(v) = 2 /\ Len(w) = 2
    <2>1. f = g /\ v[1] = w[1] /\ v[2] = w[2]
      BY <1>1, <1>2, <1>5, <1>6, <1>10
    <2> DEFINE sm == m - NDIRECT
               sn == bn - NDIRECT
    <2>2. /\ sm \in 0 .. NINDIRECT * NSINGLE - 1
          /\ v[1] = NDIRECT + sm \div NINDIRECT /\ v[2] = sm % NDIRECT
          /\ sm \div NINDIRECT \in 0 .. NSINGLE - 1
      BY <1>10, Lengths
    <2>3. /\ sn \in 0 .. NINDIRECT * NSINGLE - 1
          /\ w[1] = NDIRECT + sn \div NINDIRECT /\ w[2] = sn % NDIRECT
          /\ sn \div NINDIRECT \in 0 .. NSINGLE - 1
      BY <1>10, Lengths
    <2>4. sm \div NINDIRECT = sn \div NINDIRECT
      <3> DEFINE a == sm \div NINDIRECT
                 b == sn \div NINDIRECT
      <3>1. a \in 0 .. NSINGLE - 1 /\ b \in 0 .. NSINGLE - 1
        BY <2>2, <2>3
      <3>2. v[1] = NDIRECT + a
        BY <2>2
      <3>3. w[1] = NDIRECT + b
        BY <2>3
      <3>4. v[1] = w[1]
        BY <2>1
      <3> HIDE DEF a, b, v, w
      <3>5. a = b
        BY <3>1, <3>2, <3>3, <3>4, Sizes
      <3> QED
        BY <3>5 DEF a, b
    <2> QED
      BY <2>1, <2>2, <2>3, <2>4 DEF SameIndex
  <1>11. CASE Len(v) = 3 /\ Len(w) = 3
    <2>1. A[f][TOP] = A[g][TOP] /\ v[2] = w[2]
      BY <1>1, <1>2, <1>7, <1>8, <1>11
    <2>2. f = g /\ v[3] = w[3]
      BY <1>1, <1>2, <1>7, <1>8, <1>11, <2>1
    <2> DEFINE dm == m - NDIRECT - NINDIRECT * NSINGLE
               dn == bn - NDIRECT - NINDIRECT * NSINGLE
    <2>3. v[2] = dm \div NINDIRECT /\ v[3] = dm % NINDIRECT
      BY <1>11, Lengths
    <2>4. w[2] = dn \div NINDIRECT /\ w[3] = dn % NINDIRECT
      BY <1>11, Lengths
    <2>5. NINDIRECT * NSINGLE \in Nat
      BY Sizes
    <2>6. dm \in Int /\ dn \in Int /\ m \in Int /\ bn \in Int
      BY <2>5, Sizes
    <2>7. /\ dm = NINDIRECT * (dm \div NINDIRECT) + (dm % NINDIRECT)
          /\ dn = NINDIRECT * (dn \div NINDIRECT) + (dn % NINDIRECT)
      BY <2>6, Sizes, DivMod
    <2>8. dm = dn
      BY <2>1, <2>2, <2>3, <2>4, <2>7
    <2> QED
      BY <2>2, <2>5, <2>6, <2>8, Sizes
  <1>12. CASE (Len(v) = 1 /\ Len(w) # 1) \/ (Len(v) # 1 /\ Len(w) = 1)
    BY <1>3, <1>4, <1>5, <1>6, <1>7, <1>8, <1>12, Sizes, Lengths
  <1>13. CASE Len(v) = 2 /\ Len(w) = 3
    <2>1. f = A[g][TOP]
      BY <1>1, <1>2, <1>5, <1>8, <1>13
    <2> QED
      BY <1>8, <1>13, <2>1, Sizes
  <1>14. CASE Len(v) = 3 /\ Len(w) = 2
    <2>1. g = A[f][TOP]
      BY <1>1, <1>2, <1>6, <1>7, <1>14
    <2> QED
      BY <1>7, <1>14, <2>1, Sizes
  <1> QED
    BY <1>9, <1>10, <1>11, <1>12, <1>13, <1>14, Lengths

-----------------------------------------------------------------------------
(***************************************************************************)
(* bmap()                                                                  *)
(***************************************************************************)

\* The map as bmap() has it on its way.
Addrs(f, s) == [LA EXCEPT ![f] = s.addrs]

IsState(s) == s = [addrs |-> s.addrs, ent |-> s.ent, used |-> s.used,
                   logged |-> s.logged, got |-> s.got, ok |-> s.ok]

StateOK(f, s) ==
    /\ IsState(s) /\ s.ok
    /\ s.addrs \in [Slot -> 0 .. NBLOCK]
    /\ Maps(Addrs(f, s), s.ent)
    /\ s.used \subseteq Block
    /\ Exact(Addrs(f, s), s.ent, s.used)

\* The state that bmap() starts from, in the map without freed blocks.
LiveState(f) == [addrs |-> LA[f], ent |-> LE, used |-> used,
                 logged |-> op[f].logged, got |-> 0, ok |-> TRUE]

\* Nothing moves from s to t.
Onward(f, s, t) == Extends(Addrs(f, s), s.ent, Addrs(f, t), t.ent)

\* Block b is the block bn of a file, or an indirect block on the way to it.
OnWay(A, E, f, bn, b) ==
    LET w == Where(bn) IN
    /\ b \in Block
    /\ \/ b = NthOf(A, E, f, bn)
       \/ Len(w) \in {2, 3} /\ b = A[f][w[1]]
       \/ Len(w) = 3 /\ A[f][TOP] # 0 /\ b = E[A[f][TOP]][w[2]]

\* Blocks of the disk, as they are logged.
IsBitmap(x) == \E b \in Block : x = Bitmap(b)
Along(A, E, f, bn, x) == \E b : OnWay(A, E, f, bn, b) /\ x = Data(b)

\* A step from s to t logs bitmap blocks and blocks that it has got, or had.
Logs(s, t, a, b) ==
    \A x \in t.logged : x \in s.logged \/ IsBitmap(x) \/ x = Data(a) \/ x = Data(b)

\* What is logged when balloc() has taken block b.
WithNew(s, b) == s.logged \cup {Bitmap(b), Data(b)}

\* balloc() finds a free block and zeroes it, or fails.
LEMMA BallocFinds ==
    ASSUME NEW s, IsState(s), s.ok, s.used \subseteq Block, Balloc(s).ok
    PROVE  \E b \in Block \ s.used :
             Balloc(s) = [addrs |-> s.addrs, ent |-> [s.ent EXCEPT ![b] = Zeros],
                          used |-> s.used \cup {b}, logged |-> WithNew(s, b),
                          got |-> b, ok |-> TRUE]
  <1>1. ~(Block \subseteq s.used)
    <2>1. SUFFICES ASSUME Block \subseteq s.used PROVE FALSE
      OBVIOUS
    <2>2. Balloc(s) = [s EXCEPT !.ok = FALSE]
      BY <2>1 DEF Balloc
    <2>3. Balloc(s).ok = FALSE
      BY <2>2 DEF IsState
    <2> QED
      BY <2>3
  <1> DEFINE b == Min(Block \ s.used)
  <1>2. b \in Block \ s.used
    BY <1>1, LeastElement DEF Block
  <1>3. Balloc(s) = [s EXCEPT !.used = @ \cup {b}, !.ent[b] = Zeros,
                              !.logged = @ \cup {Bitmap(b), Data(b)}, !.got = b]
    BY <1>1 DEF Balloc
  <1> HIDE DEF b
  <1>4. Balloc(s) = [addrs |-> s.addrs, ent |-> [s.ent EXCEPT ![b] = Zeros],
                     used |-> s.used \cup {b}, logged |-> s.logged \cup {Bitmap(b), Data(b)},
                     got |-> b, ok |-> TRUE]
    BY <1>3 DEF IsState
  <1> QED
    BY <1>2, <1>4 DEF WithNew

\* The slot of the inode that bmap() takes is filled, and nothing else moves.
LEMMA InInodeStep ==
    ASSUME NEW f \in File, LA \in [File -> [Slot -> 0 .. NBLOCK]],
           NEW s, StateOK(f, s), NEW k \in Slot, InInode(s, k).ok
    PROVE  LET t == InInode(s, k) IN
           /\ StateOK(f, t) /\ Onward(f, s, t)
           /\ t.got \in Block /\ t.got = t.addrs[k]
           /\ k \in NDIRECT .. TOP => Under(Addrs(f, t), t.ent, f, t.got)
           /\ Logs(s, t, t.got, t.got)
  <1> DEFINE t == InInode(s, k)
  <1>0. /\ Addrs(f, s)[f] = s.addrs
        /\ \A g \in File : g # f => Addrs(f, s)[g] = LA[g]
    BY DEF Addrs
  <1>1. CASE s.addrs[k] # 0
    <2>1. t = [addrs |-> s.addrs, ent |-> s.ent, used |-> s.used,
               logged |-> s.logged, got |-> s.addrs[k], ok |-> s.ok]
      BY <1>1 DEF InInode, StateOK, IsState
    <2> HIDE DEF t
    <2>2. /\ t.addrs = s.addrs /\ t.ent = s.ent /\ t.used = s.used /\ t.ok = s.ok
          /\ t.got = s.addrs[k] /\ t.logged = s.logged /\ IsState(t)
      <3>1. /\ t.addrs = s.addrs /\ t.ent = s.ent /\ t.used = s.used /\ t.ok = s.ok
            /\ t.got = s.addrs[k] /\ t.logged = s.logged
        BY <2>1
      <3> QED
        BY <2>1, <3>1 DEF IsState
    <2>3. Addrs(f, t) = Addrs(f, s)
      BY <2>2 DEF Addrs
    <2>4. StateOK(f, t)
      BY <2>2, <2>3 DEF StateOK
    <2>5. Onward(f, s, t)
      BY <2>2, <2>3 DEF Onward, Extends
    <2>6. t.got \in Block
      BY <1>1, <2>2, Sizes DEF StateOK, Block
    <2>7. k \in NDIRECT .. TOP => Under(Addrs(f, t), t.ent, f, t.got)
      BY <1>0, <2>2, <2>3, <2>6 DEF Under
    <2>8. Logs(s, t, t.got, t.got)
      BY <2>2 DEF Logs
    <2> QED
      BY <2>2, <2>4, <2>5, <2>6, <2>7, <2>8 DEF t
  <1>2. CASE s.addrs[k] = 0
    <2> DEFINE u == Balloc(s)
    <2>1. t = IF u.ok THEN [u EXCEPT !.addrs[k] = u.got] ELSE u
      BY <1>2 DEF InInode
    <2>2. u.ok
      BY <2>1
    <2>3. PICK b \in Block \ s.used :
             u = [addrs |-> s.addrs, ent |-> [s.ent EXCEPT ![b] = Zeros],
                  used |-> s.used \cup {b}, logged |-> WithNew(s, b), got |-> b, ok |-> TRUE]
      BY <2>2, BallocFinds DEF StateOK
    <2> HIDE DEF u
    <2>4. t = [u EXCEPT !.addrs[k] = u.got]
      BY <2>1, <2>2
    <2>5. t = [addrs |-> [s.addrs EXCEPT ![k] = b], ent |-> [s.ent EXCEPT ![b] = Zeros],
               used |-> s.used \cup {b}, logged |-> WithNew(s, b), got |-> b, ok |-> TRUE]
      BY <2>3, <2>4
    <2> HIDE DEF t
    <2>6. /\ t.addrs = [s.addrs EXCEPT ![k] = b] /\ t.ent = [s.ent EXCEPT ![b] = Zeros]
          /\ t.used = s.used \cup {b} /\ t.got = b /\ t.ok /\ IsState(t)
      BY <2>5 DEF IsState
    <2>6a. Logs(s, t, t.got, t.got)
      <3>1. t.logged = WithNew(s, b)
        BY <2>5
      <3> QED
        BY <2>6, <3>1 DEF WithNew, Logs, IsBitmap
    <2>7. b \in 0 .. NBLOCK /\ Zeros \in [Index -> 0 .. NBLOCK]
      BY Sizes DEF Block, Zeros
    <2>8. t.addrs \in [Slot -> 0 .. NBLOCK] /\ t.ent \in [Block -> [Index -> 0 .. NBLOCK]]
      BY <2>6, <2>7 DEF StateOK, Maps
    <2>9. Maps(Addrs(f, t), t.ent)
      BY <2>8 DEF Maps, Addrs
    <2>10. \A g \in File, l \in Slot :
             Addrs(f, t)[g][l] = IF g = f /\ l = k THEN b ELSE Addrs(f, s)[g][l]
      <3>1. \A l \in Slot : t.addrs[l] = IF l = k THEN b ELSE s.addrs[l]
        BY <2>6 DEF StateOK
      <3> QED
        BY <1>0, <3>1 DEF Addrs
    <2>11. \A c \in Block, j \in Index : t.ent[c][j] = IF c = b THEN 0 ELSE s.ent[c][j]
      BY <2>6 DEF StateOK, Maps, Zeros
    <2>12. Addrs(f, s)[f][k] = 0 /\ b \in Block /\ b \notin s.used
      BY <1>0, <1>2
    <2>13. Maps(Addrs(f, s), s.ent) /\ Exact(Addrs(f, s), s.ent, s.used)
      BY DEF StateOK
    <2>14. Exact(Addrs(f, t), t.ent, t.used) /\ Onward(f, s, t)
      <3> DEFINE A == Addrs(f, s)
                 A2 == Addrs(f, t)
                 E == s.ent
                 E2 == t.ent
                 U == s.used
      <3>1. Maps(A, E) /\ Maps(A2, E2) /\ Exact(A, E, U) /\ A[f][k] = 0 /\ b \notin U
        BY <2>9, <2>12, <2>13
      <3>2. SlotGets(A, E, A2, E2, f, k, b)
        BY <2>10, <2>11 DEF SlotGets
      <3> HIDE DEF A, A2, E, E2, U
      <3>3. Exact(A2, E2, U \cup {b}) /\ Extends(A, E, A2, E2)
        BY <2>12, <3>1, <3>2, AttachedToInode
      <3> QED
        BY <2>6, <3>3 DEF A, A2, E, E2, U, Onward
    <2>15. StateOK(f, t)
      BY <2>6, <2>8, <2>9, <2>12, <2>14 DEF StateOK
    <2>16. t.addrs[k] = b /\ Addrs(f, t)[f][k] = b
      BY <2>6, <2>10 DEF StateOK
    <2>17. k \in NDIRECT .. TOP => Under(Addrs(f, t), t.ent, f, b)
      BY <2>12, <2>16 DEF Under
    <2> QED
      BY <2>6, <2>6a, <2>12, <2>14, <2>15, <2>16, <2>17 DEF t
  <1> QED
    BY <1>1, <1>2

\* The place of an indirect block that bmap() takes is filled, and nothing else
\* moves.
LEMMA InBlockStep ==
    ASSUME NEW f \in File, LA \in [File -> [Slot -> 0 .. NBLOCK]],
           NEW s, StateOK(f, s), NEW j \in Index, InBlock(s, j).ok,
           Under(Addrs(f, s), s.ent, f, s.got)
    PROVE  LET t == InBlock(s, j) IN
           /\ StateOK(f, t) /\ Onward(f, s, t)
           /\ t.addrs = s.addrs
           /\ t.got \in Block /\ t.got = t.ent[s.got][j]
           /\ s.got = s.addrs[TOP] => Under(Addrs(f, t), t.ent, f, t.got)
           /\ \A c \in Block, i \in Index : s.ent[c][i] # 0 => t.ent[c][i] = s.ent[c][i]
                                            \/ ~Under(Addrs(f, s), s.ent, f, c)
           /\ Logs(s, t, s.got, t.got)
  <1> DEFINE t == InBlock(s, j)
             a == s.got
  <1>0. /\ Addrs(f, s)[f] = s.addrs /\ a \in Block /\ a # 0
    BY DEF Addrs, Under, Block
  <1>1. CASE s.ent[a][j] # 0
    <2>1. t = [addrs |-> s.addrs, ent |-> s.ent, used |-> s.used,
               logged |-> s.logged, got |-> s.ent[a][j], ok |-> s.ok]
      BY <1>1 DEF InBlock, StateOK, IsState
    <2> HIDE DEF t
    <2>2. /\ t.addrs = s.addrs /\ t.ent = s.ent /\ t.used = s.used /\ t.ok = s.ok
          /\ t.got = s.ent[a][j] /\ t.logged = s.logged /\ IsState(t)
      <3>1. /\ t.addrs = s.addrs /\ t.ent = s.ent /\ t.used = s.used /\ t.ok = s.ok
            /\ t.got = s.ent[a][j] /\ t.logged = s.logged
        BY <2>1
      <3> QED
        BY <2>1, <3>1 DEF IsState
    <2>3. Addrs(f, t) = Addrs(f, s)
      BY <2>2 DEF Addrs
    <2>4. StateOK(f, t)
      BY <2>2, <2>3 DEF StateOK
    <2>5. Onward(f, s, t)
      BY <2>2, <2>3 DEF Onward, Extends
    <2>6. t.got \in Block
      BY <1>0, <1>1, <2>2, Sizes DEF StateOK, Block, Maps
    <2>7. a = s.addrs[TOP] => Under(Addrs(f, t), t.ent, f, t.got)
      BY <1>0, <2>2, <2>3, <2>6 DEF Under
    <2>8. Logs(s, t, a, t.got)
      BY <2>2 DEF Logs
    <2> QED
      BY <2>2, <2>4, <2>5, <2>6, <2>7, <2>8 DEF t
  <1>2. CASE s.ent[a][j] = 0
    <2> DEFINE u == Balloc(s)
    <2>1. t = IF u.ok THEN [u EXCEPT !.ent[a][j] = u.got, !.logged = @ \cup {Data(a)}] ELSE u
      BY <1>2 DEF InBlock, StateOK
    <2>2. u.ok
      BY <2>1
    <2>3. PICK b \in Block \ s.used :
             u = [addrs |-> s.addrs, ent |-> [s.ent EXCEPT ![b] = Zeros],
                  used |-> s.used \cup {b}, logged |-> WithNew(s, b), got |-> b, ok |-> TRUE]
      BY <2>2, BallocFinds DEF StateOK
    <2> HIDE DEF u
    <2>4. t = [u EXCEPT !.ent[a][j] = u.got, !.logged = @ \cup {Data(a)}]
      BY <2>1, <2>2
    <2>5. t = [addrs |-> s.addrs, ent |-> [[s.ent EXCEPT ![b] = Zeros] EXCEPT ![a][j] = b],
               used |-> s.used \cup {b}, logged |-> WithNew(s, b) \cup {Data(a)},
               got |-> b, ok |-> TRUE]
      BY <2>3, <2>4
    <2> HIDE DEF t
    <2>6. /\ t.addrs = s.addrs /\ t.ent = [[s.ent EXCEPT ![b] = Zeros] EXCEPT ![a][j] = b]
          /\ t.used = s.used \cup {b} /\ t.got = b /\ t.ok /\ IsState(t)
      BY <2>5 DEF IsState
    <2>6a. Logs(s, t, a, t.got)
      <3>1. t.logged = WithNew(s, b) \cup {Data(a)}
        BY <2>5
      <3> QED
        BY <2>6, <3>1 DEF WithNew, Logs, IsBitmap
    <2>7. b \in 0 .. NBLOCK /\ Zeros \in [Index -> 0 .. NBLOCK]
      BY Sizes DEF Block, Zeros
    <2> DEFINE e == [s.ent EXCEPT ![b] = Zeros]
    <2>8. e \in [Block -> [Index -> 0 .. NBLOCK]]
      BY <2>7 DEF StateOK, Maps
    <2>9. t.ent = [e EXCEPT ![a][j] = b]
      BY <2>6
    <2>10. \A c \in Block, i \in Index : e[c][i] = IF c = b THEN 0 ELSE s.ent[c][i]
      BY DEF StateOK, Maps, Zeros
    <2> HIDE DEF e
    <2>11. t.ent \in [Block -> [Index -> 0 .. NBLOCK]]
      <3>1. [e[a] EXCEPT ![j] = b] \in [Index -> 0 .. NBLOCK]
        BY <1>0, <2>7, <2>8
      <3> QED
        BY <2>8, <2>9, <3>1
    <2>12. \A c \in Block, i \in Index :
             t.ent[c][i] = IF c = a /\ i = j THEN b ELSE e[c][i]
      BY <1>0, <2>8, <2>9
    <2>13. Addrs(f, t) = Addrs(f, s)
      BY <2>6 DEF Addrs
    <2>14. Maps(Addrs(f, s), s.ent) /\ Maps(Addrs(f, s), t.ent)
           /\ Exact(Addrs(f, s), s.ent, s.used) /\ s.addrs \in [Slot -> 0 .. NBLOCK]
      BY <2>11 DEF StateOK, Maps
    <2>15. \A c \in Block, i \in Index :
             t.ent[c][i] = IF c = a /\ i = j THEN b ELSE IF c = b THEN 0 ELSE s.ent[c][i]
      BY <2>10, <2>12
    <2>16. Exact(Addrs(f, s), t.ent, s.used \cup {b})
           /\ Extends(Addrs(f, s), s.ent, Addrs(f, s), t.ent)
      <3> DEFINE A == Addrs(f, s)
                 E == s.ent
                 E2 == t.ent
                 U == s.used
      <3>1. Maps(A, E) /\ Maps(A, E2) /\ Exact(A, E, U) /\ E[a][j] = 0 /\ b \notin U
            /\ Under(A, E, f, a)
        BY <1>2, <2>14
      <3>2. PlaceGets(E, E2, a, j, b)
        BY <2>15 DEF PlaceGets
      <3> HIDE DEF A, E, E2, U, a
      <3>3. Exact(A, E2, U \cup {b}) /\ Extends(A, E, A, E2)
        BY <3>1, <3>2, AttachedToBlock
      <3> QED
        BY <3>3 DEF A, E, E2, U
    <2>17. StateOK(f, t) /\ Onward(f, s, t)
      BY <2>6, <2>13, <2>14, <2>16 DEF StateOK, Onward
    <2>18. t.ent[a][j] = b
      BY <1>0, <2>15
    <2>19. a = s.addrs[TOP] => Under(Addrs(f, t), t.ent, f, b)
      BY <1>0, <2>13, <2>18 DEF Under
    <2>20. \A c \in Block : Under(Addrs(f, s), s.ent, f, c) => c # b
      BY <2>14, InUse
    <2>21. \A c \in Block, i \in Index : s.ent[c][i] # 0 => t.ent[c][i] = s.ent[c][i]
                                            \/ ~Under(Addrs(f, s), s.ent, f, c)
      BY <1>2, <2>15, <2>20
    <2> QED
      BY <2>6, <2>6a, <2>17, <2>18, <2>19, <2>21 DEF t
  <1> QED
    BY <1>1, <1>2

\* bmap() maps the block, and nothing else moves.
LEMMA BmapStep ==
    ASSUME NEW f \in File, Maps(LA, LE), Exact(LA, LE, used), used \subseteq Block,
           NEW bn \in 0 .. MAXFILE - 1, Bmap(LiveState(f), bn).ok
    PROVE  LET t == Bmap(LiveState(f), bn) IN
           /\ StateOK(f, t)
           /\ Extends(LA, LE, Addrs(f, t), t.ent)
           /\ NthOf(Addrs(f, t), t.ent, f, bn) # 0
           /\ OnWay(Addrs(f, t), t.ent, f, bn, t.got)
           /\ \A x \in t.logged : \/ x \in op[f].logged \/ IsBitmap(x)
                                  \/ Along(Addrs(f, t), t.ent, f, bn, x)
  <1> DEFINE s == LiveState(f)
             w == Where(bn)
             t1 == InInode(s, w[1])
             t2 == InBlock(t1, w[2])
             t3 == InBlock(t2, w[3])
             t == Bmap(s, bn)
  <1>0. /\ LA \in [File -> [Slot -> 0 .. NBLOCK]] /\ TOP \in Slot
        /\ NDIRECT .. TOP - 1 \subseteq Slot /\ NDIRECT .. TOP - 1 \subseteq NDIRECT .. TOP
        /\ TOP \in NDIRECT .. TOP /\ 0 \notin Block
    BY Sizes DEF Maps, Slot, Block
  <1>1. /\ IsState(s) /\ s.ok /\ s.addrs = LA[f] /\ s.ent = LE /\ s.used = used
        /\ s.logged = op[f].logged
    BY DEF LiveState, IsState
  <1>2. Addrs(f, s) = LA
    BY <1>0, <1>1 DEF Addrs
  <1>3. StateOK(f, s)
    BY <1>0, <1>1, <1>2 DEF StateOK
  <1>4. /\ Len(w) = 1 => w[1] \in Slot
        /\ Len(w) = 2 => w[1] \in Slot /\ w[1] \in NDIRECT .. TOP /\ w[2] \in Index
        /\ Len(w) = 3 => w[1] = TOP /\ w[2] \in Index /\ w[3] \in Index
        /\ Len(w) \in {1, 2, 3}
    BY <1>0, Lengths
  <1>5. /\ Len(w) = 1 => t = t1
        /\ Len(w) = 2 => t = t2
        /\ Len(w) = 3 => t = t3
    BY DEF Bmap
  <1>6. \A r, j : InBlock(r, j).ok => r.ok
    BY DEF InBlock
  <1> HIDE DEF s, w, t
  <1>7. CASE Len(w) = 1
    <2>1. StateOK(f, t) /\ Onward(f, s, t) /\ t.got \in Block /\ t.got = t.addrs[w[1]]
          /\ Logs(s, t, t.got, t.got)
      BY <1>0, <1>3, <1>4, <1>5, <1>7, InInodeStep DEF t, s
    <2>2. NthOf(Addrs(f, t), t.ent, f, bn) = Addrs(f, t)[f][w[1]]
      BY <1>7 DEF NthOf, w
    <2>3. Addrs(f, t)[f] = t.addrs
      BY <1>0 DEF Addrs
    <2>4. t.got # 0
      BY <2>1 DEF Block
    <2>5. OnWay(Addrs(f, t), t.ent, f, bn, t.got)
      BY <2>1, <2>2, <2>3 DEF OnWay
    <2>6. \A x \in t.logged : \/ x \in op[f].logged \/ IsBitmap(x)
                              \/ Along(Addrs(f, t), t.ent, f, bn, x)
      BY <1>1, <2>1, <2>5 DEF Along, Logs
    <2> QED
      BY <1>1, <1>2, <2>1, <2>2, <2>3, <2>4, <2>5, <2>6 DEF Onward, t, s
  <1>8. CASE Len(w) = 2
    <2>1. t2.ok /\ t1.ok
      BY <1>5, <1>6, <1>8 DEF t, s
    <2>2. /\ StateOK(f, t1) /\ Onward(f, s, t1)
          /\ t1.got \in Block /\ t1.got = t1.addrs[w[1]]
          /\ Under(Addrs(f, t1), t1.ent, f, t1.got)
          /\ Logs(s, t1, t1.got, t1.got)
      BY <1>0, <1>3, <1>4, <1>8, <2>1, InInodeStep
    <2> HIDE DEF t1
    <2>3. /\ StateOK(f, t2) /\ Onward(f, t1, t2) /\ t2.addrs = t1.addrs
          /\ t2.got \in Block /\ t2.got = t2.ent[t1.got][w[2]]
          /\ Logs(t1, t2, t1.got, t2.got)
      BY <1>0, <1>4, <1>8, <2>1, <2>2, InBlockStep
    <2> HIDE DEF t2
    <2>4. Onward(f, s, t2)
      BY <2>2, <2>3, ExtendsTwice DEF Onward
    <2>5. Addrs(f, t2)[f] = t2.addrs
      BY <1>0 DEF Addrs
    <2>6. t1.got # 0 /\ t2.got # 0
      BY <2>2, <2>3 DEF Block
    <2>7. NthOf(Addrs(f, t2), t2.ent, f, bn) = t2.got
      BY <1>8, <2>2, <2>3, <2>5, <2>6 DEF NthOf, w
    <2>8. \A b \in {t1.got, t2.got} : OnWay(Addrs(f, t2), t2.ent, f, bn, b)
      <3>1. OnWay(Addrs(f, t2), t2.ent, f, bn, t2.got)
        BY <2>3, <2>7 DEF OnWay
      <3>2. OnWay(Addrs(f, t2), t2.ent, f, bn, t1.got)
        BY <1>8, <2>2, <2>3, <2>5 DEF OnWay, w
      <3> QED
        BY <3>1, <3>2
    <2>9. \A x \in t2.logged : \/ x \in op[f].logged \/ IsBitmap(x)
                               \/ Along(Addrs(f, t2), t2.ent, f, bn, x)
      BY <1>1, <2>2, <2>3, <2>8 DEF Along, Logs
    <2> QED
      BY <1>1, <1>2, <1>5, <1>8, <2>3, <2>4, <2>6, <2>7, <2>8, <2>9 DEF Onward, t, s
  <1>9. CASE Len(w) = 3
    <2>1. t3.ok /\ t2.ok /\ t1.ok
      BY <1>5, <1>6, <1>9 DEF t, s
    <2>2. /\ StateOK(f, t1) /\ Onward(f, s, t1)
          /\ t1.got \in Block /\ t1.got = t1.addrs[TOP]
          /\ Under(Addrs(f, t1), t1.ent, f, t1.got)
          /\ Logs(s, t1, t1.got, t1.got)
      BY <1>0, <1>3, <1>4, <1>9, <2>1, InInodeStep
    <2> HIDE DEF t1
    <2>3. /\ StateOK(f, t2) /\ Onward(f, t1, t2) /\ t2.addrs = t1.addrs
          /\ t2.got \in Block /\ t2.got = t2.ent[t1.got][w[2]]
          /\ Under(Addrs(f, t2), t2.ent, f, t2.got)
          /\ Logs(t1, t2, t1.got, t2.got)
      BY <1>0, <1>4, <1>9, <2>1, <2>2, InBlockStep
    <2> HIDE DEF t2
    <2>4. /\ StateOK(f, t3) /\ Onward(f, t2, t3) /\ t3.addrs = t2.addrs
          /\ t3.got \in Block /\ t3.got = t3.ent[t2.got][w[3]]
          /\ \A c \in Block, i \in Index : t2.ent[c][i] # 0 =>
               t3.ent[c][i] = t2.ent[c][i] \/ ~Under(Addrs(f, t2), t2.ent, f, c)
          /\ Logs(t2, t3, t2.got, t3.got)
      BY <1>0, <1>4, <1>9, <2>1, <2>3, InBlockStep
    <2> HIDE DEF t3
    <2>5. Onward(f, s, t3)
      <3>1. Onward(f, s, t2)
        BY <2>2, <2>3, ExtendsTwice DEF Onward
      <3> QED
        BY <2>4, <3>1, ExtendsTwice DEF Onward
    <2>6. Addrs(f, t3)[f] = t3.addrs /\ Addrs(f, t2)[f] = t2.addrs
      BY <1>0 DEF Addrs
    <2>7. t1.got # 0 /\ t2.got # 0 /\ t3.got # 0
      BY <1>0, <2>2, <2>3, <2>4
    <2>8. t3.addrs[TOP] = t1.got
      BY <2>2, <2>3, <2>4
    <2>9. Under(Addrs(f, t2), t2.ent, f, t1.got)
      BY <1>0, <2>2, <2>3, <2>6 DEF Under
    <2>10. t3.ent[t1.got][w[2]] = t2.got
      BY <1>4, <1>9, <2>2, <2>3, <2>4, <2>7, <2>9
    <2>11. NthOf(Addrs(f, t3), t3.ent, f, bn) = t3.got
      BY <1>4, <1>9, <2>4, <2>6, <2>7, <2>8, <2>10 DEF NthOf, w
    <2>12. \A b \in {t1.got, t2.got, t3.got} : OnWay(Addrs(f, t3), t3.ent, f, bn, b)
      <3>1. OnWay(Addrs(f, t3), t3.ent, f, bn, t3.got)
        BY <2>4, <2>11 DEF OnWay
      <3>2. OnWay(Addrs(f, t3), t3.ent, f, bn, t1.got)
        BY <1>4, <1>9, <2>2, <2>6, <2>8 DEF OnWay, w
      <3>3. OnWay(Addrs(f, t3), t3.ent, f, bn, t2.got)
        BY <1>4, <1>9, <2>3, <2>6, <2>7, <2>8, <2>10 DEF OnWay, w
      <3> QED
        BY <3>1, <3>2, <3>3
    <2>13. \A x \in t3.logged : \/ x \in op[f].logged \/ IsBitmap(x)
                                \/ Along(Addrs(f, t3), t3.ent, f, bn, x)
      <3>1. ASSUME NEW x \in t3.logged
            PROVE  x \in op[f].logged \/ IsBitmap(x)
                   \/ \E b \in {t1.got, t2.got, t3.got} : x = Data(b)
        BY <1>1, <2>2, <2>3, <2>4 DEF Logs
      <3> QED
        BY <2>12, <3>1 DEF Along
    <2> QED
      BY <1>1, <1>2, <1>5, <1>9, <2>4, <2>5, <2>7, <2>11, <2>12, <2>13 DEF Onward, t, s
  <1> QED
    BY <1>4, <1>7, <1>8, <1>9

-----------------------------------------------------------------------------
(***************************************************************************)
(* bfree()                                                                 *)
(***************************************************************************)

\* A place belongs to one file.
LEMMA Apart ==
    ASSUME NEW A, NEW E, NEW U, Maps(A, E), Exact(A, E, U), NEW f \in File, NEW g \in File,
           NEW n, NEW i, Belongs(A, E, f, n, i), Belongs(A, E, g, n, i)
    PROVE  f = g
  <1>1. CASE n \in File
    BY <1>1, Places
  <1>2. CASE n \notin File
    BY <1>2, Places, SoleOwner
  <1> QED
    BY <1>1, <1>2

\* An indirect block stays one if nothing moves.
LEMMA UnderStays ==
    ASSUME NEW A, NEW E, NEW A2, NEW E2, Maps(A, E), Extends(A, E, A2, E2),
           NEW f \in File, NEW a, Under(A, E, f, a)
    PROVE  Under(A2, E2, f, a)
  <1>0. /\ f \in Node /\ Slot \subseteq Pos /\ Index \subseteq Pos /\ Block \subseteq Node
        /\ a \in Block /\ TOP \in Slot
    BY Sizes DEF Node, Pos, Under, Slot
  <1>1. CASE \E k \in NDIRECT .. TOP : /\ A[f][k] = a /\ k \in Slot
                                       /\ At(A, E, f, k) /\ Child(A, E, f, k) = a
    <2>1. PICK k \in NDIRECT .. TOP : /\ A[f][k] = a /\ k \in Slot
                                      /\ At(A, E, f, k) /\ Child(A, E, f, k) = a
      BY <1>1
    <2>2. Child(A2, E2, f, k) = a
      BY <1>0, <2>1 DEF Extends
    <2> QED
      BY <1>0, <2>1, <2>2 DEF Under, Child
  <1>2. CASE \E j \in Index : LET d == A[f][TOP] IN
                 /\ d \in Block /\ E[d][j] = a /\ Under(A, E, f, d)
                 /\ At(A, E, d, j) /\ Child(A, E, d, j) = a
    <2> DEFINE d == A[f][TOP]
    <2>1. PICK j \in Index : /\ d \in Block /\ At(A, E, d, j) /\ Child(A, E, d, j) = a
      BY <1>2
    <2>2. d # 0 /\ d \notin File
      BY <2>1, Sizes DEF Block
    <2>3. Child(A2, E2, d, j) = a
      BY <1>0, <2>1 DEF Extends
    <2>4. At(A, E, f, TOP) /\ Child(A, E, f, TOP) = d
      BY <1>0, <2>2 DEF At, Belongs, Child
    <2>5. Child(A2, E2, f, TOP) = d
      BY <1>0, <2>4 DEF Extends
    <2> QED
      BY <1>0, <2>2, <2>3, <2>5 DEF Under, Child
  <1> QED
    BY <1>1, <1>2, UnderIsAt

\* Place i of the node n loses the block b, of which nothing else is said.
Loses(A, E, A2, E2, n, i, b) ==
    /\ \A g \in File, k \in Slot : A2[g][k] = IF g = n /\ k = i THEN 0 ELSE A[g][k]
    /\ \A c \in Block \ {b}, j \in Index : E2[c][j] = IF c = n /\ j = i THEN 0 ELSE E[c][j]

\* Nothing is in the places of block b if it has any.
Bare(A, E, f, b) == Under(A, E, f, b) => \A j \in Index : E[b][j] = 0

\* A block with nothing under it leaves its place, and nothing else moves.
LEMMA Detached ==
    ASSUME NEW A, NEW E, NEW A2, NEW E2, NEW U, Maps(A, E), Maps(A2, E2), Exact(A, E, U),
           NEW f \in File, NEW n, NEW i, Belongs(A, E, f, n, i),
           NEW b \in Block, Child(A, E, n, i) = b, Bare(A, E, f, b),
           Loses(A, E, A2, E2, n, i, b)
    PROVE  /\ Exact(A2, E2, U \ {b})
           /\ \A g \in File : \A c : Under(A, E, g, c) /\ c # b => Under(A2, E2, g, c)
           /\ ~(\E g \in File : g # f /\ Under(A, E, g, b)) /\ n # b
           /\ \A g \in File \ {f} : Keeps(A, E, A2, E2, g)
  <1> USE DEF Loses
  <1>0. /\ n \in Node /\ i \in Pos /\ b # 0 /\ TOP \in Slot
        /\ Slot \subseteq Pos /\ Index \subseteq Pos /\ Block \subseteq Node /\ File \subseteq Node
        /\ \A l \in NDIRECT .. TOP : l \in Slot
        /\ n \in File => n = f
    BY Places, Sizes DEF Node, Pos, Slot, Block
  <1>1. At(A, E, n, i)
    BY <1>0 DEF At
  <1>2. \A m \in Node, j \in Pos : At(A, E, m, j) /\ Child(A, E, m, j) = b => m = n /\ j = i
    BY <1>0, <1>1 DEF Exact
  <1>3. ASSUME NEW g \in File, Under(A, E, g, b) PROVE g = f
    <2>1. CASE \E k \in Slot : At(A, E, g, k) /\ Child(A, E, g, k) = b
      BY <1>0, <1>2, <2>1
    <2>2. CASE \E j \in Index : LET d == A[g][TOP] IN
                 /\ Under(A, E, g, d) /\ At(A, E, d, j) /\ Child(A, E, d, j) = b
      <3> DEFINE d == A[g][TOP]
      <3>1. PICK j \in Index : /\ Under(A, E, g, d) /\ At(A, E, d, j) /\ Child(A, E, d, j) = b
        BY <2>2
      <3>2. d \in Block
        BY <3>1 DEF Under
      <3>3. d = n /\ j = i
        BY <1>0, <1>2, <3>1, <3>2
      <3>4. Belongs(A, E, g, n, i)
        BY <3>1, <3>3 DEF Belongs
      <3> QED
        BY <3>4, Apart
    <2> QED
      BY <1>3, <2>1, <2>2, UnderIsAt
  <1>4. n # b
    <2>1. SUFFICES ASSUME n = b PROVE FALSE
      OBVIOUS
    <2>2. n \notin File /\ Under(A, E, f, n) /\ i \in Index
      BY <2>1, Sizes DEF Belongs
    <2>3. Child(A, E, n, i) = 0
      BY <2>1, <2>2 DEF Bare, Child
    <2> QED
      BY <1>0, <2>3
  <1>5. ASSUME NEW g \in File, NEW c, Under(A, E, g, c), c # b PROVE Under(A2, E2, g, c)
    <2>1. CASE \E k \in NDIRECT .. TOP : A[g][k] = c
      <3>1. PICK k \in NDIRECT .. TOP : A[g][k] = c
        BY <2>1
      <3>2. ~(g = n /\ k = i)
        BY <1>5, <3>1 DEF Child
      <3>3. A2[g][k] = c
        BY <1>0, <3>1, <3>2
      <3> QED
        BY <1>5, <3>3 DEF Under
    <2>2. CASE A[g][TOP] # 0 /\ \E j \in Index : E[A[g][TOP]][j] = c
      <3> DEFINE d == A[g][TOP]
      <3>1. PICK j \in Index : E[d][j] = c
        BY <2>2
      <3>2. d \in Block /\ d \notin File /\ c # 0
        <4>1. c # 0
          BY <1>5 DEF Under, Block
        <4>2. d \in 0 .. NBLOCK
          BY <1>0, <1>5 DEF Maps
        <4> HIDE DEF d
        <4>3. d # 0
          BY <2>2 DEF d
        <4> QED
          BY <4>1, <4>2, <4>3, Sizes DEF Block
      <3>3. Under(A, E, g, d)
        BY <1>0, <3>2, Sizes DEF Under
      <3>4. d # b
        <4>1. SUFFICES ASSUME d = b PROVE FALSE
          OBVIOUS
        <4>2. Under(A, E, f, b)
          BY <1>3, <3>3, <4>1
        <4>3. E[b][j] = 0
          BY <4>2 DEF Bare
        <4> QED
          BY <3>1, <3>2, <4>1, <4>3
      <3>5. ~(g = n /\ TOP = i)
        BY <3>4 DEF Child
      <3>6. A2[g][TOP] = d
        BY <1>0, <3>5
      <3>7. ~(d = n /\ j = i)
        BY <1>5, <3>1, <3>2 DEF Child
      <3>8. E2[d][j] = c
        BY <3>1, <3>2, <3>4, <3>7
      <3> QED
        BY <1>5, <3>2, <3>6, <3>8 DEF Under, Block
    <2> QED
      BY <1>5, <2>1, <2>2 DEF Under
  <1>6. ASSUME NEW g \in File, NEW c, Under(A2, E2, g, c)
        PROVE  Under(A, E, g, c) /\ c # b
    <2>0. c \in Block /\ c # 0
      BY <1>6 DEF Under, Block
    <2>1. CASE \E k \in NDIRECT .. TOP : A2[g][k] = c
      <3>1. PICK k \in NDIRECT .. TOP : A2[g][k] = c
        BY <2>1
      <3>2. k \in Slot /\ A[g][k] = c /\ ~(g = n /\ k = i)
        BY <1>0, <2>0, <3>1
      <3>3. At(A, E, g, k) /\ Child(A, E, g, k) = c
        BY <2>0, <3>2 DEF At, Belongs, Child
      <3>4. c # b
        BY <1>0, <1>2, <3>2, <3>3
      <3> QED
        BY <2>0, <3>2, <3>4 DEF Under
    <2>2. CASE A2[g][TOP] # 0 /\ \E j \in Index : E2[A2[g][TOP]][j] = c
      <3> DEFINE d == A2[g][TOP]
      <3>1. PICK j \in Index : E2[d][j] = c
        BY <2>2
      <3>2. ~(g = n /\ TOP = i) /\ d = A[g][TOP] /\ d # 0
        BY <1>0, <2>2
      <3>3. d \in Block /\ d \notin File
        BY <1>0, <3>2, Sizes DEF Maps, Block
      <3>4. At(A, E, g, TOP) /\ Child(A, E, g, TOP) = d
        BY <1>0, <3>2 DEF At, Belongs, Child
      <3>5. d # b
        BY <1>0, <1>2, <3>2, <3>4
      <3>6. E[d][j] = c /\ ~(d = n /\ j = i)
        BY <2>0, <3>1, <3>3, <3>5
      <3>7. Under(A, E, g, d)
        BY <1>0, <3>2, <3>3, Sizes DEF Under
      <3>8. At(A, E, d, j) /\ Child(A, E, d, j) = c
        BY <2>0, <3>3, <3>6, <3>7 DEF At, Belongs, Child
      <3>9. c # b
        BY <1>0, <1>2, <3>3, <3>6, <3>8
      <3> QED
        BY <2>0, <3>2, <3>6, <3>9 DEF Under
    <2> QED
      BY <1>6, <2>1, <2>2 DEF Under
  <1>7. ASSUME NEW m \in Node, NEW j \in Pos, At(A2, E2, m, j)
        PROVE  /\ At(A, E, m, j) /\ ~(m = n /\ j = i)
               /\ Child(A2, E2, m, j) = Child(A, E, m, j)
    <2>1. PICK g \in File : Belongs(A2, E2, g, m, j) /\ Child(A2, E2, m, j) # 0
      BY <1>7 DEF At
    <2>2. CASE m = g /\ j \in Slot
      BY <2>1, <2>2 DEF At, Belongs, Child
    <2>3. CASE Under(A2, E2, g, m) /\ j \in Index
      <3>1. Under(A, E, g, m) /\ m # b /\ m \in Block /\ m \notin File
        BY <1>6, <2>3, Sizes DEF Under
      <3>2. Child(A2, E2, m, j) = E2[m][j] /\ Child(A, E, m, j) = E[m][j]
        BY <3>1 DEF Child
      <3>3. ~(m = n /\ j = i) /\ E2[m][j] = E[m][j]
        BY <2>1, <2>3, <3>1, <3>2
      <3> QED
        BY <2>1, <2>3, <3>1, <3>2, <3>3 DEF At, Belongs
    <2> QED
      BY <2>1, <2>2, <2>3 DEF Belongs
  <1>8. ASSUME NEW m \in Node, NEW j \in Pos, At(A, E, m, j), ~(m = n /\ j = i)
        PROVE  At(A2, E2, m, j) /\ Child(A2, E2, m, j) = Child(A, E, m, j)
    <2>1. PICK g \in File : Belongs(A, E, g, m, j) /\ Child(A, E, m, j) # 0
      BY <1>8 DEF At
    <2>2. CASE m = g /\ j \in Slot
      BY <1>8, <2>1, <2>2 DEF At, Belongs, Child
    <2>3. CASE Under(A, E, g, m) /\ j \in Index
      <3>1. m \in Block /\ m \notin File
        BY <2>3, Sizes DEF Under
      <3>2. Child(A2, E2, m, j) = E2[m][j] /\ Child(A, E, m, j) = E[m][j]
        BY <3>1 DEF Child
      <3>3. m # b
        BY <1>3, <2>1, <2>3, <3>2 DEF Bare
      <3>4. E2[m][j] = E[m][j]
        BY <1>8, <2>3, <3>1, <3>3
      <3>5. Under(A2, E2, g, m)
        BY <1>5, <2>3, <3>3
      <3> QED
        BY <2>1, <2>3, <3>2, <3>4, <3>5 DEF At, Belongs
    <2> QED
      BY <2>1, <2>2, <2>3 DEF Belongs
  <1>9. Exact(A2, E2, U \ {b})
    <2>1. ASSUME NEW m \in Node, NEW l \in Node, NEW j \in Pos, NEW k \in Pos,
                 At(A2, E2, m, j), At(A2, E2, l, k),
                 Child(A2, E2, m, j) = Child(A2, E2, l, k)
          PROVE  m = l /\ j = k
      BY <1>7, <2>1 DEF Exact
    <2>2. ASSUME NEW m \in Node, NEW j \in Pos, At(A2, E2, m, j)
          PROVE  Child(A2, E2, m, j) \in U \ {b}
      BY <1>2, <1>7, <2>2 DEF Exact
    <2>3. ASSUME NEW u \in U \ {b}
          PROVE  \E m \in Node, j \in Pos : At(A2, E2, m, j) /\ Child(A2, E2, m, j) = u
      <3>1. PICK m \in Node, j \in Pos : At(A, E, m, j) /\ Child(A, E, m, j) = u
        BY DEF Exact
      <3>2. ~(m = n /\ j = i)
        BY <3>1
      <3> QED
        BY <1>8, <3>1, <3>2
    <2> QED
      BY <2>1, <2>2, <2>3 DEF Exact
  <1>10. ASSUME NEW g \in File \ {f} PROVE Keeps(A, E, A2, E2, g)
    <2>1. ASSUME NEW m \in Node, NEW j \in Pos, Belongs(A, E, g, m, j), Child(A, E, m, j) # 0
          PROVE  Child(A2, E2, m, j) = Child(A, E, m, j)
      <3>1. At(A, E, m, j)
        BY <2>1 DEF At
      <3>2. ~(m = n /\ j = i)
        BY <2>1, Apart
      <3> QED
        BY <1>8, <3>1, <3>2
    <2> QED
      BY <2>1 DEF Keeps
  <1> QED
    BY <1>3, <1>4, <1>5, <1>9, <1>10

-----------------------------------------------------------------------------
(***************************************************************************)
(* The map without the blocks that itrunc() has just freed                 *)
(***************************************************************************)

\* It is a map.
LEMMA LiveMaps ==
    /\ Maps(addrs, ent) => Maps(LA, LE)
    /\ Maps(addrs', ent') => Maps(LA', LE')
    /\ Less(ent) = LE
BY Sizes DEF Maps, LA, LE, Addr, Entry, Less, Dead

\* While nothing is freed it is the map.
LEMMA NoneFreed ==
    ASSUME Maps(addrs, ent), \A f \in File : freed[f] = NoPlace
    PROVE  LA = addrs /\ LE = ent
  <1>1. \A f \in File : \A x, y : freed[f] # <<x, y>>
    BY DEF NoPlace
  <1>2. LA = [f \in File |-> [k \in Slot |-> addrs[f][k]]]
    BY <1>1 DEF LA, Addr
  <1>3. LE = [b \in Block |-> [j \in Index |-> ent[b][j]]]
    BY <1>1 DEF LE, Entry
  <1> QED
    BY <1>2, <1>3 DEF Maps

\* A file that is not being truncated, or has cleared what it has freed, has no
\* freed block in its places.
LEMMA NotDead ==
    ASSUME FreedOK, Maps(LA, LE), NEW f \in File, freed[f] = NoPlace,
           NEW A, NEW E, NEW U, Maps(A, E), Exact(A, E, U), Extends(LA, LE, A, E),
           NEW c, Under(A, E, f, c)
    PROVE  \A j : ~Dead(c, j)
  <1> SUFFICES ASSUME NEW j, NEW g \in File, freed[g] = <<c, j>> PROVE FALSE
    BY DEF Dead
  <1>1. g # f /\ freed[g] # NoPlace
    BY DEF NoPlace
  <1>2. PICK n \in Node, i \in Pos : <<c, j>> = <<n, i>> /\ Belongs(LA, LE, g, n, i)
    BY <1>1 DEF FreedOK, FreedIn
  <1>3. Belongs(LA, LE, g, c, j) /\ c \notin File
    BY <1>2, Sizes DEF Under
  <1>4. Under(LA, LE, g, c)
    BY <1>3 DEF Belongs
  <1>5. Under(A, E, g, c)
    BY <1>4, UnderStays
  <1> QED
    BY <1>1, <1>5, SoleOwner

\* The state of bmap() in the map without freed blocks.
Shown(s) == [addrs |-> s.addrs, ent |-> Less(s.ent), used |-> s.used,
             logged |-> s.logged, got |-> s.got, ok |-> s.ok]

IsEnt(E) == E \in [Block -> [Index -> 0 .. NBLOCK]]

\* What is shown of a block that has been zeroed.
LEMMA ShownZeros ==
    ASSUME NEW E, IsEnt(E), NEW b \in Block
    PROVE  Less([E EXCEPT ![b] = Zeros]) = [Less(E) EXCEPT ![b] = Zeros]
           /\ IsEnt([E EXCEPT ![b] = Zeros])
  <1>1. Zeros \in [Index -> 0 .. NBLOCK]
    BY Sizes DEF Zeros
  <1>2. IsEnt([E EXCEPT ![b] = Zeros])
    BY <1>1 DEF IsEnt
  <1>3. PICK F : F = [E EXCEPT ![b] = Zeros]
    OBVIOUS
  <1>4. \A c \in Block, j \in Index : F[c][j] = IF c = b THEN 0 ELSE E[c][j]
    BY <1>3 DEF IsEnt, Zeros
  <1>5. \A c \in Block : Less(F)[c] = [j \in Index |-> IF Dead(c, j) THEN 0 ELSE F[c][j]]
    BY DEF Less
  <1>6. \A c \in Block : Less(E)[c] = [j \in Index |-> IF Dead(c, j) THEN 0 ELSE E[c][j]]
    BY DEF Less
  <1>7. Less(F)[b] = Zeros
    <2>1. \A j \in Index : F[b][j] = 0
      BY <1>4
    <2>2. Less(F)[b] = [j \in Index |-> IF Dead(b, j) THEN 0 ELSE F[b][j]]
      BY <1>5
    <2>3. [j \in Index |-> IF Dead(b, j) THEN 0 ELSE F[b][j]] = [j \in Index |-> 0]
      BY <2>1
    <2> QED
      BY <2>2, <2>3 DEF Zeros
  <1>8. ASSUME NEW c \in Block, c # b PROVE Less(F)[c] = Less(E)[c]
    <2>1. F[c] = E[c]
      BY <1>3, <1>8 DEF IsEnt
    <2>2. Less(F)[c] = [j \in Index |-> IF Dead(c, j) THEN 0 ELSE F[c][j]]
      BY <1>5
    <2>3. Less(E)[c] = [j \in Index |-> IF Dead(c, j) THEN 0 ELSE E[c][j]]
      BY <1>6
    <2> QED
      BY <2>1, <2>2, <2>3
  <1>9. Less(F) = [c \in Block |-> Less(F)[c]] /\ Less(E) = [c \in Block |-> Less(E)[c]]
    BY DEF Less
  <1>10. Less(F) = [Less(E) EXCEPT ![b] = Zeros]
    <2> DEFINE X == Less(F)
               Y == Less(E)
    <2> HIDE DEF X, Y
    <2>1. X = [c \in Block |-> X[c]] /\ Y = [c \in Block |-> Y[c]]
      BY <1>9 DEF X, Y
    <2>2. X[b] = Zeros /\ \A c \in Block : c # b => X[c] = Y[c]
      BY <1>7, <1>8 DEF X, Y
    <2>3. X = [Y EXCEPT ![b] = Zeros]
      BY <2>1, <2>2
    <2> QED
      BY <2>3 DEF X, Y
  <1> QED
    BY <1>2, <1>3, <1>10

\* What is shown of a block with an entry that has been set.
LEMMA ShownEntry ==
    ASSUME NEW E, IsEnt(E), NEW a \in Block, NEW j \in Index, NEW b \in 0 .. NBLOCK,
           ~Dead(a, j)
    PROVE  Less([E EXCEPT ![a][j] = b]) = [Less(E) EXCEPT ![a][j] = b]
           /\ IsEnt([E EXCEPT ![a][j] = b])
  <1>1. PICK F : F = [E EXCEPT ![a][j] = b]
    OBVIOUS
  <1>2. F \in [Block -> [Index -> 0 .. NBLOCK]]
    BY <1>1 DEF IsEnt
  <1>3. \A c \in Block, i \in Index : F[c][i] = IF c = a /\ i = j THEN b ELSE E[c][i]
    BY <1>1 DEF IsEnt
  <1>4. PICK G : G = [Less(E) EXCEPT ![a][j] = b]
    OBVIOUS
  <1>5. Less(E) \in [Block -> [Index -> 0 .. NBLOCK]]
    BY Sizes DEF Less, IsEnt
  <1>6. G \in [Block -> [Index -> 0 .. NBLOCK]]
    BY <1>4, <1>5
  <1>7. \A c \in Block, i \in Index : G[c][i] = IF c = a /\ i = j THEN b ELSE Less(E)[c][i]
    BY <1>4, <1>5
  <1>8. \A c \in Block, i \in Index :
          /\ Less(E)[c][i] = IF Dead(c, i) THEN 0 ELSE E[c][i]
          /\ Less(F)[c][i] = IF Dead(c, i) THEN 0 ELSE F[c][i]
    BY DEF Less
  <1>9. \A c \in Block, i \in Index : Less(F)[c][i] = G[c][i]
    BY <1>3, <1>7, <1>8
  <1>10. Less(F) \in [Block -> [Index -> 0 .. NBLOCK]]
    BY <1>2, Sizes DEF Less
  <1>11. \A c \in Block : Less(F)[c] = G[c]
    <2> DEFINE X == Less(F)
    <2>1. X \in [Block -> [Index -> 0 .. NBLOCK]]
      BY <1>10
    <2>2. \A c \in Block, i \in Index : X[c][i] = G[c][i]
      BY <1>9
    <2> HIDE DEF X
    <2>3. \A c \in Block : X[c] = G[c]
      BY <1>6, <2>1, <2>2
    <2> QED
      BY <2>3 DEF X
  <1>12. Less(F) = G
    BY <1>6, <1>10, <1>11
  <1> QED
    BY <1>1, <1>2, <1>4, <1>12 DEF IsEnt

\* balloc() does the same in both maps.
LEMMA BallocShown ==
    ASSUME NEW s, IsState(s), IsEnt(s.ent), s.used \subseteq Block
    PROVE  /\ Balloc(Shown(s)) = Shown(Balloc(s))
           /\ IsState(Balloc(s)) /\ IsEnt(Balloc(s).ent)
           /\ Balloc(s).addrs = s.addrs
           /\ Balloc(s).ok => Balloc(s).got \in Block /\ Balloc(s).used \subseteq Block
  <1>0. PICK A, E, U, L, x, k : /\ A = s.addrs /\ E = s.ent /\ U = s.used /\ L = s.logged
                                /\ x = s.got /\ k = s.ok
    OBVIOUS
  <1>1. s = [addrs |-> A, ent |-> E, used |-> U, logged |-> L, got |-> x, ok |-> k]
    BY <1>0 DEF IsState
  <1>2. Shown(s) = [addrs |-> A, ent |-> Less(E), used |-> U, logged |-> L, got |-> x, ok |-> k]
    BY <1>0 DEF Shown
  <1>3. CASE Block \subseteq U
    <2>1. Balloc(s) = [addrs |-> A, ent |-> E, used |-> U, logged |-> L, got |-> x,
                       ok |-> FALSE]
      BY <1>1, <1>3 DEF Balloc
    <2>2. Balloc(Shown(s)) = [addrs |-> A, ent |-> Less(E), used |-> U, logged |-> L,
                              got |-> x, ok |-> FALSE]
      <3>1. PICK z : z = Shown(s)
        OBVIOUS
      <3>2. PICK e : e = Less(E)
        OBVIOUS
      <3>3. z = [addrs |-> A, ent |-> e, used |-> U, logged |-> L, got |-> x, ok |-> k]
        BY <1>2, <3>1, <3>2
      <3>4. Balloc(z) = [z EXCEPT !.ok = FALSE]
        BY <1>3, <3>3 DEF Balloc
      <3>5. Balloc(z) = [addrs |-> A, ent |-> e, used |-> U, logged |-> L, got |-> x,
                         ok |-> FALSE]
        BY <3>3, <3>4
      <3> QED
        BY <3>1, <3>2, <3>5
    <2>3. Shown(Balloc(s)) = Balloc(Shown(s))
      BY <2>1, <2>2 DEF Shown
    <2> QED
      BY <1>0, <2>1, <2>3 DEF IsState
  <1>4. CASE ~(Block \subseteq U)
    <2> DEFINE b == Min(Block \ U)
    <2>1. b \in Block
      BY <1>4, LeastElement DEF Block
    <2>2. Balloc(s) = [s EXCEPT !.used = U \cup {b}, !.ent[b] = Zeros,
                                !.logged = L \cup {Bitmap(b), Data(b)}, !.got = b]
      BY <1>0, <1>4 DEF Balloc
    <2>3. Balloc(Shown(s)) = [Shown(s) EXCEPT !.used = U \cup {b}, !.ent[b] = Zeros,
                                !.logged = L \cup {Bitmap(b), Data(b)}, !.got = b]
      BY <1>2, <1>4 DEF Balloc
    <2> HIDE DEF b
    <2>4. Balloc(s) = [addrs |-> A, ent |-> [E EXCEPT ![b] = Zeros], used |-> U \cup {b},
                       logged |-> L \cup {Bitmap(b), Data(b)}, got |-> b, ok |-> k]
      BY <1>1, <2>2
    <2>5. Balloc(Shown(s)) = [addrs |-> A, ent |-> [Less(E) EXCEPT ![b] = Zeros],
                              used |-> U \cup {b},
                              logged |-> L \cup {Bitmap(b), Data(b)}, got |-> b, ok |-> k]
      <3>1. PICK z : z = Shown(s)
        OBVIOUS
      <3>2. PICK e : e = Less(E)
        OBVIOUS
      <3>3. z = [addrs |-> A, ent |-> e, used |-> U, logged |-> L, got |-> x, ok |-> k]
        BY <1>2, <3>1, <3>2
      <3>4. Balloc(z) = [z EXCEPT !.used = U \cup {b}, !.ent[b] = Zeros,
                                  !.logged = L \cup {Bitmap(b), Data(b)}, !.got = b]
        BY <2>3, <3>1
      <3>5. Balloc(z) = [addrs |-> A, ent |-> [e EXCEPT ![b] = Zeros], used |-> U \cup {b},
                         logged |-> L \cup {Bitmap(b), Data(b)}, got |-> b, ok |-> k]
        BY <3>3, <3>4
      <3> QED
        BY <3>1, <3>2, <3>5
    <2>6. Less([E EXCEPT ![b] = Zeros]) = [Less(E) EXCEPT ![b] = Zeros]
          /\ IsEnt([E EXCEPT ![b] = Zeros])
      BY <1>0, <2>1, ShownZeros
    <2>7. Shown(Balloc(s)) = Balloc(Shown(s))
      <3>1. PICK t : t = Balloc(s)
        OBVIOUS
      <3>2. /\ t.addrs = A /\ t.ent = [E EXCEPT ![b] = Zeros] /\ t.used = U \cup {b}
            /\ t.logged = L \cup {Bitmap(b), Data(b)} /\ t.got = b /\ t.ok = k
        BY <2>4, <3>1
      <3>3. Less(t.ent) = [Less(E) EXCEPT ![b] = Zeros]
        BY <2>6, <3>2
      <3>4. Shown(t) = [addrs |-> A, ent |-> [Less(E) EXCEPT ![b] = Zeros],
                        used |-> U \cup {b},
                        logged |-> L \cup {Bitmap(b), Data(b)}, got |-> b, ok |-> k]
        BY <3>2, <3>3 DEF Shown
      <3> QED
        BY <2>5, <3>1, <3>4
    <2> QED
      BY <1>0, <2>1, <2>4, <2>6, <2>7 DEF IsState
  <1> QED
    BY <1>3, <1>4

\* So does the step to a slot of the inode.
LEMMA InInodeShown ==
    ASSUME NEW s, IsState(s), IsEnt(s.ent), s.used \subseteq Block, NEW k
    PROVE  /\ InInode(Shown(s), k) = Shown(InInode(s, k))
           /\ IsState(InInode(s, k)) /\ IsEnt(InInode(s, k).ent)
           /\ InInode(s, k).ok => InInode(s, k).used \subseteq Block
  <1>0. Shown(s).addrs = s.addrs
    BY DEF Shown
  <1>1. CASE s.addrs[k] # 0
    <2>1. InInode(s, k) = [s EXCEPT !.got = s.addrs[k]]
      BY <1>1 DEF InInode
    <2>2. InInode(Shown(s), k) = [Shown(s) EXCEPT !.got = s.addrs[k]]
      BY <1>0, <1>1 DEF InInode
    <2>3. PICK x : x = s.addrs[k]
      OBVIOUS
    <2>4. InInode(s, k) = [addrs |-> s.addrs, ent |-> s.ent, used |-> s.used,
                           logged |-> s.logged, got |-> x, ok |-> s.ok]
      BY <2>1, <2>3 DEF IsState
    <2>5. InInode(Shown(s), k) = [addrs |-> s.addrs, ent |-> Less(s.ent), used |-> s.used,
                                  logged |-> s.logged, got |-> x, ok |-> s.ok]
      BY <2>2, <2>3 DEF Shown
    <2> QED
      BY <2>4, <2>5 DEF Shown, IsState
  <1>2. CASE s.addrs[k] = 0
    <2> DEFINE t == Balloc(s)
               u == Balloc(Shown(s))
    <2>1. /\ u = Shown(t) /\ IsState(t) /\ IsEnt(t.ent)
          /\ t.ok => t.used \subseteq Block
      BY BallocShown
    <2>2. InInode(s, k) = IF t.ok THEN [t EXCEPT !.addrs[k] = t.got] ELSE t
      BY <1>2 DEF InInode
    <2>3. InInode(Shown(s), k) = IF u.ok THEN [u EXCEPT !.addrs[k] = u.got] ELSE u
      BY <1>0, <1>2 DEF InInode
    <2> HIDE DEF t, u
    <2>4. u.ok = t.ok /\ u.got = t.got
      BY <2>1 DEF Shown
    <2>5. CASE ~t.ok
      BY <2>1, <2>2, <2>3, <2>4, <2>5
    <2>6. CASE t.ok
      <3>1. InInode(s, k) = [addrs |-> [t.addrs EXCEPT ![k] = t.got], ent |-> t.ent,
                             used |-> t.used, logged |-> t.logged, got |-> t.got, ok |-> t.ok]
        BY <2>1, <2>2, <2>6 DEF IsState
      <3>2. InInode(Shown(s), k) =
              [addrs |-> [t.addrs EXCEPT ![k] = t.got], ent |-> Less(t.ent),
               used |-> t.used, logged |-> t.logged, got |-> t.got, ok |-> t.ok]
        BY <2>1, <2>3, <2>4, <2>6 DEF Shown
      <3> QED
        BY <2>1, <2>6, <3>1, <3>2 DEF Shown, IsState
    <2> QED
      BY <2>5, <2>6
  <1> QED
    BY <1>1, <1>2

\* And so does the step to an entry that is not that of a freed block.
LEMMA InBlockShown ==
    ASSUME NEW s, IsState(s), IsEnt(s.ent), s.used \subseteq Block, s.ok,
           NEW j \in Index, s.got \in Block, ~Dead(s.got, j)
    PROVE  /\ InBlock(Shown(s), j) = Shown(InBlock(s, j))
           /\ IsState(InBlock(s, j)) /\ IsEnt(InBlock(s, j).ent)
           /\ InBlock(s, j).ok => InBlock(s, j).used \subseteq Block
  <1> DEFINE a == s.got
  <1>0. /\ Shown(s).got = a /\ Shown(s).ok /\ Shown(s).ent = Less(s.ent)
        /\ Less(s.ent)[a][j] = s.ent[a][j] /\ a \in Block
    BY DEF Shown, Less
  <1>1. CASE s.ent[a][j] # 0
    <2>1. InBlock(s, j) = [s EXCEPT !.got = s.ent[a][j]]
      BY <1>1 DEF InBlock
    <2>2. InBlock(Shown(s), j) = [Shown(s) EXCEPT !.got = s.ent[a][j]]
      BY <1>0, <1>1 DEF InBlock
    <2>3. PICK x : x = s.ent[a][j]
      OBVIOUS
    <2>4. InBlock(s, j) = [addrs |-> s.addrs, ent |-> s.ent, used |-> s.used,
                           logged |-> s.logged, got |-> x, ok |-> s.ok]
      BY <2>1, <2>3 DEF IsState
    <2>5. InBlock(Shown(s), j) = [addrs |-> s.addrs, ent |-> Less(s.ent), used |-> s.used,
                                  logged |-> s.logged, got |-> x, ok |-> s.ok]
      BY <2>2, <2>3 DEF Shown
    <2> QED
      BY <2>4, <2>5 DEF Shown, IsState
  <1>2. CASE s.ent[a][j] = 0
    <2> DEFINE t == Balloc(s)
               u == Balloc(Shown(s))
    <2>1. /\ u = Shown(t) /\ IsState(t) /\ IsEnt(t.ent)
          /\ t.ok => t.used \subseteq Block /\ t.got \in Block
      BY BallocShown
    <2>2. InBlock(s, j) = IF t.ok THEN [t EXCEPT !.ent[a][j] = t.got, !.logged = @ \cup {Data(a)}]
                                  ELSE t
      BY <1>2 DEF InBlock
    <2>3. InBlock(Shown(s), j) =
            IF u.ok THEN [u EXCEPT !.ent[a][j] = u.got, !.logged = @ \cup {Data(a)}] ELSE u
      BY <1>0, <1>2 DEF InBlock
    <2> HIDE DEF t, u, a
    <2>4. u.ok = t.ok /\ u.got = t.got
      BY <2>1 DEF Shown
    <2>5. CASE ~t.ok
      BY <2>1, <2>2, <2>3, <2>4, <2>5
    <2>6. CASE t.ok
      <3> DEFINE lg == t.logged \cup {Data(a)}
      <3>1. InBlock(s, j) = [addrs |-> t.addrs, ent |-> [t.ent EXCEPT ![a][j] = t.got],
                             used |-> t.used, logged |-> lg, got |-> t.got, ok |-> t.ok]
        BY <2>1, <2>2, <2>6 DEF IsState
      <3>2. InBlock(Shown(s), j) =
              [addrs |-> t.addrs, ent |-> [Less(t.ent) EXCEPT ![a][j] = t.got],
               used |-> t.used, logged |-> lg, got |-> t.got, ok |-> t.ok]
        BY <2>1, <2>3, <2>4, <2>6 DEF Shown
      <3>3. t.got \in 0 .. NBLOCK /\ ~Dead(a, j)
        BY <2>1, <2>6, Sizes DEF Block, a
      <3>4. Less([t.ent EXCEPT ![a][j] = t.got]) = [Less(t.ent) EXCEPT ![a][j] = t.got]
            /\ IsEnt([t.ent EXCEPT ![a][j] = t.got])
        BY <1>0, <2>1, <3>3, ShownEntry
      <3>5. PICK r : r = InBlock(s, j)
        OBVIOUS
      <3>6. /\ r.addrs = t.addrs /\ r.ent = [t.ent EXCEPT ![a][j] = t.got]
            /\ r.used = t.used /\ r.logged = lg /\ r.got = t.got /\ r.ok = t.ok
            /\ IsState(r)
        BY <3>1, <3>5 DEF IsState
      <3>7. Less(r.ent) = [Less(t.ent) EXCEPT ![a][j] = t.got] /\ IsEnt(r.ent)
        BY <3>4, <3>6
      <3>8. Shown(r) = [addrs |-> t.addrs, ent |-> [Less(t.ent) EXCEPT ![a][j] = t.got],
                        used |-> t.used, logged |-> lg, got |-> t.got, ok |-> t.ok]
        BY <3>6, <3>7 DEF Shown
      <3> QED
        BY <2>1, <2>6, <3>2, <3>5, <3>6, <3>7, <3>8
    <2> QED
      BY <2>5, <2>6
  <1> QED
    BY <1>1, <1>2

\* bmap() of a file that is not being truncated does the same in both maps.
LEMMA BmapShown ==
    ASSUME BmapInv, NEW f \in File, freed[f] = NoPlace, NEW bn \in 0 .. MAXFILE - 1,
           Bmap(State(f), bn).ok
    PROVE  /\ Bmap(LiveState(f), bn) = Shown(Bmap(State(f), bn))
           /\ IsEnt(Bmap(State(f), bn).ent)
  <1> DEFINE s  == State(f)
             w  == Where(bn)
             t1 == InInode(s, w[1])
             t2 == InBlock(t1, w[2])
             t3 == InBlock(t2, w[3])
             u  == LiveState(f)
             u1 == InInode(u, w[1])
             u2 == InBlock(u1, w[2])
             u3 == InBlock(u2, w[3])
  <1>0. /\ LA \in [File -> [Slot -> 0 .. NBLOCK]] /\ Maps(LA, LE) /\ TOP \in NDIRECT .. TOP
        /\ TOP \in Slot /\ NDIRECT .. TOP - 1 \subseteq NDIRECT .. TOP
        /\ NDIRECT .. TOP - 1 \subseteq Slot
        /\ Exact(LA, LE, used) /\ FreedOK /\ used \subseteq Block
    <2>1. Maps(LA, LE)
      BY LiveMaps DEF BmapInv, TypeOK
    <2>2. LA \in [File -> [Slot -> 0 .. NBLOCK]]
      BY <2>1 DEF Maps
    <2> QED
      BY <2>1, <2>2, Sizes DEF BmapInv, TypeOK, Slot
  <1>1. /\ s = [addrs |-> addrs[f], ent |-> ent, used |-> used,
                logged |-> op[f].logged, got |-> 0, ok |-> TRUE]
        /\ IsState(s) /\ IsEnt(s.ent) /\ s.used \subseteq Block
    BY DEF State, BmapInv, TypeOK, Maps, IsEnt, IsState
  <1>2. u = Shown(s)
    <2>1. LA[f] = addrs[f]
      <3>1. \A k \in Slot : freed[f] # <<f, k>>
        BY DEF NoPlace
      <3>2. LA[f] = [k \in Slot |-> addrs[f][k]]
        BY <3>1 DEF LA, Addr
      <3> QED
        BY <3>2 DEF BmapInv, TypeOK, Maps
    <2> QED
      BY <1>1, <2>1, LiveMaps DEF LiveState, Shown
  <1>3. StateOK(f, u)
    <2>1. /\ IsState(u) /\ u.ok /\ u.addrs = LA[f] /\ u.ent = LE /\ u.used = used
      BY DEF LiveState, IsState
    <2>2. Addrs(f, u) = LA
      BY <1>0, <2>1 DEF Addrs
    <2> QED
      BY <1>0, <2>1, <2>2 DEF StateOK
  <1>4. Extends(LA, LE, Addrs(f, u), u.ent)
    <2>1. u.addrs = LA[f] /\ u.ent = LE
      BY DEF LiveState
    <2>2. Addrs(f, u) = LA
      BY <1>0, <2>1 DEF Addrs
    <2> QED
      BY <2>1, <2>2 DEF Extends
  <1>5. /\ Len(w) = 2 => w[1] \in Slot /\ w[1] \in NDIRECT .. TOP /\ w[2] \in Index
        /\ Len(w) = 3 => w[1] = TOP /\ w[2] \in Index /\ w[3] \in Index
        /\ Len(w) \in {1, 2, 3}
    BY <1>0, Lengths
  <1>6. /\ Bmap(s, bn) = IF Len(w) = 1 THEN t1 ELSE IF Len(w) = 2 THEN t2 ELSE t3
        /\ Bmap(u, bn) = IF Len(w) = 1 THEN u1 ELSE IF Len(w) = 2 THEN u2 ELSE u3
    <2> HIDE DEF s, u
    <2> QED
      BY <1>5 DEF Bmap
  <1>7. \A r, j : InBlock(r, j).ok => r.ok
    BY DEF InBlock
  <1>8. \A r : Shown(r).ok = r.ok /\ Shown(r).got = r.got /\ Shown(r).addrs = r.addrs
    BY DEF Shown
  <1> HIDE DEF s, u, w
  <1>9. /\ u1 = Shown(t1) /\ IsState(t1) /\ IsEnt(t1.ent)
        /\ t1.ok => t1.used \subseteq Block
    BY <1>1, <1>2, InInodeShown
  <1>10. Bmap(s, bn).ok
    BY DEF s
  <1>11. CASE Len(w) = 1
    BY <1>6, <1>9, <1>11 DEF s, u
  <1>12. ASSUME Len(w) \in {2, 3}, t1.ok
         PROVE  /\ u2 = Shown(t2) /\ IsState(t2) /\ IsEnt(t2.ent)
                /\ t2.ok => t2.used \subseteq Block
                /\ t2.ok => StateOK(f, u2) /\ Extends(LA, LE, Addrs(f, u2), u2.ent)
                /\ t2.ok /\ Len(w) = 3 => Under(Addrs(f, u2), u2.ent, f, u2.got)
    <2>1. u1.ok /\ w[1] \in Slot /\ w[1] \in NDIRECT .. TOP /\ w[2] \in Index
      BY <1>0, <1>5, <1>8, <1>9, <1>12
    <2>2. /\ StateOK(f, u1) /\ Onward(f, u, u1) /\ u1.got \in Block
          /\ u1.got = u1.addrs[w[1]]
          /\ Under(Addrs(f, u1), u1.ent, f, u1.got)
      BY <1>0, <1>3, <2>1, InInodeStep
    <2> HIDE DEF t1, u1
    <2>3. Extends(LA, LE, Addrs(f, u1), u1.ent)
      BY <1>4, <2>2, ExtendsTwice DEF Onward
    <2>4. ~Dead(u1.got, w[2])
      BY <1>0, <2>2, <2>3, NotDead DEF StateOK
    <2>5. /\ u2 = Shown(t2) /\ IsState(t2) /\ IsEnt(t2.ent)
          /\ t2.ok => t2.used \subseteq Block
      <3>1. t1.got = u1.got /\ t1.ok
        BY <1>8, <1>9, <1>12
      <3> QED
        BY <1>9, <2>1, <2>2, <2>4, <3>1, InBlockShown
    <2>6. ASSUME t2.ok
          PROVE  /\ StateOK(f, u2) /\ Onward(f, u1, u2)
                 /\ u1.got = u1.addrs[TOP] => Under(Addrs(f, u2), u2.ent, f, u2.got)
      <3>1. u2.ok
        BY <1>8, <2>5, <2>6
      <3> QED
        BY <1>0, <2>1, <2>2, <3>1, InBlockStep
    <2> HIDE DEF t2, u2
    <2>7. t2.ok => Extends(LA, LE, Addrs(f, u2), u2.ent)
      BY <2>3, <2>6, ExtendsTwice DEF Onward
    <2> QED
      BY <1>5, <2>2, <2>5, <2>6, <2>7
  <1>13. CASE Len(w) = 2
    <2>1. t2.ok /\ t1.ok
      BY <1>6, <1>7, <1>10, <1>13
    <2> QED
      BY <1>6, <1>12, <1>13, <2>1 DEF s, u
  <1>14. CASE Len(w) = 3
    <2>1. t3.ok /\ t2.ok /\ t1.ok
      BY <1>6, <1>7, <1>10, <1>14
    <2>2. /\ u2 = Shown(t2) /\ IsState(t2) /\ IsEnt(t2.ent) /\ t2.used \subseteq Block
          /\ StateOK(f, u2) /\ Extends(LA, LE, Addrs(f, u2), u2.ent)
          /\ Under(Addrs(f, u2), u2.ent, f, u2.got)
      BY <1>12, <1>14, <2>1
    <2> HIDE DEF t1, u1, t2, u2
    <2>3. ~Dead(u2.got, w[3]) /\ u2.got \in Block
      BY <1>0, <2>2, NotDead DEF StateOK, Under
    <2>4. t2.got = u2.got /\ w[3] \in Index
      BY <1>5, <1>8, <1>14, <2>2
    <2>5. u3 = Shown(t3) /\ IsEnt(t3.ent)
      BY <2>1, <2>2, <2>3, <2>4, InBlockShown
    <2> QED
      BY <1>6, <1>14, <2>5 DEF s, u
  <1> QED
    BY <1>5, <1>11, <1>13, <1>14

-----------------------------------------------------------------------------
(***************************************************************************)
(* Steps                                                                   *)
(***************************************************************************)

\* The ends of a copy and of a file.
Lesser(a, b)  == Min({a, b})
Greater(a, b) == Max({a, b})

\* The least and the greatest of two numbers is one of them.
LEMMA OfTwo ==
    ASSUME NEW a \in Int, NEW b \in Int
    PROVE  /\ Lesser(a, b) \in {a, b} /\ Lesser(a, b) <= a /\ Lesser(a, b) <= b
           /\ Greater(a, b) \in {a, b} /\ Greater(a, b) >= a /\ Greater(a, b) >= b
  <1>1. \E x \in {a, b} : \A y \in {a, b} : x <= y
    OBVIOUS
  <1>2. \E x \in {a, b} : \A y \in {a, b} : x >= y
    OBVIOUS
  <1>3. Min({a, b}) \in {a, b} /\ \A y \in {a, b} : Min({a, b}) <= y
    BY <1>1 DEF Min
  <1>4. Max({a, b}) \in {a, b} /\ \A y \in {a, b} : Max({a, b}) >= y
    BY <1>2 DEF Max
  <1> QED
    BY <1>3, <1>4 DEF Lesser, Greater

\* What writei() leaves when a copy has failed, and when it has not.
WithPc(f, v, lg)  == [op EXCEPT ![f].pc = v, ![f].logged = lg]
WithOff(f, v, lg) == [op EXCEPT ![f].off = v, ![f].logged = lg]

\* An assignment to two fields of an operation is one to the operation.
LEMMA TwoFields ==
    ASSUME TypeOK, NEW f \in File, NEW v, NEW lg
    PROVE  /\ WithPc(f, v, lg) = [op EXCEPT ![f] =
                [pc |-> v, off |-> op[f].off, end |-> op[f].end, logged |-> lg]]
           /\ WithOff(f, v, lg) = [op EXCEPT ![f] =
                [pc |-> op[f].pc, off |-> v, end |-> op[f].end, logged |-> lg]]
  <1>0. op = [g \in File |-> op[g]] /\ OpOK(f)
    BY DEF TypeOK
  <1>1. PICK r, p, x, e, l : /\ r = op[f] /\ p = op[f].pc /\ x = op[f].off
                             /\ e = op[f].end /\ l = op[f].logged
    OBVIOUS
  <1>2. r = [pc |-> p, off |-> x, end |-> e, logged |-> l]
    BY <1>0, <1>1 DEF OpOK
  <1>3. [r EXCEPT !.pc = v, !.logged = lg]
          = [pc |-> v, off |-> x, end |-> e, logged |-> lg]
    <2>1. PICK q : q = [r EXCEPT !.pc = v]
      OBVIOUS
    <2>2. q = [pc |-> v, off |-> x, end |-> e, logged |-> l]
      BY <1>2, <2>1
    <2>3. [q EXCEPT !.logged = lg] = [pc |-> v, off |-> x, end |-> e, logged |-> lg]
      BY <2>2
    <2>4. [r EXCEPT !.pc = v, !.logged = lg] = [q EXCEPT !.logged = lg]
      BY <2>1
    <2> QED
      BY <2>3, <2>4
  <1>4. [r EXCEPT !.off = v, !.logged = lg]
          = [pc |-> p, off |-> v, end |-> e, logged |-> lg]
    <2>1. PICK q : q = [r EXCEPT !.off = v]
      OBVIOUS
    <2>2. q = [pc |-> p, off |-> v, end |-> e, logged |-> l]
      BY <1>2, <2>1
    <2>3. [q EXCEPT !.logged = lg] = [pc |-> p, off |-> v, end |-> e, logged |-> lg]
      BY <2>2
    <2>4. [r EXCEPT !.off = v, !.logged = lg] = [q EXCEPT !.logged = lg]
      BY <2>1
    <2> QED
      BY <2>3, <2>4
  <1>5. [op EXCEPT ![f].pc = v, ![f].logged = lg]
          = [op EXCEPT ![f] = [r EXCEPT !.pc = v, !.logged = lg]]
    BY <1>0, <1>1
  <1>6. [op EXCEPT ![f].off = v, ![f].logged = lg]
          = [op EXCEPT ![f] = [r EXCEPT !.off = v, !.logged = lg]]
    BY <1>0, <1>1
  <1> QED
    BY <1>1, <1>3, <1>4, <1>5, <1>6 DEF WithPc, WithOff

\* Multiples of the block size.
LEMMA Multiples ==
    /\ \A a \in Int : a * BSIZE \in Int
    /\ \A a \in Nat : a * BSIZE \in Nat
    /\ \A a, b \in Int : a < b <=> a * BSIZE < b * BSIZE
    /\ \A a, b \in Int : a * BSIZE < b * BSIZE => a * BSIZE + BSIZE <= b * BSIZE
  <1>1. \A a, b \in Int : a * BSIZE \in Int /\ (a < b => a * BSIZE + BSIZE <= b * BSIZE)
    <2> TAKE a, b \in Int
    <2>1. a * BSIZE \in Int
      BY Sizes
    <2>2. ASSUME a < b PROVE a * BSIZE + BSIZE <= b * BSIZE
      <3>1. a + 1 <= b
        BY <2>2
      <3>2. (a + 1) * BSIZE <= b * BSIZE
        BY <3>1, Sizes
      <3> QED
        BY <3>2, Sizes
    <2> QED
      BY <2>1, <2>2
  <1>2. \A a \in Nat : a * BSIZE \in Nat
    BY Sizes
  <1>3. \A a, b \in Int : a < b <=> a * BSIZE < b * BSIZE
    <2> TAKE a, b \in Int
    <2>1. a * BSIZE \in Int /\ b * BSIZE \in Int
      BY <1>1
    <2>2. a < b => a * BSIZE < b * BSIZE
      BY <1>1, <2>1, Sizes
    <2>3. b < a => b * BSIZE < a * BSIZE
      BY <1>1, <2>1, Sizes
    <2>4. a = b => a * BSIZE = b * BSIZE
      OBVIOUS
    <2> QED
      BY <2>1, <2>2, <2>3, <2>4
  <1> QED
    BY <1>1, <1>2, <1>3

\* What is in the places changes only with them.
LEMMA MapStays ==
    ASSUME UNCHANGED <<addrs, ent, freed>>
    PROVE  LA' = LA /\ LE' = LE
BY DEF LA, LE, Addr, Entry

\* Whoever is truncated still has the place of the block that it has freed.
LEMMA FreedStays ==
    ASSUME BmapInv, UNCHANGED freed,
           \A g \in File : freed[g] # NoPlace => op'[g].pc = op[g].pc,
           \A g \in File : \A a : Under(LA, LE, g, a) => Under(LA', LE', g, a)
    PROVE  FreedOK'
  <1> SUFFICES ASSUME NEW g \in File, freed'[g] # NoPlace
               PROVE  op'[g].pc = "trunc" /\ FreedIn(g, LA, LE)'
    BY DEF FreedOK
  <1>1. op[g].pc = "trunc" /\ FreedIn(g, LA, LE)
    BY DEF BmapInv, FreedOK
  <1>2. PICK n \in Node, i \in Pos : freed[g] = <<n, i>> /\ Belongs(LA, LE, g, n, i)
    BY <1>1 DEF FreedIn
  <1>3. Belongs(LA', LE', g, n, i)
    BY <1>2 DEF Belongs
  <1> QED
    BY <1>1, <1>2, <1>3 DEF FreedIn

\* A step that writes nothing more, and moves nothing that is not truncated.
LEMMA MappedStays ==
    ASSUME BmapInv, Maps(addrs', ent'),
           \A g \in File, bn \in 0 .. MAXFILE - 1 :
             op'[g].pc # "trunc" /\ (bn * BSIZE < size'[g] \/ bn * BSIZE < op'[g].off) =>
               op[g].pc # "trunc" /\ (bn * BSIZE < size[g] \/ bn * BSIZE < op[g].off),
           \A g \in File : op'[g].pc # "trunc" => Keeps(LA, LE, LA', LE', g)
    PROVE  Mapped'
  <1> SUFFICES ASSUME NEW g \in File, NEW bn \in 0 .. MAXFILE - 1, op'[g].pc # "trunc",
                      bn * BSIZE < size'[g] \/ bn * BSIZE < op'[g].off
               PROVE  Nth(g, bn)' # 0
    BY DEF Mapped
  <1>1. Nth(g, bn) # 0
    BY DEF BmapInv, Mapped
  <1>2. Maps(addrs, ent) /\ Maps(LA, LE) /\ Maps(LA', LE')
    BY LiveMaps DEF BmapInv, TypeOK
  <1>3. Nth(g, bn)' = NthOf(LA', LE', g, bn) /\ Nth(g, bn) = NthOf(LA, LE, g, bn)
    BY <1>2, NthIsNthOf
  <1>4. NthOf(LA', LE', g, bn) = NthOf(LA, LE, g, bn)
    BY <1>1, <1>2, <1>3, NthStays
  <1> QED
    BY <1>1, <1>3, <1>4

\* A map that stays keeps what it has.
LEMMA SameKeeps ==
    ASSUME NEW A, NEW E, NEW f PROVE Keeps(A, E, A, E, f)
BY DEF Keeps

\* A step that changes nothing.
LEMMA SameStep ==
    ASSUME BmapInv, UNCHANGED <<addrs, size, ent, used, op, freed>>
    PROVE  BmapInv'
  <1>1. LA' = LA /\ LE' = LE
    BY MapStays
  <1>2. TypeOK'
    BY DEF BmapInv, TypeOK, OpOK
  <1>3. FreedOK'
    BY <1>1, FreedStays
  <1>4. Exact(LA, LE, used)'
    BY <1>1 DEF BmapInv
  <1>5. Mapped'
    <2>1. \A g \in File : Keeps(LA, LE, LA', LE', g)
      BY <1>1, SameKeeps
    <2>2. Maps(addrs', ent')
      BY DEF BmapInv, TypeOK
    <2> QED
      BY <2>1, <2>2, MappedStays
  <1> QED
    BY <1>2, <1>3, <1>4, <1>5 DEF BmapInv

\* An operation on f starts or ends, and has logged nothing; the file has n bytes.
Sets(f, n, pc, off, end) ==
    /\ UNCHANGED <<addrs, ent, used, freed>>
    /\ size' = [size EXCEPT ![f] = n]
    /\ op' = [op EXCEPT ![f] = [pc |-> pc, off |-> off, end |-> end, logged |-> {}]]

\* An operation that starts or ends: its file is mapped up to its size and to where
\* the operation has got, which is no more than it was.
LEMMA ChangeStep ==
    ASSUME BmapInv, NEW f \in File, freed[f] = NoPlace, NEW n \in Nat,
           NEW pc \in {"idle", "write", "trunc"}, NEW off \in Nat, NEW end \in Nat,
           off <= end, end <= MAXFILE * BSIZE,
           Sets(f, n, pc, off, end), pc = "idle" => off = 0 /\ end = 0,
           \/ pc = "trunc"
           \/ n = 0 /\ off = 0
           \/ op[f].pc # "trunc" /\ off <= size[f] /\ (n <= size[f] \/ n <= op[f].off)
    PROVE  BmapInv'
  <1> DEFINE o == [pc |-> pc, off |-> off, end |-> end, logged |-> {}]
  <1>0. UNCHANGED <<addrs, ent, used, freed>>
    BY DEF Sets
  <1>1. \A g \in File : /\ op'[g] = IF g = f THEN o ELSE op[g]
                        /\ size'[g] = IF g = f THEN n ELSE size[g]
    BY DEF BmapInv, TypeOK, Sets
  <1>2. TypeOK'
    <2>1. op' = [g \in File |-> op'[g]] /\ size' \in [File -> Nat]
      BY DEF BmapInv, TypeOK, Sets
    <2>2. off \in 0 .. end /\ end \in 0 .. MAXFILE * BSIZE
      BY Multiples, Sizes
    <2>3. ASSUME NEW g \in File PROVE OpOK(g)'
      <3>1. CASE g = f
        <4>1. op'[g] = o
          BY <1>1, <3>1
        <4>2. op'[g].pc = pc /\ op'[g].off = off /\ op'[g].end = end /\ op'[g].logged = {}
          BY <4>1
        <4>3. pc = "idle" => op'[g] = Idle
          BY <4>1 DEF Idle
        <4> QED
          BY <2>2, <4>1, <4>2, <4>3 DEF OpOK
      <3>2. CASE g # f
        BY <1>1, <3>2 DEF BmapInv, TypeOK, OpOK
      <3> QED
        BY <3>1, <3>2
    <2> QED
      BY <1>0, <2>1, <2>3 DEF BmapInv, TypeOK
  <1>3. LA' = LA /\ LE' = LE
    BY <1>0, MapStays
  <1>4. Exact(LA, LE, used)'
    BY <1>0, <1>3 DEF BmapInv
  <1>5. FreedOK'
    BY <1>0, <1>1, <1>3, FreedStays
  <1>6. Mapped'
    <2>1. ASSUME NEW g \in File, NEW bn \in 0 .. MAXFILE - 1, op'[g].pc # "trunc",
                 bn * BSIZE < size'[g] \/ bn * BSIZE < op'[g].off
          PROVE  op[g].pc # "trunc" /\ (bn * BSIZE < size[g] \/ bn * BSIZE < op[g].off)
      <3>1. bn * BSIZE \in Nat /\ size[g] \in Nat /\ op[g].off \in Nat
        BY Multiples DEF BmapInv, TypeOK, OpOK
      <3>2. CASE g # f
        BY <1>1, <2>1, <3>2
      <3>3. CASE g = f
        <4>1. op'[g].pc = pc /\ op'[g].off = off /\ size'[g] = n
          BY <1>1, <3>3
        <4> QED
          BY <2>1, <3>1, <3>3, <4>1
      <3> QED
        BY <3>2, <3>3
    <2>2. \A g \in File : Keeps(LA, LE, LA', LE', g)
      BY <1>3, SameKeeps
    <2>3. Maps(addrs', ent')
      BY <1>0 DEF BmapInv, TypeOK
    <2> QED
      BY <2>1, <2>2, <2>3, MappedStays
  <1> QED
    BY <1>2, <1>4, <1>5, <1>6 DEF BmapInv

\* A chunk that starts has written nothing and begins within the size.
LEMMA StartStep ==
    ASSUME BmapInv, NEW f \in File, Write(f)
    PROVE  BmapInv'
  <1>1. PICK n \in LENGTHS \cap 1 .. CHUNK, off \in {0, size[f]} : Start(f, off, n)
    BY DEF Write
  <1>2. n \in Int /\ n >= 1
    <2>1. CHUNK \in Int
      BY BmapAssumption, Sizes DEF CHUNK
    <2> QED
      BY <2>1
  <1>3. off \in Nat /\ off <= size[f] /\ size[f] \in Nat /\ size' = [size EXCEPT ![f] = size[f]]
    BY <1>1 DEF BmapInv, TypeOK, Start
  <1>4. /\ Sets(f, size[f], "write", off, off + n)
        /\ off + n <= MAXFILE * BSIZE /\ op[f] = Idle
    BY <1>1, <1>3 DEF Start, Sets
  <1>5. op[f].pc = "idle" /\ freed[f] = NoPlace
    BY <1>4 DEF BmapInv, FreedOK, Idle
  <1>6. off + n \in Nat /\ off <= off + n /\ op[f].pc # "trunc"
    BY <1>2, <1>3, <1>5
  <1> QED
    BY <1>3, <1>4, <1>5, <1>6, ChangeStep

\* The size grows to what has been written, which is mapped.
LEMMA WriteEndStep ==
    ASSUME BmapInv, NEW f \in File, WriteEnd(f)
    PROVE  BmapInv'
  <1>1. size[f] \in Nat /\ op[f].off \in Nat /\ size \in [File -> Nat]
    BY DEF BmapInv, TypeOK, OpOK
  <1> DEFINE n == Max({size[f], op[f].off})
  <1>2. n \in Nat /\ (n <= size[f] \/ n <= op[f].off)
    <2>1. n = Greater(size[f], op[f].off)
      BY DEF Greater
    <2> HIDE DEF n
    <2> QED
      BY <1>1, <2>1, OfTwo
  <1>3. /\ Sets(f, n, "idle", 0, 0)
        /\ op[f].pc \in {"write", "failed"}
    BY <1>1 DEF WriteEnd, Idle, Sets
  <1>4. freed[f] = NoPlace /\ op[f].pc # "trunc"
    BY <1>3 DEF BmapInv, FreedOK
  <1>5. 0 <= MAXFILE * BSIZE /\ 0 <= size[f]
    BY <1>1, Multiples, Sizes
  <1> HIDE DEF n
  <1> QED
    BY <1>2, <1>3, <1>4, <1>5, ChangeStep

\* itrunc() starts on a file that nothing is done with.
LEMMA TruncStartStep ==
    ASSUME BmapInv, NEW f \in File, TruncStart(f)
    PROVE  BmapInv'
  <1>1. /\ op[f] = Idle /\ op' = [op EXCEPT ![f].pc = "trunc"]
        /\ UNCHANGED <<addrs, ent, used, freed, size>>
    BY DEF TruncStart
  <1>2. Sets(f, size[f], "trunc", 0, 0)
    <2>1. [op EXCEPT ![f].pc = "trunc"] = [op EXCEPT ![f] = [op[f] EXCEPT !.pc = "trunc"]]
      BY DEF BmapInv, TypeOK
    <2>2. [Idle EXCEPT !.pc = "trunc"] = [pc |-> "trunc", off |-> 0, end |-> 0, logged |-> {}]
      BY DEF Idle
    <2>3. size' = [size EXCEPT ![f] = size[f]]
      BY <1>1 DEF BmapInv, TypeOK
    <2> QED
      BY <1>1, <2>1, <2>2, <2>3 DEF Sets
  <1>3. size[f] \in Nat
    BY DEF BmapInv, TypeOK
  <1>4. freed[f] = NoPlace
    BY <1>1 DEF BmapInv, FreedOK, Idle
  <1>5. 0 <= MAXFILE * BSIZE
    BY Multiples, Sizes
  <1> QED
    BY <1>1, <1>2, <1>3, <1>4, <1>5, ChangeStep

\* itrunc() ends with a file that is empty.
LEMMA TruncEndStep ==
    ASSUME BmapInv, NEW f \in File, TruncEnd(f)
    PROVE  BmapInv'
  <1>1. freed[f] = NoPlace /\ Sets(f, 0, "idle", 0, 0)
    BY DEF TruncEnd, Idle, Sets
  <1>2. 0 <= MAXFILE * BSIZE
    BY Multiples, Sizes
  <1> QED
    BY <1>1, <1>2, ChangeStep

\* A chunk leaves the slots A to its file and the entries E.
Leaves(f, A, E) == addrs' = [addrs EXCEPT ![f] = A] /\ ent' = E /\ UNCHANGED freed

\* What is in the places when a chunk has got a block.
LEMMA WriteMaps ==
    ASSUME Maps(addrs, ent), NEW f \in File, freed[f] = NoPlace,
           NEW A \in [Slot -> 0 .. NBLOCK], NEW E, IsEnt(E), Leaves(f, A, E),
           NEW u, u.addrs = A, u.ent = Less(E)
    PROVE  LA' = Addrs(f, u) /\ LE' = u.ent
  <1> USE DEF Leaves
  <1>1. \A g \in File : addrs'[g] = IF g = f THEN A ELSE addrs[g]
    BY DEF Maps
  <1>2. \A k : freed[f] # <<f, k>>
    BY DEF NoPlace
  <1>3. \A g \in File, k \in Slot : Addr(g, k)' = IF g = f THEN A[k] ELSE Addr(g, k)
    BY <1>1, <1>2 DEF Addr
  <1>4. LA' = [g \in File |-> IF g = f THEN A ELSE LA[g]]
    <2>1. \A g \in File : /\ LA'[g] = [k \in Slot |-> Addr(g, k)']
                          /\ LA[g] = [k \in Slot |-> Addr(g, k)]
      BY DEF LA
    <2>2. ASSUME NEW g \in File PROVE LA'[g] = IF g = f THEN A ELSE LA[g]
      <3>1. CASE g = f
        <4>1. \A k \in Slot : Addr(g, k)' = A[k]
          BY <1>3, <3>1
        <4>2. [k \in Slot |-> Addr(g, k)'] = [k \in Slot |-> A[k]]
          BY <4>1
        <4> QED
          BY <2>1, <3>1, <4>2
      <3>2. CASE g # f
        <4>1. \A k \in Slot : Addr(g, k)' = Addr(g, k)
          BY <1>3, <3>2
        <4>2. [k \in Slot |-> Addr(g, k)'] = [k \in Slot |-> Addr(g, k)]
          BY <4>1
        <4> QED
          BY <2>1, <3>2, <4>2
      <3> QED
        BY <3>1, <3>2
    <2>3. LA' = [g \in File |-> LA'[g]]
      BY DEF LA
    <2> QED
      BY <2>2, <2>3
  <1>5. Addrs(f, u) = [g \in File |-> IF g = f THEN A ELSE LA[g]]
    <2>1. LA = [g \in File |-> LA[g]]
      BY DEF LA
    <2> QED
      BY <2>1 DEF Addrs
  <1>6. LE' = Less(E)
    BY DEF LE, Entry, Less, Dead
  <1> QED
    BY <1>4, <1>5, <1>6

\* What a chunk does to the map with the block that bmap() has got for it.
LEMMA WriteBlockMap ==
    ASSUME BmapInv, NEW f \in File, freed[f] = NoPlace, UNCHANGED freed,
           NEW bn \in 0 .. MAXFILE - 1, Bmap(State(f), bn).ok,
           addrs' = [addrs EXCEPT ![f] = Bmap(State(f), bn).addrs],
           ent' = Bmap(State(f), bn).ent, used' = Bmap(State(f), bn).used
    PROVE  LET s == Bmap(State(f), bn) IN
           /\ Maps(addrs', ent') /\ used' \subseteq Block /\ Exact(LA, LE, used)'
           /\ Maps(LA, LE) /\ Maps(LA', LE') /\ Extends(LA, LE, LA', LE')
           /\ NthOf(LA', LE', f, bn) # 0 /\ OnWay(LA', LE', f, bn, s.got)
           /\ \A x \in s.logged : \/ x \in op[f].logged \/ IsBitmap(x)
                                  \/ Along(LA', LE', f, bn, x)
  <1> DEFINE s == Bmap(State(f), bn)
             u == Shown(s)
             t == Bmap(LiveState(f), bn)
  <1>1. t = u /\ IsEnt(s.ent) /\ Maps(addrs, ent) /\ Maps(LA, LE)
    BY BmapShown, LiveMaps DEF BmapInv, TypeOK
  <1>2. /\ u.addrs = s.addrs /\ u.ent = Less(s.ent) /\ u.used = s.used
        /\ u.ok = s.ok /\ u.got = s.got /\ u.logged = s.logged
    <2>1. \A z : /\ Shown(z).addrs = z.addrs /\ Shown(z).ent = Less(z.ent)
                 /\ Shown(z).used = z.used /\ Shown(z).ok = z.ok /\ Shown(z).got = z.got
                 /\ Shown(z).logged = z.logged
      BY DEF Shown
    <2> QED
      BY <2>1
  <1>3. t.ok
    BY <1>1, <1>2
  <1>4. /\ StateOK(f, t) /\ Extends(LA, LE, Addrs(f, t), t.ent)
        /\ NthOf(Addrs(f, t), t.ent, f, bn) # 0 /\ OnWay(Addrs(f, t), t.ent, f, bn, t.got)
        /\ \A x \in t.logged : \/ x \in op[f].logged \/ IsBitmap(x)
                               \/ Along(Addrs(f, t), t.ent, f, bn, x)
    BY <1>1, <1>3, BmapStep DEF BmapInv, TypeOK
  <1> DEFINE A == s.addrs
             E == s.ent
  <1>5. /\ A \in [Slot -> 0 .. NBLOCK] /\ IsEnt(E) /\ u.addrs = A /\ u.ent = Less(E)
        /\ Leaves(f, A, E) /\ ent' = E /\ used' = u.used
    BY <1>1, <1>2, <1>4 DEF StateOK, Leaves
  <1> HIDE DEF A, E, s, u, t
  <1>6. LA' = Addrs(f, u) /\ LE' = u.ent
    BY <1>1, <1>5, WriteMaps
  <1>7. Maps(addrs', ent')
    BY <1>1, <1>5 DEF IsEnt, Maps, Leaves
  <1> QED
    BY <1>1, <1>2, <1>4, <1>5, <1>6, <1>7 DEF StateOK, s

\* The block that is written is found or gets a place of its own, and what was
\* mapped stays where it was; a disk that is full leaves everything.
LEMMA WriteBlockStep ==
    ASSUME BmapInv, NEW f \in File, WriteBlock(f)
    PROVE  BmapInv'
  <1> DEFINE o  == op[f]
             bn == o.off \div BSIZE
             s  == Bmap(State(f), bn)
             to == Min({o.end, (bn + 1) * BSIZE})
  <1>0. TypeOK
    BY DEF BmapInv
  <1>1. o.pc = "write" /\ o.off < o.end /\ UNCHANGED <<size, freed>>
    BY DEF WriteBlock
  <1>1a. freed[f] = NoPlace
    BY <1>1 DEF BmapInv, FreedOK
  <1>2. /\ o.off \in Nat /\ o.end \in Nat /\ o.end <= MAXFILE * BSIZE
        /\ o = [pc |-> o.pc, off |-> o.off, end |-> o.end, logged |-> o.logged]
    BY Multiples, Sizes DEF BmapInv, TypeOK, OpOK
  <1>3. bn \in 0 .. MAXFILE - 1
    <2>1. o.off < MAXFILE * BSIZE
      BY <1>1, <1>2, Multiples, Sizes
    <2> QED
      BY <1>2, <2>1, Sizes, DivBounds
  <1>4. bn * BSIZE <= o.off /\ o.off < (bn + 1) * BSIZE /\ (bn + 1) * BSIZE = bn * BSIZE + BSIZE
    <2> DEFINE r == o.off % BSIZE
    <2>1. bn \in Int /\ r \in 0 .. BSIZE - 1 /\ o.off = BSIZE * bn + r
      <3>1. o.off \in Int
        BY <1>2
      <3> HIDE DEF o
      <3> QED
        BY <3>1, Sizes, DivMod
    <2> HIDE DEF r, bn
    <2>2. BSIZE * bn = bn * BSIZE /\ bn * BSIZE \in Int /\ (bn + 1) * BSIZE = bn * BSIZE + BSIZE
      BY <2>1, Sizes
    <2> QED
      BY <2>1, <2>2, Sizes
  <1>5. to \in Nat /\ to <= o.end /\ to <= (bn + 1) * BSIZE
    <2>1. to = Lesser(o.end, (bn + 1) * BSIZE)
      BY DEF Lesser
    <2> HIDE DEF to, bn, o
    <2>2. (bn + 1) * BSIZE \in Nat /\ o.end \in Int
      BY <1>2, <1>3, Multiples, Sizes
    <2> QED
      BY <1>2, <2>1, <2>2, OfTwo
  <1>6. CASE ~s.ok
    <2>1. UNCHANGED <<addrs, size, ent, used, op, freed>>
      BY <1>6 DEF WriteBlock
    <2> QED
      BY <2>1, SameStep
  <1>7. CASE s.ok
    <2>1. /\ addrs' = [addrs EXCEPT ![f] = s.addrs] /\ ent' = s.ent /\ used' = s.used
          /\ \/ op' = [op EXCEPT ![f].off = to, ![f].logged = s.logged \cup {Data(s.got)}]
             \/ op' = [op EXCEPT ![f].pc = "failed", ![f].logged = s.logged]
      BY <1>7 DEF WriteBlock
    <2>2. /\ Maps(addrs', ent') /\ used' \subseteq Block /\ Exact(LA, LE, used)'
          /\ Maps(LA, LE) /\ Maps(LA', LE') /\ Extends(LA, LE, LA', LE')
          /\ NthOf(LA', LE', f, bn) # 0
      <3> HIDE DEF bn
      <3> QED
        BY <1>1, <1>1a, <1>3, <1>7, <2>1, WriteBlockMap
    <2> HIDE DEF s, to, bn
    <2>3. PICK pc \in {"write", "failed"}, off \in {to, o.off},
               lg \in {s.logged, s.logged \cup {Data(s.got)}} :
            /\ op' = [op EXCEPT ![f] = [pc |-> pc, off |-> off, end |-> o.end, logged |-> lg]]
      <3>1. CASE op' = [op EXCEPT ![f].off = to, ![f].logged = s.logged \cup {Data(s.got)}]
        <4> DEFINE lg == s.logged \cup {Data(s.got)}
        <4>1. op' = [op EXCEPT ![f] = [pc |-> o.pc, off |-> to, end |-> o.end, logged |-> lg]]
          <5>1. op' = WithOff(f, to, lg)
            BY <3>1 DEF WithOff
          <5> HIDE DEF lg
          <5> QED
            BY <5>1, <1>0, TwoFields
        <4> QED
          BY <1>1, <4>1
      <3>2. CASE op' = [op EXCEPT ![f].pc = "failed", ![f].logged = s.logged]
        <4> DEFINE lg == s.logged
        <4>1. op' = [op EXCEPT ![f] = [pc |-> "failed", off |-> o.off, end |-> o.end,
                                       logged |-> lg]]
          <5>1. op' = WithPc(f, "failed", lg)
            BY <3>2 DEF WithPc
          <5> HIDE DEF lg
          <5> QED
            BY <5>1, <1>0, TwoFields
        <4> QED
          BY <1>1, <4>1
      <3> QED
        BY <2>1, <3>1, <3>2
    <2>4. \A g \in File : op'[g] = IF g = f
             THEN [pc |-> pc, off |-> off, end |-> o.end, logged |-> lg] ELSE op[g]
      BY <2>3 DEF BmapInv, TypeOK
    <2>5. off \in Nat /\ off <= o.end /\ off <= (bn + 1) * BSIZE
      BY <1>1, <1>2, <1>3, <1>4, <1>5, <2>3, Multiples
    <2>6. TypeOK'
      <3>1. op' = [g \in File |-> op'[g]]
        BY <2>3 DEF BmapInv, TypeOK
      <3>2. ASSUME NEW g \in File PROVE OpOK(g)'
        <4>1. CASE g = f
          BY <1>2, <2>4, <2>5, <4>1 DEF BmapInv, TypeOK, OpOK
        <4>2. CASE g # f
          BY <2>4, <4>2 DEF BmapInv, TypeOK, OpOK
        <4> QED
          BY <4>1, <4>2
      <3>3. Maps(addrs', ent') /\ used' \subseteq Block
        BY <2>2
      <3>4. size' \in [File -> Nat] /\ freed' = [g \in File |-> freed'[g]]
        BY <1>1 DEF BmapInv, TypeOK
      <3> QED
        BY <3>1, <3>2, <3>3, <3>4 DEF TypeOK, Maps
    <2>7. Exact(LA, LE, used)'
      BY <2>2
    <2>7b. FreedOK'
      BY <1>1, <1>1a, <2>2, <2>4, UnderStays, FreedStays
    <2>8. Mapped'
      <3> SUFFICES ASSUME NEW g \in File, NEW m \in 0 .. MAXFILE - 1, op'[g].pc # "trunc",
                          m * BSIZE < size'[g] \/ m * BSIZE < op'[g].off
                   PROVE  Nth(g, m)' # 0
        BY DEF Mapped
      <3>0. Maps(addrs, ent) /\ Maps(addrs', ent')
        BY <2>2 DEF BmapInv, TypeOK
      <3>1. Nth(g, m)' = NthOf(LA', LE', g, m) /\ Nth(g, m) = NthOf(LA, LE, g, m)
        BY <3>0, NthIsNthOf
      <3>2. CASE g = f /\ m = bn
        BY <2>2, <3>1, <3>2
      <3>3. CASE ~(g = f /\ m = bn)
        <4>0. op[g].pc # "trunc"
          BY <1>1, <2>4
        <4>1. m * BSIZE < size[g] \/ m * BSIZE < op[g].off
          <5>1. CASE g # f
            BY <1>1, <2>4, <5>1
          <5>2. CASE g = f /\ ~(m * BSIZE < size[g])
            <6>1. m * BSIZE < off
              BY <1>1, <2>4, <5>2
            <6>2. m * BSIZE \in Int /\ m \in Int /\ bn \in Int /\ (bn + 1) * BSIZE \in Int
                  /\ bn * BSIZE \in Int
              BY <1>3, Multiples, Sizes
            <6>3. m * BSIZE < (bn + 1) * BSIZE
              BY <2>5, <6>1, <6>2
            <6>4. m < bn + 1
              BY <6>2, <6>3, Multiples
            <6>5. m < bn
              BY <3>3, <5>2, <6>2, <6>4
            <6>6. m * BSIZE < bn * BSIZE
              BY <6>2, <6>5, Multiples
            <6> QED
              BY <1>2, <1>4, <5>2, <6>2, <6>6
          <5> QED
            BY <5>1, <5>2
        <4>2. Nth(g, m) # 0
          BY <4>0, <4>1 DEF BmapInv, Mapped
        <4>3. Keeps(LA, LE, LA', LE', g)
          BY <2>2 DEF Extends, Keeps, At
        <4>5. NthOf(LA', LE', g, m) = NthOf(LA, LE, g, m)
          BY <2>2, <3>1, <4>2, <4>3, NthStays
        <4> QED
          BY <3>1, <4>2, <4>5
      <3> QED
        BY <3>2, <3>3
    <2> QED
      BY <2>6, <2>7, <2>7b, <2>8 DEF BmapInv
  <1> QED
    BY <1>6, <1>7

\* An operation that has logged something more, or nothing.
WithLogged(f, lg) == [op EXCEPT ![f].logged = lg]

\* Nothing else of the operation changes.
LEMMA OneField ==
    ASSUME TypeOK, NEW f \in File, NEW lg
    PROVE  WithLogged(f, lg) = [op EXCEPT ![f] =
             [pc |-> op[f].pc, off |-> op[f].off, end |-> op[f].end, logged |-> lg]]
  <1>0. op = [g \in File |-> op[g]] /\ OpOK(f)
    BY DEF TypeOK
  <1>1. PICK r, p, x, e, l : /\ r = op[f] /\ p = op[f].pc /\ x = op[f].off
                             /\ e = op[f].end /\ l = op[f].logged
    OBVIOUS
  <1>2. r = [pc |-> p, off |-> x, end |-> e, logged |-> l]
    BY <1>0, <1>1 DEF OpOK
  <1>3. [r EXCEPT !.logged = lg] = [pc |-> p, off |-> x, end |-> e, logged |-> lg]
    BY <1>2
  <1>4. [op EXCEPT ![f].logged = lg] = [op EXCEPT ![f] = [r EXCEPT !.logged = lg]]
    BY <1>0, <1>1
  <1> QED
    BY <1>1, <1>3, <1>4 DEF WithLogged

\* While a file has cleared what it has freed its slots and the blocks of entries
\* under it are what they are.
LEMMA LiveFile ==
    ASSUME BmapInv, NEW f \in File, freed[f] = NoPlace
    PROVE  /\ \A k \in Slot : LA[f][k] = addrs[f][k]
           /\ \A c \in Block, j \in Index : Under(LA, LE, f, c) => LE[c][j] = ent[c][j]
  <1>1. \A k : freed[f] # <<f, k>>
    BY DEF NoPlace
  <1>2. \A k \in Slot : LA[f][k] = addrs[f][k]
    BY <1>1 DEF LA, Addr
  <1>3. ASSUME NEW c \in Block, NEW j \in Index, Under(LA, LE, f, c)
        PROVE  LE[c][j] = ent[c][j]
    <2>1. Maps(LA, LE) /\ Exact(LA, LE, used) /\ FreedOK /\ Extends(LA, LE, LA, LE)
      BY LiveMaps DEF BmapInv, TypeOK, Extends
    <2>2. ~Dead(c, j)
      BY <1>3, <2>1, NotDead
    <2> QED
      BY <2>2 DEF LE, Entry, Dead
  <1> QED
    BY <1>2, <1>3

\* The place that itrunc() frees next belongs to the file, and there is nothing
\* left under the block in it.
LEMMA ToFreeIs ==
    ASSUME BmapInv, NEW f \in File, freed[f] = NoPlace, Slots(f) # {}
    PROVE  \E n, i : LET b == IF n = f THEN addrs[f][i] ELSE ent[n][i] IN
             /\ ToFree(f) = <<n, i>> /\ Belongs(LA, LE, f, n, i)
             /\ b \in Block /\ Child(LA, LE, n, i) = b /\ Bare(LA, LE, f, b)
  <1>0. /\ Maps(addrs, ent) /\ Maps(LA, LE) /\ Exact(LA, LE, used)
        /\ \A k \in Slot : LA[f][k] = addrs[f][k]
        /\ \A c \in Block, j \in Index : Under(LA, LE, f, c) => LE[c][j] = ent[c][j]
    BY LiveMaps, LiveFile DEF BmapInv, TypeOK
  <1>1. \A n, m \in Node, i, j \in Pos :
          At(LA, LE, n, i) /\ At(LA, LE, m, j) /\ Child(LA, LE, n, i) = Child(LA, LE, m, j)
            => n = m /\ i = j
    BY <1>0 DEF Exact
  <1>2. /\ f \in Node /\ Slot \subseteq Pos /\ Index \subseteq Pos /\ Block \subseteq Node
        /\ TOP \in Slot /\ \A c \in Block : c \notin File /\ c # f /\ c # 0
    BY Sizes DEF Node, Pos, Slot, Block
  <1>3. \A c \in Block : Entries(c) # {} => Min(Entries(c)) \in Index /\ ent[c][Min(Entries(c))] # 0
    <2> TAKE c \in Block
    <2>1. Entries(c) \in SUBSET Nat
      BY Sizes DEF Entries, Index
    <2> QED
      BY <2>1, LeastElement DEF Entries
  <1>4. PICK k : k = Min(Slots(f)) /\ k \in Slot /\ addrs[f][k] # 0
    <2>1. Slots(f) \in SUBSET Nat
      BY Sizes DEF Slots, Slot
    <2> QED
      BY <2>1, LeastElement DEF Slots
  <1>5. PICK a \in Block : a = addrs[f][k]
    BY <1>0, <1>4, Sizes DEF Maps, Block
  <1>6. At(LA, LE, f, k) /\ Child(LA, LE, f, k) = a /\ Belongs(LA, LE, f, f, k)
    BY <1>0, <1>2, <1>4, <1>5 DEF At, Belongs, Child
  <1>7. k \in NDIRECT .. TOP => Under(LA, LE, f, a)
    BY <1>0, <1>4, <1>5 DEF Under
  <1>8. CASE k < NDIRECT \/ Entries(a) = {}
    <2>1. ToFree(f) = <<f, k>>
      BY <1>4, <1>5, <1>8 DEF ToFree
    <2>2. Bare(LA, LE, f, a)
      <3> SUFFICES ASSUME Under(LA, LE, f, a) PROVE \A j \in Index : LE[a][j] = 0
        BY DEF Bare
      <3>1. ~(k < NDIRECT)
        <4>1. CASE \E l \in NDIRECT .. TOP : /\ l \in Slot /\ At(LA, LE, f, l)
                                             /\ Child(LA, LE, f, l) = a
          <5>1. PICK l \in NDIRECT .. TOP : /\ l \in Slot /\ At(LA, LE, f, l)
                                            /\ Child(LA, LE, f, l) = a
            BY <4>1
          <5>2. l = k
            BY <1>1, <1>2, <1>4, <1>6, <5>1
          <5> QED
            BY <5>1, <5>2, Sizes
        <4>2. CASE \E j \in Index : LET d == LA[f][TOP] IN
                     d \in Block /\ At(LA, LE, d, j) /\ Child(LA, LE, d, j) = a
          BY <1>1, <1>2, <1>4, <1>6, <4>2
        <4> QED
          BY <1>0, <4>1, <4>2, UnderIsAt
      <3> QED
        BY <1>0, <1>8, <3>1 DEF Entries
    <2> QED
      BY <1>5, <1>6, <2>1, <2>2
  <1>9. CASE ~(k < NDIRECT) /\ Entries(a) # {}
    <2>1. k \in NDIRECT .. TOP /\ Under(LA, LE, f, a)
      BY <1>4, <1>7, <1>9, Sizes DEF Slot
    <2>2. PICK j \in Index : j = Min(Entries(a)) /\ ent[a][j] # 0
      BY <1>3, <1>9
    <2>3. PICK b \in Block : b = ent[a][j]
      BY <1>0, <2>2, Sizes DEF Maps, Block
    <2>4. LE[a][j] = b
      BY <1>0, <2>1, <2>3
    <2>5. At(LA, LE, a, j) /\ Child(LA, LE, a, j) = b /\ Belongs(LA, LE, f, a, j)
      BY <1>2, <2>1, <2>4 DEF At, Belongs, Child
    <2>6. Under(LA, LE, f, b) => k = TOP
      <3> SUFFICES ASSUME Under(LA, LE, f, b) PROVE k = TOP
        OBVIOUS
      <3>1. CASE \E l \in NDIRECT .. TOP : /\ l \in Slot /\ At(LA, LE, f, l)
                                           /\ Child(LA, LE, f, l) = b
        BY <1>1, <1>2, <2>5, <3>1
      <3>2. CASE \E i \in Index : LET d == LA[f][TOP] IN
                   d \in Block /\ At(LA, LE, d, i) /\ Child(LA, LE, d, i) = b
        <4>1. LA[f][TOP] = a
          BY <1>1, <1>2, <2>5, <3>2
        <4>2. At(LA, LE, f, TOP) /\ Child(LA, LE, f, TOP) = a
          BY <1>2, <4>1 DEF At, Belongs, Child
        <4> QED
          BY <1>1, <1>2, <1>4, <1>6, <4>2
      <3> QED
        BY <1>0, <3>1, <3>2, UnderIsAt
    <2>7. CASE k < TOP \/ Entries(b) = {}
      <3>1. ToFree(f) = <<a, j>>
        BY <1>4, <1>5, <1>9, <2>2, <2>3, <2>7 DEF ToFree
      <3>2. Bare(LA, LE, f, b)
        BY <1>0, <2>6, <2>7, Sizes DEF Bare, Entries
      <3> QED
        BY <1>2, <2>3, <2>5, <3>1, <3>2
    <2>8. CASE ~(k < TOP) /\ Entries(b) # {}
      <3>1. k = TOP
        BY <2>1, <2>8, Sizes
      <3>2. PICK i \in Index : i = Min(Entries(b)) /\ ent[b][i] # 0
        BY <1>3, <2>8
      <3>3. PICK c \in Block : c = ent[b][i]
        BY <1>0, <3>2, Sizes DEF Maps, Block
      <3>4. ToFree(f) = <<b, i>>
        BY <1>4, <1>5, <1>9, <2>2, <2>3, <2>8, <3>2 DEF ToFree
      <3>5. Under(LA, LE, f, b)
        BY <1>0, <1>2, <1>4, <1>5, <2>4, <3>1 DEF Under
      <3>6. LE[b][i] = c
        BY <1>0, <3>3, <3>5
      <3>7. At(LA, LE, b, i) /\ Child(LA, LE, b, i) = c /\ Belongs(LA, LE, f, b, i)
        BY <1>2, <3>5, <3>6 DEF At, Belongs, Child
      <3>8. ~Under(LA, LE, f, c)
        <4>1. CASE \E l \in NDIRECT .. TOP : /\ l \in Slot /\ At(LA, LE, f, l)
                                             /\ Child(LA, LE, f, l) = c
          BY <1>1, <1>2, <3>7, <4>1
        <4>2. CASE \E l \in Index : LET d == LA[f][TOP] IN
                     d \in Block /\ At(LA, LE, d, l) /\ Child(LA, LE, d, l) = c
          <5>1. LA[f][TOP] = b
            BY <1>1, <1>2, <3>7, <4>2
          <5>2. a = b
            BY <1>0, <1>2, <1>5, <3>1, <5>1
          <5> QED
            BY <1>1, <1>2, <1>4, <1>6, <2>5, <5>2
        <4>3. ASSUME Under(LA, LE, f, c) PROVE FALSE
          BY <1>0, <4>1, <4>2, <4>3, UnderIsAt
        <4> QED
          BY <4>3
      <3> QED
        BY <1>2, <3>3, <3>4, <3>7, <3>8 DEF Bare
    <2> QED
      BY <2>7, <2>8
  <1> QED
    BY <1>8, <1>9

\* The block that is freed is in use, has nothing under it and loses its only place.
LEMMA TruncFreeStep ==
    ASSUME BmapInv, NEW f \in File, TruncFree(f)
    PROVE  /\ BmapInv'
           /\ \E b \in Block :
                /\ op' = [op EXCEPT ![f].logged = op[f].logged \cup {Bitmap(b)}]
                /\ \A g \in File \ {f} : Keeps(LA, LE, LA', LE', g)
  <1>0. op[f].pc = "trunc" /\ freed[f] = NoPlace /\ Slots(f) # {} /\ UNCHANGED <<addrs, size>>
    BY DEF TruncFree
  <1>1. PICK n, i : LET b == IF n = f THEN addrs[f][i] ELSE ent[n][i] IN
             /\ ToFree(f) = <<n, i>> /\ Belongs(LA, LE, f, n, i)
             /\ b \in Block /\ Child(LA, LE, n, i) = b /\ Bare(LA, LE, f, b)
    BY <1>0, ToFreeIs
  <1>2. PICK b \in Block : /\ b = (IF n = f THEN addrs[f][i] ELSE ent[n][i])
                           /\ Belongs(LA, LE, f, n, i) /\ Child(LA, LE, n, i) = b
                           /\ Bare(LA, LE, f, b)
    BY <1>1
  <1>3. /\ Maps(addrs, ent) /\ Maps(LA, LE) /\ Exact(LA, LE, used) /\ TypeOK
        /\ n \in Node /\ i \in Pos /\ b # 0
        /\ n \in File => n = f /\ i \in Slot
        /\ n \notin File => n \in Block /\ i \in Index /\ Under(LA, LE, f, n)
    BY <1>2, LiveMaps, Places, Sizes DEF BmapInv, TypeOK, Block
  <1>4. b \in used
    BY <1>2, <1>3 DEF Exact, At
  <1> DEFINE lg == op[f].logged \cup {Bitmap(b)}
  <1>5. /\ used' = used \ {b} /\ ent' = [ent EXCEPT ![b] = Junk]
        /\ freed' = [freed EXCEPT ![f] = <<n, i>>]
        /\ op' = [op EXCEPT ![f].logged = op[f].logged \cup {Bitmap(b)}]
    <2>1. ToFree(f)[1] = n /\ ToFree(f)[2] = i
      BY <1>1
    <2>2. (IF ToFree(f)[1] = f THEN addrs[f][ToFree(f)[2]] ELSE ent[ToFree(f)[1]][ToFree(f)[2]]) = b
      BY <1>2, <2>1
    <2> QED
      BY <1>1, <1>4, <2>2 DEF TruncFree
  <1>6. op' = [op EXCEPT ![f] = [pc |-> op[f].pc, off |-> op[f].off, end |-> op[f].end,
                                 logged |-> lg]]
    <2> HIDE DEF lg
    <2>1. op' = WithLogged(f, lg)
      BY <1>5 DEF WithLogged, lg
    <2> QED
      BY <1>3, <2>1, OneField
  <1> HIDE DEF lg
  <1>7. \A g \in File : op'[g] = IF g = f
          THEN [pc |-> op[f].pc, off |-> op[f].off, end |-> op[f].end, logged |-> lg] ELSE op[g]
    BY <1>3, <1>6 DEF TypeOK
  <1>8. \A g \in File : freed'[g] = IF g = f THEN <<n, i>> ELSE freed[g]
    BY <1>3, <1>5 DEF TypeOK
  <1>9. Maps(addrs', ent') /\ \A c \in Block, j \in Index : c # b => ent'[c][j] = ent[c][j]
    <2>1. Junk \in [Index -> 0 .. NBLOCK]
      BY Sizes DEF Junk
    <2> QED
      BY <1>0, <1>3, <1>5, <2>1 DEF Maps
  <1>10. Loses(LA, LE, LA', LE', n, i, b)
    <2>1. ASSUME NEW g \in File, NEW k \in Slot
          PROVE  LA'[g][k] = IF g = n /\ k = i THEN 0 ELSE LA[g][k]
      <3>1. /\ LA[g][k] = IF freed[g] = <<g, k>> THEN 0 ELSE addrs[g][k]
            /\ LA'[g][k] = IF freed'[g] = <<g, k>> THEN 0 ELSE addrs[g][k]
        BY <1>0 DEF LA, Addr
      <3>2. CASE g # f
        BY <1>3, <1>8, <3>1, <3>2
      <3>3. CASE g = f
        BY <1>0, <1>8, <3>1, <3>3 DEF NoPlace
      <3> QED
        BY <3>2, <3>3
    <2>2. ASSUME NEW c \in Block \ {b}, NEW j \in Index
          PROVE  LE'[c][j] = IF c = n /\ j = i THEN 0 ELSE LE[c][j]
      <3>1. /\ LE[c][j] = IF Dead(c, j) THEN 0 ELSE ent[c][j]
            /\ LE'[c][j] = IF Dead(c, j)' THEN 0 ELSE ent'[c][j]
        BY DEF LE, Entry, Dead
      <3>2. Dead(c, j)' <=> Dead(c, j) \/ (c = n /\ j = i)
        BY <1>0, <1>8 DEF Dead, NoPlace
      <3> QED
        BY <1>9, <3>1, <3>2
    <2> QED
      BY <2>1, <2>2 DEF Loses
  <1>11. /\ Exact(LA', LE', used \ {b})
         /\ \A g \in File : \A c : Under(LA, LE, g, c) /\ c # b => Under(LA', LE', g, c)
         /\ ~(\E g \in File : g # f /\ Under(LA, LE, g, b)) /\ n # b
         /\ \A g \in File \ {f} : Keeps(LA, LE, LA', LE', g)
    <2>1. Maps(LA', LE')
      BY <1>9, LiveMaps
    <2> QED
      BY <1>2, <1>3, <1>10, <2>1, Detached
  <1>12. TypeOK'
    <2>1. /\ op' = [g \in File |-> op'[g]] /\ size' \in [File -> Nat] /\ used' \subseteq Block
          /\ freed' = [g \in File |-> freed'[g]]
      BY <1>0, <1>3, <1>5, <1>6 DEF TypeOK
    <2>2. ASSUME NEW g \in File PROVE OpOK(g)'
      <3>1. CASE g = f
        BY <1>0, <1>3, <1>7, <3>1 DEF TypeOK, OpOK
      <3>2. CASE g # f
        BY <1>3, <1>7, <3>2 DEF TypeOK, OpOK
      <3> QED
        BY <3>1, <3>2
    <2> QED
      BY <1>9, <2>1, <2>2 DEF TypeOK, Maps
  <1>13. FreedOK'
    <2> SUFFICES ASSUME NEW g \in File, freed'[g] # NoPlace
                 PROVE  op'[g].pc = "trunc" /\ FreedIn(g, LA, LE)'
      BY DEF FreedOK
    <2>1. CASE g = f
      <3>1. Belongs(LA', LE', f, n, i)
        BY <1>2, <1>11 DEF Belongs
      <3> QED
        BY <1>0, <1>3, <1>7, <1>8, <2>1, <3>1 DEF FreedIn
    <2>2. CASE g # f
      <3>1. op[g].pc = "trunc" /\ FreedIn(g, LA, LE)
        BY <1>8, <2>2 DEF BmapInv, FreedOK
      <3>2. PICK m \in Node, j \in Pos : freed[g] = <<m, j>> /\ Belongs(LA, LE, g, m, j)
        BY <3>1 DEF FreedIn
      <3>3. Belongs(LA', LE', g, m, j)
        BY <1>11, <2>2, <3>2 DEF Belongs
      <3> QED
        BY <1>7, <1>8, <2>2, <3>1, <3>2, <3>3 DEF FreedIn
    <2> QED
      BY <2>1, <2>2
  <1>14. Mapped'
    <2>1. \A g \in File : op'[g].pc # "trunc" => g # f /\ op'[g] = op[g]
      BY <1>0, <1>7
    <2>2. \A g \in File : op'[g].pc # "trunc" => Keeps(LA, LE, LA', LE', g)
      BY <1>11, <2>1
    <2>3. \A g \in File, bn \in 0 .. MAXFILE - 1 :
             op'[g].pc # "trunc" /\ (bn * BSIZE < size'[g] \/ bn * BSIZE < op'[g].off) =>
               op[g].pc # "trunc" /\ (bn * BSIZE < size[g] \/ bn * BSIZE < op[g].off)
      BY <1>0, <2>1
    <2> QED
      BY <1>9, <2>2, <2>3, MappedStays
  <1>15. Exact(LA, LE, used)'
    BY <1>5, <1>11
  <1> QED
    BY <1>5, <1>11, <1>12, <1>13, <1>14, <1>15 DEF BmapInv

\* The place that is cleared is that of a block that is free: it counts no more.
LEMMA TruncNextStep ==
    ASSUME BmapInv, NEW f \in File, TruncNext(f)
    PROVE  BmapInv' /\ LA' = LA /\ LE' = LE
  <1>0. freed[f] # NoPlace /\ UNCHANGED <<size, used, op>> /\ freed' = [freed EXCEPT ![f] = NoPlace]
    BY DEF TruncNext
  <1>1. PICK n \in Node, i \in Pos : freed[f] = <<n, i>> /\ Belongs(LA, LE, f, n, i)
    BY <1>0 DEF BmapInv, FreedOK, FreedIn
  <1>2. /\ Maps(addrs, ent) /\ Maps(LA, LE) /\ TypeOK
        /\ n \in File => n = f /\ i \in Slot
        /\ n \notin File => n \in Block /\ i \in Index
    BY <1>1, LiveMaps, Places DEF BmapInv, TypeOK
  <1>3. /\ n = f => addrs' = [addrs EXCEPT ![f][i] = 0] /\ UNCHANGED ent
        /\ n # f => ent' = [ent EXCEPT ![n][i] = 0] /\ UNCHANGED addrs
    <2>1. freed[f][1] = n /\ freed[f][2] = i
      BY <1>1
    <2> QED
      BY <2>1 DEF TruncNext
  <1>4. \A g \in File : freed'[g] = IF g = f THEN NoPlace ELSE freed[g]
    BY <1>0, <1>2 DEF TypeOK
  <1>5. /\ \A g \in File, k \in Slot : addrs'[g][k] = IF g = n /\ k = i THEN 0 ELSE addrs[g][k]
        /\ \A c \in Block, j \in Index : ent'[c][j] = IF c = n /\ j = i THEN 0 ELSE ent[c][j]
        /\ Maps(addrs', ent')
    <2>1. CASE n = f
      <3>1. \A c \in Block : c # n
        BY <2>1, Sizes
      <3> QED
        BY <1>2, <1>3, <2>1, <3>1, Sizes DEF Maps
    <2>2. CASE n # f
      <3>1. n \in Block /\ \A g \in File : g # n
        BY <1>2, <2>2, Sizes
      <3> QED
        BY <1>2, <1>3, <2>2, <3>1, Sizes DEF Maps
    <2> QED
      BY <2>1, <2>2
  <1>6. \A g \in File, k \in Slot : Addr(g, k)' = Addr(g, k)
    <2> TAKE g \in File, k \in Slot
    <2>1. CASE g = f
      BY <1>1, <1>4, <1>5, <2>1 DEF Addr, NoPlace
    <2>2. CASE g # f
      BY <1>2, <1>4, <1>5, <2>2 DEF Addr
    <2> QED
      BY <2>1, <2>2
  <1>7. \A c \in Block, j \in Index : Entry(c, j)' = Entry(c, j)
    <2> TAKE c \in Block, j \in Index
    <2>1. Dead(c, j) <=> Dead(c, j)' \/ (c = n /\ j = i)
      BY <1>1, <1>4 DEF Dead, NoPlace
    <2>2. /\ Entry(c, j) = IF Dead(c, j) THEN 0 ELSE ent[c][j]
          /\ Entry(c, j)' = IF Dead(c, j)' THEN 0 ELSE ent'[c][j]
      BY DEF Entry, Dead
    <2> QED
      BY <1>5, <2>1, <2>2
  <1>8. LA' = LA /\ LE' = LE
    BY <1>6, <1>7 DEF LA, LE
  <1>9. TypeOK'
    <2>1. freed' = [g \in File |-> freed'[g]]
      BY <1>0, <1>2 DEF TypeOK
    <2> QED
      BY <1>0, <1>2, <1>5, <2>1 DEF TypeOK, OpOK, Maps
  <1>10. FreedOK'
    <2> SUFFICES ASSUME NEW g \in File, freed'[g] # NoPlace
                 PROVE  op'[g].pc = "trunc" /\ FreedIn(g, LA, LE)'
      BY DEF FreedOK
    <2>1. g # f /\ freed'[g] = freed[g]
      BY <1>4
    <2>2. op[g].pc = "trunc" /\ FreedIn(g, LA, LE)
      BY <2>1 DEF BmapInv, FreedOK
    <2> QED
      BY <1>0, <1>8, <2>1, <2>2 DEF FreedIn
  <1>11. Mapped'
    <2>1. \A g \in File : Keeps(LA, LE, LA', LE', g)
      BY <1>8, SameKeeps
    <2> QED
      BY <1>0, <1>5, <2>1, MappedStays
  <1>12. Exact(LA, LE, used)'
    BY <1>0, <1>8 DEF BmapInv
  <1> QED
    BY <1>8, <1>9, <1>10, <1>11, <1>12 DEF BmapInv

-----------------------------------------------------------------------------
(***************************************************************************)
(* The initial states                                                      *)
(***************************************************************************)

\* The blocks of the file that mkfs has made.
LEMMA MkfsBlocks ==
    ASSUME NEW n \in 0 .. MADE
    PROVE  LET m == (n + BSIZE - 1) \div BSIZE IN
           /\ m \in Nat /\ m < NBLOCK /\ m <= NDIRECT + NINDIRECT
           /\ n <= m * BSIZE
  <1> DEFINE a == n + BSIZE - 1
             m == a \div BSIZE
             c == MADE + BSIZE - 1
             d == c \div BSIZE
  <1>0. /\ n \in Nat /\ MADE \in Nat /\ n <= MADE /\ MADE <= (NDIRECT + NINDIRECT) * BSIZE
        /\ BSIZE \in Nat \ {0} /\ NDIRECT + NINDIRECT \in Nat /\ d < NBLOCK
        /\ (NDIRECT + NINDIRECT) * BSIZE \in Nat
    <2>1. NDIRECT + NINDIRECT \in Nat
      BY Sizes
    <2>2. (NDIRECT + NINDIRECT) * BSIZE \in Nat
      BY <2>1, Multiples
    <2> QED
      BY <2>1, <2>2, Sizes, BmapAssumption
  <1>1. /\ m \in Int /\ a % BSIZE \in 0 .. BSIZE - 1 /\ a = BSIZE * m + (a % BSIZE)
        /\ a \in Int
    <2>1. a \in Int /\ BSIZE \in Nat \ {0}
      BY <1>0
    <2> HIDE DEF a
    <2> QED
      BY <2>1, DivMod
  <1>2. /\ d \in Int /\ c % BSIZE \in 0 .. BSIZE - 1 /\ c = BSIZE * d + (c % BSIZE)
        /\ c \in Int
    <2>1. c \in Int /\ BSIZE \in Nat \ {0}
      BY <1>0
    <2> HIDE DEF c
    <2> QED
      BY <2>1, DivMod
  <1>3. PICK r \in 0 .. BSIZE - 1, s \in 0 .. BSIZE - 1 :
          a = BSIZE * m + r /\ c = BSIZE * d + s
    BY <1>1, <1>2
  <1>4. a = n + BSIZE - 1 /\ c = MADE + BSIZE - 1 /\ m = a \div BSIZE
    OBVIOUS
  <1> HIDE DEF a, c, d, m
  <1>5. /\ BSIZE * m = m * BSIZE /\ BSIZE * d = d * BSIZE
        /\ m * BSIZE \in Int /\ d * BSIZE \in Int
    BY <1>0, <1>1, <1>2
  <1>6. n <= m * BSIZE
    BY <1>0, <1>1, <1>3, <1>4, <1>5
  <1>7. m <= d
    <2>1. SUFFICES ASSUME d < m PROVE FALSE
      BY <1>1, <1>2
    <2>2. d * BSIZE + BSIZE <= m * BSIZE
      BY <1>1, <1>2, <2>1, Multiples
    <2>3. a <= c
      BY <1>0, <1>4
    <2> QED
      BY <1>0, <1>1, <1>2, <1>3, <1>5, <2>2, <2>3
  <1>8. m <= NDIRECT + NINDIRECT
    <2> DEFINE k == NDIRECT + NINDIRECT
    <2>1. k \in Nat /\ n <= k * BSIZE /\ k * BSIZE \in Nat
      BY <1>0
    <2> HIDE DEF k
    <2>2. SUFFICES ASSUME k < m PROVE FALSE
      BY <1>1, <2>1 DEF k
    <2>3. k * BSIZE + BSIZE <= m * BSIZE
      BY <1>1, <2>1, <2>2, Multiples
    <2> QED
      BY <1>0, <1>1, <1>3, <1>4, <1>5, <2>1, <2>3
  <1>9. 0 <= m
    <2>1. SUFFICES ASSUME m < 0 PROVE FALSE
      BY <1>1
    <2>2. m * BSIZE < 0 * BSIZE
      BY <1>1, <2>1, Multiples
    <2>3. 0 * BSIZE = 0
      BY <1>0
    <2>4. m * BSIZE + BSIZE <= 0 * BSIZE
      BY <1>1, <2>2, Multiples
    <2> QED
      BY <1>0, <1>3, <1>4, <1>5, <2>3, <2>4
  <1>10. m < NBLOCK
    BY <1>0, <1>1, <1>2, <1>7, Sizes
  <1> QED
    BY <1>1, <1>4, <1>6, <1>8, <1>9, <1>10

\* What mkfs lays out is exact.
LEMMA MkfsExact ==
    ASSUME NEW made \in File, NEW m \in Nat, m < NBLOCK, m <= NDIRECT + NINDIRECT,
           NEW A, NEW E,
           A = [g \in File |-> MkfsAddrs(IF g = made THEN m ELSE 0)], E = MkfsEnt(m)
    PROVE  /\ Maps(A, E) /\ MkfsUsed(m) \subseteq Block
           /\ Exact(A, E, MkfsUsed(m))
           /\ \A bn \in 0 .. MAXFILE - 1 : bn < m => NthOf(A, E, made, bn) # 0
  <1>0. /\ NDIRECT \in Nat \ {0} /\ NINDIRECT \in Nat \ {0} /\ NBLOCK \in Nat
        /\ NDIRECT < TOP /\ TOP \in Nat /\ Slot = 0 .. TOP /\ Index = 0 .. NINDIRECT - 1
        /\ Block = 1 .. NBLOCK
    BY Sizes DEF Slot, Index, Block
  <1>1. \A g \in File, k \in Slot :
          A[g][k] = IF g = made /\ k <= NDIRECT /\ k < m THEN k + 1 ELSE 0
    <2> TAKE g \in File, k \in Slot
    <2>1. k \in Nat
      BY <1>0
    <2>2. CASE g = made
      <3>1. A[g][k] = MkfsAddrs(m)[k]
        BY <2>2
      <3>2. CASE k < NDIRECT
        BY <1>0, <2>1, <2>2, <3>1, <3>2 DEF MkfsAddrs
      <3>3. CASE k = NDIRECT
        BY <1>0, <2>1, <2>2, <3>1, <3>3 DEF MkfsAddrs
      <3>4. CASE k > NDIRECT
        BY <1>0, <2>1, <2>2, <3>1, <3>4 DEF MkfsAddrs
      <3> QED
        BY <1>0, <2>1, <3>2, <3>3, <3>4
    <2>3. CASE g # made
      <3>1. A[g][k] = MkfsAddrs(0)[k]
        BY <2>3
      <3>2. CASE k < NDIRECT
        BY <1>0, <2>1, <2>3, <3>1, <3>2 DEF MkfsAddrs
      <3>3. CASE k = NDIRECT
        BY <1>0, <2>1, <2>3, <3>1, <3>3 DEF MkfsAddrs
      <3>4. CASE k > NDIRECT
        BY <1>0, <2>1, <2>3, <3>1, <3>4 DEF MkfsAddrs
      <3> QED
        BY <1>0, <2>1, <3>2, <3>3, <3>4
    <2> QED
      BY <2>2, <2>3
  <1>2. \A b \in Block, j \in Index :
          E[b][j] = IF b = NDIRECT + 1 /\ NDIRECT < m
                    THEN IF NDIRECT + j < m THEN NDIRECT + 2 + j ELSE 0
                    ELSE 1
    BY DEF MkfsEnt, Junk
  <1>3. MkfsUsed(m) = 1 .. (IF m > NDIRECT THEN m + 1 ELSE m)
    BY DEF MkfsUsed
  <1>4. Maps(A, E)
    <2>1. A \in [File -> [Slot -> 0 .. NBLOCK]]
      <3>1. ASSUME NEW g \in File PROVE A[g] \in [Slot -> 0 .. NBLOCK]
        <4>1. A[g] = [k \in Slot |-> A[g][k]]
          BY DEF MkfsAddrs
        <4>2. \A k \in Slot : A[g][k] \in 0 .. NBLOCK
          BY <1>0, <1>1
        <4> QED
          BY <4>1, <4>2
      <3> QED
        BY <3>1
    <2>2. E \in [Block -> [Index -> 0 .. NBLOCK]]
      <3>1. ASSUME NEW b \in Block PROVE E[b] \in [Index -> 0 .. NBLOCK]
        <4>1. E[b] = [j \in Index |-> E[b][j]]
          BY DEF MkfsEnt, Junk
        <4>2. \A j \in Index : E[b][j] \in 0 .. NBLOCK
          BY <1>0, <1>2, Sizes
        <4> QED
          BY <4>1, <4>2
      <3>2. E = [b \in Block |-> E[b]]
        BY DEF MkfsEnt
      <3> QED
        BY <3>1, <3>2
    <2> QED
      BY <2>1, <2>2 DEF Maps
  <1>5. MkfsUsed(m) \subseteq Block
    BY <1>0, <1>3
  <1> HIDE DEF MkfsAddrs, MkfsEnt, MkfsUsed
  <1>6. \A g \in File : \A a : Under(A, E, g, a) <=> g = made /\ NDIRECT < m /\ a = NDIRECT + 1
    <2> TAKE g \in File
    <2> TAKE a
    <2>1. A[g][TOP] = 0
      BY <1>0, <1>1
    <2>2. Under(A, E, g, a) <=> a \in Block /\ \E k \in NDIRECT .. TOP : A[g][k] = a
      BY <2>1 DEF Under
    <2>3. \A k \in NDIRECT .. TOP : k \in Slot /\ k \in Nat
          /\ A[g][k] = IF g = made /\ k = NDIRECT /\ NDIRECT < m THEN NDIRECT + 1 ELSE 0
      <3> TAKE k \in NDIRECT .. TOP
      <3>1. k \in Slot /\ k \in Nat /\ k >= NDIRECT
        BY <1>0
      <3> QED
        BY <1>0, <1>1, <3>1
    <2>4. NDIRECT < m => NDIRECT + 1 \in Block
      BY <1>0
    <2>5. NDIRECT \in NDIRECT .. TOP /\ 0 \notin Block
      BY <1>0
    <2> QED
      BY <2>2, <2>3, <2>4, <2>5
  <1>7. \A n, i : At(A, E, n, i) <=>
          \/ n = made /\ i \in Slot /\ i <= NDIRECT /\ i < m
          \/ n = NDIRECT + 1 /\ NDIRECT < m /\ i \in Index /\ NDIRECT + i < m
    <2> TAKE n, i
    <2>1. ASSUME n \in File, i \in Slot
          PROVE  Child(A, E, n, i) # 0 <=> n = made /\ i <= NDIRECT /\ i < m
      BY <1>0, <1>1, <2>1 DEF Child
    <2>2. ASSUME n = NDIRECT + 1, NDIRECT < m, i \in Index
          PROVE  Child(A, E, n, i) # 0 <=> NDIRECT + i < m
      <3>1. n \in Block /\ n \notin File
        BY <1>0, <2>2, Sizes
      <3> QED
        BY <1>0, <1>2, <2>2, <3>1 DEF Child
    <2>3. (\E g \in File : Belongs(A, E, g, n, i)) <=>
            \/ n \in File /\ i \in Slot
            \/ n = NDIRECT + 1 /\ NDIRECT < m /\ i \in Index
      BY <1>6 DEF Belongs
    <2> QED
      BY <2>1, <2>2, <2>3 DEF At
  <1>8. \A i \in Slot : i <= NDIRECT /\ i < m => Child(A, E, made, i) = i + 1
    BY <1>1 DEF Child
  <1>9. NDIRECT < m => /\ NDIRECT + 1 \in Block /\ NDIRECT + 1 \notin File
                       /\ \A i \in Index : NDIRECT + i < m =>
                            Child(A, E, NDIRECT + 1, i) = NDIRECT + 2 + i
    <2> SUFFICES ASSUME NDIRECT < m
                 PROVE  /\ NDIRECT + 1 \in Block /\ NDIRECT + 1 \notin File
                        /\ \A i \in Index : NDIRECT + i < m =>
                             Child(A, E, NDIRECT + 1, i) = NDIRECT + 2 + i
      OBVIOUS
    <2>1. NDIRECT + 1 \in Block /\ NDIRECT + 1 \notin File
      BY <1>0, Sizes
    <2> QED
      BY <1>2, <2>1 DEF Child
  <1>10. Exact(A, E, MkfsUsed(m))
    <2>1. ASSUME NEW n, NEW l, NEW i, NEW j, At(A, E, n, i), At(A, E, l, j),
                 Child(A, E, n, i) = Child(A, E, l, j)
          PROVE  n = l /\ i = j
      <3>1. CASE /\ n = made /\ i \in Slot /\ i <= NDIRECT /\ i < m
                 /\ l = made /\ j \in Slot /\ j <= NDIRECT /\ j < m
        BY <1>0, <1>8, <2>1, <3>1
      <3>2. CASE /\ n = NDIRECT + 1 /\ NDIRECT < m /\ i \in Index /\ NDIRECT + i < m
                 /\ l = NDIRECT + 1 /\ j \in Index /\ NDIRECT + j < m
        BY <1>0, <1>9, <2>1, <3>2
      <3>3. CASE /\ n = made /\ i \in Slot /\ i <= NDIRECT /\ i < m
                 /\ l = NDIRECT + 1 /\ NDIRECT < m /\ j \in Index /\ NDIRECT + j < m
        <4>1. i + 1 = NDIRECT + 2 + j
          BY <1>8, <1>9, <2>1, <3>3
        <4> QED
          BY <1>0, <3>3, <4>1
      <3>4. CASE /\ l = made /\ j \in Slot /\ j <= NDIRECT /\ j < m
                 /\ n = NDIRECT + 1 /\ NDIRECT < m /\ i \in Index /\ NDIRECT + i < m
        <4>1. j + 1 = NDIRECT + 2 + i
          BY <1>8, <1>9, <2>1, <3>4
        <4> QED
          BY <1>0, <3>4, <4>1
      <3> QED
        BY <1>7, <2>1, <3>1, <3>2, <3>3, <3>4
    <2>2. ASSUME NEW n, NEW i, At(A, E, n, i)
          PROVE  Child(A, E, n, i) \in MkfsUsed(m)
      <3>1. CASE n = made /\ i \in Slot /\ i <= NDIRECT /\ i < m
        BY <1>0, <1>3, <1>8, <3>1
      <3>2. CASE n = NDIRECT + 1 /\ NDIRECT < m /\ i \in Index /\ NDIRECT + i < m
        BY <1>0, <1>3, <1>9, <3>2
      <3> QED
        BY <1>7, <2>2, <3>1, <3>2
    <2>3. ASSUME NEW u \in MkfsUsed(m)
          PROVE  \E n \in Node, i \in Pos : At(A, E, n, i) /\ Child(A, E, n, i) = u
      <3>1. u \in Nat /\ 1 <= u /\ u <= m + 1 /\ (m <= NDIRECT => u <= m)
        BY <1>0, <1>3
      <3>2. CASE u <= NDIRECT + 1 /\ u <= m
        <4>1. u - 1 \in Slot /\ u - 1 <= NDIRECT /\ u - 1 < m
          BY <1>0, <3>1, <3>2
        <4>2. Child(A, E, made, u - 1) = u
          BY <1>8, <3>1, <4>1
        <4> QED
          BY <1>7, <4>1, <4>2 DEF Node, Pos
      <3>3. CASE u > NDIRECT + 1 \/ u > m
        <4>1. NDIRECT < m /\ u > NDIRECT + 1
          BY <1>0, <3>1, <3>3
        <4>2. u - NDIRECT - 2 \in Index /\ NDIRECT + (u - NDIRECT - 2) < m
          BY <1>0, <3>1, <4>1
        <4>3. Child(A, E, NDIRECT + 1, u - NDIRECT - 2) = u
          BY <1>0, <1>9, <3>1, <4>1, <4>2
        <4>4. NDIRECT + 1 \in Node /\ u - NDIRECT - 2 \in Pos
          BY <1>9, <4>1, <4>2 DEF Node, Pos
        <4> QED
          BY <1>7, <4>1, <4>2, <4>3, <4>4
      <3> QED
        BY <1>0, <3>1, <3>2, <3>3
    <2> QED
      BY <2>1, <2>2, <2>3 DEF Exact
  <1>11. ASSUME NEW bn \in 0 .. MAXFILE - 1, bn < m
         PROVE  NthOf(A, E, made, bn) # 0
    <2> DEFINE w == Where(bn)
               sn == bn - NDIRECT
    <2>0. bn \in Nat
      BY Sizes
    <2>1. CASE bn < NDIRECT
      <3>1. Where(bn) = <<bn>> /\ bn \in Slot
        BY <2>0, <2>1, <1>0 DEF Where
      <3>2. A[made][bn] = bn + 1
        BY <1>0, <1>1, <1>11, <2>0, <2>1, <3>1
      <3>3. NthOf(A, E, made, bn) = A[made][bn]
        BY <3>1 DEF NthOf
      <3> QED
        BY <2>0, <3>2, <3>3
    <2>2. CASE bn >= NDIRECT
      <3>1. sn \in 0 .. NINDIRECT - 1
        BY <1>0, <1>11, <2>0, <2>2
      <3>2. sn \div NINDIRECT = 0
        <4>1. sn \in Nat /\ sn < 1 * NINDIRECT
          BY <1>0, <3>1
        <4> HIDE DEF sn
        <4>2. sn \div NINDIRECT \in 0 .. 1 - 1
          BY <1>0, <4>1, DivBounds
        <4> QED
          BY <4>2
      <3>3. sn - NINDIRECT * NSINGLE < 0
        <4>1. NINDIRECT <= NINDIRECT * NSINGLE
          BY Sizes
        <4>2. NINDIRECT * NSINGLE \in Int
          BY Sizes
        <4> QED
          BY <1>0, <3>1, <4>1, <4>2
      <3>4. w = <<NDIRECT + 0, sn % NDIRECT>>
        BY <1>0, <2>0, <2>2, <3>2, <3>3 DEF Where
      <3> DEFINE j == sn % NDIRECT
      <3>5. j \in 0 .. NDIRECT - 1 /\ j <= sn
        <4>1. sn \in Nat /\ sn \in Int /\ sn + 1 \in Nat /\ NDIRECT \in Nat \ {0}
          BY <1>0, <3>1
        <4> HIDE DEF sn
        <4>2. /\ sn \div NDIRECT \in Int /\ sn % NDIRECT \in 0 .. NDIRECT - 1
              /\ sn = NDIRECT * (sn \div NDIRECT) + (sn % NDIRECT)
          BY <4>1, DivMod
        <4>3. sn < (sn + 1) * NDIRECT
          BY <1>0, <4>1
        <4>4. sn \div NDIRECT \in 0 .. (sn + 1) - 1
          BY <4>1, <4>3, DivBounds
        <4> DEFINE q == sn \div NDIRECT
        <4>5. q \in Nat /\ j \in Int /\ sn = NDIRECT * q + j
          BY <4>1, <4>2, <4>4
        <4> HIDE DEF q, j
        <4>6. NDIRECT * q >= 0
          BY <1>0, <4>5
        <4> QED
          BY <1>0, <4>1, <4>2, <4>5, <4>6 DEF j
      <3> HIDE DEF j
      <3>6. j \in Index /\ NDIRECT + j < m /\ NDIRECT < m
        BY <1>0, <1>11, <2>0, <2>2, <3>1, <3>5, Sizes
      <3>7. A[made][NDIRECT] = NDIRECT + 1 /\ NDIRECT + 1 # 0
        BY <1>0, <1>1, <3>6
      <3>8. E[NDIRECT + 1][j] = NDIRECT + 2 + j
        BY <1>2, <1>9, <3>6
      <3>9. Len(w) = 2 /\ w[1] = NDIRECT /\ w[2] = j
        <4>1. w = <<NDIRECT + 0, j>> /\ NDIRECT + 0 = NDIRECT
          BY <1>0, <3>4 DEF j
        <4> HIDE DEF w
        <4> QED
          BY <4>1
      <3>10. NthOf(A, E, made, bn) = NDIRECT + 2 + j
        BY <3>7, <3>8, <3>9 DEF NthOf
      <3> QED
        BY <1>0, <3>5, <3>10
    <2> QED
      BY <1>0, <2>0, <2>1, <2>2
  <1> QED
    BY <1>4, <1>5, <1>10, <1>11

\* The file that mkfs has made is exact and mapped, the others are empty.
LEMMA InitInv == Init => BmapInv
  <1> SUFFICES ASSUME Init PROVE BmapInv
    OBVIOUS
  <1>1. PICK n \in 0 .. MADE, made \in File :
          LET m == (n + BSIZE - 1) \div BSIZE IN
          /\ size = [f \in File |-> IF f = made THEN n ELSE 0]
          /\ addrs = [f \in File |-> MkfsAddrs(IF f = made THEN m ELSE 0)]
          /\ ent = MkfsEnt(m)
          /\ used = MkfsUsed(m)
    BY DEF Init
  <1> DEFINE m == (n + BSIZE - 1) \div BSIZE
  <1>2. m \in Nat /\ m < NBLOCK /\ m <= NDIRECT + NINDIRECT /\ n <= m * BSIZE
    BY MkfsBlocks
  <1>3. /\ addrs = [f \in File |-> MkfsAddrs(IF f = made THEN m ELSE 0)]
        /\ ent = MkfsEnt(m) /\ used = MkfsUsed(m)
    BY <1>1
  <1> HIDE DEF m
  <1>4. /\ Maps(addrs, ent) /\ used \subseteq Block /\ Exact(addrs, ent, used)
        /\ \A bn \in 0 .. MAXFILE - 1 : bn < m => NthOf(addrs, ent, made, bn) # 0
    BY <1>2, <1>3, MkfsExact
  <1>4a. (\A f \in File : freed[f] = NoPlace) /\ freed = [f \in File |-> freed[f]]
    BY DEF Init
  <1>4b. LA = addrs /\ LE = ent
    BY <1>4, <1>4a, NoneFreed
  <1>5. op = [f \in File |-> Idle]
    BY DEF Init
  <1>6. n \in Nat
    BY BmapAssumption
  <1>7. TypeOK
    <2>1. size \in [File -> Nat]
      BY <1>1, <1>6
    <2>2. ASSUME NEW f \in File PROVE OpOK(f)
      <3>1. op[f] = [pc |-> "idle", off |-> 0, end |-> 0, logged |-> {}]
        BY <1>5 DEF Idle
      <3>2. /\ op[f].pc = "idle" /\ op[f].off = 0 /\ op[f].end = 0 /\ op[f].logged = {}
            /\ op[f] = Idle
        BY <3>1 DEF Idle
      <3>3. 0 \in 0 .. MAXFILE * BSIZE /\ 0 \in 0 .. 0
        BY Multiples, Sizes
      <3> QED
        BY <3>1, <3>2, <3>3 DEF OpOK
    <2> QED
      BY <1>4, <1>4a, <1>5, <2>1, <2>2 DEF TypeOK
  <1>8. Mapped
    <2> SUFFICES ASSUME NEW f \in File, NEW bn \in 0 .. MAXFILE - 1,
                        bn * BSIZE < size[f] \/ bn * BSIZE < op[f].off
                 PROVE  Nth(f, bn) # 0
      BY DEF Mapped
    <2>1. bn * BSIZE \in Nat /\ bn \in Int
      BY Multiples
    <2>2. op[f].off = 0
      BY <1>5 DEF Idle
    <2>3. size[f] = IF f = made THEN n ELSE 0
      BY <1>1
    <2>4. f = made /\ bn * BSIZE < n
      BY <2>1, <2>2, <2>3
    <2>5. bn * BSIZE < m * BSIZE
      <3>1. m * BSIZE \in Int
        BY <1>2, Multiples
      <3> QED
        BY <1>2, <1>6, <2>1, <2>4, <3>1
    <2>6. bn < m
      BY <1>2, <2>1, <2>5, Multiples
    <2> QED
      BY <1>4, <1>4b, <2>4, <2>6, NthIsNow
  <1>9. FreedOK
    BY <1>4a DEF FreedOK
  <1> QED
    BY <1>4, <1>4b, <1>7, <1>8, <1>9 DEF BmapInv

-----------------------------------------------------------------------------
(***************************************************************************)
(* The theorems                                                            *)
(***************************************************************************)

\* Every step keeps the invariant.
LEMMA StepInv == BmapInv /\ [Next]_vars => BmapInv'
  <1> SUFFICES ASSUME BmapInv, [Next]_vars PROVE BmapInv'
    OBVIOUS
  <1>1. CASE Next
    <2>1. PICK f \in File : \/ Write(f) \/ WriteBlock(f) \/ WriteEnd(f)
                            \/ TruncStart(f) \/ TruncFree(f) \/ TruncNext(f) \/ TruncEnd(f)
      BY <1>1 DEF Next
    <2>2. CASE Write(f)
      BY <2>2, StartStep
    <2>3. CASE WriteBlock(f)
      BY <2>3, WriteBlockStep
    <2>4. CASE WriteEnd(f)
      BY <2>4, WriteEndStep
    <2>5. CASE TruncStart(f)
      BY <2>5, TruncStartStep
    <2>6. CASE TruncFree(f)
      BY <2>6, TruncFreeStep
    <2>7. CASE TruncNext(f)
      BY <2>7, TruncNextStep
    <2>8. CASE TruncEnd(f)
      BY <2>8, TruncEndStep
    <2> QED
      BY <2>1, <2>2, <2>3, <2>4, <2>5, <2>6, <2>7, <2>8
  <1>2. CASE UNCHANGED vars
    <2>1. UNCHANGED <<addrs, size, ent, used, op, freed>>
      BY <1>2 DEF vars
    <2> QED
      BY <2>1, SameStep
  <1> QED
    BY <1>1, <1>2

\* BmapInv is an invariant of the files, whichever of them are written and truncated
\* at once, block by block, with copies that fail and a disk that fills up.
THEOREM BmapInvariant == Spec => []BmapInv
  BY InitInv, StepInv, PTL DEF Spec

\* The indirect blocks of a file are those of its slots and of its doubly indirect
\* block.
LEMMA UnderAre ==
    ASSUME Maps(LA, LE), NEW f \in File, NEW a
    PROVE  Under(LA, LE, f, a) <=> a \in Single(f) \cup Double(f) \cup Below(Double(f))
  <1>0. /\ TOP \in Slot /\ TOP \in NDIRECT .. TOP /\ NDIRECT .. TOP - 1 \subseteq Slot
        /\ NDIRECT .. TOP = (NDIRECT .. TOP - 1) \cup {TOP}
        /\ \A x \in 0 .. NBLOCK : x # 0 <=> x \in Block
    BY Sizes DEF Slot, Block
  <1>1. /\ \A k \in Slot : LA[f][k] = Addr(f, k) /\ Addr(f, k) \in 0 .. NBLOCK
        /\ \A c \in Block, j \in Index : LE[c][j] = Entry(c, j) /\ Entry(c, j) \in 0 .. NBLOCK
    <2>1. /\ \A k \in Slot : LA[f][k] \in 0 .. NBLOCK
          /\ \A c \in Block, j \in Index : LE[c][j] \in 0 .. NBLOCK
      BY DEF Maps
    <2>2. /\ \A k \in Slot : LA[f][k] = Addr(f, k)
          /\ \A c \in Block, j \in Index : LE[c][j] = Entry(c, j)
      BY DEF LA, LE
    <2> QED
      BY <2>1, <2>2
  <1>2. a \in Single(f) \cup Double(f) <=> a \in Block /\ \E k \in NDIRECT .. TOP : LA[f][k] = a
    <2>1. a \in Single(f) <=> \E k \in NDIRECT .. TOP - 1 : a = LA[f][k] /\ a # 0
      BY <1>0, <1>1 DEF Single
    <2>2. a \in Double(f) <=> a = LA[f][TOP] /\ a # 0
      BY <1>0, <1>1 DEF Double
    <2>3. \A k \in NDIRECT .. TOP : a = LA[f][k] => (a # 0 <=> a \in Block)
      BY <1>0, <1>1
    <2> QED
      BY <1>0, <2>1, <2>2, <2>3
  <1>3. a \in Below(Double(f)) <=>
          a \in Block /\ LA[f][TOP] # 0 /\ \E j \in Index : LE[LA[f][TOP]][j] = a
    <2>1. a \in Below(Double(f)) <=>
            a # 0 /\ LA[f][TOP] # 0 /\ \E j \in Index : a = Entry(LA[f][TOP], j)
      BY <1>0, <1>1 DEF Below, Double
    <2>2. CASE LA[f][TOP] = 0
      BY <2>1, <2>2
    <2>3. CASE LA[f][TOP] # 0
      <3>1. LA[f][TOP] \in Block
        BY <1>0, <1>1, <2>3
      <3>2. \A j \in Index : LE[LA[f][TOP]][j] = Entry(LA[f][TOP], j)
                             /\ (Entry(LA[f][TOP], j) # 0 <=> Entry(LA[f][TOP], j) \in Block)
        BY <1>0, <1>1, <3>1
      <3> QED
        BY <2>1, <2>3, <3>2
    <2> QED
      BY <2>2, <2>3
  <1> QED
    BY <1>2, <1>3 DEF Under

\* The slots that hold a block number are the places of the map.
LEMMA RefsArePlaces ==
    ASSUME Maps(addrs, ent)
    PROVE  /\ \A r \in Refs : /\ r[1] \in Node /\ r[2] \in Pos /\ r = <<r[1], r[2]>>
                              /\ At(LA, LE, r[1], r[2])
                              /\ Held(r) = Child(LA, LE, r[1], r[2])
           /\ \A n \in Node, i \in Pos : At(LA, LE, n, i) =>
                /\ <<n, i>> \in Refs
                /\ Held(<<n, i>>) = Child(LA, LE, n, i)
  <1>0. /\ \A g \in File, k \in Slot : LA[g][k] = Addr(g, k)
        /\ \A c \in Block, j \in Index : LE[c][j] = Entry(c, j)
    BY DEF LA, LE
  <1>1. \A a : a \in Indirect <=> \E f \in File : Under(LA, LE, f, a)
    BY LiveMaps, UnderAre DEF Indirect
  <1>2. \A f \in File : \A a : Under(LA, LE, f, a) => a \in Block /\ a \notin File
    BY Sizes DEF Under
  <1>2a. Maps(LA, LE)
    BY LiveMaps
  <1>3. ASSUME NEW r \in Refs
        PROVE  /\ r[1] \in Node /\ r[2] \in Pos /\ r = <<r[1], r[2]>>
               /\ At(LA, LE, r[1], r[2])
               /\ Held(r) = Child(LA, LE, r[1], r[2])
    <2>1. CASE r \in File \X Slot /\ Held(r) # 0
      <3>1. r[1] \in File /\ r[2] \in Slot /\ r = <<r[1], r[2]>>
        BY <2>1
      <3> QED
        BY <1>0, <2>1, <3>1 DEF Held, Child, At, Belongs, Node, Pos
    <2>2. CASE r \in Indirect \X Index /\ Held(r) # 0
      <3>1. r[1] \in Indirect /\ r[2] \in Index /\ r = <<r[1], r[2]>>
        BY <2>2
      <3> QED
        BY <1>0, <1>1, <1>2, <2>2, <3>1 DEF Held, Child, At, Belongs, Node, Pos
    <2> QED
      BY <2>1, <2>2 DEF Refs
  <1>4. ASSUME NEW n \in Node, NEW i \in Pos, At(LA, LE, n, i)
        PROVE  <<n, i>> \in Refs /\ Held(<<n, i>>) = Child(LA, LE, n, i)
    <2> DEFINE r == <<n, i>>
    <2>1. r[1] = n /\ r[2] = i
      OBVIOUS
    <2>2. PICK f \in File : Belongs(LA, LE, f, n, i)
      BY <1>4 DEF At
    <2>3. CASE n \in File
      <3>1. i \in Slot /\ LA[n][i] # 0
        BY <1>2a, <1>4, <2>2, <2>3, Places DEF At
      <3>2. r \in File \X Slot
        BY <2>3, <3>1
      <3> QED
        BY <1>0, <2>1, <2>3, <3>1, <3>2 DEF Refs, Held, Child
    <2>4. CASE n \notin File
      <3>1. i \in Index /\ LE[n][i] # 0 /\ n \in Block /\ n \in Indirect
        BY <1>1, <1>2a, <1>4, <2>2, <2>4, Places DEF At
      <3>2. r \in Indirect \X Index
        BY <3>1
      <3> QED
        BY <1>0, <2>1, <2>4, <3>1, <3>2 DEF Refs, Held, Child
    <2> QED
      BY <2>3, <2>4
  <1> QED
    BY <1>3, <1>4

\* Every block in use has one place in one file and every other block has none
\* (fs.c: balloc(), bmap() and itrunc()), before and after every single block that
\* itrunc() frees, whatever other files write or free in between: no two files share
\* a block, and bfree() never frees one that is free.
THEOREM BlocksHaveOnePlace == Spec => []BlocksExact
  <1>1. BmapInv => BlocksExact
    <2> SUFFICES ASSUME BmapInv PROVE BlocksExact
      OBVIOUS
    <2> DEFINE refs == Refs
               held == {Held(r) : r \in refs}
               F == [r \in refs |-> Held(r)]
    <2>0. Maps(addrs, ent) /\ Maps(LA, LE) /\ used \subseteq Block /\ Exact(LA, LE, used)
      BY LiveMaps DEF BmapInv, TypeOK
    <2>1. /\ \A r \in refs : /\ r[1] \in Node /\ r[2] \in Pos /\ r = <<r[1], r[2]>>
                             /\ At(LA, LE, r[1], r[2])
                             /\ Held(r) = Child(LA, LE, r[1], r[2])
          /\ \A n \in Node, i \in Pos : At(LA, LE, n, i) =>
               <<n, i>> \in refs /\ Held(<<n, i>>) = Child(LA, LE, n, i)
      BY <2>0, RefsArePlaces
    <2> HIDE DEF refs
    <2>2. held = used
      <3>1. \A r \in refs : Held(r) \in used
        BY <2>0, <2>1 DEF Exact
      <3>2. \A u \in used : \E r \in refs : Held(r) = u
        <4> TAKE u \in used
        <4>1. PICK n \in Node, i \in Pos :
                At(LA, LE, n, i) /\ Child(LA, LE, n, i) = u
          BY <2>0 DEF Exact
        <4>2. <<n, i>> \in refs /\ Held(<<n, i>>) = u
          BY <2>1, <4>1
        <4> QED
          BY <4>2
      <3> QED
        BY <3>1, <3>2
    <2>3. F \in Injection(refs, held) /\ F \in Surjection(refs, held)
      <3>1. ASSUME NEW r \in refs, NEW s \in refs, Held(r) = Held(s) PROVE r = s
        <4>1. r[1] = s[1] /\ r[2] = s[2]
          BY <2>0, <2>1, <3>1 DEF Exact
        <4> QED
          BY <2>1, <4>1
      <3> QED
        BY <3>1 DEF Injection, Surjection, IsInjective
    <2>4. IsFiniteSet(held)
      <3>1. IsFiniteSet(Block)
        BY Sizes, FS_Interval DEF Block
      <3> QED
        BY <2>0, <2>2, <3>1, FS_Subset
    <2> HIDE DEF held, F
    <2>5. Cardinality(held) = Cardinality(refs)
      BY <2>3, <2>4, FS_Injection
    <2> QED
      BY <2>2, <2>5 DEF BlocksExact, refs, held
  <1> QED
    BY <1>1, BmapInvariant, PTL

\* What is below the size is mapped, also when a copy has failed half way, and
\* no two blocks of files are the same block on disk, but for two of an indirect
\* block that bmap() indexes modulo NDIRECT (fs.c:400).
THEOREM BlocksAreMapped == Spec => []NthBlock
  <1>1. BmapInv => NthBlock
    <2> SUFFICES ASSUME BmapInv PROVE NthBlock
      OBVIOUS
    <2> SUFFICES ASSUME NEW f \in File, NEW bm \in Blocks(f), NEW g \in File, NEW bn \in Blocks(g)
                 PROVE  /\ Nth(f, bm) # 0
                        /\ Nth(f, bm) = Nth(g, bn) => f = g /\ (bm = bn \/ SameIndex(bm, bn))
      <3> DEFINE mapped == UNION {{<<h, k, Nth(h, k)>> : k \in Blocks(h)} : h \in File}
      <3>1. SUFFICES ASSUME NEW m \in mapped, NEW n \in mapped
                     PROVE  /\ m[3] # 0
                            /\ m[3] = n[3] => m[1] = n[1] /\ (m[2] = n[2] \/ SameIndex(m[2], n[2]))
        BY DEF NthBlock
      <3>2. PICK x \in File : \E k \in Blocks(x) : m = <<x, k, Nth(x, k)>>
        OBVIOUS
      <3>3. PICK y \in File : \E l \in Blocks(y) : n = <<y, l, Nth(y, l)>>
        OBVIOUS
      <3>4. PICK k \in Blocks(x) : m = <<x, k, Nth(x, k)>>
        BY <3>2
      <3>5. PICK l \in Blocks(y) : n = <<y, l, Nth(y, l)>>
        BY <3>3
      <3>6. m[1] = x /\ m[2] = k /\ m[3] = Nth(x, k)
        BY <3>4
      <3>7. n[1] = y /\ n[2] = l /\ n[3] = Nth(y, l)
        BY <3>5
      <3> QED
        BY <3>6, <3>7
    <2>0. Maps(addrs, ent) /\ Maps(LA, LE) /\ Exact(LA, LE, used) /\ Mapped
      BY LiveMaps DEF BmapInv, TypeOK
    <2>1. /\ bm \in 0 .. MAXFILE - 1 /\ bm * BSIZE < size[f] /\ op[f].pc # "trunc"
          /\ bn \in 0 .. MAXFILE - 1 /\ bn * BSIZE < size[g] /\ op[g].pc # "trunc"
      BY DEF Blocks
    <2>2. Nth(f, bm) # 0 /\ Nth(g, bn) # 0
      BY <2>0, <2>1 DEF Mapped
    <2>3. ASSUME Nth(f, bm) = Nth(g, bn)
          PROVE  f = g /\ (bm = bn \/ SameIndex(bm, bn))
      <3>1. /\ NthOf(LA, LE, f, bm) # 0 /\ NthOf(LA, LE, g, bn) # 0
            /\ NthOf(LA, LE, f, bm) = NthOf(LA, LE, g, bn)
        BY <2>0, <2>1, <2>2, <2>3, NthIsNow
      <3>2. PICK n, i : Leads(LA, LE, f, bm, n, i)
        BY <2>1, <3>1, LeadsIfThere
      <3>3. PICK l, j : Leads(LA, LE, g, bn, l, j)
        BY <2>1, <3>1, LeadsIfThere
      <3>4. /\ n \in Node /\ i \in Pos /\ Belongs(LA, LE, f, n, i)
            /\ NthOf(LA, LE, f, bm) = Child(LA, LE, n, i)
        BY <2>0, <2>1, <3>2, LeadsToPlace
      <3>5. /\ l \in Node /\ j \in Pos /\ Belongs(LA, LE, g, l, j)
            /\ NthOf(LA, LE, g, bn) = Child(LA, LE, l, j)
        BY <2>0, <2>1, <3>3, LeadsToPlace
      <3>6. n = l /\ i = j
        BY <2>0, <3>1, <3>4, <3>5 DEF Exact, At
      <3>7. Leads(LA, LE, g, bn, n, i)
        BY <3>3, <3>6
      <3> QED
        BY <2>0, <2>1, <3>2, <3>7, SamePlace
    <2> QED
      BY <2>2, <2>3
  <1> QED
    BY <1>1, BmapInvariant, PTL
-----------------------------------------------------------------------------
(***************************************************************************)
(* What an operation logs                                                  *)
(***************************************************************************)

\* The blocks of a file that a chunk may touch if it starts in block b0.
Window(b0) == {bn \in 0 .. MAXFILE - 1 : b0 <= bn /\ bn <= b0 + ChunkBlocks}

\* An operation has logged bitmap blocks, and a write also blocks that it has
\* come by on its way to a few blocks one after the other.
OpLogs(f) ==
    /\ op[f].pc = "trunc" => \A x \in op[f].logged : IsBitmap(x)
    /\ op[f].pc \in {"write", "failed"} =>
         \E b0 \in Nat :
           /\ b0 * BSIZE <= op[f].off /\ op[f].end <= (b0 + ChunkBlocks + 1) * BSIZE
           /\ \A x \in op[f].logged :
                IsBitmap(x) \/ \E bn \in Window(b0) : Along(LA, LE, f, bn, x)

FitInv == BmapInv /\ \A f \in File : OpLogs(f)

\* What is on the way to a block stays on the way to it.
LEMMA OnWayStays ==
    ASSUME NEW A, NEW E, NEW A2, NEW E2, Maps(A, E), Maps(A2, E2),
           NEW f \in File, Keeps(A, E, A2, E2, f),
           NEW bn \in 0 .. MAXFILE - 1, NEW b, OnWay(A, E, f, bn, b)
    PROVE  OnWay(A2, E2, f, bn, b)
  <1> DEFINE w == Where(bn)
             d == A[f][TOP]
  <1>0. /\ b \in Block /\ b # 0 /\ f \in Node /\ TOP \in Slot /\ TOP \in NDIRECT .. TOP
        /\ Slot \subseteq Pos /\ Index \subseteq Pos /\ Block \subseteq Node
        /\ NDIRECT .. TOP - 1 \subseteq Slot
    BY Sizes DEF OnWay, Block, Node, Pos, Slot
  <1>1. \A k \in Slot : A[f][k] # 0 => A2[f][k] = A[f][k]
    <2> TAKE k \in Slot
    <2>1. Belongs(A, E, f, f, k) /\ Child(A, E, f, k) = A[f][k] /\ Child(A2, E2, f, k) = A2[f][k]
      BY DEF Belongs, Child
    <2> QED
      BY <1>0, <2>1 DEF Keeps
  <1>2. CASE b = NthOf(A, E, f, bn)
    <2>1. NthOf(A2, E2, f, bn) = b
      BY <1>0, <1>2, NthStays
    <2> QED
      BY <1>0, <2>1 DEF OnWay
  <1>3. CASE Len(w) \in {2, 3} /\ b = A[f][w[1]]
    <2>1. w[1] \in Slot
      BY <1>0, <1>3, Lengths
    <2>2. A2[f][w[1]] = b
      BY <1>0, <1>1, <1>3, <2>1
    <2> QED
      BY <1>0, <1>3, <2>2 DEF OnWay
  <1>4. CASE Len(w) = 3 /\ d # 0 /\ b = E[d][w[2]]
    <2>1. w[2] \in Index
      BY <1>4, Lengths
    <2>2. d \in Block /\ d \notin File
      BY <1>0, <1>4, Sizes DEF Maps, Block
    <2>3. A2[f][TOP] = d
      BY <1>0, <1>1, <1>4
    <2>4. Belongs(A, E, f, d, w[2])
      BY <1>0, <2>1, <2>2 DEF Belongs, Under
    <2>5. Child(A, E, d, w[2]) = b /\ Child(A2, E2, d, w[2]) = E2[d][w[2]]
      BY <1>4, <2>2 DEF Child
    <2>6. E2[d][w[2]] = b
      BY <1>0, <2>1, <2>2, <2>4, <2>5 DEF Keeps
    <2> QED
      BY <1>0, <1>4, <2>3, <2>6 DEF OnWay
  <1> QED
    BY <1>2, <1>3, <1>4 DEF OnWay

\* An operation that has not moved has logged what is still on its way.
LEMMA OpLogsStays ==
    ASSUME BmapInv, BmapInv', NEW f \in File, OpLogs(f), op'[f] = op[f],
           Keeps(LA, LE, LA', LE', f)
    PROVE  OpLogs(f)'
  <1>1. Maps(LA, LE) /\ Maps(LA', LE')
    BY LiveMaps DEF BmapInv, TypeOK, Maps
  <1>2. ASSUME NEW b0 \in Nat, NEW bn \in Window(b0), NEW x, Along(LA, LE, f, bn, x)
        PROVE  Along(LA', LE', f, bn, x)
    <2>1. bn \in 0 .. MAXFILE - 1
      BY DEF Window
    <2>2. PICK b : OnWay(LA, LE, f, bn, b) /\ x = Data(b)
      BY <1>2 DEF Along
    <2>3. OnWay(LA', LE', f, bn, b)
      BY <1>1, <2>1, <2>2, OnWayStays
    <2> QED
      BY <2>2, <2>3 DEF Along
  <1>3. ASSUME op[f].pc \in {"write", "failed"}
        PROVE  \E b0 \in Nat :
                 /\ b0 * BSIZE <= op'[f].off /\ op'[f].end <= (b0 + ChunkBlocks + 1) * BSIZE
                 /\ \A x \in op'[f].logged :
                      IsBitmap(x) \/ \E bn \in Window(b0) : Along(LA', LE', f, bn, x)
    <2>1. PICK b0 \in Nat :
            /\ b0 * BSIZE <= op[f].off /\ op[f].end <= (b0 + ChunkBlocks + 1) * BSIZE
            /\ \A x \in op[f].logged :
                 IsBitmap(x) \/ \E bn \in Window(b0) : Along(LA, LE, f, bn, x)
      BY <1>3 DEF OpLogs
    <2>2. \A x \in op[f].logged :
            IsBitmap(x) \/ \E bn \in Window(b0) : Along(LA', LE', f, bn, x)
      BY <1>2, <2>1
    <2> QED
      BY <2>1, <2>2
  <1> QED
    BY <1>3 DEF OpLogs

\* A chunk starts in one block and ends before the one after its last.
LEMMA StartFits ==
    ASSUME BmapInv, NEW f \in File, Write(f)
    PROVE  OpLogs(f)'
  <1>1. PICK n \in LENGTHS \cap 1 .. CHUNK, off \in {0, size[f]} : Start(f, off, n)
    BY DEF Write
  <1>2. ChunkBlocks \in Int
    BY BmapAssumption DEF ChunkBlocks
  <1>3. CHUNK = ChunkBlocks * BSIZE
    BY DEF CHUNK, ChunkBlocks
  <1>4. n \in Int /\ n <= ChunkBlocks * BSIZE
    <2>1. ChunkBlocks * BSIZE \in Int
      BY <1>2, Multiples
    <2> QED
      BY <1>3, <2>1
  <1>5. off \in Nat
    BY <1>1 DEF BmapInv, TypeOK
  <1>6. op'[f] = [pc |-> "write", off |-> off, end |-> off + n, logged |-> {}]
    BY <1>1 DEF Start, BmapInv, TypeOK
  <1> DEFINE b0 == off \div BSIZE
             r  == off % BSIZE
  <1>7. b0 \in Int /\ r \in 0 .. BSIZE - 1 /\ off = BSIZE * b0 + r
    BY <1>5, Sizes, DivMod
  <1>8. b0 \in Nat
    <2>1. off < (off + 1) * BSIZE
      <3>1. off * BSIZE >= off
        BY <1>5, Sizes
      <3> QED
        BY <1>5, <3>1, Sizes
    <2>2. b0 \in 0 .. off + 1 - 1
      <3>1. off + 1 \in Nat
        BY <1>5
      <3> QED
        BY <1>5, <2>1, <3>1, Sizes, DivBounds
    <2> QED
      BY <1>5, <2>2
  <1> HIDE DEF b0, r
  <1>9. /\ b0 * BSIZE \in Int /\ BSIZE * b0 = b0 * BSIZE /\ ChunkBlocks * BSIZE \in Int
        /\ (b0 + ChunkBlocks + 1) * BSIZE = b0 * BSIZE + ChunkBlocks * BSIZE + BSIZE
    BY <1>2, <1>7, Sizes
  <1>10. b0 * BSIZE <= off /\ off + n <= (b0 + ChunkBlocks + 1) * BSIZE
    BY <1>4, <1>5, <1>7, <1>9, Sizes
  <1> QED
    BY <1>6, <1>8, <1>10 DEF OpLogs

\* A block that is written is in the window, and so is what bmap() logs for it.
LEMMA WriteBlockFits ==
    ASSUME FitInv, BmapInv', NEW f \in File, WriteBlock(f)
    PROVE  \A g \in File : OpLogs(g)'
  <1> DEFINE o  == op[f]
             bn == o.off \div BSIZE
             s  == Bmap(State(f), bn)
             to == Min({o.end, (bn + 1) * BSIZE})
  <1>0. BmapInv /\ TypeOK /\ \A g \in File : OpLogs(g)
    BY DEF BmapInv, FitInv
  <1>1. o.pc = "write" /\ o.off < o.end
    BY DEF WriteBlock
  <1>2. /\ o.off \in Nat /\ o.end \in Nat /\ o.end <= MAXFILE * BSIZE
        /\ o = [pc |-> o.pc, off |-> o.off, end |-> o.end, logged |-> o.logged]
    BY <1>0, Multiples, Sizes DEF TypeOK, OpOK
  <1>3. bn \in 0 .. MAXFILE - 1
    <2>1. o.off < MAXFILE * BSIZE
      BY <1>1, <1>2, Multiples, Sizes
    <2> QED
      BY <1>2, <2>1, Sizes, DivBounds
  <1>4. bn * BSIZE <= o.off /\ o.off < (bn + 1) * BSIZE
    <2> DEFINE r == o.off % BSIZE
    <2>1. bn \in Int /\ r \in 0 .. BSIZE - 1 /\ o.off = BSIZE * bn + r
      <3>1. o.off \in Int
        BY <1>2
      <3> HIDE DEF o
      <3> QED
        BY <3>1, Sizes, DivMod
    <2> HIDE DEF r, bn
    <2>2. BSIZE * bn = bn * BSIZE /\ bn * BSIZE \in Int /\ (bn + 1) * BSIZE = bn * BSIZE + BSIZE
      BY <2>1, Sizes
    <2> QED
      BY <2>1, <2>2, Sizes
  <1>5. to \in {o.end, (bn + 1) * BSIZE}
    <2>1. to = Lesser(o.end, (bn + 1) * BSIZE)
      BY DEF Lesser
    <2> HIDE DEF to, bn, o
    <2>2. (bn + 1) * BSIZE \in Nat /\ o.end \in Int
      BY <1>2, <1>3, Multiples, Sizes
    <2> QED
      BY <1>2, <2>1, <2>2, OfTwo
  <1>6. CASE ~s.ok
    <2>1. UNCHANGED <<addrs, ent, freed, op>>
      BY <1>6 DEF WriteBlock
    <2>2. \A g \in File : Keeps(LA, LE, LA', LE', g)
      BY <2>1, MapStays, SameKeeps
    <2> QED
      BY <1>0, <2>1, <2>2, OpLogsStays
  <1>7. CASE s.ok
    <2>1. /\ addrs' = [addrs EXCEPT ![f] = s.addrs] /\ ent' = s.ent /\ used' = s.used
          /\ UNCHANGED freed
          /\ \/ op' = [op EXCEPT ![f].off = to, ![f].logged = s.logged \cup {Data(s.got)}]
             \/ op' = [op EXCEPT ![f].pc = "failed", ![f].logged = s.logged]
      BY <1>7 DEF WriteBlock
    <2>1a. freed[f] = NoPlace
      BY <1>0, <1>1 DEF BmapInv, FreedOK
    <2>2. /\ Maps(LA, LE) /\ Maps(LA', LE') /\ Extends(LA, LE, LA', LE')
          /\ OnWay(LA', LE', f, bn, s.got)
          /\ \A x \in s.logged : x \in o.logged \/ IsBitmap(x) \/ Along(LA', LE', f, bn, x)
      <3> HIDE DEF bn
      <3> QED
        BY <1>0, <1>3, <1>7, <2>1, <2>1a, WriteBlockMap
    <2> HIDE DEF s, to, bn
    <2>3. \A g \in File : Keeps(LA, LE, LA', LE', g)
      BY <2>2 DEF Extends, Keeps, At
    <2>4. PICK pc \in {"write", "failed"}, off \in {to, o.off},
               lg \in {s.logged, s.logged \cup {Data(s.got)}} :
            op' = [op EXCEPT ![f] = [pc |-> pc, off |-> off, end |-> o.end, logged |-> lg]]
      <3>1. CASE op' = [op EXCEPT ![f].off = to, ![f].logged = s.logged \cup {Data(s.got)}]
        <4> DEFINE lg == s.logged \cup {Data(s.got)}
        <4>1. op' = [op EXCEPT ![f] = [pc |-> o.pc, off |-> to, end |-> o.end, logged |-> lg]]
          <5>1. op' = WithOff(f, to, lg)
            BY <3>1 DEF WithOff
          <5> HIDE DEF lg
          <5> QED
            BY <5>1, <1>0, TwoFields
        <4> QED
          BY <1>1, <4>1
      <3>2. CASE op' = [op EXCEPT ![f].pc = "failed", ![f].logged = s.logged]
        <4> DEFINE lg == s.logged
        <4>1. op' = [op EXCEPT ![f] = [pc |-> "failed", off |-> o.off, end |-> o.end,
                                       logged |-> lg]]
          <5>1. op' = WithPc(f, "failed", lg)
            BY <3>2 DEF WithPc
          <5> HIDE DEF lg
          <5> QED
            BY <5>1, <1>0, TwoFields
        <4> QED
          BY <1>1, <4>1
      <3> QED
        BY <2>1, <3>1, <3>2
    <2>5. \A g \in File : op'[g] = IF g = f
             THEN [pc |-> pc, off |-> off, end |-> o.end, logged |-> lg] ELSE op[g]
      BY <1>0, <2>4 DEF TypeOK
    <2>6. ASSUME NEW g \in File, g # f PROVE OpLogs(g)'
      BY <1>0, <2>3, <2>5, <2>6, OpLogsStays
    <2>7. OpLogs(f)'
      <3>1. PICK b0 \in Nat :
              /\ b0 * BSIZE <= o.off /\ o.end <= (b0 + ChunkBlocks + 1) * BSIZE
              /\ \A x \in o.logged :
                   IsBitmap(x) \/ \E m \in Window(b0) : Along(LA, LE, f, m, x)
        BY <1>0, <1>1 DEF OpLogs
      <3>2. ChunkBlocks \in Int
        BY BmapAssumption DEF ChunkBlocks
      <3>3. /\ b0 * BSIZE \in Int /\ bn * BSIZE \in Int /\ (bn + 1) * BSIZE \in Int
            /\ (b0 + ChunkBlocks + 1) * BSIZE \in Int /\ bn \in Int
            /\ b0 + ChunkBlocks + 1 \in Int /\ bn + 1 \in Int
        BY <1>3, <3>1, <3>2, Multiples
      <3>4. b0 <= bn /\ bn <= b0 + ChunkBlocks
        <4>1. b0 * BSIZE < (bn + 1) * BSIZE
          BY <1>2, <1>4, <3>1, <3>3
        <4>2. bn * BSIZE < (b0 + ChunkBlocks + 1) * BSIZE
          BY <1>1, <1>2, <1>4, <3>1, <3>3
        <4>3. b0 < bn + 1 /\ bn < b0 + ChunkBlocks + 1
          BY <3>3, <4>1, <4>2, Multiples
        <4> QED
          BY <3>2, <3>3, <4>3
      <3>5. bn \in Window(b0)
        BY <1>3, <3>4 DEF Window
      <3>6. b0 * BSIZE <= off
        <4>1. off = o.off \/ off = o.end \/ off = (bn + 1) * BSIZE
          BY <1>5, <2>4
        <4> QED
          BY <1>1, <1>2, <1>4, <3>1, <3>3, <4>1
      <3>7. ASSUME NEW m \in Window(b0), NEW x, Along(LA, LE, f, m, x)
            PROVE  Along(LA', LE', f, m, x)
        <4>1. m \in 0 .. MAXFILE - 1
          BY DEF Window
        <4>2. PICK b : OnWay(LA, LE, f, m, b) /\ x = Data(b)
          BY <3>7 DEF Along
        <4>4. OnWay(LA', LE', f, m, b)
          BY <2>2, <2>3, <4>1, <4>2, OnWayStays
        <4> QED
          BY <4>2, <4>4 DEF Along
      <3>8. \A x \in lg : IsBitmap(x) \/ \E m \in Window(b0) : Along(LA', LE', f, m, x)
        <4> TAKE x \in lg
        <4>1. x \in s.logged \/ x = Data(s.got)
          BY <2>4
        <4>2. x = Data(s.got) => Along(LA', LE', f, bn, x)
          BY <2>2 DEF Along
        <4>3. x \in o.logged \/ IsBitmap(x) \/ Along(LA', LE', f, bn, x)
          BY <2>2, <4>1, <4>2
        <4> QED
          BY <3>1, <3>5, <3>7, <4>3
      <3>9. op'[f].off = off /\ op'[f].end = o.end /\ op'[f].logged = lg
            /\ op'[f].pc \in {"write", "failed"}
        BY <2>5
      <3> QED
        BY <3>1, <3>6, <3>8, <3>9 DEF OpLogs
    <2> QED
      BY <2>6, <2>7
  <1> QED
    BY <1>6, <1>7

\* bfree() logs a block of the bitmap, and other files keep what they have.
LEMMA TruncFreeFits ==
    ASSUME FitInv, BmapInv', NEW f \in File, TruncFree(f)
    PROVE  \A g \in File : OpLogs(g)'
  <1>0. BmapInv /\ TypeOK /\ \A g \in File : OpLogs(g)
    BY DEF BmapInv, FitInv
  <1>1. PICK b \in Block : /\ op' = [op EXCEPT ![f].logged = op[f].logged \cup {Bitmap(b)}]
                           /\ \A g \in File \ {f} : Keeps(LA, LE, LA', LE', g)
    BY <1>0, TruncFreeStep
  <1> DEFINE lg == op[f].logged \cup {Bitmap(b)}
  <1>2. op' = [op EXCEPT ![f] = [pc |-> op[f].pc, off |-> op[f].off, end |-> op[f].end,
                                 logged |-> lg]]
    <2> HIDE DEF lg
    <2>1. op' = WithLogged(f, lg)
      BY <1>1 DEF WithLogged, lg
    <2> QED
      BY <1>0, <2>1, OneField
  <1>3. \A x \in lg : x \in op[f].logged \/ IsBitmap(x)
    BY DEF IsBitmap
  <1> HIDE DEF lg
  <1>4. \A g \in File : op'[g] = IF g = f
          THEN [pc |-> op[f].pc, off |-> op[f].off, end |-> op[f].end, logged |-> lg] ELSE op[g]
    BY <1>0, <1>2 DEF TypeOK
  <1>5. ASSUME NEW g \in File, g # f PROVE OpLogs(g)'
    BY <1>0, <1>1, <1>4, <1>5, OpLogsStays
  <1>6. OpLogs(f)'
    <2>1. op[f].pc = "trunc" /\ op'[f].pc = op[f].pc /\ op'[f].logged = lg
      BY <1>4 DEF TruncFree
    <2> QED
      BY <1>0, <1>3, <2>1 DEF OpLogs
  <1> QED
    BY <1>5, <1>6

\* A step that leaves the maps as they are, with a file whose operation starts or
\* ends, keeps FitInv.
LEMMA OneFits ==
    ASSUME FitInv, BmapInv', NEW f \in File, LA' = LA, LE' = LE, OpLogs(f)',
           \A g \in File : g # f => op'[g] = op[g]
    PROVE  FitInv'
  <1>1. BmapInv /\ \A g \in File : OpLogs(g)
    BY DEF FitInv
  <1>2. \A g \in File : Keeps(LA, LE, LA', LE', g)
    BY SameKeeps
  <1>3. \A g \in File : OpLogs(g)'
    BY <1>1, <1>2, OpLogsStays
  <1> QED
    BY <1>3 DEF FitInv

\* Every step keeps FitInv.
LEMMA FitStep == FitInv /\ [Next]_vars => FitInv'
  <1> SUFFICES ASSUME FitInv, [Next]_vars PROVE FitInv'
    OBVIOUS
  <1>1. BmapInv /\ BmapInv' /\ TypeOK /\ \A g \in File : OpLogs(g)
    BY StepInv DEF FitInv, BmapInv
  <1>2. CASE Next
    <2>1. PICK f \in File : \/ Write(f) \/ WriteBlock(f) \/ WriteEnd(f)
                            \/ TruncStart(f) \/ TruncFree(f) \/ TruncNext(f) \/ TruncEnd(f)
      BY <1>2 DEF Next
    <2>2. CASE Write(f)
      <3>1. UNCHANGED <<addrs, ent, freed>> /\ \A g \in File : g # f => op'[g] = op[g]
        BY <1>1, <2>2 DEF Write, Start, TypeOK
      <3>2. OpLogs(f)'
        BY <1>1, <2>2, StartFits
      <3> QED
        BY <1>1, <3>1, <3>2, MapStays, OneFits
    <2>3. CASE WriteBlock(f)
      BY <1>1, <2>3, WriteBlockFits DEF FitInv
    <2>4. CASE WriteEnd(f) \/ TruncEnd(f)
      <3>1. UNCHANGED <<addrs, ent, freed>> /\ op' = [op EXCEPT ![f] = Idle]
        BY <2>4 DEF WriteEnd, TruncEnd
      <3>2. \A g \in File : op'[g] = IF g = f THEN Idle ELSE op[g]
        BY <1>1, <3>1 DEF TypeOK
      <3>3. OpLogs(f)'
        BY <3>2 DEF OpLogs, Idle
      <3> QED
        BY <1>1, <3>1, <3>2, <3>3, MapStays, OneFits
    <2>5. CASE TruncStart(f)
      <3>1. UNCHANGED <<addrs, ent, freed>> /\ op[f] = Idle /\ op' = [op EXCEPT ![f].pc = "trunc"]
        BY <2>5 DEF TruncStart
      <3>2. /\ op'[f].pc = "trunc" /\ op'[f].logged = {}
            /\ \A g \in File : g # f => op'[g] = op[g]
        BY <1>1, <3>1 DEF TypeOK, Idle
      <3>3. OpLogs(f)'
        BY <3>2 DEF OpLogs
      <3> QED
        BY <1>1, <3>1, <3>2, <3>3, MapStays, OneFits
    <2>6. CASE TruncFree(f)
      BY <1>1, <2>6, TruncFreeFits DEF FitInv
    <2>7. CASE TruncNext(f)
      <3>1. LA' = LA /\ LE' = LE /\ op' = op
        BY <1>1, <2>7, TruncNextStep DEF TruncNext
      <3>2. \A g \in File : OpLogs(g)'
        BY <1>1, <3>1, SameKeeps, OpLogsStays
      <3> QED
        BY <1>1, <3>2 DEF FitInv
    <2> QED
      BY <2>1, <2>2, <2>3, <2>4, <2>5, <2>6, <2>7
  <1>3. CASE UNCHANGED vars
    <2>1. UNCHANGED <<addrs, ent, freed, op>>
      BY <1>3 DEF vars
    <2>2. \A g \in File : OpLogs(g)'
      BY <1>1, <2>1, MapStays, SameKeeps, OpLogsStays
    <2> QED
      BY <1>1, <2>2 DEF FitInv
  <1> QED
    BY <1>2, <1>3

\* The initial operations have logged nothing.
LEMMA FitInit == Init => FitInv
  <1>1. Init => \A f \in File : OpLogs(f)
    BY DEF Init, OpLogs, Idle
  <1> QED
    BY <1>1, InitInv DEF FitInv

\* The indirect block with the entries of blocks NDIRECT + q * NINDIRECT and on.
Middle(A, E, f, q) ==
    IF q < NSINGLE THEN A[f][NDIRECT + q] ELSE E[A[f][TOP]][q - NSINGLE]

\* The number of the indirect block that has the entry of block bn.
Quotient(bn) == (bn - NDIRECT) \div NINDIRECT

\* A number is a multiple and a remainder in one way.
LEMMA OneQuotient ==
    ASSUME NEW n \in Nat \ {0}, NEW a \in Int, NEW b \in Int,
           NEW r \in 0 .. n - 1, NEW s \in 0 .. n - 1, n * a + r = n * b + s
    PROVE  a = b
  <1>1. \A x, y \in Int : x < y => n * x + n <= n * y
    <2> TAKE x, y \in Int
    <2>1. ASSUME x + 1 <= y PROVE n * (x + 1) <= n * y
      BY <2>1
    <2>2. n * (x + 1) = n * x + n
      OBVIOUS
    <2> QED
      BY <2>1, <2>2
  <1>2. n * a \in Int /\ n * b \in Int
    OBVIOUS
  <1> QED
    BY <1>1, <1>2

\* The indirect blocks on the way to a block are the top one and one below it,
\* or one alone.
LEMMA WayIsShort ==
    ASSUME NEW A, NEW E, NEW f \in File, NEW bn \in 0 .. MAXFILE - 1, NEW b,
           OnWay(A, E, f, bn, b)
    PROVE  \/ b = NthOf(A, E, f, bn)
           \/ b = A[f][TOP]
           \/ bn >= NDIRECT /\ b = Middle(A, E, f, Quotient(bn))
  <1> DEFINE w  == Where(bn)
             sn == bn - NDIRECT
             dn == sn - NINDIRECT * NSINGLE
  <1>0. NINDIRECT * NSINGLE \in Nat /\ sn \in Int /\ dn \in Int
    BY Sizes
  <1>1. CASE Len(w) = 2 /\ b = A[f][w[1]]
    <2> DEFINE q == sn \div NINDIRECT
    <2>1. w[1] = NDIRECT + q /\ q \in 0 .. NSINGLE - 1 /\ sn \in 0 .. NINDIRECT * NSINGLE - 1
      BY <1>1, Lengths
    <2>2. q = Quotient(bn) /\ bn >= NDIRECT
      BY <1>0, <2>1, Sizes DEF Quotient
    <2> HIDE DEF q, sn, dn, w
    <2>3. q < NSINGLE
      BY <2>1, Sizes
    <2> QED
      BY <1>1, <2>1, <2>2, <2>3 DEF Middle
  <1>2. CASE Len(w) = 3 /\ b = A[f][w[1]]
    BY <1>2, Lengths
  <1>3. CASE Len(w) = 3 /\ b = E[A[f][TOP]][w[2]]
    <2> DEFINE q == sn \div NINDIRECT
               p == dn \div NINDIRECT
               r == sn % NINDIRECT
               s == dn % NINDIRECT
    <2>1. w[2] = p /\ p \in 0 .. NINDIRECT - 1 /\ q = Quotient(bn)
      BY <1>3, Lengths DEF Index, Quotient
    <2>2. q \in Int /\ r \in 0 .. NINDIRECT - 1 /\ sn = NINDIRECT * q + r
      BY <1>0, Sizes, DivMod
    <2>3. p \in Int /\ s \in 0 .. NINDIRECT - 1 /\ dn = NINDIRECT * p + s
      BY <1>0, Sizes, DivMod
    <2>4. dn = sn - NINDIRECT * NSINGLE
      OBVIOUS
    <2> HIDE DEF p, q, r, s, dn
    <2>5. NINDIRECT * (p + NSINGLE) = NINDIRECT * p + NINDIRECT * NSINGLE
          /\ NINDIRECT * p \in Nat /\ NINDIRECT * q \in Int
      BY <2>1, <2>2, Sizes
    <2>6. NINDIRECT * q + r = NINDIRECT * (p + NSINGLE) + s
      BY <1>0, <2>2, <2>3, <2>4, <2>5, Sizes
    <2>7. q = p + NSINGLE
      <3>1. p + NSINGLE \in Int
        BY <2>3, Sizes
      <3> QED
        BY <2>2, <2>3, <2>6, <3>1, Sizes, OneQuotient
    <2>8. ~(q < NSINGLE) /\ q - NSINGLE = p
      BY <2>1, <2>7, Sizes
    <2>9. bn >= NDIRECT
      BY <1>0, <2>2, <2>3, <2>4, <2>5, <2>1, Sizes DEF sn
    <2> HIDE DEF sn, w
    <2> QED
      BY <1>3, <2>1, <2>8, <2>9 DEF Middle
  <1> QED
    BY <1>1, <1>2, <1>3 DEF OnWay

\* The blocks of a chunk have their entries in two indirect blocks at most.
LEMMA TwoMiddles ==
    ASSUME NEW b0 \in Nat, ChunkBlocks \in 0 .. NINDIRECT
    PROVE  \E q \in Int : \A bn \in Window(b0) :
             bn >= NDIRECT => Quotient(bn) \in {q, q + 1}
  <1> DEFINE m == IF b0 < NDIRECT THEN NDIRECT ELSE b0
             q == (m - NDIRECT) \div NINDIRECT
             r == (m - NDIRECT) % NINDIRECT
  <1>1. m \in Nat /\ NDIRECT <= m /\ b0 <= m /\ m - NDIRECT \in Int
    BY Sizes
  <1>2. q \in Int /\ r \in 0 .. NINDIRECT - 1 /\ m - NDIRECT = NINDIRECT * q + r
    <2> HIDE DEF m
    <2> QED
      BY <1>1, Sizes, DivMod
  <1>3. \A bn \in Window(b0) : bn >= NDIRECT => m <= bn /\ bn <= m + NINDIRECT /\ bn \in Nat
    BY <1>1, Sizes DEF Window
  <1> HIDE DEF m, q, r
  <1>4. ASSUME NEW bn \in Window(b0), bn >= NDIRECT PROVE Quotient(bn) \in {q, q + 1}
    <2>1. bn \in Nat /\ bn - NDIRECT \in Int /\ m <= bn /\ bn <= m + NINDIRECT
      BY <1>3, <1>4, Sizes
    <2> DEFINE k == (bn - NDIRECT) \div NINDIRECT
               s == (bn - NDIRECT) % NINDIRECT
    <2>2. k \in Int /\ s \in 0 .. NINDIRECT - 1 /\ bn - NDIRECT = NINDIRECT * k + s
      BY <2>1, Sizes, DivMod
    <2> HIDE DEF k, s
    <2>3. NINDIRECT * q \in Int /\ NINDIRECT * k \in Int
      BY <1>2, <2>2, Sizes
    <2>4. \A x, y \in Int : x < y => NINDIRECT * x + NINDIRECT <= NINDIRECT * y
      <3> TAKE x, y \in Int
      <3>1. ASSUME x + 1 <= y PROVE NINDIRECT * (x + 1) <= NINDIRECT * y
        BY <3>1, Sizes
      <3>2. NINDIRECT * (x + 1) = NINDIRECT * x + NINDIRECT
        BY Sizes
      <3> QED
        BY <3>1, <3>2, Sizes
    <2>5. ~(k < q)
      BY <1>1, <1>2, <2>1, <2>2, <2>3, <2>4, Sizes
    <2>6. ~(q + 1 < k)
      <3>1. NINDIRECT * (q + 1) = NINDIRECT * q + NINDIRECT /\ q + 1 \in Int
        BY <1>2, Sizes
      <3>2. q + 1 < k => NINDIRECT * q + NINDIRECT + NINDIRECT <= NINDIRECT * k
        BY <2>2, <2>4, <3>1
      <3> QED
        BY <1>1, <1>2, <2>1, <2>2, <2>3, <3>2, Sizes
    <2>7. k = q \/ k = q + 1
      BY <1>2, <2>2, <2>5, <2>6
    <2> QED
      BY <2>7 DEF k, Quotient
  <1> QED
    BY <1>2, <1>4

\* As many elements as numbers, at most, if each is the value at one of them.
LEMMA AtMost ==
    ASSUME NEW a \in Int, NEW n \in Nat, NEW F, NEW S,
           \A x \in S : \E i \in a .. a + n - 1 : x = F[i]
    PROVE  IsFiniteSet(S) /\ Cardinality(S) \in Nat /\ Cardinality(S) <= n
  <1> DEFINE I == a .. a + n - 1
             T == {F[i] : i \in I}
             G == [i \in I |-> F[i]]
  <1>1. IsFiniteSet(I) /\ Cardinality(I) <= n
    <2> DEFINE z == a + n - 1
    <2>1. z \in Int /\ z = a + n - 1
      OBVIOUS
    <2> HIDE DEF z
    <2>2. IsFiniteSet(a .. z) /\ Cardinality(a .. z) = IF a > z THEN 0 ELSE z - a + 1
      BY <2>1, FS_Interval
    <2>3. Cardinality(a .. z) <= n
      BY <2>1, <2>2
    <2> QED
      BY <2>2, <2>3 DEF z
  <1>2. G \in Surjection(I, T)
    BY DEF Surjection
  <1>3. IsFiniteSet(T) /\ Cardinality(T) <= Cardinality(I)
    <2> HIDE DEF I, T, G
    <2> QED
      BY <1>1, <1>2, FS_Surjection
  <1>4. S \subseteq T
    OBVIOUS
  <1> HIDE DEF I, T
  <1> QED
    BY <1>1, <1>3, <1>4, FS_Subset, FS_CardinalityType

\* A set has one element more with one more element, at most.
LEMMA OneMore ==
    ASSUME NEW S, NEW x, IsFiniteSet(S)
    PROVE  /\ IsFiniteSet(S \cup {x})
           /\ Cardinality(S) \in Nat /\ Cardinality(S \cup {x}) \in Nat
           /\ Cardinality(S \cup {x}) <= Cardinality(S) + 1
  <1>1. /\ IsFiniteSet(S \cup {x})
        /\ Cardinality(S \cup {x}) = IF x \in S THEN Cardinality(S) ELSE Cardinality(S) + 1
    BY FS_AddElement
  <1>2. Cardinality(S) \in Nat /\ Cardinality(S \cup {x}) \in Nat
    BY <1>1, FS_CardinalityType
  <1> QED
    BY <1>1, <1>2

\* The bitmap has Bitmaps blocks.
LEMMA BitmapBlocks ==
    /\ Bitmaps \in Nat
    /\ \A x : IsBitmap(x) => \E i \in 0 .. Bitmaps - 1 : x = <<"bitmap", i>>
  <1> DEFINE a == NBLOCK + BPB - 1
             r == a % BPB
  <1>1. a \in Nat /\ a \in Int /\ a = NBLOCK + BPB - 1
    BY Sizes
  <1> HIDE DEF a
  <1>2. a \div BPB \in Int /\ r \in 0 .. BPB - 1 /\ a = BPB * (a \div BPB) + r
    BY <1>1, Sizes, DivMod
  <1>3. Bitmaps = a \div BPB
    BY DEF Bitmaps, a
  <1> DEFINE q == Bitmaps
  <1> HIDE DEF q, r
  <1>4. q \in Int /\ a = BPB * q + r
    BY <1>2, <1>3 DEF q
  <1>5. BPB * q >= NBLOCK /\ BPB * q \in Int /\ BPB * q = q * BPB
    BY <1>1, <1>2, <1>4, Sizes
  <1>6. q \in Nat
    <2>1. q < 0 => BPB * q < 0
      BY <1>4, Sizes
    <2> QED
      BY <1>4, <1>5, <2>1, Sizes
  <1>7. ASSUME NEW b \in Block PROVE (b - 1) \div BPB \in 0 .. q - 1
    <2>1. b - 1 \in Nat /\ b - 1 < q * BPB
      BY <1>5, Sizes DEF Block
    <2> QED
      BY <1>6, <2>1, Sizes, DivBounds
  <1> QED
    BY <1>6, <1>7 DEF IsBitmap, Bitmap, q

\* begin_op() reserves no more than fits two blocks of entries.
LEMMA ChunkIsShort == ChunkBlocks \in 0 .. NINDIRECT
  <1> DEFINE a == MAXOPBLOCKS - 1 - 1 - 2
             r == a % 2
  <1>1. a \in Int /\ a = MAXOPBLOCKS - 4 /\ a \in 0 .. 2 * NINDIRECT
    BY BmapAssumption
  <1>2. a \div 2 \in Int /\ r \in 0 .. 2 - 1 /\ a = 2 * (a \div 2) + r
    <2> HIDE DEF a, r
    <2>1. a \in Int /\ 2 \in Nat \ {0}
      BY <1>1
    <2> QED
      BY <2>1, DivMod DEF r
  <1>3. ChunkBlocks = a \div 2
    BY DEF ChunkBlocks
  <1> DEFINE c == ChunkBlocks
  <1> HIDE DEF a, r, c
  <1>4. c \in Int /\ a = 2 * c + r
    BY <1>2, <1>3 DEF c
  <1> QED
    BY <1>1, <1>2, <1>4, Sizes DEF c

\* A chunk of filewrite() logs the blocks of the bitmap, its own blocks, three above
\* them and the inode, and an itrunc() only the first and the last of them.
LEMMA FitFits ==
    ASSUME FitInv, NEW f \in File
    PROVE  Logged(f) <= Bitmaps + ChunkBlocks + 5
  <1> DEFINE c == ChunkBlocks
             lg == op[f].logged
             BM == {x \in lg : IsBitmap(x)}
  <1>0. Logged(f) = Cardinality(lg \cup {Dinode(f)})
    BY DEF Logged
  <1>1. c \in 0 .. NINDIRECT /\ c \in Nat /\ Bitmaps \in Nat
    BY ChunkIsShort, BitmapBlocks, Sizes
  <1>2. IsFiniteSet(BM) /\ Cardinality(BM) \in Nat /\ Cardinality(BM) <= Bitmaps
    <2> DEFINE F == [i \in Int |-> <<"bitmap", i>>]
    <2>0. PICK a \in Int : a = 0
      OBVIOUS
    <2>1. \A x \in BM : \E i \in a .. a + Bitmaps - 1 : x = F[i]
      BY <1>1, <2>0, BitmapBlocks
    <2> HIDE DEF F, BM
    <2> QED
      BY <1>1, <2>1, AtMost
  <1>3. BmapInv /\ OpOK(f) /\ OpLogs(f)
    BY DEF FitInv, BmapInv, TypeOK
  <1> HIDE DEF c
  <1>4. CASE op[f].pc \in {"idle", "trunc"}
    <2>1. lg \subseteq BM
      BY <1>3, <1>4 DEF OpOK, OpLogs, Idle
    <2>2. lg \cup {Dinode(f)} \subseteq BM \cup {Dinode(f)}
      BY <2>1
    <2> DEFINE S == BM \cup {Dinode(f)}
    <2> HIDE DEF BM
    <2>3. IsFiniteSet(S) /\ Cardinality(S) \in Nat /\ Cardinality(S) <= Bitmaps + 1
      <3>1. /\ IsFiniteSet(S) /\ Cardinality(BM) \in Nat /\ Cardinality(S) \in Nat
            /\ Cardinality(S) <= Cardinality(BM) + 1
        BY <1>2, OneMore
      <3> HIDE DEF S
      <3> QED
        BY <1>1, <1>2, <3>1
    <2> HIDE DEF S, lg
    <2>4. Cardinality(lg \cup {Dinode(f)}) <= Cardinality(S)
          /\ Cardinality(lg \cup {Dinode(f)}) \in Nat
      BY <2>2, <2>3, FS_Subset, FS_CardinalityType DEF S
    <2> QED
      BY <1>0, <1>1, <2>3, <2>4 DEF lg, c
  <1>5. CASE op[f].pc \in {"write", "failed"}
    <2>0. PICK k \in Int : k = Bitmaps + c + 1
      BY <1>1
    <2>1. PICK b0 \in Nat : \A x \in lg :
            IsBitmap(x) \/ \E bn \in Window(b0) : Along(LA, LE, f, bn, x)
      BY <1>3, <1>5 DEF OpLogs
    <2>2. PICK q \in Int : \A bn \in Window(b0) :
            bn >= NDIRECT => Quotient(bn) \in {q, q + 1}
      BY <1>1, TwoMiddles DEF c
    <2> DEFINE L  == {x \in lg : \E bn \in Window(b0) : x = Data(NthOf(LA, LE, f, bn))}
               u  == Data(Middle(LA, LE, f, q))
               v  == Data(Middle(LA, LE, f, q + 1))
               w  == Data(LA[f][TOP])
               S0 == BM \cup L
               S1 == S0 \cup {u}
               S2 == S1 \cup {v}
               S3 == S2 \cup {w}
               S4 == S3 \cup {Dinode(f)}
    <2>3. lg \subseteq S3
      <3> SUFFICES ASSUME NEW x \in lg, ~IsBitmap(x) PROVE x \in L \cup {u, v, w}
        OBVIOUS
      <3>1. PICK bn \in Window(b0) : Along(LA, LE, f, bn, x)
        BY <2>1
      <3>2. bn \in 0 .. MAXFILE - 1
        BY DEF Window
      <3>3. PICK b : OnWay(LA, LE, f, bn, b) /\ x = Data(b)
        BY <3>1 DEF Along
      <3>4. \/ b = NthOf(LA, LE, f, bn)
            \/ b = LA[f][TOP]
            \/ bn >= NDIRECT /\ b = Middle(LA, LE, f, Quotient(bn))
        BY <3>2, <3>3, WayIsShort
      <3> QED
        BY <2>2, <3>3, <3>4
    <2>4. IsFiniteSet(L) /\ Cardinality(L) \in Nat /\ Cardinality(L) <= c + 1
      <3> DEFINE F == [i \in Int |-> Data(NthOf(LA, LE, f, i))]
      <3>1. \A bn \in Window(b0) : bn \in b0 .. b0 + (c + 1) - 1 /\ bn \in Int
        BY <1>1 DEF Window, c
      <3>2. \A x \in L : \E i \in b0 .. b0 + (c + 1) - 1 : x = F[i]
        BY <3>1
      <3>3. b0 \in Int /\ c + 1 \in Nat
        BY <1>1
      <3> HIDE DEF F, L
      <3> QED
        BY <3>2, <3>3, AtMost
    <2> HIDE DEF BM, L, u, v, w
    <2>5. IsFiniteSet(S0) /\ Cardinality(S0) \in Nat /\ Cardinality(S0) <= k
      <3>1. IsFiniteSet(S0) /\ Cardinality(S0) \in Nat
            /\ Cardinality(S0) = Cardinality(BM) + Cardinality(L) - Cardinality(BM \cap L)
        BY <1>2, <2>4, FS_Union, FS_CardinalityType
      <3>2. Cardinality(BM \cap L) \in Nat
        BY <1>2, FS_Subset, FS_CardinalityType
      <3> QED
        BY <1>1, <1>2, <2>0, <2>4, <3>1, <3>2
    <2> HIDE DEF S0
    <2>6. IsFiniteSet(S1) /\ Cardinality(S1) \in Nat /\ Cardinality(S1) <= k + 1
      <3>1. /\ IsFiniteSet(S1) /\ Cardinality(S0) \in Nat /\ Cardinality(S1) \in Nat
            /\ Cardinality(S1) <= Cardinality(S0) + 1
        BY <2>5, OneMore
      <3> HIDE DEF S1
      <3> QED
        BY <2>0, <2>5, <3>1
    <2> HIDE DEF S1
    <2>7. IsFiniteSet(S2) /\ Cardinality(S2) \in Nat /\ Cardinality(S2) <= k + 2
      <3>1. /\ IsFiniteSet(S2) /\ Cardinality(S1) \in Nat /\ Cardinality(S2) \in Nat
            /\ Cardinality(S2) <= Cardinality(S1) + 1
        BY <2>6, OneMore
      <3> HIDE DEF S2
      <3> QED
        BY <2>0, <2>6, <3>1
    <2> HIDE DEF S2
    <2>8. IsFiniteSet(S3) /\ Cardinality(S3) \in Nat /\ Cardinality(S3) <= k + 3
      <3>1. /\ IsFiniteSet(S3) /\ Cardinality(S2) \in Nat /\ Cardinality(S3) \in Nat
            /\ Cardinality(S3) <= Cardinality(S2) + 1
        BY <2>7, OneMore
      <3> HIDE DEF S3
      <3> QED
        BY <2>0, <2>7, <3>1
    <2> HIDE DEF S3
    <2>9. IsFiniteSet(S4) /\ Cardinality(S4) \in Nat /\ Cardinality(S4) <= k + 4
      <3>1. /\ IsFiniteSet(S4) /\ Cardinality(S3) \in Nat /\ Cardinality(S4) \in Nat
            /\ Cardinality(S4) <= Cardinality(S3) + 1
        BY <2>8, OneMore
      <3> HIDE DEF S4
      <3> QED
        BY <2>0, <2>8, <3>1
    <2>10. lg \cup {Dinode(f)} \subseteq S4
      BY <2>3
    <2> HIDE DEF S4, lg
    <2>11. Cardinality(lg \cup {Dinode(f)}) <= Cardinality(S4)
           /\ Cardinality(lg \cup {Dinode(f)}) \in Nat
      BY <2>9, <2>10, FS_Subset, FS_CardinalityType
    <2> QED
      BY <1>0, <1>1, <2>0, <2>9, <2>11 DEF lg, c
  <1> QED
    BY <1>3, <1>4, <1>5 DEF OpOK

\* A chunk of filewrite() (file.c:149-155) and an itrunc() log no more than the
\* blocks of the bitmap, those of a chunk and five, on a disk of any size, in every
\* zone of the map, with a copy that fails and with other operations in between:
\* what MAXOPBLOCKS would have to be on a disk with that many bitmap blocks.
THEOREM OperationsAreBounded == Spec => []OpBounded
  <1>1. FitInv => OpBounded
    BY FitFits DEF OpBounded
  <1> QED
    BY <1>1, FitInit, FitStep, PTL DEF Spec

=============================================================================
