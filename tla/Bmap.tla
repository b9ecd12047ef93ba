-------------------------------- MODULE Bmap --------------------------------
(***************************************************************************)
(* Large files in kernel/fs.c: the block map of an inode with direct,      *)
(* indirect and doubly indirect blocks, the free bitmap under it, and      *)
(* filewrite() and itrunc() over it.  An operation on a file holds its     *)
(* inode's lock: there is one at a time for each file, and operations on   *)
(* different files interleave block by block, within an itrunc() too, that *)
(* may sleep in bread() before every block that it frees.                  *)
(*                                                                         *)
(* The contents of a block matter only where they are block numbers.       *)
(***************************************************************************)
EXTENDS Integers, Sequences, FiniteSets, FiniteSetsExt

CONSTANTS File,
          NDIRECT, NSINGLE, NINDIRECT,  \* 6, 6 and 256 in the code
          NBLOCK,       \* data blocks on the disk
          BPB,          \* bitmap bits in a block
          BSIZE,        \* positions to write at in a block
          MAXOPBLOCKS,
          LENGTHS,      \* bound: the lengths of chunks written
          LIMIT,        \* bound: how long each file gets
          TRUNCS,       \* bound: how often a file is truncated
          MADE          \* bound: the size of the file that mkfs has made

ASSUME BmapAssumption ==
    /\ IsFiniteSet(File)
    /\ {NDIRECT, NSINGLE, NINDIRECT, NBLOCK, BPB, BSIZE, MAXOPBLOCKS} \subseteq Nat \ {0}
    /\ NDIRECT < NINDIRECT
    /\ MAXOPBLOCKS - 4 \in 0 .. 2 * NINDIRECT
    /\ LIMIT \in [File -> Nat]
    /\ MADE \in 0 .. (NDIRECT + NINDIRECT) * BSIZE
    /\ (MADE + BSIZE - 1) \div BSIZE < NBLOCK     \* the image has room for it
    /\ File \cap (1 .. NBLOCK) = {}              \* a file is not a block's number

VARIABLES
    addrs,     \* ip->addrs[]
    size,      \* ip->size
    ent,       \* each block's contents as block numbers
    used,      \* the bitmap
    op,        \* what is under way on each file, and the blocks it has logged
    freed,     \* the place of the block that itrunc() has just freed, in each file
    panicked,  \* "balloc: out of blocks", "freeing free block"
    truncs     \* for the bound

vars == <<addrs, size, ent, used, op, freed, panicked, truncs>>

Block  == 1 .. NBLOCK
TOP    == NDIRECT + NSINGLE        \* the slot of the doubly indirect block
Slot   == 0 .. TOP
Index  == 0 .. NINDIRECT - 1
MAXFILE == NDIRECT + NINDIRECT * NSINGLE + NINDIRECT * NINDIRECT
Zeros  == [j \in Index |-> 0]
Junk   == [j \in Index |-> 1]     \* what a free block holds: not zeros
NoPlace == <<>>
Idle   == [pc |-> "idle", off |-> 0, end |-> 0, logged |-> {}]

\* The blocks of the disk that an operation logs.
Data(b)   == <<"block", b>>
Bitmap(b) == <<"bitmap", (b - 1) \div BPB>>
Dinode(f) == <<"inode", f>>

\* iappend() has made a file of m blocks; it finds the blocks after the direct
\* ones at fbn - NDIRECT in its indirect block.
MkfsAddrs(m) ==
    [k \in Slot |-> CASE k < NDIRECT -> IF k < m THEN k + 1 ELSE 0
                      [] k = NDIRECT /\ k < m -> k + 1
                      [] OTHER -> 0]
MkfsEnt(m) ==
    [b \in Block |->
        IF b = NDIRECT + 1 /\ NDIRECT < m
        THEN [j \in Index |-> IF NDIRECT + j < m THEN NDIRECT + 2 + j ELSE 0]
        ELSE Junk]
MkfsUsed(m) == 1 .. (IF m > NDIRECT THEN m + 1 ELSE m)

\* One file may be made by mkfs, the others are new.
Init ==
    /\ \E n \in 0 .. MADE, made \in File :
         LET m == (n + BSIZE - 1) \div BSIZE IN
         /\ n <= LIMIT[made]
         /\ size = [f \in File |-> IF f = made THEN n ELSE 0]
         /\ addrs = [f \in File |-> MkfsAddrs(IF f = made THEN m ELSE 0)]
         /\ ent = MkfsEnt(m)
         /\ used = MkfsUsed(m)
    /\ op = [f \in File |-> Idle]
    /\ freed = [f \in File |-> NoPlace]
    /\ panicked = FALSE
    /\ truncs = 0

-----------------------------------------------------------------------------
(***************************************************************************)
(* bmap() works on the record of what it may change: the file's addrs, the *)
(* blocks' entries, the bitmap, the blocks logged, the block number it has *)
(* got so far, and whether balloc() has found no block.                    *)
(***************************************************************************)
State(f) == [addrs |-> addrs[f], ent |-> ent, used |-> used,
             logged |-> op[f].logged, got |-> 0, ok |-> TRUE]

\* The first free block, marked and zeroed.
Balloc(s) ==
    IF Block \subseteq s.used THEN [s EXCEPT !.ok = FALSE]
    ELSE LET b == Min(Block \ s.used)
         IN [s EXCEPT !.used = @ \cup {b},
                      !.ent[b] = Zeros,
                      !.logged = @ \cup {Bitmap(b), Data(b)},
                      !.got = b]

\* The block in slot k of the inode, allocated if there is none.
InInode(s, k) ==
    IF s.addrs[k] # 0 THEN [s EXCEPT !.got = s.addrs[k]]
    ELSE LET t == Balloc(s) IN IF t.ok THEN [t EXCEPT !.addrs[k] = t.got] ELSE t

\* The block at index j of the block got so far.
InBlock(s, j) ==
    IF ~s.ok THEN s
    ELSE LET a == s.got IN
         IF s.ent[a][j] # 0 THEN [s EXCEPT !.got = s.ent[a][j]]
         ELSE LET t == Balloc(s) IN
              IF t.ok THEN [t EXCEPT !.ent[a][j] = t.got, !.logged = @ \cup {Data(a)}]
                      ELSE t

\* Where block bn of a file is found: a slot of the inode, and the indices in
\* the indirect blocks from there.  An indirect block is indexed by the number
\* modulo NDIRECT.
Where(bn) ==
    LET sn == bn - NDIRECT
        dn == sn - NINDIRECT * NSINGLE
    IN CASE bn < NDIRECT -> <<bn>>
         [] bn >= NDIRECT /\ dn < 0 -> <<NDIRECT + sn \div NINDIRECT, sn % NDIRECT>>
         [] OTHER -> <<TOP, dn \div NINDIRECT, dn % NINDIRECT>>

Bmap(s, bn) ==
    LET w == Where(bn)
        at(n) == CASE n = 1 -> InInode(s, w[1])
                   [] n = 2 -> InBlock(InInode(s, w[1]), w[2])
                   [] n = 3 -> InBlock(InBlock(InInode(s, w[1]), w[2]), w[3])
    IN at(Len(w))

-----------------------------------------------------------------------------
\* filewrite(), writei()

\* Mutant: a chunk has as many blocks as there are for data and bitmap.
CHUNKWhole == (MAXOPBLOCKS - 1 - 1 - 2) * BSIZE

\* One chunk of a write, in a transaction of its own.
CHUNK == ((MAXOPBLOCKS - 1 - 1 - 2) \div 2) * BSIZE

Start(f, off, n) ==
    /\ off <= size[f]
    /\ off + n <= MAXFILE * BSIZE /\ off + n <= LIMIT[f]
    /\ op[f] = Idle /\ ~panicked
    /\ op' = [op EXCEPT ![f] = [pc |-> "write", off |-> off, end |-> off + n,
                                logged |-> {}]]
    /\ UNCHANGED <<addrs, size, ent, used, freed, panicked, truncs>>

\* Bound: a write starts at the beginning of the file, as after open(), or at
\* its end.
Write(f) == \E n \in LENGTHS \cap 1 .. CHUNK, off \in {0, size[f]} : Start(f, off, n)

\* A block of the chunk: find it or make it, copy into it, log it.  A copy that
\* fails leaves the block where it is and ends the loop.
WriteBlock(f) ==
    LET o  == op[f]
        s  == Bmap(State(f), o.off \div BSIZE)
        to == Min({o.end, (o.off \div BSIZE + 1) * BSIZE})
    IN
    /\ o.pc = "write" /\ o.off < o.end /\ ~panicked
    /\ IF s.ok
         THEN /\ addrs' = [addrs EXCEPT ![f] = s.addrs]
              /\ ent' = s.ent
              /\ used' = s.used
              /\ \/ op' = [op EXCEPT ![f].off = to, ![f].logged = s.logged \cup {Data(s.got)}]
                 \/ op' = [op EXCEPT ![f].pc = "failed", ![f].logged = s.logged]
              /\ UNCHANGED panicked
         ELSE panicked' = TRUE /\ UNCHANGED <<addrs, ent, used, op>>
    /\ UNCHANGED <<size, freed, truncs>>

\* Mutant: the new size is where the chunk should have ended.
WriteEndLong(f) ==
    LET o == op[f] IN
    /\ \/ o.pc = "write" /\ o.off = o.end
       \/ o.pc = "failed"
    /\ ~panicked
    /\ size' = [size EXCEPT ![f] = Max({@, o.end})]
    /\ op' = [op EXCEPT ![f] = Idle]
    /\ UNCHANGED <<addrs, ent, used, freed, panicked, truncs>>

\* The size, iupdate() and end_op().
WriteEnd(f) ==
    LET o == op[f] IN
    /\ \/ o.pc = "write" /\ o.off = o.end
       \/ o.pc = "failed"
    /\ ~panicked
    /\ size' = [size EXCEPT ![f] = Max({@, o.off})]
    /\ op' = [op EXCEPT ![f] = Idle]
    /\ UNCHANGED <<addrs, ent, used, freed, panicked, truncs>>

-----------------------------------------------------------------------------
\* itrunc(): a place is a slot of a file's inode or an entry of an indirect block

Slots(f)   == {k \in Slot : addrs[f][k] # 0}
Entries(b) == {j \in Index : ent[b][j] # 0}

\* Mutant: an indirect block is freed before the blocks in it.
ToFreeTop(f) == <<f, Min(Slots(f))>>

\* The place of the block that is freed next: the slots in their order, the blocks
\* in an indirect block before the block itself.
ToFree(f) ==
    LET k == Min(Slots(f))
        a == addrs[f][k]
        j == Min(Entries(a))
        b == ent[a][j]
    IN IF k < NDIRECT \/ Entries(a) = {} THEN <<f, k>>
       ELSE IF k < TOP \/ Entries(b) = {} THEN <<a, j>>
       ELSE <<b, Min(Entries(b))>>

\* For open() with O_TRUNC or iput() of the last reference.
TruncStart(f) ==
    /\ op[f] = Idle /\ ~panicked
    /\ truncs < TRUNCS /\ truncs' = truncs + 1
    /\ op' = [op EXCEPT ![f].pc = "trunc"]
    /\ UNCHANGED <<addrs, size, ent, used, freed, panicked>>

\* bfree() of one block, under the lock of its bitmap block.
TruncFree(f) ==
    LET place == ToFree(f)
        n == place[1]
        b == IF n = f THEN addrs[f][place[2]] ELSE ent[n][place[2]]
    IN
    /\ op[f].pc = "trunc" /\ ~panicked
    /\ freed[f] = NoPlace /\ Slots(f) # {}
    /\ IF b \in used
         THEN /\ used' = used \ {b}
              /\ ent' = [ent EXCEPT ![b] = Junk]
              /\ freed' = [freed EXCEPT ![f] = place]
              /\ op' = [op EXCEPT ![f].logged = @ \cup {Bitmap(b)}]
              /\ UNCHANGED panicked
         ELSE panicked' = TRUE /\ UNCHANGED <<ent, used, freed, op>>
    /\ UNCHANGED <<addrs, size, truncs>>

\* The pointer is cleared.  (In a singly indirect block it is not: the loop goes
\* past it and nothing reads it again.)
TruncNext(f) ==
    LET n == freed[f][1]
        i == freed[f][2]
    IN
    /\ freed[f] # NoPlace /\ ~panicked
    /\ IF n = f THEN addrs' = [addrs EXCEPT ![f][i] = 0] /\ UNCHANGED ent
                ELSE ent' = [ent EXCEPT ![n][i] = 0] /\ UNCHANGED addrs
    /\ freed' = [freed EXCEPT ![f] = NoPlace]
    /\ UNCHANGED <<size, used, op, panicked, truncs>>

\* Nothing is left: the size, iupdate() and end_op().
TruncEnd(f) ==
    /\ op[f].pc = "trunc" /\ ~panicked
    /\ freed[f] = NoPlace /\ Slots(f) = {}
    /\ size' = [size EXCEPT ![f] = 0]
    /\ op' = [op EXCEPT ![f] = Idle]
    /\ UNCHANGED <<addrs, ent, used, freed, panicked, truncs>>

Next == \E f \in File : \/ Write(f) \/ WriteBlock(f) \/ WriteEnd(f)
                        \/ TruncStart(f) \/ TruncFree(f) \/ TruncNext(f) \/ TruncEnd(f)

Spec == Init /\ [][Next]_vars

-----------------------------------------------------------------------------
(***************************************************************************)
(* Properties                                                              *)
(***************************************************************************)

\* What is in a place, but for the number of a block that is free again already.
Addr(f, k)  == IF freed[f] = <<f, k>> THEN 0 ELSE addrs[f][k]
Entry(b, j) == IF \E f \in File : freed[f] = <<b, j>> THEN 0 ELSE ent[b][j]

\* The places, of inodes and of the blocks that are indirect blocks, that hold a
\* block number.
Single(f) == {Addr(f, k) : k \in NDIRECT .. TOP - 1} \ {0}
Double(f) == {Addr(f, TOP)} \ {0}
Below(S)  == {Entry(b, j) : b \in S, j \in Index} \ {0}
Indirect  == UNION {Single(f) \cup Double(f) \cup Below(Double(f)) : f \in File}
Held(r)   == IF r[1] \in File THEN Addr(r[1], r[2]) ELSE Entry(r[1], r[2])
Refs      == {r \in (File \X Slot) \cup (Indirect \X Index) : Held(r) # 0}

\* Every block in use has one place in one file and every other block has none, at
\* every moment of a truncation too: no block serves two purposes, no block is freed
\* while it can still be reached or lost before it is freed, and bfree() never
\* panics ("freeing free block").
BlocksExact ==
    LET refs == Refs
        held == {Held(r) : r \in refs}
    IN held = used /\ Cardinality(held) = Cardinality(refs)

\* The block that bmap() finds for block bn, 0 if it would have to allocate it.
Deref(b, j) == IF b = 0 THEN 0 ELSE Entry(b, j)
Nth(f, bn) ==
    LET w == Where(bn) IN
    CASE Len(w) = 1 -> Addr(f, w[1])
      [] Len(w) = 2 -> Deref(Addr(f, w[1]), w[2])
      [] Len(w) = 3 -> Deref(Deref(Addr(f, w[1]), w[2]), w[3])

\* The blocks that hold the file's bytes, and nobody does while itrunc() has the
\* inode's lock.
Blocks(f) == {bn \in 0 .. MAXFILE - 1 : bn * BSIZE < size[f] /\ op[f].pc # "trunc"}

\* Two blocks of an indirect block whose numbers agree modulo NDIRECT.
SameIndex(m, n) ==
    LET sm == m - NDIRECT
        sn == n - NDIRECT
    IN /\ {sm, sn} \subseteq 0 .. NINDIRECT * NSINGLE - 1
       /\ sm \div NINDIRECT = sn \div NINDIRECT
       /\ sm % NDIRECT = sn % NDIRECT

\* Every block below the size is mapped, also after a write that failed half
\* way: readi(), which is in no transaction, never allocates ("log_write outside
\* of trans").  No two blocks are the same one on disk, but for those that the
\* index of fs.c:400 takes for each other.
NthBlock ==
    LET mapped == UNION {{<<f, bn, Nth(f, bn)>> : bn \in Blocks(f)} : f \in File} IN
    \A m, n \in mapped :
        /\ m[3] # 0
        /\ m[3] = n[3] => m[1] = n[1] /\ (m[2] = n[2] \/ SameIndex(m[2], n[2]))

\* The blocks that filewrite() allows a chunk, and those of the bitmap.
ChunkBlocks == (MAXOPBLOCKS - 1 - 1 - 2) \div 2
Bitmaps     == (NBLOCK + BPB - 1) \div BPB

\* What an operation has logged, iupdate() of the inode included.
Logged(f) == Cardinality(op[f].logged \cup {Dinode(f)})

\* On any disk, a chunk of filewrite() or an itrunc() logs no more than the bitmap,
\* the blocks of a chunk and one for its not being aligned, the doubly indirect
\* block, two blocks of entries and the inode: in every zone of the map, across
\* their boundaries, and with blocks that other files have given back or taken.
OpBounded == \A f \in File : Logged(f) <= Bitmaps + ChunkBlocks + 5

\* What MAXOPBLOCKS ("max # of blocks any FS op writes", param.h:9) and filewrite()
\* ("to avoid exceeding the maximum log transaction size", file.c:149-150) say.
OpFits == \A f \in File : Logged(f) <= MAXOPBLOCKS
=============================================================================
