------------------------------- MODULE Paging -------------------------------
(***************************************************************************)
(* Paging of MP2: madvise() and page faults (kernel/vm.c, kernel/paging.c),*)
(* the groups of eight disk blocks for pages that are swapped out          *)
(* (kernel/fs.c) and the page replacement buffer, a queue of page-table    *)
(* entries that every walk() of a page table adds to (kernel/fifo.c,       *)
(* kernel/lru.c).                                                          *)
(*                                                                         *)
(* madvise() takes a step for every page of its range, so that calls of    *)
(* different processes interleave; the other operations are one step.  A   *)
(* process slot has its page table in the same place each time it is used. *)
(* No log_write() of this kernel's fs.c is compiled in: a bitmap that is   *)
(* changed lives in its buffer alone.  The kernel stops where it panics: an *)
(* operation that would panic is no step, its guard names the panic.       *)
(***************************************************************************)
EXTENDS Integers, Sequences, FiniteSets, SequencesExt

CONSTANTS Proc,         \* process slots
          MAXPAGE,      \* bound: pages of a process
          Untracked,    \* pages that walk() does not record: 0, 1 and 2
          NGROUP,       \* groups of eight blocks that are free on the disk
          PG_BUF_SIZE,
          OUTS          \* bound: how often a page is swapped out

ASSUME PagingAssumption ==
    /\ IsFiniteSet(Proc)
    /\ {MAXPAGE, NGROUP, PG_BUF_SIZE} \subseteq Nat \ {0}
    /\ Untracked \subseteq 0 .. MAXPAGE - 1

VARIABLES
    policy,    \* "fifo" or "lru", chosen when the kernel is built
    sz,        \* p->sz in pages, 0 for an unused slot
    pte,       \* the leaf page-table entries
    buf,       \* the page replacement buffer
    bits,      \* groups in use in the cached bitmap
    disk,      \* what the groups in use hold
    gone,      \* history: pages whose contents the process has lost
    lost,      \* history: groups of pages whose bit went with the bitmap's buffer
    outs       \* for the bound

kernelVars == <<policy, sz, pte, buf, bits, disk>>
pagingVars == <<kernelVars, gone, lost, outs>>

Page  == 0 .. MAXPAGE - 1
Group == 1 .. NGROUP

\* Contents: v for what a process has in its page v, from the zeros that it is
\* given to what it has stored last, and Other for anything else.
Other == -1

NoPte == [at |-> "none", val |-> Other, pin |-> FALSE]
Mem(c, pin) == [at |-> "mem", val |-> c, pin |-> pin]
Out(g, pin) == [at |-> "swap", val |-> g, pin |-> pin]

\* The PTEs of pages that are swapped out, and their groups.
Swapped(t) == {e \in Proc \X Page : t[e[1]][e[2]].at = "swap"}
Groups(t)  == {t[e[1]][e[2]].val : e \in Swapped(t)}

\* One process of one page.
PagingInit ==
    /\ policy \in {"fifo", "lru"}
    /\ \E p \in Proc :
         /\ sz = [q \in Proc |-> IF q = p THEN 1 ELSE 0]
         /\ pte = [q \in Proc |-> [v \in Page |->
                     IF q = p /\ v = 0 THEN Mem(v, FALSE) ELSE NoPte]]
    /\ buf = <<>>
    /\ bits = {}
    /\ disk = [g \in Group |-> Other]
    /\ gone = {}
    /\ lost = {}
    /\ outs = 0

Live(p)  == sz[p] > 0
Set(v, e) == [pte EXCEPT ![v[1]][v[2]] = e]

-----------------------------------------------------------------------------
\* The page replacement buffer

\* Whether an entry of the buffer points to a PTE with PTE_P set, in the page
\* tables t.  In the memory of a page table that has been freed anything may
\* look like PTE_P: junk says what does.
Pinned(e, t, junk) == IF sz[e[1]] = 0 THEN junk ELSE t[e[1]][e[2]].pin

\* Mutant: the oldest entry makes room whether it is pinned or not.
InsertOldest(b, e, t, junk) ==
    IF Len(b) < PG_BUF_SIZE THEN Append(b, e) ELSE Append(Tail(b), e)

\* In a full buffer the oldest that is not pinned makes room; all pinned, the new
\* entry is left out.
Insert(b, e, t, junk) ==
    LET free == {i \in DOMAIN b : ~Pinned(b[i], t, junk)}
    IN CASE Len(b) < PG_BUF_SIZE -> Append(b, e)
         [] Len(b) = PG_BUF_SIZE /\ free # {} -> Append(RemoveAt(b, Min(free)), e)
         [] OTHER -> b

\* An entry that is there stays; for LRU it becomes the newest.
q_push(b, e, t, junk)   == IF Contains(b, e) THEN b ELSE Insert(b, e, t, junk)
lru_push(b, e, t, junk) ==
    LET at == {i \in DOMAIN b : b[i] = e}
    IN IF at # {} THEN Append(RemoveAt(b, Min(at)), e) ELSE Insert(b, e, t, junk)
Push(b, e, t, junk) == IF policy = "lru" THEN lru_push(b, e, t, junk)
                                         ELSE q_push(b, e, t, junk)

\* The walk()s over a sequence of entries, with the page tables they lead to.
Walks(es, t) ==
    \E junk \in BOOLEAN :
        LET b[i \in 0 .. Len(es)] ==
              IF i = 0 THEN buf
              ELSE IF es[i][2] \in Untracked THEN b[i - 1]
                   ELSE Push(b[i - 1], es[i], t, junk)
        IN buf' = b[Len(es)]
Walk(p, v, t) == Walks(<< <<p, v>> >>, t)

Pages(p, n) == [i \in 1 .. n |-> <<p, i - 1>>]

-----------------------------------------------------------------------------
\* The user program, and page faults

\* A store to a page that is there.
Store(p, v) ==
    /\ Live(p) /\ pte[p][v].at = "mem"
    /\ pte' = Set(<<p, v>>, Mem(v, pte[p][v].pin))
    /\ gone' = gone \ {<<p, v>>}
    /\ UNCHANGED <<policy, sz, buf, bits, disk, outs>>

\* handle_pgfault() maps a page of zeros wherever the fault was: the contents
\* of a page that is swapped out are left behind.  Its own walk() records an
\* address inside an untracked page, as only the first byte is compared.
Fault(p, v) ==
    LET e == <<p, v>>
        t == Set(e, Mem(Other, pte[p][v].pin))
    IN
    /\ Live(p) /\ pte[p][v].at # "mem"
    /\ pte' = t
    /\ \/ Walks(<<e, e>>, t)
       \/ /\ v \in Untracked
          /\ \E junk \in BOOLEAN : buf' = Push(buf, e, pte, junk)
    /\ gone' = IF v < sz[p] THEN gone \cup {e} ELSE gone
    /\ UNCHANGED <<policy, sz, bits, disk, outs>>

-----------------------------------------------------------------------------
\* sbrk(), fork(), exit()

\* growproc() by a page; a page mapped beyond the size is in the way.  Without
\* memory nothing changes.
Grow(p) ==
    LET v == sz[p]
        t == Set(<<p, v>>, Mem(v, FALSE))
    IN
    /\ Live(p) /\ v < MAXPAGE
    /\ pte[p][v].at # "mem"                  \* "mappages: remap"
    /\ sz' = [sz EXCEPT ![p] = v + 1]
    /\ pte' = t
    /\ Walk(p, v, t)
    /\ UNCHANGED <<policy, bits, disk, gone, outs>>

\* uvmunmap() leaves the entry of a page that is swapped out as it is.
Unmapped(e) == IF e.at = "swap" THEN e ELSE NoPte

Shrink(p) ==
    LET v == sz[p] - 1
        t == Set(<<p, v>>, Unmapped(pte[p][v]))
    IN
    /\ Live(p) /\ v > 0
    /\ sz' = [sz EXCEPT ![p] = v]
    /\ pte' = t
    /\ Walk(p, v, pte)
    /\ gone' = gone \ {<<p, v>>}
    /\ UNCHANGED <<policy, bits, disk, outs>>

\* Mutant: uvmcopy() copies the entries of the pages that are swapped out.
ForkShares(p, q) ==
    LET t == [pte EXCEPT ![q] = [v \in Page |-> IF v < sz[p] THEN pte[p][v] ELSE NoPte]]
    IN
    /\ Live(p) /\ sz[q] = 0
    /\ sz' = [sz EXCEPT ![q] = sz[p]]
    /\ pte' = t
    /\ Walks(Pages(p, sz[p]), t)
    /\ gone' = gone \cup {<<q, v>> : v \in {u \in Page : <<p, u>> \in gone}}
    /\ UNCHANGED <<policy, bits, disk, outs>>

\* uvmcopy() wants every page in memory.
Fork(p, q) ==
    LET t == [pte EXCEPT ![q] = [v \in Page |-> IF v < sz[p] THEN pte[p][v] ELSE NoPte]]
        walks == [i \in 1 .. 2 * sz[p] |->
                    IF i % 2 = 1 THEN <<p, i \div 2>> ELSE <<q, i \div 2 - 1>>]
    IN
    /\ Live(p) /\ sz[q] = 0
    /\ \A v \in 0 .. sz[p] - 1 : pte[p][v].at = "mem"   \* "page not present"
    /\ sz' = [sz EXCEPT ![q] = sz[p]]
    /\ pte' = t
    /\ Walks(walks, t)
    /\ gone' = gone \cup {<<q, v>> : v \in {u \in Page : <<p, u>> \in gone}}
    /\ UNCHANGED <<policy, bits, disk, outs>>

\* exit() and wait(): uvmfree() frees the pages up to the size; freewalk() finds
\* one that is mapped beyond it.  The groups of the others stay in use.
Exit(p) ==
    /\ Live(p) /\ \E q \in Proc : q # p /\ sz[q] > 0
    /\ \A v \in Page : v >= sz[p] => pte[p][v].at # "mem"   \* "freewalk: leaf"
    /\ sz' = [sz EXCEPT ![p] = 0]
    /\ pte' = [pte EXCEPT ![p] = [v \in Page |-> NoPte]]
    /\ Walks(Pages(p, sz[p]), pte)
    /\ gone' = gone \ ({p} \X Page)
    /\ UNCHANGED <<policy, bits, disk, outs>>

-----------------------------------------------------------------------------
\* The groups of blocks

balloc_page == Min(Group \ bits)                     \* "out of blocks" without one
bfree_page(g) == /\ g \in bits                      \* "data bits are invalid"
                 /\ bits' = bits \ {g}
                 /\ disk' = [disk EXCEPT ![g] = Other]

-----------------------------------------------------------------------------
\* madvise(): a page of the range

Advised(p, v) == Live(p) /\ v < sz[p]

\* Mutant: the page comes back without what is in its group.
WillNeedUnread(p, v) ==
    LET e == pte[p][v]
        t == Set(<<p, v>>, Mem(Other, e.pin))
    IN
    /\ Advised(p, v) /\ e.at = "swap"
    /\ pte' = t
    /\ bfree_page(e.val)
    /\ Walk(p, v, pte)
    /\ UNCHANGED <<policy, sz, gone, outs>>

\* Read the page back and free its group.  A page that has none is only looked
\* up, and so is one that there is no memory for, where the call ends: Walked.
WillNeed(p, v) ==
    LET e == pte[p][v]
        g == e.val
    IN
    /\ Advised(p, v) /\ e.at = "swap"
    /\ pte' = Set(<<p, v>>, Mem(disk[g], e.pin))
    /\ bfree_page(g)
    /\ gone' = IF g \in lost THEN gone \cup {<<p, v>>} ELSE gone
    /\ Walk(p, v, pte)
    /\ UNCHANGED <<policy, sz, outs>>

\* The page is written to its group with bwrite(), past the log.
swap_page_from_pte(p, v, g) ==
    LET e == pte[p][v] IN
    /\ disk' = [disk EXCEPT ![g] = e.val]
    /\ bits' = bits \cup {g}
    /\ pte' = Set(<<p, v>>, Out(g, e.pin))

DontNeed(p, v) ==
    /\ Advised(p, v) /\ pte[p][v].at = "mem"
    /\ outs < OUTS /\ outs' = outs + 1
    /\ bits # Group
    /\ swap_page_from_pte(p, v, balloc_page)
    /\ Walk(p, v, pte)
    /\ UNCHANGED <<policy, sz, gone>>

\* MADV_PIN and MADV_UNPIN of a page in memory.  Bound: of one that is tracked.
Pin(p, v, pin) ==
    LET e == pte[p][v] IN
    /\ Advised(p, v) /\ e.at = "mem" /\ v \notin Untracked
    /\ pte' = Set(<<p, v>>, Mem(e.val, pin))
    /\ Walk(p, v, pte)
    /\ UNCHANGED <<policy, sz, bits, disk, gone, outs>>

\* Everything else that only walks to a page: the advice that does not apply to
\* it, copyin() and copyout() of any system call (walkaddr()), and the loop of
\* MADV_DONTNEED that is to take the pages off the buffer.  It looks there for
\* *pte, the entry itself, among pointers to entries and finds none; its walk()
\* puts the pointer there.
Walked(p, v) ==
    /\ Advised(p, v)
    /\ Walk(p, v, pte)
    /\ UNCHANGED <<policy, sz, pte, bits, disk, gone, outs>>

-----------------------------------------------------------------------------
\* The buffer of the bitmap block is recycled for another block, and the bitmap
\* read again from the disk, where none of the groups has been marked.
Recycle ==
    /\ bits # {}
    /\ bits' = {}
    /\ lost' = Groups(pte)
    /\ UNCHANGED <<policy, sz, pte, buf, disk, gone, outs>>

Step(p) ==
    \/ \E v \in Page : \/ Store(p, v) \/ Fault(p, v) \/ Walked(p, v)
                       \/ WillNeed(p, v) \/ DontNeed(p, v)
                       \/ Pin(p, v, TRUE) \/ Pin(p, v, FALSE)
    \/ Grow(p) \/ Shrink(p) \/ Exit(p)
    \/ \E q \in Proc : Fork(p, q)

PagingNext ==
    \/ \E p \in Proc : Step(p) /\ lost' = lost \cap Groups(pte')
    \/ Recycle

PagingSpec == PagingInit /\ [][PagingNext]_pagingVars

-----------------------------------------------------------------------------
(***************************************************************************)
(* Properties                                                              *)
(***************************************************************************)

\* "Mark 8 consecutive blocks in use" (fs.c:684): a page that is swapped out,
\* also one that its process no longer has within its size, keeps a group of its
\* own, and bfree_page() finds it in use ("data bits are invalid"), as long as
\* the bitmap's buffer has not been recycled under it.
GroupsKept ==
    \A e \in Swapped(pte) : LET g == pte[e[1]][e[2]].val IN
        \/ g \in lost
        \/ /\ g \in bits
           /\ \A f \in Swapped(pte) \ {e} : pte[f[1]][f[2]].val # g

\* Through swapping out, forking, shrinking and growing, a process finds in its
\* pages what it has put there, or its parent, unless it has touched the page
\* while it was swapped out (paging.c:32-37) or the bitmap has been recycled.
ContentsKept ==
    \A p \in Proc : \A v \in 0 .. sz[p] - 1 :
        LET e == pte[p][v] IN
        \/ <<p, v>> \in gone
        \/ e.at = "mem" /\ e.val = v
        \/ e.at = "swap" /\ (e.val \in lost \/ disk[e.val] = v)

\* The page of e is in memory and pinned, in the page tables t.
PinnedIn(t, e) == LET x == t[e[1]][e[2]] IN x.at = "mem" /\ x.pin

\* A pinned page in the buffer stays there until it is unpinned, swapped out or
\* unmapped or its process ends, whatever the other processes' walks do to the
\* buffer.  Of a page that is swapped out nothing is asked: vm.c:527 wants its
\* entry out of the buffer, pinned or not, and the code leaves it there (Walked).
PinnedStays ==
    [][\A e \in Proc \X Page :
         Contains(buf, e) /\ PinnedIn(pte, e) /\ PinnedIn(pte', e)
         => Contains(buf', e)]_pagingVars
=============================================================================
