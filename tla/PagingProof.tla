----------------------------- MODULE PagingProof -----------------------------
(***************************************************************************)
(* Proofs about paging (Paging.tla), for every set of processes, number of *)
(* pages and number of groups of blocks: PagingInv is an invariant and     *)
(* says that groups and contents are kept, whatever the page replacement   *)
(* buffer holds; BufInv says what that holds, and that pins are respected. *)
(***************************************************************************)
EXTENDS Paging, TLAPS, WellFoundedInduction, SequenceTheorems

-----------------------------------------------------------------------------
(***************************************************************************)
(* The inductive invariant                                                 *)
(***************************************************************************)

Entry == [at : {"none", "mem", "swap"}, val : Int, pin : BOOLEAN]

\* The type of everything but the buffer, which no other variable depends on.
TypeOK ==
    /\ sz \in [Proc -> 0 .. MAXPAGE]
    /\ pte \in [Proc -> [Page -> Entry]]
    /\ bits \subseteq Group /\ lost \subseteq Group
    /\ disk \in [Group -> Int]
    /\ gone \subseteq Proc \X Page
    /\ \A p \in Proc, v \in Page : pte[p][v].at = "swap" => pte[p][v].val \in Group

\* The page is swapped out to the group g.
OutTo(p, v, g) == pte[p][v].at = "swap" /\ pte[p][v].val = g

\* GroupsKept of one page and one group.
GroupOK(p, v, g) ==
    OutTo(p, v, g) =>
        \/ g \in lost
        \/ /\ g \in bits
           /\ \A q \in Proc, w \in Page : OutTo(q, w, g) => q = p /\ w = v

\* ContentsKept of one page.
ContentOK(p, v) ==
    v < sz[p] =>
        \/ <<p, v>> \in gone
        \/ pte[p][v].at = "mem" /\ pte[p][v].val = v
        \/ \E g \in Group : OutTo(p, v, g) /\ (g \in lost \/ disk[g] = v)

PagingInv ==
    /\ TypeOK
    /\ \A p \in Proc, v \in Page, g \in Group : GroupOK(p, v, g)
    /\ \A p \in Proc, v \in Page : ContentOK(p, v)

-----------------------------------------------------------------------------
(***************************************************************************)
(* What a step changes                                                     *)
(***************************************************************************)

\* A set of naturals has a least element.
LEMMA LeastElement ==
    ASSUME NEW S \in SUBSET Nat, S # {}
    PROVE  Min(S) \in S /\ \A y \in S : Min(S) <= y
  <1> DEFINE R == OpToRel(<, Nat)
  <1>1. IsWellFoundedOn(R, Nat)
    BY NatLessThanWellFounded, Zenon
  <1> HIDE DEF R
  <1>2. \E x \in S : \A y \in S : ~ (<<y, x>> \in R)
    BY <1>1, WFMin
  <1>3. PICK x \in S : \A y \in S : ~ (<<y, x>> \in R)
    BY <1>2
  <1>4. \A y \in S : x <= y
    <2> TAKE y \in S
    <2>1. x \in Nat /\ y \in Nat
      OBVIOUS
    <2>2. y < x => <<y, x>> \in R
      BY <2>1 DEF R, OpToRel
    <2> QED
      BY <1>3, <2>1, <2>2
  <1> QED
    BY <1>3, <1>4 DEF Min

\* A step of a process: what it leaves of the groups of pages whose bit is gone.
Lost == lost' = lost \cap Groups(pte')

\* One page-table entry changes.
PageSet(p, v, e) ==
    \A q \in Proc, w \in Page : pte'[q][w] = IF q = p /\ w = v THEN e ELSE pte[q][w]

\* The entries of the page tables with one of them set.
LEMMA SetAt ==
    ASSUME TypeOK, NEW p \in Proc, NEW v \in Page, NEW e \in Entry, pte' = Set(<<p, v>>, e)
    PROVE  PageSet(p, v, e) /\ pte' \in [Proc -> [Page -> Entry]]
  <1>1. pte' = [pte EXCEPT ![p][v] = e]
    BY DEF Set
  <1> QED
    BY <1>1 DEF TypeOK, PageSet

\* The parts of a page-table entry.
LEMMA EntryParts ==
    ASSUME TypeOK, NEW p \in Proc, NEW v \in Page
    PROVE  pte[p][v].val \in Int /\ pte[p][v].pin \in BOOLEAN
  <1>1. pte[p][v] \in Entry
    BY DEF TypeOK
  <1> QED
    BY <1>1 DEF Entry

\* An entry of a page that is in memory.
LEMMA MemParts ==
    ASSUME NEW c \in Int, NEW pin \in BOOLEAN
    PROVE  /\ Mem(c, pin) \in Entry /\ Mem(c, pin).val = c
           /\ Mem(c, pin).at = "mem" /\ Mem(c, pin).at # "swap"
  BY DEF Mem, Entry

\* The types after one entry has been set.
LEMMA TypeStays ==
    ASSUME TypeOK, Lost, NEW p \in Proc, NEW v \in Page, NEW e,
           PageSet(p, v, e), pte' \in [Proc -> [Page -> Entry]],
           e.at = "swap" => e.val \in Group,
           sz' \in [Proc -> 0 .. MAXPAGE], bits' \subseteq Group,
           disk' \in [Group -> Int], gone' \subseteq Proc \X Page
    PROVE  TypeOK'
  <1>1. lost' \subseteq Group
    BY DEF TypeOK, Lost
  <1>2. \A q \in Proc, w \in Page : pte'[q][w].at = "swap" => pte'[q][w].val \in Group
    BY DEF TypeOK, PageSet
  <1> QED
    BY <1>1, <1>2 DEF TypeOK

\* A group stays lost as long as a page is swapped out to it.
LEMMA LostStays ==
    ASSUME TypeOK, Lost
    PROVE  /\ lost' \subseteq lost
           /\ \A p \in Proc, v \in Page, g \in lost : OutTo(p, v, g)' => g \in lost'
  <1>1. ASSUME NEW p \in Proc, NEW v \in Page, NEW g \in lost, OutTo(p, v, g)'
        PROVE  g \in lost'
    <2>1. <<p, v>> \in Swapped(pte')
      BY <1>1 DEF Swapped, OutTo
    <2>2. g \in Groups(pte')
      BY <1>1, <2>1 DEF Groups, OutTo
    <2> QED
      BY <2>2 DEF Lost
  <1> QED
    BY <1>1 DEF Lost

\* Where no page is swapped out, and bits are only cleared of groups that no page
\* is left with, groups are kept.
LEMMA GroupsStay ==
    ASSUME PagingInv, Lost,
           \A q \in Proc, w \in Page, g \in Group : OutTo(q, w, g)' =>
             OutTo(q, w, g) /\ (g \in bits => g \in bits' \/ g \in lost)
    PROVE  \A p \in Proc, v \in Page, g \in Group : GroupOK(p, v, g)'
  <1> SUFFICES ASSUME NEW p \in Proc, NEW v \in Page, NEW g \in Group, OutTo(p, v, g)'
               PROVE  \/ g \in lost'
                      \/ /\ g \in bits'
                         /\ \A q \in Proc, w \in Page : OutTo(q, w, g)' => q = p /\ w = v
    BY DEF GroupOK
  <1>1. OutTo(p, v, g) /\ GroupOK(p, v, g)
    BY DEF PagingInv
  <1>2. g \in lost => g \in lost'
    BY LostStays DEF PagingInv
  <1> QED
    BY <1>1, <1>2 DEF GroupOK

\* A page keeps its contents where neither its entry nor its group changes.
LEMMA ContentStays ==
    ASSUME PagingInv, Lost, NEW p \in Proc, NEW v \in Page,
           pte'[p][v] = pte[p][v],
           v < sz'[p] => v < sz[p],
           <<p, v>> \in gone => <<p, v>> \in gone',
           \A g \in Group \ lost : OutTo(p, v, g) => disk'[g] = disk[g]
    PROVE  ContentOK(p, v)'
  <1>1. ContentOK(p, v)
    BY DEF PagingInv
  <1>2. \A g \in Group : OutTo(p, v, g) => OutTo(p, v, g)'
    BY DEF OutTo
  <1>3. \A g \in lost : OutTo(p, v, g) => g \in lost'
    BY <1>2, LostStays DEF PagingInv, TypeOK
  <1> QED
    BY <1>1, <1>2, <1>3 DEF ContentOK, PagingInv, TypeOK

-----------------------------------------------------------------------------
(***************************************************************************)
(* The steps                                                               *)
(***************************************************************************)

\* A store puts the page's own value into it.
LEMMA StoreStep ==
    ASSUME PagingInv, Lost, NEW p \in Proc, NEW v \in Page, Store(p, v)
    PROVE  PagingInv'
  <1>1. /\ pte' = Set(<<p, v>>, Mem(v, pte[p][v].pin))
        /\ gone' = gone \ {<<p, v>>}
        /\ UNCHANGED <<sz, bits, disk>>
    BY DEF Store
  <1>2. /\ PageSet(p, v, Mem(v, pte[p][v].pin)) /\ pte' \in [Proc -> [Page -> Entry]]
        /\ Mem(v, pte[p][v].pin).at # "swap"
    <2>1. v \in Int /\ pte[p][v].pin \in BOOLEAN
      BY EntryParts DEF PagingInv, Page
    <2>2. Mem(v, pte[p][v].pin) \in Entry /\ Mem(v, pte[p][v].pin).at # "swap"
      BY <2>1, MemParts
    <2> QED
      BY <1>1, <2>2, SetAt DEF PagingInv
  <1>3. TypeOK'
    <2>1. sz' \in [Proc -> 0 .. MAXPAGE] /\ bits' \subseteq Group
      BY <1>1 DEF PagingInv, TypeOK
    <2>2. disk' \in [Group -> Int]
      BY <1>1 DEF PagingInv, TypeOK, Other
    <2>3. gone' \subseteq Proc \X Page
      BY <1>1 DEF PagingInv, TypeOK
    <2> QED
      BY <1>2, <2>1, <2>2, <2>3, TypeStays DEF PagingInv
  <1>4. \A q \in Proc, w \in Page, g \in Group : GroupOK(q, w, g)'
    <2>1. \A q \in Proc, w \in Page, g \in Group : OutTo(q, w, g)' => OutTo(q, w, g)
      BY <1>2 DEF PageSet, OutTo, Mem
    <2> QED
      BY <1>1, <2>1, GroupsStay
  <1>5. ASSUME NEW q \in Proc, NEW w \in Page
        PROVE  ContentOK(q, w)'
    <2>1. CASE q = p /\ w = v
      BY <1>2, <2>1 DEF PageSet, ContentOK, Mem
    <2>2. CASE ~(q = p /\ w = v)
      BY <1>1, <1>2, <2>2, ContentStays DEF PageSet, PagingInv, TypeOK
    <2> QED
      BY <2>1, <2>2
  <1> QED
    BY <1>3, <1>4, <1>5 DEF PagingInv

\* A fault loses what a page within the size has.
LEMMA FaultStep ==
    ASSUME PagingInv, Lost, NEW p \in Proc, NEW v \in Page, Fault(p, v)
    PROVE  PagingInv'
  <1>1. /\ pte' = Set(<<p, v>>, Mem(Other, pte[p][v].pin))
        /\ gone' = IF v < sz[p] THEN gone \cup {<<p, v>>} ELSE gone
        /\ UNCHANGED <<sz, bits, disk>>
    BY DEF Fault
  <1>2. /\ PageSet(p, v, Mem(Other, pte[p][v].pin)) /\ pte' \in [Proc -> [Page -> Entry]]
        /\ Mem(Other, pte[p][v].pin).at # "swap"
    <2>1. Other \in Int /\ pte[p][v].pin \in BOOLEAN
      BY EntryParts DEF PagingInv, Other
    <2>2. Mem(Other, pte[p][v].pin) \in Entry /\ Mem(Other, pte[p][v].pin).at # "swap"
      BY <2>1, MemParts
    <2> QED
      BY <1>1, <2>2, SetAt DEF PagingInv
  <1>3. TypeOK'
    <2>1. sz' \in [Proc -> 0 .. MAXPAGE] /\ bits' \subseteq Group
      BY <1>1 DEF PagingInv, TypeOK
    <2>2. disk' \in [Group -> Int]
      BY <1>1 DEF PagingInv, TypeOK, Other
    <2>3. gone' \subseteq Proc \X Page
      BY <1>1 DEF PagingInv, TypeOK
    <2> QED
      BY <1>2, <2>1, <2>2, <2>3, TypeStays DEF PagingInv
  <1>4. \A q \in Proc, w \in Page, g \in Group : GroupOK(q, w, g)'
    <2>1. \A q \in Proc, w \in Page, g \in Group : OutTo(q, w, g)' => OutTo(q, w, g)
      BY <1>2 DEF PageSet, OutTo, Mem, Other
    <2> QED
      BY <1>1, <2>1, GroupsStay
  <1>5. ASSUME NEW q \in Proc, NEW w \in Page
        PROVE  ContentOK(q, w)'
    <2>1. CASE q = p /\ w = v
      BY <1>1, <2>1 DEF ContentOK
    <2>2. CASE ~(q = p /\ w = v)
      BY <1>1, <1>2, <2>2, ContentStays DEF PageSet, PagingInv, TypeOK
    <2> QED
      BY <2>1, <2>2
  <1> QED
    BY <1>3, <1>4, <1>5 DEF PagingInv

\* Pinning leaves the page where it is.
LEMMA PinStep ==
    ASSUME PagingInv, Lost, NEW p \in Proc, NEW v \in Page, NEW pin \in BOOLEAN, Pin(p, v, pin)
    PROVE  PagingInv'
  <1>1. /\ pte[p][v].at = "mem"
        /\ pte' = Set(<<p, v>>, Mem(pte[p][v].val, pin))
        /\ UNCHANGED <<sz, bits, disk, gone>>
    BY DEF Pin
  <1>2. /\ PageSet(p, v, Mem(pte[p][v].val, pin)) /\ pte' \in [Proc -> [Page -> Entry]]
        /\ Mem(pte[p][v].val, pin).at # "swap"
    <2>1. pte[p][v].val \in Int
      BY EntryParts DEF PagingInv
    <2>2. Mem(pte[p][v].val, pin) \in Entry /\ Mem(pte[p][v].val, pin).at # "swap"
      BY <2>1, MemParts
    <2> QED
      BY <1>1, <2>2, SetAt DEF PagingInv
  <1>3. TypeOK'
    <2>1. sz' \in [Proc -> 0 .. MAXPAGE] /\ bits' \subseteq Group
      BY <1>1 DEF PagingInv, TypeOK
    <2>2. disk' \in [Group -> Int]
      BY <1>1 DEF PagingInv, TypeOK, Other
    <2>3. gone' \subseteq Proc \X Page
      BY <1>1 DEF PagingInv, TypeOK
    <2> QED
      BY <1>2, <2>1, <2>2, <2>3, TypeStays DEF PagingInv
  <1>4. \A q \in Proc, w \in Page, g \in Group : GroupOK(q, w, g)'
    <2>1. \A q \in Proc, w \in Page, g \in Group : OutTo(q, w, g)' => OutTo(q, w, g)
      BY <1>2 DEF PageSet, OutTo, Mem
    <2> QED
      BY <1>1, <2>1, GroupsStay
  <1>5. ASSUME NEW q \in Proc, NEW w \in Page
        PROVE  ContentOK(q, w)'
    <2>1. CASE q = p /\ w = v
      <3>1. ContentOK(p, v)
        BY DEF PagingInv
      <3> QED
        BY <1>1, <1>2, <2>1, <3>1 DEF PageSet, ContentOK, OutTo, Mem
    <2>2. CASE ~(q = p /\ w = v)
      BY <1>1, <1>2, <2>2, ContentStays DEF PageSet, PagingInv, TypeOK
    <2> QED
      BY <2>1, <2>2
  <1> QED
    BY <1>3, <1>4, <1>5 DEF PagingInv

\* A page that is read back has what its group has, and its group is free.
LEMMA WillNeedStep ==
    ASSUME PagingInv, Lost, NEW p \in Proc, NEW v \in Page, WillNeed(p, v)
    PROVE  PagingInv'
  <1>1. /\ v < sz[p] /\ pte[p][v].at = "swap"
        /\ pte' = Set(<<p, v>>, Mem(disk[pte[p][v].val], pte[p][v].pin))
        /\ bits' = bits \ {pte[p][v].val}
        /\ disk' = [disk EXCEPT ![pte[p][v].val] = Other]
        /\ gone' = IF pte[p][v].val \in lost THEN gone \cup {<<p, v>>} ELSE gone
        /\ UNCHANGED sz
    BY DEF WillNeed, Advised, bfree_page
  <1>2. /\ PageSet(p, v, Mem(disk[pte[p][v].val], pte[p][v].pin))
        /\ pte' \in [Proc -> [Page -> Entry]]
        /\ Mem(disk[pte[p][v].val], pte[p][v].pin).at # "swap"
    <2>1. disk[pte[p][v].val] \in Int /\ pte[p][v].pin \in BOOLEAN
      BY <1>1, EntryParts DEF PagingInv, TypeOK
    <2>2. /\ Mem(disk[pte[p][v].val], pte[p][v].pin) \in Entry
          /\ Mem(disk[pte[p][v].val], pte[p][v].pin).at # "swap"
      BY <2>1, MemParts
    <2> QED
      BY <1>1, <2>2, SetAt DEF PagingInv
  <1>3. TypeOK'
    <2>1. sz' \in [Proc -> 0 .. MAXPAGE] /\ bits' \subseteq Group
      BY <1>1 DEF PagingInv, TypeOK
    <2>2. disk' \in [Group -> Int]
      BY <1>1 DEF PagingInv, TypeOK, Other
    <2>3. gone' \subseteq Proc \X Page
      BY <1>1 DEF PagingInv, TypeOK
    <2> QED
      BY <1>2, <2>1, <2>2, <2>3, TypeStays DEF PagingInv
  <1>4. \A q \in Proc, w \in Page, g \in Group : GroupOK(q, w, g)'
    <2>1. \A q \in Proc, w \in Page, g \in Group : OutTo(q, w, g)' =>
            OutTo(q, w, g) /\ ~(q = p /\ w = v)
      BY <1>2 DEF PageSet, OutTo, Mem
    <2>2. \A q \in Proc, w \in Page : OutTo(q, w, pte[p][v].val) /\ ~(q = p /\ w = v) =>
            pte[p][v].val \in lost
      BY <1>1 DEF PagingInv, TypeOK, GroupOK, OutTo
    <2>3. \A q \in Proc, w \in Page, g \in Group : OutTo(q, w, g)' =>
            OutTo(q, w, g) /\ (g \in bits => g \in bits' \/ g \in lost)
      BY <1>1, <2>1, <2>2
    <2> QED
      BY <2>3, GroupsStay
  <1>5. ASSUME NEW q \in Proc, NEW w \in Page
        PROVE  ContentOK(q, w)'
    <2>1. CASE q = p /\ w = v
      <3>1. ContentOK(p, v)
        BY DEF PagingInv
      <3> QED
        BY <1>1, <1>2, <2>1, <3>1 DEF PageSet, ContentOK, OutTo, Mem
    <2>2. CASE ~(q = p /\ w = v)
      <3>1. \A g \in Group \ lost : OutTo(q, w, g) => g # pte[p][v].val
        BY <1>1, <2>2 DEF PagingInv, TypeOK, GroupOK, OutTo
      <3>2. \A g \in Group \ lost : OutTo(q, w, g) => disk'[g] = disk[g]
        BY <1>1, <3>1 DEF PagingInv, TypeOK
      <3>3. pte'[q][w] = pte[q][w]
        BY <1>2, <2>2 DEF PageSet
      <3> QED
        BY <1>1, <3>2, <3>3, ContentStays
    <2> QED
      BY <2>1, <2>2
  <1> QED
    BY <1>3, <1>4, <1>5 DEF PagingInv

\* A page that is swapped out gets a group that no page has, unless the bitmap of
\* its present owner is lost, and what it has goes there.
LEMMA DontNeedStep ==
    ASSUME PagingInv, Lost, NEW p \in Proc, NEW v \in Page, DontNeed(p, v)
    PROVE  PagingInv'
  <1>1. PICK n \in Group \ bits : n = balloc_page
    <2>1. Group \ bits \in SUBSET Nat
      BY PagingAssumption DEF Group
    <2>2. Group \ bits # {}
      BY DEF DontNeed, PagingInv, TypeOK
    <2> QED
      BY <2>1, <2>2, LeastElement DEF balloc_page
  <1>2. /\ v < sz[p] /\ pte[p][v].at = "mem"
        /\ pte' = Set(<<p, v>>, Out(n, pte[p][v].pin))
        /\ bits' = bits \cup {n}
        /\ disk' = [disk EXCEPT ![n] = pte[p][v].val]
        /\ UNCHANGED <<sz, gone>>
    BY <1>1 DEF DontNeed, Advised, swap_page_from_pte
  <1>3. PageSet(p, v, Out(n, pte[p][v].pin)) /\ pte' \in [Proc -> [Page -> Entry]]
    <2>1. n \in Int /\ pte[p][v].pin \in BOOLEAN
      BY <1>1, EntryParts DEF PagingInv, Group
    <2>2. Out(n, pte[p][v].pin) \in Entry
      BY <2>1 DEF Entry, Out
    <2> QED
      BY <1>2, <2>2, SetAt DEF PagingInv
  <1>4. TypeOK'
    <2>1. pte[p][v].val \in Int
      BY EntryParts DEF PagingInv
    <2>2. disk' \in [Group -> Int]
      BY <1>1, <1>2, <2>1 DEF PagingInv, TypeOK
    <2>3. Out(n, pte[p][v].pin).val \in Group
      BY <1>1 DEF Out
    <2>4. /\ sz' \in [Proc -> 0 .. MAXPAGE] /\ bits' \subseteq Group
          /\ gone' \subseteq Proc \X Page
      BY <1>1, <1>2 DEF PagingInv, TypeOK
    <2> QED
      BY <1>3, <2>2, <2>3, <2>4, TypeStays DEF PagingInv
  <1>5. \A q \in Proc, w \in Page : OutTo(q, w, n) => n \in lost
    BY <1>1 DEF PagingInv, GroupOK
  <1>6. \A q \in Proc, w \in Page, g \in Group :
          OutTo(q, w, g)' <=> IF q = p /\ w = v THEN g = n ELSE OutTo(q, w, g)
    BY <1>3 DEF PageSet, OutTo, Out
  <1>7. \A q \in Proc, w \in Page, g \in Group : g \in lost /\ OutTo(q, w, g)' => g \in lost'
    BY LostStays DEF PagingInv
  <1>8. ASSUME NEW q \in Proc, NEW w \in Page, NEW g \in Group
        PROVE  GroupOK(q, w, g)'
    <2>1. GroupOK(q, w, g)
      BY DEF PagingInv
    <2> QED
      BY <1>1, <1>2, <1>5, <1>6, <1>7, <2>1 DEF GroupOK
  <1>9. ASSUME NEW q \in Proc, NEW w \in Page
        PROVE  ContentOK(q, w)'
    <2>1. CASE q = p /\ w = v
      <3>1. ContentOK(p, v)
        BY DEF PagingInv
      <3>2. OutTo(p, v, n)'
        BY <1>6
      <3>3. disk'[n] = pte[p][v].val
        BY <1>1, <1>2 DEF PagingInv, TypeOK
      <3>4. <<p, v>> \notin gone => pte[p][v].val = v
        BY <1>2, <3>1 DEF ContentOK, OutTo
      <3> QED
        BY <1>1, <1>2, <2>1, <3>2, <3>3, <3>4 DEF ContentOK
    <2>2. CASE ~(q = p /\ w = v)
      <3>1. pte'[q][w] = pte[q][w]
        BY <1>3, <2>2 DEF PageSet
      <3>2. \A g \in Group \ lost : OutTo(q, w, g) => disk'[g] = disk[g]
        BY <1>1, <1>2, <1>5 DEF PagingInv, TypeOK
      <3> QED
        BY <1>2, <3>1, <3>2, ContentStays
    <2> QED
      BY <2>1, <2>2
  <1> QED
    BY <1>4, <1>8, <1>9 DEF PagingInv

\* A process grows by a page of zeros, over what may have been left there.
LEMMA GrowStep ==
    ASSUME PagingInv, Lost, NEW p \in Proc, Grow(p)
    PROVE  PagingInv'
  <1> DEFINE v == sz[p]
  <1>1. /\ v \in Page
        /\ pte' = Set(<<p, v>>, Mem(v, FALSE))
        /\ sz' = [sz EXCEPT ![p] = v + 1]
        /\ UNCHANGED <<bits, disk, gone>>
    BY PagingAssumption DEF Grow, Live, Page, PagingInv, TypeOK
  <1>2. PageSet(p, v, Mem(v, FALSE)) /\ pte' \in [Proc -> [Page -> Entry]]
    <2>1. Mem(v, FALSE) \in Entry
      BY <1>1 DEF Entry, Mem, Page
    <2> QED
      BY <1>1, <2>1, SetAt DEF PagingInv
  <1>3. TypeOK'
    <2>1. sz' \in [Proc -> 0 .. MAXPAGE]
      BY <1>1, PagingAssumption DEF PagingInv, TypeOK, Page
    <2>2. Mem(v, FALSE).at # "swap"
      BY DEF Mem
    <2>3. /\ bits' \subseteq Group /\ disk' \in [Group -> Int]
          /\ gone' \subseteq Proc \X Page
      BY <1>1 DEF PagingInv, TypeOK
    <2> QED
      BY <1>1, <1>2, <2>1, <2>2, <2>3, TypeStays DEF PagingInv
  <1>4. \A q \in Proc, w \in Page, g \in Group : GroupOK(q, w, g)'
    <2>1. \A q \in Proc, w \in Page, g \in Group : OutTo(q, w, g)' => OutTo(q, w, g)
      BY <1>2 DEF PageSet, OutTo, Mem
    <2> QED
      BY <1>1, <2>1, GroupsStay
  <1>5. ASSUME NEW q \in Proc, NEW w \in Page
        PROVE  ContentOK(q, w)'
    <2>1. CASE q = p /\ w = v
      <3>1. pte'[q][w] = Mem(w, FALSE)
        BY <1>1, <1>2, <2>1 DEF PageSet
      <3>2. Mem(w, FALSE).at = "mem" /\ Mem(w, FALSE).val = w
        BY DEF Mem
      <3> QED
        BY <3>1, <3>2 DEF ContentOK
    <2>2. CASE ~(q = p /\ w = v)
      <3>1. pte'[q][w] = pte[q][w]
        BY <1>2, <2>2 DEF PageSet
      <3>2. w < sz'[q] => w < sz[q]
        BY <1>1, <2>2 DEF PagingInv, TypeOK, Page
      <3> QED
        BY <1>1, <3>1, <3>2, ContentStays
    <2> QED
      BY <2>1, <2>2
  <1> QED
    BY <1>3, <1>4, <1>5 DEF PagingInv

\* A process shrinks by a page; an entry of one that is swapped out stays.
LEMMA ShrinkStep ==
    ASSUME PagingInv, Lost, NEW p \in Proc, Shrink(p)
    PROVE  PagingInv'
  <1> DEFINE v == sz[p] - 1
  <1>1. /\ v \in Page
        /\ pte' = Set(<<p, v>>, Unmapped(pte[p][v]))
        /\ sz' = [sz EXCEPT ![p] = v]
        /\ gone' = gone \ {<<p, v>>}
        /\ UNCHANGED <<bits, disk>>
    BY PagingAssumption DEF Shrink, Live, Page, PagingInv, TypeOK
  <1>2. /\ Unmapped(pte[p][v]) \in Entry
        /\ Unmapped(pte[p][v]).at = "swap" => Unmapped(pte[p][v]) = pte[p][v]
    BY <1>1 DEF Unmapped, NoPte, Other, Entry, PagingInv, TypeOK
  <1>3. PageSet(p, v, Unmapped(pte[p][v])) /\ pte' \in [Proc -> [Page -> Entry]]
    BY <1>1, <1>2, SetAt DEF PagingInv
  <1>4. TypeOK'
    <2>1. sz' \in [Proc -> 0 .. MAXPAGE]
      BY <1>1, PagingAssumption DEF PagingInv, TypeOK, Page
    <2> QED
      BY <1>1, <1>2, <1>3, <2>1 DEF PagingInv, TypeOK, PageSet, Lost
  <1>5. \A q \in Proc, w \in Page, g \in Group : GroupOK(q, w, g)'
    <2>1. \A q \in Proc, w \in Page, g \in Group : OutTo(q, w, g)' => OutTo(q, w, g)
      BY <1>2, <1>3 DEF PageSet, OutTo
    <2> QED
      BY <1>1, <2>1, GroupsStay
  <1>6. ASSUME NEW q \in Proc, NEW w \in Page
        PROVE  ContentOK(q, w)'
    <2>1. CASE q = p /\ w = v
      <3>1. ~(w < sz'[q])
        BY <1>1, <2>1 DEF PagingInv, TypeOK, Page
      <3> QED
        BY <3>1 DEF ContentOK
    <2>2. CASE ~(q = p /\ w = v)
      <3>1. pte'[q][w] = pte[q][w]
        BY <1>3, <2>2 DEF PageSet
      <3>2. w < sz'[q] => w < sz[q]
        BY <1>1 DEF PagingInv, TypeOK, Page
      <3> QED
        BY <1>1, <2>2, <3>1, <3>2, ContentStays
    <2> QED
      BY <2>1, <2>2
  <1> QED
    BY <1>4, <1>5, <1>6 DEF PagingInv

\* A child has the pages of its parent, all in memory.
LEMMA ForkStep ==
    ASSUME PagingInv, Lost, NEW p \in Proc, NEW c \in Proc, Fork(p, c)
    PROVE  PagingInv'
  <1>1. /\ p # c /\ sz[c] = 0
        /\ \A v \in 0 .. sz[p] - 1 : pte[p][v].at = "mem"
        /\ sz' = [sz EXCEPT ![c] = sz[p]]
        /\ pte' = [pte EXCEPT ![c] = [v \in Page |-> IF v < sz[p] THEN pte[p][v] ELSE NoPte]]
        /\ gone' = gone \cup {<<c, v>> : v \in {u \in Page : <<p, u>> \in gone}}
        /\ UNCHANGED <<bits, disk>>
    BY DEF Fork, Live
  <1>2. \A q \in Proc, w \in Page :
          pte'[q][w] = IF q = c THEN IF w < sz[p] THEN pte[p][w] ELSE NoPte ELSE pte[q][w]
    BY <1>1 DEF PagingInv, TypeOK
  <1>3. \A w \in Page : pte'[c][w].at # "swap"
    <2>1. \A w \in Page : w < sz[p] => pte[p][w].at = "mem"
      BY <1>1 DEF PagingInv, TypeOK, Page
    <2> QED
      BY <1>2, <2>1 DEF NoPte
  <1>4. TypeOK'
    <2>1. NoPte \in Entry
      BY DEF NoPte, Other, Entry
    <2>2. pte' \in [Proc -> [Page -> Entry]]
      BY <1>1, <2>1 DEF PagingInv, TypeOK
    <2>3. \A q \in Proc, w \in Page : pte'[q][w].at = "swap" => pte'[q][w].val \in Group
      BY <1>2, <1>3 DEF PagingInv, TypeOK
    <2>4. sz' \in [Proc -> 0 .. MAXPAGE]
      BY <1>1 DEF PagingInv, TypeOK
    <2>5. gone' \subseteq Proc \X Page
      <3>1. ASSUME NEW x \in {<<c, v>> : v \in {u \in Page : <<p, u>> \in gone}}
            PROVE  x \in Proc \X Page
        <4>1. PICK v \in Page : x = <<c, v>>
          OBVIOUS
        <4> QED
          BY <4>1
      <3> QED
        BY <1>1, <3>1 DEF PagingInv, TypeOK
    <2> QED
      BY <1>1, <2>2, <2>3, <2>4, <2>5 DEF PagingInv, TypeOK, Lost
  <1>5. \A q \in Proc, w \in Page, g \in Group : GroupOK(q, w, g)'
    <2>1. \A q \in Proc, w \in Page, g \in Group : OutTo(q, w, g)' => OutTo(q, w, g)
      BY <1>2, <1>3 DEF OutTo
    <2> QED
      BY <1>1, <2>1, GroupsStay
  <1>6. ASSUME NEW q \in Proc, NEW w \in Page
        PROVE  ContentOK(q, w)'
    <2>1. CASE q = c
      <3>1. ContentOK(p, w) /\ (w < sz[p] => pte[p][w].at = "mem")
        BY <1>1 DEF PagingInv, TypeOK, Page
      <3>2. <<p, w>> \in gone => <<c, w>> \in gone'
        BY <1>1
      <3>3. sz'[c] = sz[p]
        BY <1>1 DEF PagingInv, TypeOK
      <3> QED
        BY <1>2, <2>1, <3>1, <3>2, <3>3 DEF ContentOK, OutTo
    <2>2. CASE q # c
      <3>1. pte'[q][w] = pte[q][w] /\ sz'[q] = sz[q]
        BY <1>1, <1>2, <2>2 DEF PagingInv, TypeOK
      <3> QED
        BY <1>1, <3>1, ContentStays
    <2> QED
      BY <2>1, <2>2
  <1> QED
    BY <1>4, <1>5, <1>6 DEF PagingInv

\* A process ends, and its page table with it.
LEMMA ExitStep ==
    ASSUME PagingInv, Lost, NEW p \in Proc, Exit(p)
    PROVE  PagingInv'
  <1>1. /\ sz' = [sz EXCEPT ![p] = 0]
        /\ pte' = [pte EXCEPT ![p] = [v \in Page |-> NoPte]]
        /\ gone' = gone \ ({p} \X Page)
        /\ UNCHANGED <<bits, disk>>
    BY DEF Exit
  <1>2. \A q \in Proc, w \in Page : pte'[q][w] = IF q = p THEN NoPte ELSE pte[q][w]
    BY <1>1 DEF PagingInv, TypeOK
  <1>3. TypeOK'
    <2>1. NoPte \in Entry /\ NoPte.at # "swap"
      BY DEF NoPte, Other, Entry
    <2>2. pte' \in [Proc -> [Page -> Entry]]
      BY <1>1, <2>1 DEF PagingInv, TypeOK
    <2>3. sz' \in [Proc -> 0 .. MAXPAGE]
      BY <1>1, PagingAssumption DEF PagingInv, TypeOK
    <2> QED
      BY <1>1, <1>2, <2>1, <2>2, <2>3 DEF PagingInv, TypeOK, Lost
  <1>4. \A q \in Proc, w \in Page, g \in Group : GroupOK(q, w, g)'
    <2>1. \A q \in Proc, w \in Page, g \in Group : OutTo(q, w, g)' => OutTo(q, w, g)
      BY <1>2 DEF OutTo, NoPte
    <2> QED
      BY <1>1, <2>1, GroupsStay
  <1>5. ASSUME NEW q \in Proc, NEW w \in Page
        PROVE  ContentOK(q, w)'
    <2>1. CASE q = p
      <3>1. sz'[q] = 0
        BY <1>1, <2>1 DEF PagingInv, TypeOK
      <3> QED
        BY <3>1 DEF ContentOK, Page
    <2>2. CASE q # p
      <3>1. /\ pte'[q][w] = pte[q][w] /\ sz'[q] = sz[q]
            /\ <<q, w>> \in gone => <<q, w>> \in gone'
        BY <1>1, <1>2, <2>2 DEF PagingInv, TypeOK
      <3> QED
        BY <1>1, <3>1, ContentStays
    <2> QED
      BY <2>1, <2>2
  <1> QED
    BY <1>3, <1>4, <1>5 DEF PagingInv

\* A walk changes the buffer only.
LEMMA WalkedStep ==
    ASSUME PagingInv, Lost, NEW p \in Proc, NEW v \in Page, Walked(p, v)
    PROVE  PagingInv'
  <1>1. UNCHANGED <<sz, pte, bits, disk, gone>>
    BY DEF Walked
  <1>2. TypeOK'
    BY <1>1 DEF PagingInv, TypeOK, Lost
  <1>3. \A q \in Proc, w \in Page, g \in Group : GroupOK(q, w, g)'
    BY <1>1, GroupsStay DEF OutTo
  <1>4. \A q \in Proc, w \in Page : ContentOK(q, w)'
    BY <1>1, ContentStays
  <1> QED
    BY <1>2, <1>3, <1>4 DEF PagingInv

\* When the bitmap's buffer is recycled, the groups of all pages are lost.
LEMMA RecycleStep ==
    ASSUME PagingInv, Recycle
    PROVE  PagingInv'
  <1>1. bits' = {} /\ lost' = Groups(pte) /\ UNCHANGED <<sz, pte, disk, gone>>
    BY DEF Recycle
  <1>2. \A q \in Proc, w \in Page, g \in Group : OutTo(q, w, g) => g \in lost'
    <2> SUFFICES ASSUME NEW q \in Proc, NEW w \in Page, NEW g \in Group, OutTo(q, w, g)
                 PROVE  g \in Groups(pte)
      BY <1>1
    <2>1. <<q, w>> \in Swapped(pte)
      BY DEF Swapped, OutTo
    <2> QED
      BY <2>1 DEF Groups, OutTo
  <1>3. lost' \subseteq Group
    BY <1>1 DEF Groups, Swapped, PagingInv, TypeOK
  <1>4. TypeOK'
    BY <1>1, <1>3 DEF PagingInv, TypeOK
  <1>5. \A q \in Proc, w \in Page, g \in Group : GroupOK(q, w, g)'
    BY <1>1, <1>2 DEF GroupOK, OutTo
  <1>6. \A q \in Proc, w \in Page : ContentOK(q, w)'
    BY <1>1, <1>2 DEF PagingInv, ContentOK, OutTo
  <1> QED
    BY <1>4, <1>5, <1>6 DEF PagingInv

\* The initial states, and the steps together.
LEMMA InitInv == PagingInit => PagingInv
  <1> SUFFICES ASSUME PagingInit PROVE PagingInv
    OBVIOUS
  <1>1. PICK p \in Proc :
          /\ sz = [q \in Proc |-> IF q = p THEN 1 ELSE 0]
          /\ pte = [q \in Proc |-> [v \in Page |-> IF q = p /\ v = 0 THEN Mem(v, FALSE) ELSE NoPte]]
    BY DEF PagingInit
  <1>2. \A q \in Proc, v \in Page :
          pte[q][v] = IF q = p /\ v = 0 THEN Mem(v, FALSE) ELSE NoPte
    BY <1>1
  <1>3. NoPte \in Entry /\ (\A v \in Page : Mem(v, FALSE) \in Entry)
    BY DEF NoPte, Mem, Other, Entry, Page
  <1>4. \A q \in Proc, v \in Page : pte[q][v].at # "swap"
    <2>1. NoPte.at # "swap" /\ \A v \in Page : Mem(v, FALSE).at # "swap"
      BY DEF NoPte, Mem
    <2> QED
      BY <1>2, <2>1
  <1>5. TypeOK
    <2>1. sz \in [Proc -> 0 .. MAXPAGE]
      BY <1>1, PagingAssumption
    <2>2. pte \in [Proc -> [Page -> Entry]]
      BY <1>1, <1>3
    <2>3. disk \in [Group -> Int] /\ bits \subseteq Group /\ lost \subseteq Group
          /\ gone \subseteq Proc \X Page
      BY DEF PagingInit, Other
    <2> QED
      BY <1>4, <2>1, <2>2, <2>3 DEF TypeOK
  <1>6. \A q \in Proc, v \in Page, g \in Group : GroupOK(q, v, g)
    BY <1>4 DEF GroupOK, OutTo
  <1>7. \A q \in Proc, v \in Page : ContentOK(q, v)
    BY <1>1, <1>2 DEF ContentOK, Mem, Page
  <1> QED
    BY <1>5, <1>6, <1>7 DEF PagingInv

\* Every step keeps the invariant.
LEMMA StepInv == PagingInv /\ [PagingNext]_pagingVars => PagingInv'
  <1> SUFFICES ASSUME PagingInv, [PagingNext]_pagingVars PROVE PagingInv'
    OBVIOUS
  <1>1. CASE Recycle
    BY <1>1, RecycleStep
  <1>2. ASSUME NEW p \in Proc, Step(p), Lost
        PROVE  PagingInv'
    <2>1. ASSUME NEW v \in Page, \/ Store(p, v) \/ Fault(p, v) \/ Walked(p, v)
                                 \/ WillNeed(p, v) \/ DontNeed(p, v)
          PROVE  PagingInv'
      BY <1>2, <2>1, StoreStep, FaultStep, WalkedStep, WillNeedStep, DontNeedStep
    <2>2. ASSUME NEW v \in Page, Pin(p, v, TRUE) \/ Pin(p, v, FALSE)
          PROVE  PagingInv'
      BY <1>2, <2>2, PinStep
    <2>3. CASE Grow(p) \/ Shrink(p) \/ Exit(p)
      BY <1>2, <2>3, GrowStep, ShrinkStep, ExitStep
    <2>4. ASSUME NEW c \in Proc, Fork(p, c)
          PROVE  PagingInv'
      BY <1>2, <2>4, ForkStep
    <2> QED
      BY <1>2, <2>1, <2>2, <2>3, <2>4 DEF Step
  <1>3. CASE UNCHANGED pagingVars
    BY <1>3 DEF pagingVars, kernelVars, PagingInv, TypeOK, GroupOK, ContentOK, OutTo
  <1> QED
    BY <1>1, <1>2, <1>3 DEF PagingNext, Lost

\* PagingInv is an invariant of paging, whatever madvise() and the buffer do.
THEOREM PagingInvariant == PagingSpec => []PagingInv
  BY InitInv, StepInv, PTL DEF PagingSpec

\* Two pages that are swapped out never share a group of blocks, and swapping in
\* finds its group in use (fs.c: balloc_page(), bfree_page()).
THEOREM GroupsAreKept == PagingSpec => []GroupsKept
  <1>1. PagingInv => GroupsKept
    <2> SUFFICES ASSUME PagingInv, NEW e \in Swapped(pte), pte[e[1]][e[2]].val \notin lost
                 PROVE  /\ pte[e[1]][e[2]].val \in bits
                        /\ \A f \in Swapped(pte) \ {e} :
                             pte[f[1]][f[2]].val # pte[e[1]][e[2]].val
      BY DEF GroupsKept
    <2>1. /\ e[1] \in Proc /\ e[2] \in Page /\ e = <<e[1], e[2]>>
          /\ OutTo(e[1], e[2], pte[e[1]][e[2]].val) /\ pte[e[1]][e[2]].val \in Group
      BY DEF Swapped, OutTo, PagingInv, TypeOK
    <2>2. GroupOK(e[1], e[2], pte[e[1]][e[2]].val)
      BY <2>1 DEF PagingInv
    <2>3. ASSUME NEW f \in Swapped(pte) \ {e}
          PROVE  pte[f[1]][f[2]].val # pte[e[1]][e[2]].val
      <3>1. f[1] \in Proc /\ f[2] \in Page /\ f = <<f[1], f[2]>> /\ pte[f[1]][f[2]].at = "swap"
        BY DEF Swapped
      <3>2. ~(f[1] = e[1] /\ f[2] = e[2])
        BY <2>1, <3>1
      <3> QED
        BY <2>1, <2>2, <3>1, <3>2 DEF GroupOK, OutTo
    <2> QED
      BY <2>1, <2>2, <2>3 DEF GroupOK
  <1> QED
    BY <1>1, PagingInvariant, PTL

\* What a process has put into a page is there when it looks, through swapping
\* (vm.c, paging.c), fork(), and growing and shrinking, with the two exceptions.
THEOREM ContentsAreKept == PagingSpec => []ContentsKept
  <1>1. PagingInv => ContentsKept
    <2> SUFFICES ASSUME PagingInv, NEW p \in Proc, NEW v \in 0 .. sz[p] - 1
                 PROVE  \/ <<p, v>> \in gone
                        \/ pte[p][v].at = "mem" /\ pte[p][v].val = v
                        \/ /\ pte[p][v].at = "swap"
                           /\ pte[p][v].val \in lost \/ disk[pte[p][v].val] = v
      BY DEF ContentsKept
    <2>1. v \in Page /\ v < sz[p]
      BY PagingAssumption DEF PagingInv, TypeOK, Page
    <2>2. ContentOK(p, v)
      BY <2>1 DEF PagingInv
    <2> QED
      BY <2>1, <2>2 DEF ContentOK, OutTo
  <1> QED
    BY <1>1, PagingInvariant, PTL

-----------------------------------------------------------------------------
(***************************************************************************)
(* What the page replacement buffer keeps                                  *)
(***************************************************************************)

Entries == Proc \X Page

\* The buffer has page-table entries, and one that is pinned belongs to a process:
\* one that looks pinned in a freed page table is not.
BufInv ==
    /\ buf \in Seq(Entries)
    /\ \A p \in Proc, v \in Page : pte[p][v].pin => sz[p] # 0

\* An entry that must not make room, with the page tables t.
Fixed(e, t) == sz[e[1]] # 0 /\ t[e[1]][e[2]].pin

\* The buffer c has what is fixed in b.
Keeps(b, c, t) == \A x \in Entries : Fixed(x, t) /\ Contains(b, x) => Contains(c, x)

\* What PinnedStays says of a step, and more: a pinned page that is swapped out
\* keeps its place too.
Stays == \A e \in Proc \X Page :
           Contains(buf, e) /\ pte[e[1]][e[2]].pin /\ pte'[e[1]][e[2]].pin => Contains(buf', e)

\* Taking an element out leaves the others.
LEMMA RemoveKeeps ==
    ASSUME NEW S, NEW b \in Seq(S), NEW i \in 1 .. Len(b)
    PROVE  /\ RemoveAt(b, i) \in Seq(S)
           /\ \A x : Contains(b, x) /\ b[i] # x => Contains(RemoveAt(b, i), x)
  <1> DEFINE n == Len(b)
             l == SubSeq(b, 1, i - 1)
             r == SubSeq(b, i + 1, n)
  <1>1. n \in Nat /\ i \in 1 .. n /\ \A j \in 1 .. n : b[j] \in S
    OBVIOUS
  <1>2. l \in Seq(S) /\ Len(l) = i - 1 /\ \A j \in 1 .. i - 1 : l[j] = b[j]
    <2>1. 1 \in Int /\ i - 1 \in Int /\ \A j \in 1 .. i - 1 : b[j] \in S
      BY <1>1
    <2> HIDE DEF n
    <2>2. /\ l \in Seq(S)
          /\ Len(l) = IF 1 <= i - 1 THEN (i - 1) - 1 + 1 ELSE 0
          /\ \A j \in 1 .. (i - 1) - 1 + 1 : l[j] = b[1 + j - 1]
      BY <2>1, SubSeqProperties
    <2> HIDE DEF l
    <2>3. \A j \in 1 .. i - 1 : j \in 1 .. (i - 1) - 1 + 1 /\ 1 + j - 1 = j
      BY <1>1
    <2> QED
      BY <1>1, <2>2, <2>3
  <1>3. r \in Seq(S) /\ Len(r) = n - i /\ \A j \in 1 .. n - i : r[j] = b[i + j]
    <2>1. i + 1 \in Int /\ n \in Int /\ \A j \in i + 1 .. n : b[j] \in S
      BY <1>1
    <2> HIDE DEF n
    <2>2. /\ r \in Seq(S)
          /\ Len(r) = IF i + 1 <= n THEN n - (i + 1) + 1 ELSE 0
          /\ \A j \in 1 .. n - (i + 1) + 1 : r[j] = b[i + 1 + j - 1]
      BY <2>1, SubSeqProperties
    <2> HIDE DEF r
    <2>3. \A j \in 1 .. n - i : j \in 1 .. n - (i + 1) + 1 /\ i + 1 + j - 1 = i + j
      BY <1>1
    <2> QED
      BY <1>1, <2>2, <2>3
  <1>4. RemoveAt(b, i) = l \o r
    BY DEF RemoveAt
  <1> HIDE DEF n, l, r
  <1>5. /\ l \o r \in Seq(S) /\ Len(l \o r) = Len(l) + Len(r)
        /\ \A j \in 1 .. Len(l) + Len(r) :
             (l \o r)[j] = IF j <= Len(l) THEN l[j] ELSE r[j - Len(l)]
    BY <1>2, <1>3, ConcatProperties
  <1>6. ASSUME NEW x, Contains(b, x), b[i] # x
        PROVE  Contains(l \o r, x)
    <2>1. PICK j \in 1 .. n : b[j] = x
      BY <1>6 DEF Contains, n
    <2>2. CASE j < i
      <3>1. j \in 1 .. i - 1 /\ j \in 1 .. Len(l) + Len(r) /\ j <= Len(l)
        BY <1>1, <1>2, <1>3, <2>2
      <3>2. (l \o r)[j] = x
        BY <1>2, <1>5, <2>1, <3>1
      <3> QED
        BY <1>5, <3>1, <3>2 DEF Contains
    <2>3. CASE j > i
      <3> DEFINE k == j - 1
      <3>1. /\ k \in 1 .. Len(l) + Len(r) /\ ~(k <= Len(l))
            /\ k - Len(l) \in 1 .. n - i /\ i + (k - Len(l)) = j
        BY <1>1, <1>2, <1>3, <2>3
      <3> HIDE DEF k
      <3>2. (l \o r)[k] = x
        BY <1>3, <1>5, <2>1, <3>1
      <3> QED
        BY <1>5, <3>1, <3>2 DEF Contains
    <2> QED
      BY <1>1, <1>6, <2>1, <2>2, <2>3
  <1> QED
    BY <1>4, <1>5, <1>6

\* Appending an element leaves what is there.
LEMMA AppendKeeps ==
    ASSUME NEW S, NEW b \in Seq(S), NEW e \in S
    PROVE  /\ Append(b, e) \in Seq(S) /\ Contains(Append(b, e), e)
           /\ \A x : Contains(b, x) => Contains(Append(b, e), x)
  <1>1. /\ Append(b, e) \in Seq(S) /\ Len(Append(b, e)) = Len(b) + 1 /\ Len(b) \in Nat
        /\ \A i \in 1 .. Len(b) : Append(b, e)[i] = b[i]
        /\ Append(b, e)[Len(b) + 1] = e
    BY AppendProperties, LenProperties
  <1> QED
    BY <1>1 DEF Contains

\* A new entry takes the place of one that is not pinned.
LEMMA InsertKeeps ==
    ASSUME NEW b \in Seq(Entries), NEW e \in Entries, NEW t, NEW junk
    PROVE  Insert(b, e, t, junk) \in Seq(Entries) /\ Keeps(b, Insert(b, e, t, junk), t)
  <1> DEFINE free == {i \in DOMAIN b : ~Pinned(b[i], t, junk)}
             r == RemoveAt(b, Min(free))
  <1>1. Append(b, e) \in Seq(Entries) /\ Keeps(b, Append(b, e), t)
    BY AppendKeeps DEF Keeps
  <1>2. ASSUME free # {}
        PROVE  Append(r, e) \in Seq(Entries) /\ Keeps(b, Append(r, e), t)
    <2>1. free \in SUBSET Nat /\ DOMAIN b = 1 .. Len(b)
      OBVIOUS
    <2>2. Min(free) \in free
      BY <1>2, <2>1, LeastElement
    <2>3. Min(free) \in 1 .. Len(b) /\ ~Pinned(b[Min(free)], t, junk)
      BY <2>1, <2>2
    <2> DEFINE m == Min(free)
    <2> HIDE DEF free, m
    <2>4. RemoveAt(b, m) \in Seq(Entries)
          /\ \A x : Contains(b, x) /\ b[m] # x => Contains(RemoveAt(b, m), x)
      BY <2>3, RemoveKeeps DEF m
    <2>5. \A x \in Entries : Fixed(x, t) => b[m] # x
      BY <2>3 DEF Fixed, Pinned, m
    <2>6. r = RemoveAt(b, m)
      BY DEF m
    <2> HIDE DEF r
    <2>7. Append(r, e) \in Seq(Entries)
          /\ \A x : Contains(r, x) => Contains(Append(r, e), x)
      BY <2>4, <2>6, AppendKeeps
    <2> QED
      BY <2>4, <2>5, <2>6, <2>7 DEF Keeps
  <1>3. Keeps(b, b, t)
    BY DEF Keeps
  <1>4. \/ Insert(b, e, t, junk) = Append(b, e)
        \/ free # {} /\ Insert(b, e, t, junk) = Append(r, e)
        \/ Insert(b, e, t, junk) = b
    BY DEF Insert
  <1> QED
    BY <1>1, <1>2, <1>3, <1>4

\* A push leaves what is pinned, under each policy.
LEMMA PushKeeps ==
    ASSUME NEW b \in Seq(Entries), NEW e \in Entries, NEW t, NEW junk
    PROVE  Push(b, e, t, junk) \in Seq(Entries) /\ Keeps(b, Push(b, e, t, junk), t)
  <1>1. Insert(b, e, t, junk) \in Seq(Entries) /\ Keeps(b, Insert(b, e, t, junk), t)
    BY InsertKeeps
  <1>2. q_push(b, e, t, junk) \in Seq(Entries) /\ Keeps(b, q_push(b, e, t, junk), t)
    BY <1>1 DEF q_push, Keeps
  <1> DEFINE at == {i \in DOMAIN b : b[i] = e}
             r == RemoveAt(b, Min(at))
  <1>3. ASSUME at # {}
        PROVE  Append(r, e) \in Seq(Entries) /\ Keeps(b, Append(r, e), t)
    <2>1. at \in SUBSET Nat /\ DOMAIN b = 1 .. Len(b)
      OBVIOUS
    <2>2. Min(at) \in at
      BY <1>3, <2>1, LeastElement
    <2>3. Min(at) \in 1 .. Len(b) /\ b[Min(at)] = e
      BY <2>1, <2>2
    <2> DEFINE m == Min(at)
    <2> HIDE DEF at, m
    <2>4. RemoveAt(b, m) \in Seq(Entries)
          /\ \A x : Contains(b, x) /\ b[m] # x => Contains(RemoveAt(b, m), x)
      BY <2>3, RemoveKeeps DEF m
    <2>5. r = RemoveAt(b, m) /\ b[m] = e
      BY <2>3 DEF m
    <2> HIDE DEF r
    <2>6. /\ Append(r, e) \in Seq(Entries) /\ Contains(Append(r, e), e)
          /\ \A x : Contains(r, x) => Contains(Append(r, e), x)
      BY <2>4, <2>5, AppendKeeps
    <2> QED
      BY <2>4, <2>5, <2>6 DEF Keeps
  <1>4. lru_push(b, e, t, junk) = IF at # {} THEN Append(r, e) ELSE Insert(b, e, t, junk)
    BY DEF lru_push
  <1> HIDE DEF at, r
  <1>5. lru_push(b, e, t, junk) \in Seq(Entries) /\ Keeps(b, lru_push(b, e, t, junk), t)
    BY <1>1, <1>3, <1>4
  <1> QED
    BY <1>2, <1>5 DEF Push

\* The buffers on the way through a sequence of walks.
Track(es, t, junk, m, f) ==
    f = [i \in 0 .. m |->
          IF i = 0 THEN buf
          ELSE IF es[i][2] \in Untracked THEN f[i - 1] ELSE Push(f[i - 1], es[i], t, junk)]

\* A sequence of walks comes to its end.
LEMMA TrackExists ==
    ASSUME NEW es, NEW t, NEW junk, NEW n \in Nat
    PROVE  \E f : Track(es, t, junk, n, f)
  <1> DEFINE Bad == {m \in Nat : ~\E f : Track(es, t, junk, m, f)}
  <1>1. SUFFICES ASSUME Bad # {} PROVE FALSE
    OBVIOUS
  <1>2. PICK m \in Bad : \A y \in Bad : m <= y
    BY <1>1, LeastElement
  <1>3. CASE m = 0
    <2>1. Track(es, t, junk, 0, [i \in 0 .. 0 |-> buf])
      BY DEF Track
    <2> QED
      BY <1>2, <1>3, <2>1
  <1>4. CASE m > 0
    <2>1. m - 1 \in Nat /\ m - 1 \notin Bad
      BY <1>2, <1>4
    <2>2. PICK f : Track(es, t, junk, m - 1, f)
      BY <2>1
    <2> DEFINE Next1(x) == IF es[m][2] \in Untracked THEN x ELSE Push(x, es[m], t, junk)
               g == [i \in 0 .. m |-> IF i = m THEN Next1(f[m - 1]) ELSE f[i]]
    <2>3. ASSUME NEW i \in 0 .. m
          PROVE  g[i] = IF i = 0 THEN buf
                        ELSE IF es[i][2] \in Untracked THEN g[i - 1]
                             ELSE Push(g[i - 1], es[i], t, junk)
      <3>1. CASE i = m
        <4>1. i # 0 /\ i - 1 \in 0 .. m /\ i - 1 # m /\ g[i - 1] = f[m - 1]
          BY <1>2, <1>4, <3>1
        <4> QED
          BY <3>1, <4>1
      <3>2. CASE i < m
        <4>1. i \in 0 .. m - 1 /\ (i # 0 => i - 1 \in 0 .. m - 1) /\ g[i] = f[i]
              /\ (i # 0 => g[i - 1] = f[i - 1])
          BY <1>2, <3>2
        <4> QED
          BY <2>2, <4>1 DEF Track
      <3> QED
        BY <1>2, <3>1, <3>2
    <2>4. Track(es, t, junk, m, g)
      BY <2>3 DEF Track
    <2> QED
      BY <1>2, <2>4
  <1> QED
    BY <1>2, <1>3, <1>4

\* At every place of a sequence of walks, what was pinned is in the buffer.
LEMMA TrackKeeps ==
    ASSUME buf \in Seq(Entries), NEW es \in Seq(Entries), NEW t, NEW junk, NEW f,
           Track(es, t, junk, Len(es), f)
    PROVE  f[Len(es)] \in Seq(Entries) /\ Keeps(buf, f[Len(es)], t)
  <1> DEFINE Good(m) == f[m] \in Seq(Entries) /\ Keeps(buf, f[m], t)
             Bad == {m \in Nat : m <= Len(es) /\ ~Good(m)}
  <1>0. Len(es) \in Nat
    OBVIOUS
  <1>1. SUFFICES ASSUME Bad # {} PROVE FALSE
    BY <1>0
  <1>2. PICK m \in Bad : \A y \in Bad : m <= y
    BY <1>1, LeastElement
  <1>3. m \in 0 .. Len(es) /\ ~Good(m)
    BY <1>2
  <1>4. f[m] = IF m = 0 THEN buf
               ELSE IF es[m][2] \in Untracked THEN f[m - 1]
                    ELSE Push(f[m - 1], es[m], t, junk)
    BY <1>3 DEF Track
  <1>5. CASE m = 0
    BY <1>3, <1>4, <1>5 DEF Keeps
  <1>6. CASE m > 0
    <2>1. m - 1 \in Nat /\ m - 1 <= Len(es) /\ ~(m <= m - 1) /\ es[m] \in Entries /\ m # 0
      BY <1>3, <1>6
    <2>2. Good(m - 1)
      <3> HIDE DEF Good
      <3> QED
        BY <1>2, <2>1
    <2>3. LET p == Push(f[m - 1], es[m], t, junk)
          IN  p \in Seq(Entries) /\ Keeps(f[m - 1], p, t)
      BY <2>1, <2>2, PushKeeps
    <2> QED
      BY <1>3, <1>4, <2>1, <2>2, <2>3 DEF Keeps
  <1> QED
    BY <1>3, <1>5, <1>6

\* Whatever is walked to, what was pinned stays in the buffer.
LEMMA WalksKeep ==
    ASSUME buf \in Seq(Entries), NEW es \in Seq(Entries), NEW t, Walks(es, t)
    PROVE  buf' \in Seq(Entries) /\ Keeps(buf, buf', t)
  <1>1. PICK junk \in BOOLEAN :
          buf' = (CHOOSE f : Track(es, t, junk, Len(es), f))[Len(es)]
    BY DEF Walks, Track
  <1> DEFINE f == CHOOSE f : Track(es, t, junk, Len(es), f)
  <1>2. Len(es) \in Nat
    OBVIOUS
  <1>3. Track(es, t, junk, Len(es), f)
    BY <1>2, TrackExists
  <1> HIDE DEF f
  <1>4. f[Len(es)] \in Seq(Entries) /\ Keeps(buf, f[Len(es)], t)
    BY <1>3, TrackKeeps
  <1> QED
    BY <1>1, <1>4 DEF f

-----------------------------------------------------------------------------
(***************************************************************************)
(* What a step does to the buffer                                          *)
(***************************************************************************)

\* The step of the buffer, where pins have owners after it.
LEMMA AfterWalks ==
    ASSUME BufInv, NEW es \in Seq(Entries), NEW t, Walks(es, t),
           \A e \in Entries : pte[e[1]][e[2]].pin /\ pte'[e[1]][e[2]].pin => t[e[1]][e[2]].pin,
           \A p \in Proc, v \in Page : pte'[p][v].pin => sz'[p] # 0
    PROVE  BufInv' /\ Stays
  <1>1. buf' \in Seq(Entries) /\ Keeps(buf, buf', t)
    BY WalksKeep DEF BufInv
  <1>2. \A e \in Entries : pte[e[1]][e[2]].pin => sz[e[1]] # 0
    BY DEF BufInv, Entries
  <1>3. ASSUME NEW e \in Entries, Contains(buf, e), pte[e[1]][e[2]].pin, pte'[e[1]][e[2]].pin
        PROVE  Contains(buf', e)
    BY <1>1, <1>2, <1>3 DEF Keeps, Fixed
  <1> QED
    BY <1>1, <1>3 DEF BufInv, Stays, Entries

\* An entry that is set in a process that goes on leaves pins with owners.
LEMMA SetPins ==
    ASSUME TypeOK, BufInv, NEW p \in Proc, NEW v \in Page, NEW e,
           pte' = Set(<<p, v>>, e), sz' = sz, sz[p] # 0
    PROVE  \A q \in Proc, w \in Page :
             /\ pte'[q][w] = IF q = p /\ w = v THEN e ELSE pte[q][w]
             /\ pte'[q][w].pin => sz'[q] # 0
  <1>1. pte' = [pte EXCEPT ![p][v] = e]
    BY DEF Set
  <1>2. \A q \in Proc, w \in Page : pte'[q][w] = IF q = p /\ w = v THEN e ELSE pte[q][w]
    BY <1>1 DEF TypeOK
  <1> QED
    BY <1>2 DEF BufInv

\* The steps on one page of a process, which walk the page tables as they were.
LEMMA PageStepBuf ==
    ASSUME PagingInv, BufInv, NEW p \in Proc, NEW v \in Page,
           \/ Walked(p, v) \/ WillNeed(p, v) \/ DontNeed(p, v)
           \/ Pin(p, v, TRUE) \/ Pin(p, v, FALSE)
    PROVE  BufInv' /\ Stays
  <1>1. Walk(p, v, pte) /\ sz' = sz /\ sz[p] > 0
    BY DEF Walked, WillNeed, DontNeed, Pin, Advised, Live
  <1>2. \A q \in Proc, w \in Page : pte'[q][w].pin => sz'[q] # 0
    <2>1. sz[p] # 0 /\ TypeOK
      BY <1>1 DEF PagingInv, TypeOK
    <2>2. CASE Walked(p, v)
      BY <2>2 DEF Walked, BufInv
    <2>3. CASE ~Walked(p, v)
      <3>1. \E e : pte' = Set(<<p, v>>, e)
        BY <2>3 DEF WillNeed, DontNeed, swap_page_from_pte, Pin
      <3> QED
        BY <1>1, <2>1, <3>1, SetPins
    <2> QED
      BY <2>2, <2>3
  <1>3. << <<p, v>> >> \in Seq(Entries)
    BY DEF Entries
  <1>4. Walks(<< <<p, v>> >>, pte)
    BY <1>1 DEF Walk
  <1> QED
    BY <1>2, <1>3, <1>4, AfterWalks

\* A store does not walk, and does not pin.
LEMMA StoreBuf ==
    ASSUME PagingInv, BufInv, NEW p \in Proc, NEW v \in Page, Store(p, v)
    PROVE  BufInv' /\ Stays
  <1>1. /\ pte' = Set(<<p, v>>, Mem(v, pte[p][v].pin)) /\ sz' = sz /\ buf' = buf
        /\ TypeOK /\ sz[p] # 0
    BY DEF Store, Live, PagingInv, TypeOK
  <1>2. \A q \in Proc, w \in Page : pte'[q][w].pin => sz'[q] # 0
    BY <1>1, SetPins
  <1> QED
    BY <1>1, <1>2 DEF BufInv, Stays

\* A fault walks twice, or records an address inside a page that is not tracked.
LEMMA FaultBuf ==
    ASSUME PagingInv, BufInv, NEW p \in Proc, NEW v \in Page, Fault(p, v)
    PROVE  BufInv' /\ Stays
  <1> DEFINE t == Set(<<p, v>>, Mem(Other, pte[p][v].pin))
  <1>1a. /\ pte' = t /\ sz' = sz /\ Live(p)
         /\ \/ Walks(<< <<p, v>>, <<p, v>> >>, t)
            \/ \E junk \in BOOLEAN : buf' = Push(buf, <<p, v>>, pte, junk)
    BY DEF Fault
  <1>1b. TypeOK /\ sz[p] # 0
    BY <1>1a DEF Live, PagingInv, TypeOK
  <1>1. /\ pte' = t /\ sz' = sz /\ TypeOK /\ sz[p] # 0
        /\ \/ Walks(<< <<p, v>>, <<p, v>> >>, t)
           \/ \E junk \in BOOLEAN : buf' = Push(buf, <<p, v>>, pte, junk)
    BY <1>1a, <1>1b
  <1> HIDE DEF t
  <1>2. \A q \in Proc, w \in Page : pte'[q][w].pin => sz'[q] # 0
    BY <1>1, SetPins DEF t
  <1>3. CASE Walks(<< <<p, v>>, <<p, v>> >>, t)
    <2>1. << <<p, v>>, <<p, v>> >> \in Seq(Entries)
      BY DEF Entries
    <2> QED
      BY <1>1, <1>2, <1>3, <2>1, AfterWalks
  <1>4. ASSUME NEW junk \in BOOLEAN, buf' = Push(buf, <<p, v>>, pte, junk)
        PROVE  BufInv' /\ Stays
    <2>1. <<p, v>> \in Entries /\ buf \in Seq(Entries)
      BY DEF Entries, BufInv
    <2>2. buf' \in Seq(Entries) /\ Keeps(buf, buf', pte)
      BY <1>4, <2>1, PushKeeps
    <2>3. \A e \in Entries : pte[e[1]][e[2]].pin => Fixed(e, pte)
      BY DEF BufInv, Entries, Fixed
    <2> QED
      BY <1>2, <2>2, <2>3 DEF BufInv, Stays, Keeps, Entries
  <1> QED
    BY <1>1, <1>3, <1>4

\* The walks to all pages of a process.
LEMMA PagesAreEntries ==
    ASSUME NEW p \in Proc, NEW n \in 0 .. MAXPAGE
    PROVE  Pages(p, n) \in Seq(Entries)
  <1>1. n \in Nat /\ \A i \in 1 .. n : <<p, i - 1>> \in Entries
    BY PagingAssumption DEF Entries, Page
  <1> QED
    BY <1>1 DEF Pages

\* A page that a process grows by is not pinned.
LEMMA GrowBuf ==
    ASSUME PagingInv, BufInv, NEW p \in Proc, Grow(p)
    PROVE  BufInv' /\ Stays
  <1> DEFINE v == sz[p]
             t == Set(<<p, v>>, Mem(v, FALSE))
  <1>1a. Live(p) /\ v < MAXPAGE /\ pte' = t /\ Walk(p, v, t) /\ sz' = [sz EXCEPT ![p] = v + 1]
    BY DEF Grow
  <1>1b. v \in Page /\ v \in Nat /\ v > 0 /\ TypeOK
    BY <1>1a, PagingAssumption DEF Live, Page, PagingInv, TypeOK
  <1>1. /\ pte' = t /\ Walk(p, v, t) /\ sz' = [sz EXCEPT ![p] = v + 1] /\ v \in Page
        /\ v \in Nat /\ v > 0 /\ TypeOK
    BY <1>1a, <1>1b
  <1>2. t = [pte EXCEPT ![p][v] = Mem(v, FALSE)]
    BY DEF Set
  <1>3. \A q \in Proc : sz[q] # 0 => sz'[q] # 0
    BY <1>1 DEF TypeOK
  <1> HIDE DEF t, v
  <1>4. \A q \in Proc, w \in Page :
          t[q][w] = IF q = p /\ w = v THEN Mem(v, FALSE) ELSE pte[q][w]
    BY <1>1, <1>2 DEF TypeOK
  <1>5. \A q \in Proc, w \in Page : pte'[q][w].pin => sz'[q] # 0
    BY <1>1, <1>3, <1>4 DEF BufInv, Mem
  <1>6. << <<p, v>> >> \in Seq(Entries)
    BY <1>1 DEF Entries
  <1>7. Walks(<< <<p, v>> >>, t)
    BY <1>1 DEF Walk
  <1> QED
    BY <1>1, <1>5, <1>6, <1>7, AfterWalks

\* A process that shrinks has a page left.
LEMMA ShrinkBuf ==
    ASSUME PagingInv, BufInv, NEW p \in Proc, Shrink(p)
    PROVE  BufInv' /\ Stays
  <1> DEFINE v == sz[p] - 1
  <1>1. /\ pte' = Set(<<p, v>>, Unmapped(pte[p][v])) /\ Walk(p, v, pte)
        /\ sz' = [sz EXCEPT ![p] = v] /\ v \in Page /\ v \in Nat /\ v > 0 /\ TypeOK
    BY PagingAssumption DEF Shrink, Live, Page, PagingInv, TypeOK
  <1>2. pte' = [pte EXCEPT ![p][v] = Unmapped(pte[p][v])]
    BY <1>1 DEF Set
  <1>3. \A q \in Proc : sz[q] # 0 => sz'[q] # 0
    BY <1>1 DEF TypeOK
  <1>3a. sz'[p] # 0
    BY <1>1 DEF TypeOK
  <1> HIDE DEF v
  <1>4. \A q \in Proc, w \in Page : q # p => pte'[q][w] = pte[q][w]
    BY <1>1, <1>2 DEF TypeOK
  <1>5. \A q \in Proc, w \in Page : pte'[q][w].pin => sz'[q] # 0
    BY <1>3, <1>3a, <1>4 DEF BufInv
  <1>6. << <<p, v>> >> \in Seq(Entries)
    BY <1>1 DEF Entries
  <1>7. Walks(<< <<p, v>> >>, pte)
    BY <1>1 DEF Walk
  <1> QED
    BY <1>5, <1>6, <1>7, AfterWalks

\* What has entries at the places up to n is a sequence of them.
LEMMA IsSequence ==
    ASSUME NEW S, NEW n \in Nat, NEW f, f = [i \in 1 .. n |-> f[i]], \A i \in 1 .. n : f[i] \in S
    PROVE  f \in Seq(S)
  OBVIOUS

\* fork() walks to the pages of parent and child in turn.
LEMMA ForkBuf ==
    ASSUME PagingInv, BufInv, NEW p \in Proc, NEW c \in Proc, Fork(p, c)
    PROVE  BufInv' /\ Stays
  <1> DEFINE t == [pte EXCEPT ![c] = [v \in Page |-> IF v < sz[p] THEN pte[p][v] ELSE NoPte]]
             n == sz[p]
             es == [i \in 1 .. 2 * n |->
                     IF i % 2 = 1 THEN <<p, i \div 2>> ELSE <<c, i \div 2 - 1>>]
  <1>1. /\ pte' = t /\ Walks(es, t) /\ sz' = [sz EXCEPT ![c] = sz[p]] /\ p # c /\ sz[c] = 0
        /\ n \in 0 .. MAXPAGE /\ n # 0 /\ TypeOK
    BY DEF Fork, Live, PagingInv, TypeOK
  <1>2. es \in Seq(Entries)
    <2>1. 2 * n \in Nat
      BY <1>1, PagingAssumption
    <2>2. ASSUME NEW i \in 1 .. 2 * n
          PROVE  es[i] \in Entries
      <3>1. CASE i % 2 = 1
        <4>1. i \div 2 \in Page
          BY <1>1, <3>1, PagingAssumption DEF Page
        <4> QED
          BY <3>1, <4>1 DEF Entries
      <3>2. CASE i % 2 # 1
        <4>1. i \div 2 - 1 \in Page
          BY <1>1, <3>2, PagingAssumption DEF Page
        <4> QED
          BY <3>2, <4>1 DEF Entries
      <3> QED
        BY <3>1, <3>2
    <2>3. es = [i \in 1 .. 2 * n |-> es[i]]
      OBVIOUS
    <2> HIDE DEF es
    <2> QED
      BY <2>1, <2>2, <2>3, IsSequence
  <1> HIDE DEF es
  <1>3. \A q \in Proc, w \in Page : q # c => t[q][w] = pte[q][w]
    BY <1>1 DEF TypeOK
  <1>4. \A q \in Proc : q # c => sz'[q] = sz[q]
    BY <1>1 DEF TypeOK
  <1>5. sz'[c] # 0
    BY <1>1 DEF TypeOK
  <1> HIDE DEF t, n
  <1>6. \A q \in Proc, w \in Page : pte'[q][w].pin => sz'[q] # 0
    BY <1>1, <1>3, <1>4, <1>5 DEF BufInv
  <1> QED
    BY <1>1, <1>2, <1>6, AfterWalks

\* exit() takes the pins of the process with it.
LEMMA ExitBuf ==
    ASSUME PagingInv, BufInv, NEW p \in Proc, Exit(p)
    PROVE  BufInv' /\ Stays
  <1>1. /\ pte' = [pte EXCEPT ![p] = [v \in Page |-> NoPte]] /\ Walks(Pages(p, sz[p]), pte)
        /\ sz' = [sz EXCEPT ![p] = 0] /\ TypeOK /\ sz[p] \in 0 .. MAXPAGE
    BY DEF Exit, PagingInv, TypeOK
  <1>2. \A q \in Proc, w \in Page : pte'[q][w] = IF q = p THEN NoPte ELSE pte[q][w]
    BY <1>1 DEF TypeOK
  <1>3. \A q \in Proc : q # p => sz'[q] = sz[q]
    BY <1>1 DEF TypeOK
  <1>4. ~NoPte.pin
    BY DEF NoPte
  <1>5. \A q \in Proc, w \in Page : pte'[q][w].pin => sz'[q] # 0
    BY <1>2, <1>3, <1>4 DEF BufInv
  <1>6. Pages(p, sz[p]) \in Seq(Entries)
    BY <1>1, PagesAreEntries
  <1> QED
    BY <1>1, <1>5, <1>6, AfterWalks

\* Every step keeps what is pinned in the buffer.
LEMMA BufStep ==
    PagingInv /\ BufInv /\ [PagingNext]_pagingVars =>
      BufInv' /\ (Stays \/ UNCHANGED pagingVars)
  <1> SUFFICES ASSUME PagingInv, BufInv, [PagingNext]_pagingVars
               PROVE  BufInv' /\ (Stays \/ UNCHANGED pagingVars)
    OBVIOUS
  <1>1. CASE Recycle
    BY <1>1 DEF Recycle, BufInv, Stays
  <1>2. ASSUME NEW p \in Proc, Step(p)
        PROVE  BufInv' /\ Stays
    <2>1. ASSUME NEW v \in Page, \/ Store(p, v) \/ Fault(p, v) \/ Walked(p, v)
                                 \/ WillNeed(p, v) \/ DontNeed(p, v)
                                 \/ Pin(p, v, TRUE) \/ Pin(p, v, FALSE)
          PROVE  BufInv' /\ Stays
      BY <2>1, StoreBuf, FaultBuf, PageStepBuf
    <2>2. CASE Grow(p) \/ Shrink(p) \/ Exit(p)
      BY <2>2, GrowBuf, ShrinkBuf, ExitBuf
    <2>3. ASSUME NEW c \in Proc, Fork(p, c)
          PROVE  BufInv' /\ Stays
      BY <2>3, ForkBuf
    <2> QED
      BY <1>2, <2>1, <2>2, <2>3 DEF Step
  <1>3. CASE UNCHANGED pagingVars
    BY <1>3 DEF pagingVars, kernelVars, BufInv
  <1> QED
    BY <1>1, <1>2, <1>3 DEF PagingNext

\* At the start nothing is pinned, and the buffer is empty.
LEMMA BufInit == PagingInit => BufInv
  <1> SUFFICES ASSUME PagingInit PROVE BufInv
    OBVIOUS
  <1>1. PICK p \in Proc :
          pte = [q \in Proc |-> [v \in Page |-> IF q = p /\ v = 0 THEN Mem(v, FALSE) ELSE NoPte]]
    BY DEF PagingInit
  <1>2. ~NoPte.pin /\ \A v \in Page : ~Mem(v, FALSE).pin
    BY DEF NoPte, Mem
  <1>3. \A q \in Proc, v \in Page : ~pte[q][v].pin
    BY <1>1, <1>2
  <1>4. buf = <<>> /\ <<>> \in Seq(Entries)
    BY DEF PagingInit
  <1> QED
    BY <1>3, <1>4 DEF BufInv

\* A pinned page in memory that is in the buffer stays there until it is unpinned,
\* swapped out or unmapped or its process ends, whatever walk() adds to the
\* buffer (fifo.c, lru.c).
THEOREM PinnedPagesStay == PagingSpec => PinnedStays
  <1>1. PagingInv /\ BufInv /\ [PagingNext]_pagingVars =>
          [\A e \in Proc \X Page :
             Contains(buf, e) /\ PinnedIn(pte, e) /\ PinnedIn(pte', e)
             => Contains(buf', e)]_pagingVars
    BY BufStep DEF Stays, PinnedIn
  <1>2. PagingInv /\ BufInv /\ [PagingNext]_pagingVars => BufInv'
    BY BufStep
  <1> QED
    BY <1>1, <1>2, BufInit, PagingInvariant, PTL DEF PagingSpec, PinnedStays
=============================================================================
