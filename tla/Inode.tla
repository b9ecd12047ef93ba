-------------------------------- MODULE Inode --------------------------------
(***************************************************************************)
(* The inode layer of kernel/fs.c under the system calls of                *)
(* kernel/sysfile.c that make, find and remove names: open, mkdir, link,   *)
(* unlink, close.                                                          *)
(*                                                                         *)
(* A stretch of code under itable.lock is one step; so is one under a      *)
(* single sleep lock that it takes and releases.  Where a call holds one   *)
(* inode and goes on to lock another one, the lock is part of the state.   *)
(* The table of in-memory inodes is indexed by inode number: iget() finds  *)
(* the entry of an inode or makes it under itable.lock.  Each call is one  *)
(* transaction of the log, see Log.                                        *)
(***************************************************************************)
EXTENDS Integers, Sequences, FiniteSets

CONSTANTS Proc, NoProc,
          Inum,        \* inode numbers
          ROOTINO,
          Name,        \* directory entry names
          Path         \* the paths given to the calls

ASSUME InodeAssumption ==
    /\ IsFiniteSet(Proc) /\ NoProc \notin Proc
    /\ Inum \subseteq Nat \ {0} /\ ROOTINO \in Inum
    /\ IsFiniteSet(Inum) /\ IsFiniteSet(Name)
    /\ Path \subseteq Seq(Name) \ {<<>>}

VARIABLES
    \* on disk
    type,      \* dinode type, Free for 0
    nlink,
    entry,     \* a directory's inode numbers by name, 0 for none
    up,        \* its ".." while it is in its parent, 0 otherwise
    \* the inode table
    ref, valid,
    lock,      \* holder of ip->lock
    \* the processes
    call,      \* the system call: what it does, its paths, the type it makes
    pc,
    cur, rest, \* namex(): its ip, and what is left of the path
    dp, ip,    \* the locals dp and ip of the call
    drop, ret, \* inodes to iput(), and where to go then
    file       \* the inode of an open file

diskVars  == <<type, nlink, entry, up>>
tableVars == <<ref, valid, lock>>
procVars  == <<call, pc, cur, rest, dp, ip, drop, ret, file>>
vars      == <<diskVars, tableVars, procVars>>

Type == {"file", "dir"}
Free == "free"
NoEntries == [n \in Name |-> 0]
NoCall == [op |-> "none"]

InodeTypeOK ==
    /\ type \in [Inum -> {Free} \cup Type]
    /\ nlink \in [Inum -> Nat]
    /\ entry \in [Inum -> [Name -> Inum \cup {0}]]
    /\ up \in [Inum -> Inum \cup {0}]
    /\ ref \in [Inum -> Nat]
    /\ valid \in [Inum -> BOOLEAN]
    /\ lock \in [Inum -> Proc \cup {NoProc}]
    /\ \A x \in {cur, dp, ip, file} : x \in [Proc -> Inum \cup {0}]
    /\ drop \in [Proc -> Seq(Inum)]

TableInit ==
    /\ ref = [i \in Inum |-> 0]
    /\ valid = [i \in Inum |-> FALSE]
    /\ lock = [i \in Inum |-> NoProc]

ProcInit ==
    /\ call = [p \in Proc |-> NoCall]
    /\ pc = [p \in Proc |-> "idle"]
    /\ cur = [p \in Proc |-> 0] /\ rest = [p \in Proc |-> <<>>]
    /\ dp = [p \in Proc |-> 0] /\ ip = [p \in Proc |-> 0]
    /\ drop = [p \in Proc |-> <<>>] /\ ret = [p \in Proc |-> "idle"]
    /\ file = [p \in Proc |-> 0]

\* mkfs has made the root directory.
Init ==
    /\ type = [i \in Inum |-> IF i = ROOTINO THEN "dir" ELSE Free]
    /\ nlink = [i \in Inum |-> IF i = ROOTINO THEN 1 ELSE 0]
    /\ entry = [i \in Inum |-> NoEntries]
    /\ up = [i \in Inum |-> 0]
    /\ TableInit /\ ProcInit

Set(f, p, v) == [f EXCEPT ![p] = v]

\* iget(), under itable.lock: one more reference.
Iget(i) == /\ ref' = [ref EXCEPT ![i] = @ + 1]
           /\ valid' = IF ref[i] = 0 THEN [valid EXCEPT ![i] = FALSE] ELSE valid

\* ilock() of an unlocked inode, and a section between ilock() and iunlock().
Unlocked(i) == lock[i] = NoProc
Ilock(i, p) == Unlocked(i) /\ lock' = [lock EXCEPT ![i] = p]
Load(i)     == valid' = [valid EXCEPT ![i] = TRUE]

\* iput() some inodes, then go to l; without any, go there at once.
Put(p, is, l) == /\ drop' = Set(drop, p, is)
                 /\ ret' = Set(ret, p, l)
                 /\ pc' = Set(pc, p, IF is = <<>> THEN l ELSE "iput")

\* The call returns once it has put these inodes.
Return(p, is) == /\ Put(p, is, "idle")
                 /\ call' = Set(call, p, NoCall)
                 /\ cur' = Set(cur, p, 0) /\ rest' = Set(rest, p, <<>>)
                 /\ dp' = Set(dp, p, 0) /\ ip' = Set(ip, p, 0)

-----------------------------------------------------------------------------
\* iput()

\* Mutant: iput() does not ask for the last reference.
LastReferenced(i) == valid[i] /\ nlink[i] = 0

\* The last reference to an inode without links: lock it, to free it.
Last(i) == ref[i] = 1 /\ valid[i] /\ nlink[i] = 0

IputLast(p) ==
    /\ pc[p] = "iput"
    /\ LET i == Head(drop[p]) IN
       /\ Last(i)
       /\ Ilock(i, p)
    /\ pc' = Set(pc, p, "itrunc")
    /\ UNCHANGED <<diskVars, ref, valid, call, cur, rest, dp, ip, drop, ret, file>>

\* itrunc(), type = 0, iupdate(): ialloc() may now find the inode.
IputFree(p) ==
    /\ pc[p] = "itrunc"
    /\ LET i == Head(drop[p]) IN
       /\ type' = [type EXCEPT ![i] = Free]
       /\ entry' = [entry EXCEPT ![i] = NoEntries]
       /\ up' = [up EXCEPT ![i] = 0]
    /\ pc' = Set(pc, p, "ifreed")
    /\ UNCHANGED <<nlink, tableVars, call, cur, rest, dp, ip, drop, ret, file>>

\* valid = 0, releasesleep().
IputUnlock(p) ==
    /\ pc[p] = "ifreed"
    /\ LET i == Head(drop[p]) IN
       /\ valid' = [valid EXCEPT ![i] = FALSE]
       /\ lock' = [lock EXCEPT ![i] = NoProc]
    /\ pc' = Set(pc, p, "iputref")
    /\ UNCHANGED <<diskVars, ref, call, cur, rest, dp, ip, drop, ret, file>>

\* ref--, at once or after the inode has been freed.
IputRef(p) ==
    /\ \/ pc[p] = "iput" /\ ~Last(Head(drop[p]))
       \/ pc[p] = "iputref"
    /\ ref' = [ref EXCEPT ![Head(drop[p])] = @ - 1]
    /\ Put(p, Tail(drop[p]), ret[p])
    /\ UNCHANGED <<diskVars, valid, lock, call, cur, rest, dp, ip, file>>

-----------------------------------------------------------------------------
\* namex()

\* Start at the root.
Namex(p, path) ==
    /\ Iget(ROOTINO)
    /\ cur' = Set(cur, p, ROOTINO)
    /\ rest' = Set(rest, p, path)
    /\ pc' = Set(pc, p, "walk")

\* Whether the walk is for nameiparent(), and where it goes on.
WantsParent(p) == call[p].op \in {"create", "unlink", "link2"}
Walked(p) == IF call[p].op = "link2" THEN "dirlink" ELSE call[p].op

\* Stop one level early.
WalkParent(p) ==
    LET d == cur[p] IN
    /\ pc[p] = "walk"
    /\ Unlocked(d) /\ Load(d)
    /\ type[d] = "dir" /\ WantsParent(p) /\ Len(rest[p]) = 1
    /\ dp' = Set(dp, p, d)
    /\ cur' = Set(cur, p, 0)
    /\ pc' = Set(pc, p, Walked(p))
    /\ UNCHANGED <<diskVars, ref, lock, call, rest, ip, drop, ret, file>>

\* Not a directory, or no such name.
Missing(p) ==
    \/ type[cur[p]] # "dir"
    \/ ~(WantsParent(p) /\ Len(rest[p]) = 1) /\ entry[cur[p]][Head(rest[p])] = 0

WalkFail(p) ==
    LET d == cur[p] IN
    /\ pc[p] = "walk"
    /\ Unlocked(d) /\ Load(d)
    /\ Missing(p)
    /\ IF call[p].op = "link2"
         THEN /\ Put(p, <<d>>, "badlink")
              /\ cur' = Set(cur, p, 0) /\ rest' = Set(rest, p, <<>>)
              /\ UNCHANGED <<call, dp, ip>>
         ELSE Return(p, <<d>>)
    /\ UNCHANGED <<diskVars, ref, lock, file>>

\* dirlookup() gets the next inode while the directory is locked.
WalkNext(p) ==
    LET d == cur[p]
        i == entry[d][Head(rest[p])]
        last == Len(rest[p]) = 1
    IN
    /\ pc[p] = "walk"
    /\ Unlocked(d)
    /\ type[d] = "dir" /\ ~(WantsParent(p) /\ last)
    /\ i # 0
    /\ ref' = [ref EXCEPT ![i] = @ + 1]
    /\ valid' = [valid EXCEPT ![d] = TRUE, ![i] = IF ref[i] = 0 THEN FALSE ELSE @]
    /\ Put(p, <<d>>, IF last THEN Walked(p) ELSE "walk")
    /\ cur' = Set(cur, p, IF last THEN 0 ELSE i)
    /\ rest' = Set(rest, p, Tail(rest[p]))
    /\ ip' = IF last THEN Set(ip, p, i) ELSE ip
    /\ UNCHANGED <<diskVars, lock, call, dp, file>>

-----------------------------------------------------------------------------
\* sys_open()

\* A call starts with namei() or nameiparent().
Begin(p, c, path) ==
    /\ pc[p] = "idle"
    /\ call' = Set(call, p, c)
    /\ Namex(p, path)
    /\ UNCHANGED <<diskVars, lock, dp, ip, drop, ret, file>>

Open(p, path) == file[p] = 0 /\ Begin(p, [op |-> "open"], path)

\* The inode becomes the open file, or it is put because it is a directory to
\* be written or there is no file or descriptor left.
OpenFile(p) ==
    \/ file' = Set(file, p, ip[p]) /\ Return(p, <<>>)
    \/ file' = file /\ Return(p, <<ip[p]>>)

OpenDone(p) ==
    /\ pc[p] = "open"
    /\ Unlocked(ip[p]) /\ Load(ip[p])
    /\ OpenFile(p)
    /\ UNCHANGED <<diskVars, ref, lock>>

-----------------------------------------------------------------------------
\* create(), for sys_open() with O_CREATE and sys_mkdir()

\* Bound: create() panics without a free inode, so it is called while there is
\* one for every caller.
InodesLeft == Cardinality({i \in Inum : type[i] = Free})
                > Cardinality({p \in Proc : call[p].op = "create"})

Create(p, t, path) == /\ t = "file" => file[p] = 0
                      /\ InodesLeft
                      /\ Begin(p, [op |-> "create", type |-> t], path)

name(p) == Head(rest[p])

CreateFound(p) ==
    LET d == dp[p]
        i == entry[d][name(p)]
    IN
    /\ pc[p] = "create"
    /\ Unlocked(d)
    /\ i # 0
    /\ ref' = [ref EXCEPT ![i] = @ + 1]
    /\ valid' = [valid EXCEPT ![d] = TRUE, ![i] = IF ref[i] = 0 THEN FALSE ELSE @]
    /\ ip' = Set(ip, p, i)
    /\ dp' = Set(dp, p, 0)
    /\ Put(p, <<d>>, "exists")
    /\ UNCHANGED <<diskVars, lock, call, cur, rest, file>>

\* Only a file may exist already.
CreateOld(p) ==
    /\ pc[p] = "exists"
    /\ Unlocked(ip[p]) /\ Load(ip[p])
    /\ IF call[p].type = "file" /\ type[ip[p]] = "file"
         THEN OpenFile(p)
         ELSE UNCHANGED file /\ Return(p, <<ip[p]>>)
    /\ UNCHANGED <<diskVars, ref, lock>>

\* ialloc() of the first free inode while the directory stays locked.
CreateNew(p) ==
    LET d == dp[p] IN
    /\ pc[p] = "create"
    /\ entry[d][name(p)] = 0
    /\ Ilock(d, p)
    /\ \E i \in Inum :
         /\ type[i] = Free /\ \A j \in Inum : j < i => type[j] # Free
         /\ type' = [type EXCEPT ![i] = call[p].type]
         /\ nlink' = [nlink EXCEPT ![i] = 0]
         /\ ref' = [ref EXCEPT ![i] = @ + 1]
         /\ valid' = [valid EXCEPT ![d] = TRUE, ![i] = IF ref[i] = 0 THEN FALSE ELSE @]
         /\ ip' = Set(ip, p, i)
    /\ pc' = Set(pc, p, "new")
    /\ UNCHANGED <<entry, up, call, cur, rest, dp, drop, ret, file>>

\* Lock the new inode, give it its link, then the directory its entry.
CreateLink(p) ==
    LET d == dp[p]
        i == ip[p]
        isdir == type[i] = "dir"
    IN
    /\ pc[p] = "new"
    /\ Unlocked(i)
    /\ lock' = [lock EXCEPT ![i] = p, ![d] = NoProc]
    /\ Load(i)
    /\ nlink' = [nlink EXCEPT ![i] = 1, ![d] = IF isdir THEN @ + 1 ELSE @]
    /\ up' = [up EXCEPT ![i] = IF isdir THEN d ELSE 0]
    /\ entry' = [entry EXCEPT ![d][name(p)] = i]
    /\ dp' = Set(dp, p, 0)
    /\ Put(p, <<d>>, "made")
    /\ UNCHANGED <<type, ref, call, cur, rest, ip, file>>

CreateDone(p) ==
    /\ pc[p] = "made"
    /\ lock' = [lock EXCEPT ![ip[p]] = NoProc]
    /\ IF type[ip[p]] = "file" THEN OpenFile(p)
                               ELSE UNCHANGED file /\ Return(p, <<ip[p]>>)
    /\ UNCHANGED <<diskVars, ref, valid>>

-----------------------------------------------------------------------------
\* sys_link()

Link(p, old, new) == Begin(p, [op |-> "link", new |-> new], old)

\* Mutant: link() counts the new link only when it is made, that is not here.
LinkOldUncounted(p) ==
    LET i == ip[p] IN
    /\ pc[p] = "link"
    /\ Unlocked(i) /\ Load(i)
    /\ IF type[i] = "dir"
         THEN Return(p, <<i>>)
         ELSE /\ pc' = Set(pc, p, "linknew")
              /\ UNCHANGED <<call, cur, rest, dp, ip, drop, ret>>
    /\ UNCHANGED <<diskVars, ref, lock, file>>

\* Count the link before it is made; directories are not linked.
LinkOld(p) ==
    LET i == ip[p] IN
    /\ pc[p] = "link"
    /\ Unlocked(i) /\ Load(i)
    /\ IF type[i] = "dir"
         THEN Return(p, <<i>>) /\ UNCHANGED nlink
         ELSE /\ nlink' = [nlink EXCEPT ![i] = @ + 1]
              /\ pc' = Set(pc, p, "linknew")
              /\ UNCHANGED <<call, cur, rest, dp, ip, drop, ret>>
    /\ UNCHANGED <<type, entry, up, ref, lock, file>>

LinkNew(p) ==
    /\ pc[p] = "linknew"
    /\ call' = Set(call, p, [op |-> "link2"])
    /\ Namex(p, call[p].new)
    /\ UNCHANGED <<diskVars, lock, dp, ip, drop, ret, file>>

\* dirlink() refuses a name that is there.
DirLink(p) ==
    LET d == dp[p] IN
    /\ pc[p] = "dirlink"
    /\ Unlocked(d) /\ Load(d)
    /\ IF entry[d][name(p)] # 0
         THEN /\ Put(p, <<d>>, "badlink")
              /\ dp' = Set(dp, p, 0)
              /\ UNCHANGED <<entry, call, cur, rest, ip>>
         ELSE /\ entry' = [entry EXCEPT ![d][name(p)] = ip[p]]
              /\ Return(p, <<d, ip[p]>>)
    /\ UNCHANGED <<type, nlink, up, ref, lock, file>>

\* Mutant: the bad exit is taken after a link() that failed to find its parent
\* directory and takes two links back.
LinkBadTwice(p) ==
    LET i == ip[p] IN
    /\ pc[p] = "badlink"
    /\ Unlocked(i) /\ Load(i)
    /\ nlink' = [nlink EXCEPT ![i] = @ - 2]
    /\ Return(p, <<i>>)
    /\ UNCHANGED <<type, entry, up, ref, lock, file>>

\* bad: take the link back.
LinkBad(p) ==
    LET i == ip[p] IN
    /\ pc[p] = "badlink"
    /\ Unlocked(i) /\ Load(i)
    /\ nlink' = [nlink EXCEPT ![i] = @ - 1]
    /\ Return(p, <<i>>)
    /\ UNCHANGED <<type, entry, up, ref, lock, file>>

-----------------------------------------------------------------------------
\* sys_unlink()

Unlink(p, path) == Begin(p, [op |-> "unlink"], path)

UnlinkMiss(p) ==
    LET d == dp[p] IN
    /\ pc[p] = "unlink"
    /\ Unlocked(d) /\ Load(d)
    /\ entry[d][name(p)] = 0
    /\ Return(p, <<d>>)
    /\ UNCHANGED <<diskVars, ref, lock, file>>

UnlinkFound(p) ==
    LET d == dp[p]
        i == entry[d][name(p)]
    IN
    /\ pc[p] = "unlink"
    /\ i # 0
    /\ Ilock(d, p)
    /\ ref' = [ref EXCEPT ![i] = @ + 1]
    /\ valid' = [valid EXCEPT ![d] = TRUE, ![i] = IF ref[i] = 0 THEN FALSE ELSE @]
    /\ ip' = Set(ip, p, i)
    /\ pc' = Set(pc, p, "unlink2")
    /\ UNCHANGED <<diskVars, call, cur, rest, dp, drop, ret, file>>

isdirempty(i) == entry[i] = NoEntries

\* Mutant: the inode that stays is unlocked and not put.
UnlinkFullUnput(p) ==
    LET i == ip[p] IN
    /\ pc[p] = "unlink2"
    /\ Unlocked(i) /\ Load(i)
    /\ type[i] = "dir" /\ ~isdirempty(i)
    /\ Put(p, <<>>, "full")
    /\ ip' = Set(ip, p, 0)
    /\ UNCHANGED <<diskVars, ref, lock, call, cur, rest, dp, file>>

\* A directory that is not empty stays: put it, then the other one.
UnlinkFull(p) ==
    LET i == ip[p] IN
    /\ pc[p] = "unlink2"
    /\ Unlocked(i) /\ Load(i)
    /\ type[i] = "dir" /\ ~isdirempty(i)
    /\ Put(p, <<i>>, "full")
    /\ ip' = Set(ip, p, 0)
    /\ UNCHANGED <<diskVars, ref, lock, call, cur, rest, dp, file>>

UnlinkBad(p) ==
    /\ pc[p] = "full"
    /\ lock' = [lock EXCEPT ![dp[p]] = NoProc]
    /\ Return(p, <<dp[p]>>)
    /\ UNCHANGED <<diskVars, ref, valid, file>>

\* Erase the entry, unlock and put the directory, with the inode locked.
UnlinkEntry(p) ==
    LET d == dp[p]
        i == ip[p]
    IN
    /\ pc[p] = "unlink2"
    /\ Unlocked(i) /\ Load(i)
    /\ type[i] = "dir" => isdirempty(i)
    /\ entry' = [entry EXCEPT ![d][name(p)] = 0]
    /\ nlink' = [nlink EXCEPT ![d] = IF type[i] = "dir" THEN @ - 1 ELSE @]
    /\ up' = [up EXCEPT ![i] = 0]
    /\ lock' = [lock EXCEPT ![d] = NoProc, ![i] = p]
    /\ dp' = Set(dp, p, 0)
    /\ Put(p, <<d>>, "unlink3")
    /\ UNCHANGED <<type, ref, call, cur, rest, ip, file>>

UnlinkInode(p) ==
    LET i == ip[p] IN
    /\ pc[p] = "unlink3"
    /\ nlink' = [nlink EXCEPT ![i] = @ - 1]
    /\ lock' = [lock EXCEPT ![i] = NoProc]
    /\ Return(p, <<i>>)
    /\ UNCHANGED <<type, entry, up, ref, valid, file>>

-----------------------------------------------------------------------------
\* sys_close(), and exit()
Close(p) ==
    /\ pc[p] = "idle"
    /\ file[p] # 0
    /\ file' = Set(file, p, 0)
    /\ Put(p, <<file[p]>>, "idle")
    /\ UNCHANGED <<diskVars, tableVars, call, cur, rest, dp, ip>>

-----------------------------------------------------------------------------
Syscall(p) ==
    \/ Close(p)
    \/ \E path \in Path : \/ Open(p, path) \/ Unlink(p, path)
                          \/ \E t \in Type : Create(p, t, path)
                          \/ \E new \in Path : Link(p, path, new)

InCall(p) ==
    \/ IputLast(p) \/ IputFree(p) \/ IputUnlock(p) \/ IputRef(p)
    \/ WalkParent(p) \/ WalkFail(p) \/ WalkNext(p)
    \/ OpenDone(p)
    \/ CreateFound(p) \/ CreateOld(p) \/ CreateNew(p) \/ CreateLink(p) \/ CreateDone(p)
    \/ LinkOld(p) \/ LinkNew(p) \/ DirLink(p) \/ LinkBad(p)
    \/ UnlinkMiss(p) \/ UnlinkFound(p) \/ UnlinkFull(p) \/ UnlinkBad(p)
    \/ UnlinkEntry(p) \/ UnlinkInode(p)

Next == \E p \in Proc : Syscall(p) \/ InCall(p)

Spec == Init /\ [][Next]_vars

-----------------------------------------------------------------------------
(***************************************************************************)
(* Properties                                                              *)
(***************************************************************************)

\* ip->ref "tracks the number of in-memory pointers to the entry" (fs.c:131-132):
\* open files, and the locals of the calls in progress, on every path.
Pointers(i) ==
    LET of(f) == Cardinality({p \in Proc : f[p] = i})
        dropped == {e \in Proc \X (1 .. 2) :
                      e[2] \in DOMAIN drop[e[1]] /\ drop[e[1]][e[2]] = i}
    IN of(file) + of(cur) + of(dp) + of(ip) + Cardinality(dropped)

RefsExact == \A i \in Inum : ref[i] = Pointers(i)

\* ilock() never finds a free inode ("ilock: no type"): as long as a name or a
\* pointer leads to it an inode is allocated, but for the one that frees it.  Its
\* link count never falls below the names it has, so that it is not freed under a
\* name and sys_unlink() does not panic.  (It may exceed them: create() and link()
\* put names into a directory that sys_unlink() has just removed.)
NamesOf(i) == {e \in Inum \X Name : entry[e[1]][e[2]] = i}
Subdirs(i) == {d \in Inum : up[d] = i}

NoDangling ==
    /\ \A i \in Inum : type[i] = Free =>
         /\ NamesOf(i) = {}
         /\ ref[i] > 0 =>
              \E p \in Proc : pc[p] \in {"ifreed", "iputref"} /\ Head(drop[p]) = i
    /\ \A i \in Inum : type[i] # Free =>
         nlink[i] >= Cardinality(NamesOf(i)) + Cardinality(Subdirs(i))
                       + (IF i = ROOTINO THEN 1 ELSE 0)

\* "ref == 1 means no other process can have ip locked" (fs.c:341): iput() does
\* not sleep while it holds itable.lock.
IputDoesNotWait ==
    \A p \in Proc : pc[p] = "iput" /\ Last(Head(drop[p])) => Unlocked(Head(drop[p]))

\* "iput() frees if the reference and link counts have fallen to zero"
\* (fs.c:127): whoever is the last, no inode is left behind.
FreedAtLast ==
    \A i \in Inum : type[i] # Free /\ ref[i] = 0 => nlink[i] > 0
=============================================================================
