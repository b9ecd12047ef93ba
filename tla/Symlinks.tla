------------------------------ MODULE Symlinks ------------------------------
(***************************************************************************)
(* Symbolic links, added to the calls of Inode: sys_symlink(), sys_open()  *)
(* that follows links, and sys_revreadlink(), which scans the tree for     *)
(* links that lead somewhere, with the locks, references, files and log    *)
(* calls that each of them takes and does not always give back.            *)
(*                                                                         *)
(* A target is stored without a NUL and read into a buffer that is not     *)
(* cleared: the path that is walked may go on after the target.            *)
(*                                                                         *)
(* At a panic the kernel stops.  Bounds: CALLS system calls; names are of  *)
(* one length, so that what follows a target begins with a new name.       *)
(***************************************************************************)
EXTENDS Inode

CONSTANTS Target,     \* what a link may contain
          Junk,       \* what uninitialised memory may add to a path
          MAXDEPTH,   \* links that a call follows: 20 in the code
          NFILE,
          CALLS

ASSUME SymlinksAssumption ==
    /\ Target \subseteq Seq(Name) \ {<<>>} /\ Junk \subseteq Seq(Name)
    /\ MAXDEPTH \in Nat \ {0} /\ NFILE \in Nat /\ CALLS \in Nat

VARIABLES
    target,       \* the path in a link, without a NUL
    scan,         \* revreadlink: the local ip, an entry of the directory dp
    lost,         \* files with their descriptors that stay FD_NONE
    outstanding,  \* log.outstanding
    noend,        \* processes whose call returns without end_op()
    calls,        \* system calls made
    causes        \* history: what there has been that may leave something behind

linkVars == <<target, scan, lost, noend>>
allVars  == <<vars, linkVars, outstanding, calls, causes>>

Seqs == INSTANCE SequencesExt

LINK == "symlink"
Links == {i \in Inum : type[i] = LINK}

\* A tree with a directory /a, a file or link /b, a link /a/b and perhaps a
\* file /c: the links lead anywhere.
LinksInit ==
    \E b \in Target \cup {<<>>}, ab \in Target, c \in {0, 5} :
        /\ type = [i \in Inum |-> CASE i \in {ROOTINO, 2} -> "dir"
                                    [] i = 4 \/ (i = 3 /\ b # <<>>) -> LINK
                                    [] i \in {3, c} -> "file"
                                    [] OTHER -> Free]
        /\ nlink = [i \in Inum |-> CASE i = ROOTINO -> 2 [] i \in {2, 3, 4, c} -> 1
                                     [] OTHER -> 0]
        /\ entry = [i \in Inum |->
             CASE i = ROOTINO -> [n \in Name |-> CASE n = "a" -> 2 [] n = "b" -> 3
                                                   [] OTHER -> c]
               [] i = 2 -> [n \in Name |-> IF n = "b" THEN 4 ELSE 0]
               [] OTHER -> NoEntries]
        /\ up = [i \in Inum |-> IF i = 2 THEN ROOTINO ELSE 0]
        /\ target = [i \in Inum |-> CASE i = 3 -> b [] i = 4 -> ab [] OTHER -> <<>>]

\* Where a path leads, and the inodes from which fewer than MAXDEPTH links lead
\* to something that is not a link.
Lookup(path) ==
    Seqs!FoldLeft(LAMBDA i, n : IF i # 0 /\ type[i] = "dir" THEN entry[i][n] ELSE 0,
             ROOTINO, path)

Resolving ==
    LET within[k \in 0..MAXDEPTH - 1] ==
          IF k = 0 THEN {i \in Inum : type[i] \notin {Free, LINK}}
          ELSE within[k - 1] \cup {i \in Links : Lookup(target[i]) \in within[k - 1]}
    IN within[MAXDEPTH - 1]

\* The paths that are walked after a target is read into a buffer that holds the
\* path old: the target and the rest of a longer one, or what follows in memory.
Read(to, old) ==
    {to \o tail : tail \in IF Len(to) <= Len(old)
                            THEN {SubSeq(old, Len(to) + 1, Len(old))}
                            ELSE Junk}

\* What may leave something behind: revreadlink; a link that leads nowhere or
\* too far; a target that is walked with more than its own bytes; a name that is
\* removed under a walk; a symlink call that fails.
Causes ==
    (IF \E p \in Proc : call[p].op \in {"rev", "target"} THEN {"revreadlink"} ELSE {})
    \cup (IF Links \subseteq Resolving THEN {} ELSE {"bad link"})
    \cup (IF \E p \in Proc : call[p].op \in {"follow", "rev", "target"} /\ call[p].long
          THEN {"no NUL"} ELSE {})
    \cup (IF \E p \in Proc : call[p].op = "unlink" THEN {"unlink"} ELSE {})
    \cup (IF noend # {} THEN {"symlink"} ELSE {})

InitSymlinks ==
    /\ LinksInit
    /\ TableInit /\ ProcInit
    /\ scan = [p \in Proc |-> 0]
    /\ lost = 0 /\ outstanding = 0 /\ noend = {} /\ calls = 0 /\ causes = Causes

-----------------------------------------------------------------------------
\* Every call is between begin_op() and end_op().  Bound: a process that has
\* left an inode locked makes no further call.
BeginOp(p) ==
    /\ calls < CALLS
    /\ \A i \in Inum : lock[i] # p
    /\ noend' = noend \ {p}
    /\ calls' = calls + 1
    /\ outstanding' = outstanding + 1
    /\ UNCHANGED <<target, scan, lost>>

\* A call that returns has done its end_op().
EndOp(p) ==
    LET returns == pc[p] # "idle" /\ pc'[p] = "idle" IN
    /\ outstanding' = outstanding - (IF returns /\ p \notin noend THEN 1 ELSE 0)
    /\ calls' = calls

\* Steps of Inode: of iput() and namei(), of create(), and of unlink().
Iput(p) ==
    \/ (IputLast(p) \/ IputUnlock(p) \/ IputRef(p)) /\ UNCHANGED linkVars
    \/ /\ IputFree(p)
       /\ target' = [target EXCEPT ![Head(drop[p])] = <<>>]
       /\ UNCHANGED <<scan, lost, noend>>

Walk(p) ==
    /\ \/ WalkParent(p) \/ WalkNext(p)
       \/ call[p].op \in {"open", "unlink"} /\ WalkFail(p)
    /\ UNCHANGED linkVars

CreateInode(p) == (CreateFound(p) \/ CreateNew(p) \/ CreateLink(p)) /\ UNCHANGED linkVars

UnlinkName(p) ==
    /\ \/ UnlinkMiss(p) \/ UnlinkFound(p) \/ UnlinkFull(p) \/ UnlinkBad(p)
       \/ UnlinkEntry(p) \/ UnlinkInode(p)
    /\ UNCHANGED linkVars

\* A call of namei() from within a system call.
Namei(p, path) == Namex(p, path) /\ UNCHANGED <<diskVars, lock, dp, ip, drop, ret, file>>

-----------------------------------------------------------------------------
\* sys_symlink()

Symlink(p, to, path) == /\ InodesLeft
                        /\ Begin(p, [op |-> "create", type |-> LINK, to |-> to], path)

\* create() returns 0: no parent directory, or the name is taken.
SymlinkNoInode(p) ==
    /\ call[p].op = "create"
    /\ WalkFail(p) \/ CreateOld(p)
    /\ noend' = noend \cup {p}
    /\ UNCHANGED <<target, scan, lost>>

\* writei() of the target's bytes without the NUL.
SymlinkDone(p) ==
    /\ pc[p] = "made"
    /\ target' = [target EXCEPT ![ip[p]] = call[p].to]
    /\ lock' = [lock EXCEPT ![ip[p]] = NoProc]
    /\ Return(p, <<ip[p]>>)
    /\ UNCHANGED <<diskVars, ref, valid, file, scan, lost, noend>>

\* writei() falls short: the inode stays locked and referenced.
SymlinkShort(p) ==
    /\ pc[p] = "made"
    /\ noend' = noend \cup {p}
    /\ Return(p, <<>>)
    /\ UNCHANGED <<diskVars, tableVars, file, target, scan, lost>>

-----------------------------------------------------------------------------
\* sys_open()

FileLeft == Cardinality({p \in Proc : file[p] # 0 \/ call[p].op = "follow"}) + lost < NFILE

\* Open of Inode, with the buffer that holds the path.
OpenPath(p, path) == /\ file[p] = 0
                     /\ Begin(p, [op |-> "open", path |-> path], path)

\* A directory that is opened for writing, or no file or descriptor left.
OpenNoFile(p) ==
    /\ pc[p] = "open"
    /\ Unlocked(ip[p]) /\ Load(ip[p])
    /\ type[ip[p]] = "dir" \/ ~FileLeft
    /\ Return(p, <<ip[p]>>)
    /\ UNCHANGED <<diskVars, ref, lock, file, linkVars>>

\* The n-th link that is followed is read over the path that led to it.
Follow(p, n) ==
    LET to == target[ip[p]] IN
    /\ Unlocked(ip[p]) /\ Load(ip[p])
    /\ type[ip[p]] = LINK
    /\ \E path \in Read(to, call[p].path) :
         call' = Set(call, p, [op |-> "follow", dep |-> n,
                               path |-> path, long |-> path # to])
    /\ ip' = Set(ip, p, 0)
    /\ Put(p, <<ip[p]>>, "again")
    /\ UNCHANGED <<diskVars, ref, cur, rest, dp, file, linkVars>>

\* Mutant: the link is put and not unlocked.
OpenLinkLocked(p, n) == Follow(p, n) /\ lock' = [lock EXCEPT ![ip[p]] = p]

\* The link is unlocked and put.
OpenLink(p, n) == Follow(p, n) /\ UNCHANGED lock

OpenFollow(p) ==
    \/ pc[p] = "open" /\ FileLeft /\ OpenLink(p, 1)
    \/ pc[p] = "follow" /\ call[p].dep < MAXDEPTH /\ OpenLink(p, call[p].dep + 1)

OpenAgain(p) == pc[p] = "again" /\ Namei(p, call[p].path) /\ UNCHANGED <<call, linkVars>>

\* An inode that is no link, or a link with O_NOFOLLOW.
OpenIt(p) ==
    /\ \/ pc[p] = "open" /\ FileLeft
       \/ pc[p] = "follow" /\ call[p].dep < MAXDEPTH /\ type[ip[p]] # LINK
    /\ Unlocked(ip[p]) /\ Load(ip[p])
    /\ file' = Set(file, p, ip[p])
    /\ Return(p, <<>>)
    /\ UNCHANGED <<diskVars, ref, lock, linkVars>>

\* namei() finds nothing: the file and the descriptor stay.
OpenDangling(p) ==
    /\ call[p].op = "follow"
    /\ WalkFail(p)
    /\ lost' = lost + 1
    /\ UNCHANGED <<target, scan, noend>>

\* Mutant: iunlock() in place of iunlockput().
OpenTooDeepUnput(p) ==
    /\ pc[p] = "follow" /\ call[p].dep = MAXDEPTH
    /\ Unlocked(ip[p]) /\ Load(ip[p])
    /\ lost' = lost + 1
    /\ Return(p, <<>>)
    /\ UNCHANGED <<diskVars, ref, lock, file, target, scan, noend>>

\* The MAXDEPTH-th link is one too many, whatever it leads to.
OpenTooDeep(p) ==
    /\ pc[p] = "follow" /\ call[p].dep = MAXDEPTH
    /\ Unlocked(ip[p]) /\ Load(ip[p])
    /\ lost' = lost + 1
    /\ Return(p, <<ip[p]>>)
    /\ UNCHANGED <<diskVars, ref, lock, file, target, scan, noend>>

-----------------------------------------------------------------------------
\* sys_revreadlink()

Revreadlink(p) ==
    /\ pc[p] = "idle"
    /\ call' = Set(call, p, [op |-> "rev", queue |-> << <<>> >>,
                             names |-> {}, name |-> "", dep |-> 0,
                             path |-> <<>>, long |-> FALSE])
    /\ pc' = Set(pc, p, "next")
    /\ UNCHANGED <<diskVars, tableVars, cur, rest, dp, ip, drop, ret, file>>

\* The next directory of the queue, the root at first.
RevNext(p) ==
    LET queue == call[p].queue IN
    /\ pc[p] = "next"
    /\ queue # <<>>
    /\ call' = Set(call, p, [call[p] EXCEPT !.op = "rev"])
    /\ IF Head(queue) = <<>>
         THEN /\ Iget(ROOTINO)
              /\ ip' = Set(ip, p, ROOTINO)
              /\ pc' = Set(pc, p, "rev")
              /\ UNCHANGED <<diskVars, lock, cur, rest, dp, drop, ret, file>>
         ELSE Namei(p, Head(queue))
    /\ UNCHANGED linkVars

\* It is not there any more: ilock(0) panics, or "rev not DIR".
RevPanic(p) ==
    /\ call[p].op = "rev"
    /\ \/ pc[p] = "walk" /\ Unlocked(cur[p]) /\ Missing(p)
       \/ pc[p] = "rev" /\ Unlocked(ip[p]) /\ type[ip[p]] # "dir"
    /\ pc' = Set(pc, p, "panic")
    /\ UNCHANGED <<diskVars, tableVars, call, cur, rest, dp, ip, drop, ret, file, linkVars>>

RevDone(p) ==
    /\ pc[p] = "next"
    /\ call[p].queue = <<>>
    /\ Return(p, <<>>)
    /\ UNCHANGED <<diskVars, tableVars, file, linkVars>>

RevDir(p) ==
    /\ pc[p] = "rev"
    /\ type[ip[p]] = "dir"
    /\ Ilock(ip[p], p) /\ Load(ip[p])
    /\ dp' = Set(dp, p, ip[p]) /\ ip' = Set(ip, p, 0)
    /\ call' = Set(call, p, [call[p] EXCEPT !.op = "target",
                               !.names = {n \in Name : entry[ip[p]][n] # 0}])
    /\ pc' = Set(pc, p, "scan")
    /\ UNCHANGED <<diskVars, ref, cur, rest, drop, ret, file, linkVars>>

\* The next entry: iget().
RevEntry(p) ==
    /\ pc[p] = "scan"
    /\ \E n \in call[p].names :
         LET i == entry[dp[p]][n] IN
         /\ Iget(i)
         /\ scan' = Set(scan, p, i)
         /\ call' = Set(call, p, [call[p] EXCEPT !.names = @ \ {n},
                                                 !.name = n])
    /\ pc' = Set(pc, p, "entry")
    /\ UNCHANGED <<diskVars, lock, cur, rest, dp, ip, drop, ret, file,
                   target, lost, noend>>

\* Lock it and, if it is no link, go on, without an iput(): a directory is queued.
RevSkip(p) ==
    /\ pc[p] = "entry"
    /\ Unlocked(scan[p]) /\ Load(scan[p])
    /\ type[scan[p]] # LINK
    /\ call' = IF type[scan[p]] = "dir"
                 THEN Set(call, p, [call[p] EXCEPT
                                     !.queue = Append(@, Append(Head(@), call[p].name))])
                 ELSE call
    /\ scan' = Set(scan, p, 0)
    /\ pc' = Set(pc, p, "scan")
    /\ UNCHANGED <<diskVars, ref, lock, cur, rest, dp, ip, drop, ret, file,
                   target, lost, noend>>

\* A link is read into a buffer that nobody has set, and namei() of that path
\* called, with the directory and the link locked.
RevLink(p) ==
    /\ pc[p] = "entry"
    /\ type[scan[p]] = LINK
    /\ Ilock(scan[p], p)
    /\ \E path \in Read(target[scan[p]], <<>>) :
         /\ Namex(p, path)
         /\ call' = Set(call, p, [call[p] EXCEPT !.dep = 1, !.path = path,
                                                 !.long = path # target[scan[p]]])
    /\ UNCHANGED <<diskVars, dp, ip, drop, ret, file, linkVars>>

\* What namei() found: put it, and if it is a link read it over the path, to
\* follow it; else go on.
RevTarget(p) ==
    LET i == ip[p] IN
    /\ pc[p] = "target"
    /\ Unlocked(i) /\ Load(i)
    /\ ip' = Set(ip, p, 0)
    /\ \/ /\ type[i] = LINK
          /\ \E path \in Read(target[i], call[p].path) :
               call' = Set(call, p, [call[p] EXCEPT !.path = path,
                                                    !.long = path # target[i]])
          /\ Put(p, <<i>>, "linked")
       \/ type[i] # LINK /\ Put(p, <<i>>, "unlock") /\ UNCHANGED call
    /\ UNCHANGED <<diskVars, ref, lock, cur, rest, dp, file, linkVars>>

RevAgain(p) ==
    /\ pc[p] = "linked" /\ call[p].dep < MAXDEPTH
    /\ call' = Set(call, p, [call[p] EXCEPT !.dep = @ + 1])
    /\ Namei(p, call[p].path)
    /\ UNCHANGED linkVars

\* The link that was scanned is unlocked, after as many links as there may be.
RevUnlock(p) ==
    /\ \/ pc[p] = "unlock"
       \/ pc[p] = "linked" /\ call[p].dep = MAXDEPTH
    /\ lock' = [lock EXCEPT ![scan[p]] = NoProc]
    /\ call' = Set(call, p, [call[p] EXCEPT !.path = <<>>, !.long = FALSE])
    /\ scan' = Set(scan, p, 0)
    /\ pc' = Set(pc, p, "scan")
    /\ UNCHANGED <<diskVars, ref, valid, cur, rest, dp, ip, drop, ret, file,
                   target, lost, noend>>

\* namei() finds nothing: -1, with both inodes locked.
RevDangling(p) ==
    /\ call[p].op = "target"
    /\ WalkFail(p)
    /\ scan' = Set(scan, p, 0)
    /\ UNCHANGED <<target, lost, noend>>

\* The directory is done.
RevPut(p) ==
    /\ pc[p] = "scan"
    /\ call[p].names = {}
    /\ lock' = [lock EXCEPT ![dp[p]] = NoProc]
    /\ call' = Set(call, p, [call[p] EXCEPT !.queue = Tail(@)])
    /\ dp' = Set(dp, p, 0)
    /\ Put(p, <<dp[p]>>, "next")
    /\ UNCHANGED <<diskVars, ref, valid, cur, rest, ip, file, linkVars>>

-----------------------------------------------------------------------------
Syscalls(p) ==
    /\ BeginOp(p)
    /\ \/ Close(p) \/ Revreadlink(p)
       \/ \E path \in Path : \/ OpenPath(p, path) \/ Unlink(p, path)
                             \/ \E to \in Target : Symlink(p, to, path)

InSyscall(p) ==
    /\ \/ Iput(p) \/ Walk(p) \/ CreateInode(p) \/ UnlinkName(p)
       \/ SymlinkNoInode(p) \/ SymlinkDone(p) \/ SymlinkShort(p)
       \/ OpenNoFile(p) \/ OpenFollow(p) \/ OpenAgain(p) \/ OpenIt(p)
       \/ OpenDangling(p) \/ OpenTooDeep(p)
       \/ RevNext(p) \/ RevPanic(p) \/ RevDone(p) \/ RevDir(p) \/ RevEntry(p) \/ RevSkip(p)
       \/ RevLink(p) \/ RevTarget(p) \/ RevAgain(p) \/ RevUnlock(p)
       \/ RevDangling(p) \/ RevPut(p)
    /\ EndOp(p)

Panicked == \E p \in Proc : pc[p] = "panic"

NextSymlinks ==
    /\ ~Panicked
    /\ \E p \in Proc : Syscalls(p) \/ InSyscall(p)
    /\ causes' = causes \cup Causes'

SpecSymlinks == InitSymlinks /\ [][NextSymlinks]_allVars

-----------------------------------------------------------------------------
(***************************************************************************)
(* Properties                                                              *)
(***************************************************************************)

\* What a call takes it gives back, whatever its path through the code, with
\* these exceptions.  References to inodes are left by sys_revreadlink(), which
\* puts no entry that it has scanned, and by a sys_symlink() that fails; locks by
\* the latter, and by a sys_revreadlink() that meets a link to nothing; a file
\* and its descriptor by sys_open(), when a link leads nowhere or too far, or a
\* name is removed during the walk.  In both a link to something may lead nowhere
\* too, when its target is walked with the bytes that follow it in the buffer.
\* log.outstanding, "how many FS sys calls are executing" (log.c:44), stays too
\* high after a sys_symlink() that fails; and the kernel panics only when a
\* directory goes that sys_revreadlink() has queued.
OnlyTheseAreLeft ==
    /\ \A i \in Inum :
         ref[i] # Pointers(i) + Cardinality({p \in Proc : scan[p] = i})
             => causes \cap {"revreadlink", "symlink"} # {}
    /\ \A p \in Proc, i \in Inum :
         pc[p] = "idle" /\ lock[i] = p
             => \/ "symlink" \in causes
                \/ "revreadlink" \in causes /\ causes \cap {"bad link", "no NUL"} # {}
    /\ lost > 0 => causes \cap {"bad link", "no NUL", "unlink"} # {}
    /\ outstanding # Cardinality({p \in Proc : pc[p] # "idle"}) => "symlink" \in causes
    /\ Panicked => "unlink" \in causes

\* The inode whose lock a process asks for next, 0 for none.
Wants(p) ==
    CASE pc[p] = "walk" -> cur[p]
      [] pc[p] \in {"create", "unlink"} -> dp[p]
      [] pc[p] \in {"exists", "new", "unlink2", "open", "follow", "rev", "target"} -> ip[p]
      [] pc[p] = "entry" -> scan[p]
      [] pc[p] = "iput" /\ Last(Head(drop[p])) -> Head(drop[p])
      [] OTHER -> 0

\* Locks are taken from a directory to its entries, so that the calls never wait
\* for each other in a circle, nor one for itself: except that sys_revreadlink()
\* keeps a directory and a link locked on its walk of the link's target.
OnlyRevreadlinkDeadlocks ==
    \A ps \in SUBSET Proc \ {{}} :
        (\A p \in ps : Wants(p) # 0 /\ lock[Wants(p)] \in ps)
            => \E p \in ps : call[p].op = "target" /\ scan[p] # 0
=============================================================================
