------------------------------ MODULE MCBlocks ------------------------------
(***************************************************************************)
(* The two parts that give out the blocks of the disk, the paging of MP2   *)
(* and the large files of MP4, with small instances for TLC: see README.md *)
(* for the bounds.  They share nothing: a behaviour is of one of the two,  *)
(* and the other stays as it begins, in one of its initial states.         *)
(***************************************************************************)
EXTENDS MCBmap, Paging

VARIABLE kernel  \* the one that runs

BlocksInit ==
    /\ PagingInit /\ Init
    /\ \/ kernel = "MP2" /\ \A f \in File : size[f] = 0
       \/ kernel = "MP4" /\ policy = "fifo"

BlocksNext ==
    \/ kernel = "MP2" /\ PagingNext /\ UNCHANGED <<vars, kernel>>
    \/ kernel = "MP4" /\ Next /\ UNCHANGED <<pagingVars, kernel>>

BlocksSpec == BlocksInit /\ [][BlocksNext]_<<vars, pagingVars, kernel>>

Symmetry == Permutations(Proc)
=============================================================================
