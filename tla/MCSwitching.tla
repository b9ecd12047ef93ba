---------------------------- MODULE MCSwitching ----------------------------
(***************************************************************************)
(* The two libraries that switch user-level threads, MP1's cooperative one *)
(* and MP3's preemptive one, with small instances for TLC: see README.md   *)
(* for the bounds.  They share nothing: a behaviour is of one of the two,  *)
(* and the other stays as it begins.                                       *)
(***************************************************************************)
EXTENDS Thrdstop, Threads1

VARIABLE library  \* the one that runs

SwitchingInit == ThrdstopInit /\ Init /\ library \in {"MP1", "MP3"}

SwitchingNext ==
    \/ library = "MP1" /\ Next /\ UNCHANGED <<ThrdstopVars, library>>
    \/ library = "MP3" /\ ThrdstopNext /\ UNCHANGED <<vars, library>>

\* With the fairness of Threads1!FairSpec.
SwitchingSpec ==
    /\ SwitchingInit /\ [][SwitchingNext]_<<vars, ThrdstopVars, library>>
    /\ WF_vars(ThreadYield \/ ThreadExit)
=============================================================================
