--------------------------- MODULE SwitchingProof ---------------------------
(***************************************************************************)
(* Proofs about the switching of user-level threads.                       *)
(*                                                                         *)
(* MP3 (Thrdstop.tla), for every number of threads, context slots, steps   *)
(* and ticks: ThrdstopInv is an invariant, and every thread is resumed     *)
(* where it was stopped.                                                   *)
(*                                                                         *)
(* MP1 (Threads1.tla), for every finite number of threads and tasks: the   *)
(* lists always hold a ring of threads and a stack of tasks for each, so   *)
(* that ListsWhole holds and the threads take turns (RoundRobin.tla).      *)
(***************************************************************************)
EXTENDS Thrdstop, Threads1, TLAPS, WellFoundedInduction, SequenceTheorems, FiniteSetTheorems

-----------------------------------------------------------------------------
(***************************************************************************)
(* MP3: the inductive invariant                                            *)
(***************************************************************************)

Place == {"loop", "cancel", "sleep", "sleeping", "back", "tomain", "dispatch", "stop",
          "stopnew", "resume", "start", "f", "exit", "exited", "switch", "end"}

Context == [who : {Main} \cup Thrd, at : Place, k : Nat]

TypeOK ==
    /\ user \in Context
    /\ context \in [Slot -> Context] /\ used \subseteq Slot
    /\ delay \in {-1} \cup (Nat \ {0}) /\ ticks \in Nat
    /\ jump_flag \in BOOLEAN /\ cancel_save_flag = -1
    /\ context_id \in Slot /\ handler \in {"back", "switch"}
    /\ current \in {0} \cup Thrd /\ sleeping \in BOOLEAN
    /\ queue \in [Thrd -> {"run", "release", "gone"}]
    /\ slot \in [Thrd -> {-1} \cup Slot] /\ done \in [Thrd -> Nat]
    /\ hit \in BOOLEAN

\* Who is where, and with which thread scheduled.
Places ==
    /\ current # 0 => queue[current] = "run"
    /\ user.who = Main => user.k = 0
    /\ user.at \in {"loop", "cancel", "sleep", "sleeping", "back"} => user.who = Main
    /\ user.at \in {"loop", "sleep", "sleeping", "back", "tomain"} => current = 0
    /\ user.at \in {"stop", "stopnew", "resume", "start"} => current # 0
    /\ user.at \in {"f", "exit", "exited", "switch"} => user.who = current /\ current # 0
    /\ user.at \in {"stop", "resume", "start", "f", "exit", "exited", "switch"} =>
         slot[current] # -1
    /\ user.at = "stopnew" => slot[current] = -1
    /\ user.at = "tomain" => user.who # Main

\* The timer is set, or its expiry is still to be served.
Armed == delay # -1 \/ jump_flag

\* Only a thread, from the dispatcher's thrdstop() on, and main asleep have a timer.
Timer ==
    /\ jump_flag => delay = -1 /\ user.at \in {"f", "exit"}
    /\ Armed => \/ user.at \in {"resume", "start", "f", "exit"}
                   /\ handler = "switch" /\ context_id = slot[current]
                \/ user.at = "sleeping" /\ sleeping /\ handler = "back" /\ context_id = MainSlot

\* No two threads share a slot, and none has main's.
Slots ==
    /\ MainSlot \in used
    /\ \A t \in Started :
          /\ slot[t] # MainSlot
          /\ slot[t] \in used \/ (user.at = "exited" /\ t = current)
          /\ \A s \in Started \ {t} : slot[s] # slot[t]

\* Where main goes on.
MainContext ==
    /\ user.at = "back" => context[MainSlot] = At(Main, "sleeping", 0)
    /\ user.at \notin {"back", "loop", "cancel", "sleeping"} =>
         context[MainSlot] = At(Main, "dispatch", 0)

\* Where a thread that has made n steps goes on.
PlaceAfter(n) == IF n = STEPS THEN "exit" ELSE "f"

\* A thread has made no step before it is given a slot; where it runs, or else
\* what its slot holds, agrees with its steps.
ContextOK(t) ==
    /\ slot[t] = -1 => done[t] = 0
    /\ current = t /\ user.at = "start" => done[t] = 0
    /\ user.who = t /\ user.at \in {"f", "exit"} => user = At(t, PlaceAfter(done[t]), done[t])
    /\ t \in Started /\ ~Running(t) => context[slot[t]] = At(t, PlaceAfter(done[t]), done[t])

Contexts == \A t \in Thrd : ContextOK(t)

ThrdstopInv ==
    /\ TypeOK
    /\ hit => user.at = "switch"
    /\ ~hit => Places /\ Timer /\ Slots /\ MainContext /\ Contexts

-----------------------------------------------------------------------------
(***************************************************************************)
(* The kernel: what a system call or a tick does, whenever the timer goes off*)
(***************************************************************************)

Delay == {-1} \cup (Nat \ {0})

\* The types of what the kernel changes.
Kernel ==
    /\ user \in Context /\ context \in [Slot -> Context] /\ used \subseteq Slot
    /\ delay \in Delay /\ ticks \in Nat
    /\ jump_flag \in BOOLEAN /\ cancel_save_flag = -1
    /\ context_id \in Slot /\ handler \in {"back", "switch"}

\* The process goes on in the handler, and what it did is saved.
Jumps(u, id, h) ==
    /\ user' = At(u.who, h, u.k)
    /\ context' = [context EXCEPT ![id] = u]
    /\ delay' = -1 /\ jump_flag' = FALSE

\* The process goes on in u, with nothing saved.
GoesOn(u) == user' = u /\ context' = context

\* Only the place changes.
LEMMA GoIsAt ==
    ASSUME user \in Context, NEW at
    PROVE  Go(at) = At(user.who, at, user.k)
  BY DEF Go, At, Context

\* A context of the process is one, wherever it is put.
LEMMA GoType ==
    ASSUME user \in Context, NEW at \in Place
    PROVE  /\ Go(at) \in Context /\ Go(at).at = at /\ Go(at).who = user.who /\ Go(at).k = user.k
           /\ \A b \in Place : At(Go(b).who, at, Go(b).k) = Go(at)
           /\ \A u \in Context : At(u.who, at, u.k) \in Context /\ At(u.who, at, u.k).at = at
  BY DEF Go, At, Context

\* What a step keeps typed.
LEMMA KernelKept ==
    ASSUME Kernel, user' \in Context, used' \subseteq Slot, delay' \in Delay, ticks' \in Nat,
           jump_flag' \in BOOLEAN, cancel_save_flag' = -1, context_id' \in Slot,
           handler' \in {"back", "switch"},
           \/ context' = context
           \/ \E id \in Slot, u \in Context : context' = [context EXCEPT ![id] = u]
    PROVE  Kernel'
  BY DEF Kernel

\* The numbers that a system call leaves, whatever the timer does.
LEMMA SyscallCounts ==
    ASSUME NEW in \in Interrupted, NEW u, NEW d \in Delay, NEW n \in Nat, NEW resume, NEW cancel,
           NEW id \in Slot, NEW h \in {"back", "switch"}, 
           Syscall(in, u, d, n, resume, cancel, id, h)
    PROVE  /\ delay' \in Delay /\ ticks' \in Nat /\ context_id' = id /\ handler' = h
           /\ delay' = d \/ delay' = -1
           /\ Expired(in, d, n) => delay' = d \/ delay' = -1
           /\ Expired(in, d, n) /\ in # "before" => delay' = -1
  BY SMT DEF Syscall, Counted, Delay

\* One that neither resumes nor saves a context: the handler is called or not.
LEMMA SyscallStops ==
    ASSUME NEW in, NEW u, NEW d, NEW n, NEW id, NEW h,
           Syscall(in, u, d, n, -1, -1, id, h)
    PROVE  /\ cancel_save_flag' = -1 /\ jump_flag' = FALSE
           /\ \/ ~jump_flag /\ ~Expired(in, d, n) /\ delay' = d /\ GoesOn(u)
              \/ /\ jump_flag \/ Expired(in, d, n)
                 /\ user' = At(u.who, h, u.k) /\ context' = [context EXCEPT ![id] = u]
  <1>1. UserTrapRet(u, -1, -1, jump_flag \/ Expired(in, d, n), id, h)
    BY DEF Syscall
  <1>2. CASE jump_flag \/ Expired(in, d, n)
    BY <1>1, <1>2 DEF UserTrapRet
  <1>3. CASE ~(jump_flag \/ Expired(in, d, n))
    <2>1. delay' = d
      BY <1>3, Zenon DEF Syscall
    <2> QED
      BY <1>1, <1>3, <2>1 DEF UserTrapRet, GoesOn
  <1> QED
    BY <1>2, <1>3

\* thrdresume().
LEMMA SyscallResumes ==
    ASSUME NEW in, NEW u, NEW d, NEW n, NEW s \in Slot, NEW cancel, NEW id, NEW h,
           jump_flag \in BOOLEAN,
           Syscall(in, u, d, n, s, cancel, id, h)
    PROVE  /\ GoesOn(context[s]) /\ cancel_save_flag' = cancel
           /\ (jump_flag' <=> jump_flag \/ Expired(in, d, n)) /\ jump_flag' \in BOOLEAN
  <1>1. UserTrapRet(u, s, cancel, jump_flag \/ Expired(in, d, n), id, h)
    BY DEF Syscall
  <1>2. s # -1
    BY ThrdstopAssumption DEF Slot
  <1> QED
    BY <1>1, <1>2, Zenon DEF UserTrapRet, GoesOn

\* cancelthrdstop() that saves the context, without a timer.
LEMMA SyscallSaves ==
    ASSUME NEW in, NEW u, NEW d, NEW n, NEW s \in Slot, NEW id, NEW h,
           ~jump_flag, ~Expired(in, d, n), Syscall(in, u, d, n, -1, s, id, h)
    PROVE  /\ user' = u /\ context' = [context EXCEPT ![s] = u] /\ cancel_save_flag' = -1
           /\ ~jump_flag'
  <1>1. UserTrapRet(u, -1, s, jump_flag \/ Expired(in, d, n), id, h)
    BY DEF Syscall
  <1>2. s # -1
    BY ThrdstopAssumption DEF Slot
  <1> QED
    BY <1>1, <1>2 DEF UserTrapRet

\* What the invariant says of the places where system calls are made.
LEMMA Before ==
    ASSUME ThrdstopInv, ~hit
    PROVE  /\ Kernel /\ hit \in BOOLEAN /\ jump_flag \in BOOLEAN /\ current \in {0} \cup Thrd
           /\ jump_flag => delay = -1 /\ user.at \in {"f", "exit"}
           /\ user.at \in {"cancel", "sleep", "back", "tomain", "stop", "stopnew"} =>
                delay = -1 /\ ~jump_flag
           /\ user.at \in {"stop", "resume", "exit"} => slot[current] \in Slot
           /\ user.at = "exit" /\ Armed => handler = "switch"
           /\ user.at = "sleep" => user = At(Main, "sleep", 0)
  <1> USE DEF ThrdstopInv, TypeOK, Delay
  <1>1. Kernel /\ hit \in BOOLEAN /\ jump_flag \in BOOLEAN /\ current \in {0} \cup Thrd
    BY DEF Kernel
  <1>2. jump_flag => delay = -1 /\ user.at \in {"f", "exit"}
    BY DEF Timer
  <1>3. user.at \in {"cancel", "sleep", "back", "tomain", "stop", "stopnew"} =>
          delay = -1 /\ ~jump_flag
    BY DEF Timer, Armed
  <1>4. user.at \in {"stop", "resume", "exit"} => slot[current] \in Slot
    BY DEF Places
  <1>5. user.at = "exit" /\ Armed => handler = "switch"
    BY DEF Timer
  <1>6. user.at = "sleep" => user = At(Main, "sleep", 0)
    BY DEF Places, At, Context
  <1> QED
    BY <1>1, <1>2, <1>3, <1>4, <1>5, <1>6

\* A set of naturals has a least element.
LEMMA LeastElement ==
    ASSUME NEW S \in SUBSET Nat, S # {}
    PROVE  Min(S) \in S /\ \A y \in S : Min(S) <= y
  <1> DEFINE R == OpToRel(<, Nat)
  <1>1. IsWellFoundedOn(R, Nat)
    BY NatLessThanWellFounded, Zenon
  <1> HIDE DEF R
  <1>2. \E x \in S : \A y \in S : ~ (<<y, x>> \in R)
    BY <1>1, WFMin
  <1>3. PICK x \in S : \A y \in S : ~ (<<y, x>> \in R)
    BY <1>2
  <1>4. \A y \in S : x <= y
    <2> TAKE y \in S
    <2>1. x \in Nat /\ y \in Nat
      OBVIOUS
    <2>2. y < x => <<y, x>> \in R
      BY <2>1 DEF R, OpToRel
    <2> QED
      BY <1>3, <2>1, <2>2
  <1> QED
    BY <1>3, <1>4 DEF Min

\* thrdstop() finds a free slot when there is one.
LEMMA MinIn ==
    ASSUME NEW S \in SUBSET Slot, S # {}
    PROVE  Min(S) \in S
  BY LeastElement, ThrdstopAssumption DEF Slot

\* A tick calls the handler or changes nothing else.
LEMMA TickEffect ==
    ASSUME ThrdstopInv, ~hit, Tick
    PROVE  /\ Kernel' /\ hit' \in BOOLEAN
           /\ UNCHANGED <<used, context_id, handler, libVars>>
           /\ \/ GoesOn(user) /\ ~hit' /\ UNCHANGED <<delay, jump_flag>>
              \/ /\ Armed /\ Jumps(user, context_id, handler)
                 /\ hit' <=> user.at \in {"resume", "start"}
  <1>0. /\ Kernel /\ hit \in BOOLEAN /\ jump_flag \in BOOLEAN /\ current \in {0} \cup Thrd
        /\ jump_flag => delay = -1 /\ user.at \in {"f", "exit"}
        /\ user.at \in {"cancel", "sleep", "back", "tomain", "stop", "stopnew"} =>
             delay = -1 /\ ~jump_flag
        /\ user.at \in {"stop", "resume", "exit"} => slot[current] \in Slot
        /\ user.at = "exit" /\ Armed => handler = "switch"
        /\ user.at = "sleep" => user = At(Main, "sleep", 0)
    BY Before
  <1> DEFINE fired == Expires(delay, ticks)
  <1>1. /\ UserTrapRet(user, -1, -1, jump_flag \/ fired, context_id, handler)
        /\ delay' = IF fired THEN -1 ELSE delay
        /\ ticks' = Counted(delay, ticks)
        /\ hit' <=> (fired /\ user.at \in {"resume", "start"})
        /\ hit' \in BOOLEAN
        /\ UNCHANGED <<used, context_id, handler, libVars>>
    <2>1. cancel_save_flag = -1
      BY <1>0 DEF Kernel
    <2> QED
      BY <2>1 DEF Tick
  <1>2. fired => delay # -1
    BY DEF Expires
  <1>3. ticks' \in Nat
    BY <1>0, <1>1 DEF Counted, Kernel
  <1> HIDE DEF fired
  <1>4. delay' \in Delay /\ (jump_flag \/ fired => delay' = -1 /\ Armed)
    BY <1>0, <1>1, <1>2 DEF Kernel, Delay, Armed
  <1>5. CASE jump_flag \/ fired
    <2>1. Jumps(user, context_id, handler) /\ cancel_save_flag' = -1
      BY <1>1, <1>4, <1>5 DEF UserTrapRet, Jumps
    <2>2. Armed /\ (hit' <=> user.at \in {"resume", "start"})
      BY <1>0, <1>1, <1>4, <1>5
    <2>3. Kernel'
      <3>1. /\ user \in Context /\ context_id \in Slot
            /\ handler \in {"back", "switch"} /\ used \subseteq Slot
        BY <1>0 DEF Kernel
      <3>2. user' \in Context
        BY <2>1, <3>1, GoType DEF Jumps, Place
      <3>3. \E id \in Slot, u \in Context : context' = [context EXCEPT ![id] = u]
        BY <2>1, <3>1 DEF Jumps
      <3> QED
        BY <1>0, <1>1, <1>3, <1>4, <2>1, <3>1, <3>2, <3>3, KernelKept DEF Jumps
    <2> QED
      BY <1>1, <2>1, <2>2, <2>3
  <1>6. CASE ~(jump_flag \/ fired)
    <2>1. GoesOn(user) /\ cancel_save_flag' = -1 /\ UNCHANGED <<delay, jump_flag>>
      BY <1>0, <1>1, <1>6 DEF UserTrapRet, GoesOn, Kernel
    <2>2. Kernel'
      BY <1>0, <1>1, <1>3, <2>1 DEF Kernel, GoesOn
    <2> QED
      BY <1>1, <1>6, <2>1, <2>2
  <1> QED
    BY <1>5, <1>6

\* Main's context is saved, and no timer is set.
LEMMA MainCancelEffect ==
    ASSUME ThrdstopInv, ~hit, MainCancel
    PROVE  /\ Kernel' /\ hit' \in BOOLEAN
           /\ UNCHANGED <<used, context_id, handler, libVars, hit>>
           /\ user.at = "cancel" /\ user' = Go("dispatch") /\ delay' = -1 /\ ~jump_flag'
           /\ context' = [context EXCEPT ![MainSlot] = Go("dispatch")]
  <1>0. /\ Kernel /\ hit \in BOOLEAN /\ jump_flag \in BOOLEAN /\ current \in {0} \cup Thrd
        /\ jump_flag => delay = -1 /\ user.at \in {"f", "exit"}
        /\ user.at \in {"cancel", "sleep", "back", "tomain", "stop", "stopnew"} =>
             delay = -1 /\ ~jump_flag
        /\ user.at \in {"stop", "resume", "exit"} => slot[current] \in Slot
        /\ user.at = "exit" /\ Armed => handler = "switch"
        /\ user.at = "sleep" => user = At(Main, "sleep", 0)
    BY Before
  <1>1. PICK in \in Interrupted : CancelThrdstop(in, Go("dispatch"), MainSlot, FALSE)
    BY DEF MainCancel
  <1>2. user.at = "cancel" /\ UNCHANGED <<libVars, hit>>
    BY DEF MainCancel
  <1>3. Syscall(in, Go("dispatch"), -1, ticks, -1, MainSlot, context_id, handler) /\ used' = used
    BY <1>1 DEF CancelThrdstop
  <1>4. ~jump_flag /\ ~Expired(in, -1, ticks) /\ MainSlot \in Slot
    BY <1>0, <1>2, ThrdstopAssumption DEF Expired, Expires, MainSlot, Slot
  <1>5. /\ user' = Go("dispatch") /\ context' = [context EXCEPT ![MainSlot] = Go("dispatch")]
        /\ cancel_save_flag' = -1 /\ jump_flag' = FALSE
    BY <1>3, <1>4, SyscallSaves
  <1>6. delay' = -1 /\ ticks' \in Nat /\ context_id' = context_id /\ handler' = handler
    BY <1>0, <1>3, SyscallCounts DEF Kernel, Delay
  <1>7. Kernel'
    <2>1. user' \in Context /\ delay' \in Delay
      BY <1>0, <1>5, <1>6, GoType DEF Kernel, Place, Delay
    <2>2. \E id \in Slot, u \in Context : context' = [context EXCEPT ![id] = u]
      BY <1>4, <1>5, <2>1
    <2> QED
      BY <1>0, <1>3, <1>5, <1>6, <2>1, <2>2 DEF Kernel
  <1> QED
    BY <1>0, <1>2, <1>3, <1>5, <1>6, <1>7

\* Main sleeps, or the timer is over before it does.
LEMMA MainSleepEffect ==
    ASSUME ThrdstopInv, ~hit, MainSleep
    PROVE  /\ Kernel' /\ hit' \in BOOLEAN
           /\ UNCHANGED <<used, current, queue, slot, done, hit>>
           /\ user.at = "sleep" /\ sleeping' = TRUE
           /\ context_id' = MainSlot /\ handler' = "back"
           /\ \/ GoesOn(Go("sleeping")) /\ ~jump_flag'
              \/ Jumps(Go("sleeping"), MainSlot, "back")
  <1>0. /\ Kernel /\ hit \in BOOLEAN /\ jump_flag \in BOOLEAN /\ current \in {0} \cup Thrd
        /\ jump_flag => delay = -1 /\ user.at \in {"f", "exit"}
        /\ user.at \in {"cancel", "sleep", "back", "tomain", "stop", "stopnew"} =>
             delay = -1 /\ ~jump_flag
        /\ user.at \in {"stop", "resume", "exit"} => slot[current] \in Slot
        /\ user.at = "exit" /\ Armed => handler = "switch"
        /\ user.at = "sleep" => user = At(Main, "sleep", 0)
    BY Before
  <1>1. PICK in \in Interrupted, d \in 1..DELAY :
          Syscall(in, Go("sleeping"), d, 0, -1, -1, MainSlot, "back")
    BY <1>0 DEF MainSleep, Thrdstop, Kernel
  <1>2. /\ user.at = "sleep" /\ sleeping' = TRUE
        /\ UNCHANGED <<used, current, queue, slot, done, hit>>
    BY DEF MainSleep
  <1>3. /\ ~jump_flag /\ delay = -1 /\ MainSlot \in Slot /\ user = At(Main, "sleep", 0)
        /\ d \in Delay
    BY <1>0, <1>2, ThrdstopAssumption DEF MainSlot, Slot, Delay
  <1>4. in = "before" => ~Expired(in, d, 0)
    BY <1>3 DEF Expired, Expires
  <1>5. /\ delay' \in Delay /\ ticks' \in Nat /\ context_id' = MainSlot /\ handler' = "back"
        /\ Expired(in, d, 0) => delay' = -1
    BY <1>1, <1>3, <1>4, SyscallCounts
  <1>6. /\ cancel_save_flag' = -1 /\ jump_flag' = FALSE
        /\ \/ GoesOn(Go("sleeping"))
           \/ Jumps(Go("sleeping"), MainSlot, "back")
    <2>1. /\ cancel_save_flag' = -1 /\ jump_flag' = FALSE
          /\ \/ ~jump_flag /\ ~Expired(in, d, 0) /\ delay' = d /\ GoesOn(Go("sleeping"))
             \/ /\ jump_flag \/ Expired(in, d, 0)
                /\ user' = At(Go("sleeping").who, "back", Go("sleeping").k)
                /\ context' = [context EXCEPT ![MainSlot] = Go("sleeping")]
      BY <1>1, SyscallStops
    <2> QED
      BY <1>3, <1>5, <2>1 DEF Jumps
  <1>7. Kernel'
    <2>1. Go("sleeping") \in Context /\ Go("back") \in Context
          /\ At(Go("sleeping").who, "back", Go("sleeping").k) = Go("back")
      BY <1>0, GoType DEF Kernel, Place
    <2>2. user' \in Context
      BY <1>6, <2>1 DEF GoesOn, Jumps
    <2>3. \/ context' = context
         \/ \E id \in Slot, u \in Context : context' = [context EXCEPT ![id] = u]
      BY <1>3, <1>6, <2>1 DEF GoesOn, Jumps
    <2> QED
      BY <1>0, <1>2, <1>3, <1>5, <1>6, <2>2, <2>3, KernelKept DEF Kernel
  <1> QED
    BY <1>0, <1>2, <1>5, <1>6, <1>7

\* Main goes on where its context says.
LEMMA BackToMainEffect ==
    ASSUME ThrdstopInv, ~hit, BackToMain
    PROVE  /\ Kernel' /\ hit' \in BOOLEAN
           /\ UNCHANGED <<used, context_id, handler, current, queue, slot, done, hit>>
           /\ user.at \in {"back", "tomain"}
           /\ sleeping' = (sleeping /\ user.at # "back")
           /\ GoesOn(context[MainSlot]) /\ delay' = -1 /\ ~jump_flag'
  <1>0. /\ Kernel /\ hit \in BOOLEAN /\ jump_flag \in BOOLEAN /\ current \in {0} \cup Thrd
        /\ jump_flag => delay = -1 /\ user.at \in {"f", "exit"}
        /\ user.at \in {"cancel", "sleep", "back", "tomain", "stop", "stopnew"} =>
             delay = -1 /\ ~jump_flag
        /\ user.at \in {"stop", "resume", "exit"} => slot[current] \in Slot
        /\ user.at = "exit" /\ Armed => handler = "switch"
        /\ user.at = "sleep" => user = At(Main, "sleep", 0)
    BY Before
  <1>1. PICK in \in {"no", "after"} : Thrdresume(in, MainSlot)
    BY DEF BackToMain
  <1>2. /\ user.at \in {"back", "tomain"} /\ sleeping' = (sleeping /\ user.at # "back")
        /\ UNCHANGED <<current, queue, slot, done, hit>>
    BY DEF BackToMain
  <1>3. /\ Syscall(in, user, delay, ticks, MainSlot, -1, context_id, handler)
        /\ used' = used
    BY <1>0, <1>1 DEF Thrdresume, Kernel
  <1>4. delay = -1 /\ ~jump_flag /\ ~Expired(in, delay, ticks) /\ MainSlot \in Slot
    BY <1>0, <1>2, ThrdstopAssumption DEF Expired, Expires, MainSlot, Slot
  <1>5. GoesOn(context[MainSlot]) /\ cancel_save_flag' = -1 /\ jump_flag' = FALSE
    BY <1>0, <1>3, <1>4, SyscallResumes DEF Kernel
  <1>6. delay' = -1 /\ ticks' \in Nat /\ context_id' = context_id /\ handler' = handler
    BY <1>0, <1>3, <1>4, SyscallCounts DEF Kernel, Delay, Interrupted
  <1>7. Kernel'
    BY <1>0, <1>3, <1>4, <1>5, <1>6 DEF Kernel, GoesOn, Delay
  <1> QED
    BY <1>0, <1>2, <1>3, <1>5, <1>6, <1>7

\* The thread's timer is set, or it goes off too early.
LEMMA DispatchStopEffect ==
    ASSUME ThrdstopInv, ~hit, DispatchStop
    PROVE  /\ Kernel' /\ hit' \in BOOLEAN
           /\ UNCHANGED <<used, libVars>>
           /\ user.at = "stop" /\ context_id' = slot[current] /\ handler' = "switch"
           /\ \/ GoesOn(Go("resume")) /\ ~hit' /\ ~jump_flag'
              \/ hit' /\ user'.at = "switch" 
  <1>0. /\ Kernel /\ hit \in BOOLEAN /\ jump_flag \in BOOLEAN /\ current \in {0} \cup Thrd
        /\ jump_flag => delay = -1 /\ user.at \in {"f", "exit"}
        /\ user.at \in {"cancel", "sleep", "back", "tomain", "stop", "stopnew"} =>
             delay = -1 /\ ~jump_flag
        /\ user.at \in {"stop", "resume", "exit"} => slot[current] \in Slot
        /\ user.at = "exit" /\ Armed => handler = "switch"
        /\ user.at = "sleep" => user = At(Main, "sleep", 0)
    BY Before
  <1>1. PICK in \in Interrupted, d \in 1..DELAY :
          /\ Syscall(in, Go("resume"), d, 0, -1, -1, slot[current], "switch")
          /\ hit' <=> (jump_flag \/ Expired(in, d, 0))
          /\ hit' \in BOOLEAN
    BY <1>0 DEF DispatchStop, Thrdstop, Kernel
  <1>2. user.at = "stop" /\ UNCHANGED <<used, libVars>>
    BY DEF DispatchStop
  <1>3. slot[current] \in Slot /\ d \in Delay
    BY <1>0, <1>2, ThrdstopAssumption DEF Delay
  <1>4. delay' \in Delay /\ ticks' \in Nat /\ context_id' = slot[current] /\ handler' = "switch"
    BY <1>1, <1>3, SyscallCounts
  <1>5. /\ cancel_save_flag' = -1 /\ jump_flag' = FALSE
        /\ \/ ~hit' /\ GoesOn(Go("resume"))
           \/ hit' /\ user' = Go("switch")
              /\ context' = [context EXCEPT ![slot[current]] = Go("resume")]
    <2>1. At(Go("resume").who, "switch", Go("resume").k) = Go("switch")
      BY <1>0, GoType DEF Kernel, Place
    <2>2. /\ cancel_save_flag' = -1 /\ jump_flag' = FALSE
          /\ \/ ~jump_flag /\ ~Expired(in, d, 0) /\ delay' = d /\ GoesOn(Go("resume"))
             \/ /\ jump_flag \/ Expired(in, d, 0)
                /\ user' = At(Go("resume").who, "switch", Go("resume").k)
                /\ context' = [context EXCEPT ![slot[current]] = Go("resume")]
      BY <1>0, <1>1, SyscallStops, Zenon
    <2> QED
      BY <1>1, <2>1, <2>2
  <1>6. Kernel' /\ Go("switch").at = "switch"
    <2>1. Go("resume") \in Context /\ Go("switch") \in Context /\ Go("switch").at = "switch"
      BY <1>0, GoType DEF Kernel, Place
    <2>2. user' \in Context
      BY <1>5, <2>1 DEF GoesOn
    <2>3. \/ context' = context
         \/ \E id \in Slot, u \in Context : context' = [context EXCEPT ![id] = u]
      BY <1>3, <1>5, <2>1 DEF GoesOn
    <2> QED
      BY <1>0, <1>2, <1>3, <1>4, <1>5, <2>1, <2>2, <2>3, KernelKept DEF Kernel
  <1> QED
    BY <1>1, <1>2, <1>4, <1>5, <1>6

\* The thread goes on where its context says, perhaps with its time over.
LEMMA DispatchResumeEffect ==
    ASSUME ThrdstopInv, ~hit, DispatchResume
    PROVE  /\ Kernel' /\ hit' \in BOOLEAN
           /\ UNCHANGED <<used, context_id, handler, libVars, hit>>
           /\ user.at = "resume" /\ GoesOn(context[slot[current]])
           /\ (jump_flag' => delay' = -1) /\ (Armed' => Armed)
  <1>0. /\ Kernel /\ hit \in BOOLEAN /\ jump_flag \in BOOLEAN /\ current \in {0} \cup Thrd
        /\ jump_flag => delay = -1 /\ user.at \in {"f", "exit"}
        /\ user.at \in {"cancel", "sleep", "back", "tomain", "stop", "stopnew"} =>
             delay = -1 /\ ~jump_flag
        /\ user.at \in {"stop", "resume", "exit"} => slot[current] \in Slot
        /\ user.at = "exit" /\ Armed => handler = "switch"
        /\ user.at = "sleep" => user = At(Main, "sleep", 0)
    BY Before
  <1>1. PICK in \in {"no", "after"} : Thrdresume(in, slot[current])
    BY DEF DispatchResume
  <1>2. user.at = "resume" /\ UNCHANGED <<libVars, hit>>
    BY DEF DispatchResume
  <1>3. /\ Syscall(in, user, delay, ticks, slot[current], -1, context_id, handler)
        /\ used' = used
    BY <1>0, <1>1 DEF Thrdresume, Kernel
  <1>4. slot[current] \in Slot /\ ~jump_flag
    BY <1>0, <1>2
  <1>5. /\ GoesOn(context[slot[current]]) /\ cancel_save_flag' = -1 /\ jump_flag' \in BOOLEAN
        /\ jump_flag' <=> Expired(in, delay, ticks)
    BY <1>0, <1>3, <1>4, SyscallResumes DEF Kernel
  <1>6. /\ delay' \in Delay /\ ticks' \in Nat /\ context_id' = context_id /\ handler' = handler
        /\ Expired(in, delay, ticks) => delay' = -1
        /\ delay' = delay \/ delay' = -1
    BY <1>0, <1>3, <1>4, SyscallCounts DEF Kernel, Interrupted
  <1>7. Kernel'
    BY <1>0, <1>3, <1>4, <1>5, <1>6 DEF Kernel, GoesOn
  <1>8. Armed' => Armed
    <2>1. Expired(in, delay, ticks) => delay # -1
      BY DEF Expired, Expires
    <2> QED
      BY <1>5, <1>6, <2>1 DEF Armed
  <1> QED
    BY <1>0, <1>2, <1>3, <1>5, <1>6, <1>7, <1>8

\* The new thread has a slot that nobody has, or there is none.
LEMMA DispatchNewEffect ==
    ASSUME ThrdstopInv, ~hit, DispatchNew
    PROVE  /\ Kernel' /\ hit' \in BOOLEAN
           /\ UNCHANGED <<current, sleeping, queue, done>>
           /\ user.at = "stopnew"
           /\ \/ user' = Go("end") /\ UNCHANGED <<procVars, slot, hit>>
              \/ \E s \in Slot \ used :
                    /\ context_id' = s /\ handler' = "switch"
                    /\ used' = used \cup {s} /\ slot' = [slot EXCEPT ![current] = s]
                    /\ \/ GoesOn(Go("start")) /\ ~hit' /\ ~jump_flag'
                       \/ hit' /\ user'.at = "switch" 
  <1>0. /\ Kernel /\ hit \in BOOLEAN /\ jump_flag \in BOOLEAN /\ current \in {0} \cup Thrd
        /\ jump_flag => delay = -1 /\ user.at \in {"f", "exit"}
        /\ user.at \in {"cancel", "sleep", "back", "tomain", "stop", "stopnew"} =>
             delay = -1 /\ ~jump_flag
        /\ user.at \in {"stop", "resume", "exit"} => slot[current] \in Slot
        /\ user.at = "exit" /\ Armed => handler = "switch"
        /\ user.at = "sleep" => user = At(Main, "sleep", 0)
    BY Before
  <1>1. user.at = "stopnew" /\ UNCHANGED <<current, sleeping, queue, done>> /\ ~jump_flag
    BY <1>0 DEF DispatchNew
  <1>2. CASE used = Slot
    <2>1. user' = Go("end") /\ UNCHANGED <<procVars, slot, hit>>
      BY <1>2 DEF DispatchNew
    <2>2. Go("end") \in Context
      BY <1>0, GoType DEF Kernel, Place
    <2>3. Kernel'
      BY <1>0, <2>1, <2>2 DEF Kernel, procVars
    <2> QED
      BY <1>0, <1>1, <2>1, <2>3
  <1>3. CASE used # Slot
    <2> DEFINE s == Min(Slot \ used)
    <2>1. s \in Slot \ used
      BY <1>0, <1>3, MinIn DEF Kernel
    <2>2. PICK in \in Interrupted, d \in 1..DELAY :
            /\ Syscall(in, Go("start"), d, 0, -1, -1, s, "switch")
            /\ hit' <=> (jump_flag \/ Expired(in, d, 0))
            /\ hit' \in BOOLEAN
      BY <1>0, <1>3 DEF DispatchNew, Thrdstop, Kernel
    <2>3. used' = used \cup {s} /\ slot' = [slot EXCEPT ![current] = s]
      BY <1>3 DEF DispatchNew
    <2> HIDE DEF s
    <2>4. delay' \in Delay /\ ticks' \in Nat /\ context_id' = s /\ handler' = "switch"
      BY <2>1, <2>2, SyscallCounts, ThrdstopAssumption DEF Delay
    <2>5. /\ cancel_save_flag' = -1 /\ jump_flag' = FALSE
          /\ \/ ~hit' /\ GoesOn(Go("start"))
             \/ hit' /\ user' = Go("switch")
                /\ context' = [context EXCEPT ![s] = Go("start")]
      <3>1. At(Go("start").who, "switch", Go("start").k) = Go("switch")
        BY <1>0, GoType DEF Kernel, Place
      <3>2. /\ cancel_save_flag' = -1 /\ jump_flag' = FALSE
            /\ \/ ~jump_flag /\ ~Expired(in, d, 0) /\ delay' = d /\ GoesOn(Go("start"))
               \/ /\ jump_flag \/ Expired(in, d, 0)
                  /\ user' = At(Go("start").who, "switch", Go("start").k)
                  /\ context' = [context EXCEPT ![s] = Go("start")]
        BY <1>0, <2>2, SyscallStops, Zenon
      <3> QED
        BY <2>2, <3>1, <3>2
    <2>6. Kernel' /\ Go("switch").at = "switch"
      <3>1. Go("start") \in Context /\ Go("switch") \in Context /\ Go("switch").at = "switch"
        BY <1>0, GoType DEF Kernel, Place
      <3>2. user' \in Context
        BY <2>5, <3>1 DEF GoesOn
      <3>3. \/ context' = context
           \/ \E id \in Slot, u \in Context : context' = [context EXCEPT ![id] = u]
        BY <2>1, <2>5, <3>1 DEF GoesOn
      <3>4. used' \subseteq Slot
        BY <1>0, <2>1, <2>3 DEF Kernel
      <3> QED
        BY <1>0, <2>1, <2>4, <2>5, <3>1, <3>2, <3>3, <3>4, KernelKept
    <2> QED
      BY <1>1, <2>1, <2>2, <2>3, <2>4, <2>5, <2>6
  <1> QED
    BY <1>2, <1>3

\* The slot is free, or the timer has gone off too early.
LEMMA ThreadExitEffect ==
    ASSUME ThrdstopInv, ~hit, ThreadExitCancel
    PROVE  /\ Kernel' /\ hit' \in BOOLEAN
           /\ UNCHANGED <<context_id, handler, libVars>>
           /\ user.at = "exit" /\ used' = used \ {slot[current]}
           /\ \/ GoesOn(Go("exited")) /\ ~hit' /\ delay' = -1 /\ ~jump_flag'
              \/ hit' /\ user'.at = "switch" 
  <1>0. /\ Kernel /\ hit \in BOOLEAN /\ jump_flag \in BOOLEAN /\ current \in {0} \cup Thrd
        /\ jump_flag => delay = -1 /\ user.at \in {"f", "exit"}
        /\ user.at \in {"cancel", "sleep", "back", "tomain", "stop", "stopnew"} =>
             delay = -1 /\ ~jump_flag
        /\ user.at \in {"stop", "resume", "exit"} => slot[current] \in Slot
        /\ user.at = "exit" /\ Armed => handler = "switch"
        /\ user.at = "sleep" => user = At(Main, "sleep", 0)
    BY Before
  <1>1. PICK in \in Interrupted :
          /\ CancelThrdstop(in, Go("exited"), slot[current], TRUE)
          /\ hit' <=> (jump_flag \/ Expired(in, -1, ticks))
          /\ hit' \in BOOLEAN
    BY <1>0 DEF ThreadExitCancel, Kernel
  <1>2. user.at = "exit" /\ UNCHANGED libVars
    BY DEF ThreadExitCancel
  <1>3. /\ Syscall(in, Go("exited"), -1, ticks, -1, -1, context_id, handler)
        /\ used' = used \ {slot[current]}
    BY <1>0, <1>1 DEF CancelThrdstop, Kernel
  <1>4. delay' = -1 /\ ticks' \in Nat /\ context_id' = context_id /\ handler' = handler
    BY <1>0, <1>3, SyscallCounts DEF Kernel, Delay
  <1>5. hit' => handler = "switch"
    <2>1. hit' => Armed
      BY <1>1 DEF Expired, Expires, Armed
    <2> QED
      BY <1>0, <1>2, <2>1
  <1>6. /\ cancel_save_flag' = -1 /\ jump_flag' = FALSE
        /\ \/ ~hit' /\ GoesOn(Go("exited"))
           \/ hit' /\ user' = Go("switch")
              /\ context' = [context EXCEPT ![context_id] = Go("exited")]
    <2>1. At(Go("exited").who, "switch", Go("exited").k) = Go("switch")
      BY <1>0, GoType DEF Kernel, Place
    <2>2. /\ cancel_save_flag' = -1 /\ jump_flag' = FALSE
          /\ \/ ~jump_flag /\ ~Expired(in, -1, ticks) /\ delay' = -1 /\ GoesOn(Go("exited"))
             \/ /\ jump_flag \/ Expired(in, -1, ticks)
                /\ user' = At(Go("exited").who, handler, Go("exited").k)
                /\ context' = [context EXCEPT ![context_id] = Go("exited")]
      BY <1>0, <1>3, SyscallStops, Zenon
    <2> QED
      BY <1>1, <1>5, <2>1, <2>2
  <1>7. Kernel' /\ Go("switch").at = "switch"
    <2>1. Go("exited") \in Context /\ Go("switch") \in Context /\ Go("switch").at = "switch"
      BY <1>0, GoType DEF Kernel, Place
    <2>2. user' \in Context /\ delay' \in Delay
      BY <1>4, <1>6, <2>1 DEF GoesOn, Delay
    <2>3. \/ context' = context
         \/ \E id \in Slot, u \in Context : context' = [context EXCEPT ![id] = u]
      BY <1>0, <1>6, <2>1 DEF GoesOn, Kernel
    <2>4. used' \subseteq Slot /\ context_id \in Slot /\ handler \in {"back", "switch"}
      BY <1>0, <1>3 DEF Kernel
    <2> QED
      BY <1>0, <1>4, <1>6, <2>1, <2>2, <2>3, <2>4, KernelKept
  <1> QED
    BY <1>1, <1>2, <1>3, <1>4, <1>6, <1>7

-----------------------------------------------------------------------------
(***************************************************************************)
(* The steps                                                               *)
(***************************************************************************)

\* __schedule() picks a thread of the run queue, and no thread comes back.
LEMMA ScheduleType ==
    ASSUME NEW q \in [Thrd -> {"run", "release", "gone"}], Schedule(q)
    PROVE  /\ queue' \in [Thrd -> {"run", "release", "gone"}]
           /\ current' \in {0} \cup Thrd /\ (current' # 0 => queue'[current'] = "run")
           /\ \A t \in Thrd : q[t] = "gone" <=> queue'[t] = "gone"
  <1>1. PICK R \in SUBSET Queued(q, "release") :
          /\ queue' = [t \in Thrd |-> IF t \in R THEN "run" ELSE q[t]]
          /\ current' \in IF R \cup Queued(q, "run") = {} THEN {0} ELSE R \cup Queued(q, "run")
    BY DEF Schedule
  <1>2. current' = 0 \/ current' \in R \cup Queued(q, "run")
    BY <1>1
  <1> QED
    BY <1>1, <1>2 DEF Queued

\* What a thread's slot holds, or where it runs, stays right when it is left alone.
LEMMA ContextKept ==
    ASSUME NEW t \in Thrd, ContextOK(t), ~Running(t)',
           t \in Started' => t \in Started /\ ~Running(t),
           slot'[t] = slot[t], done'[t] = done[t],
           t \in Started => context'[slot[t]] = context[slot[t]]
    PROVE  ContextOK(t)'
  BY DEF ContextOK, Running

\* It does in every thread while main or a dispatcher runs on.
LEMMA AllContextsKept ==
    ASSUME TypeOK, Slots, Contexts, UNCHANGED <<slot, done>>, Started' = Started,
           user.at \notin {"start", "f", "exit", "exited"},
           user'.at \notin {"start", "f", "exit", "exited"},
           context' = context \/ \E u : context' = [context EXCEPT ![MainSlot] = u]
    PROVE  Contexts'
  <1> SUFFICES ASSUME NEW t \in Thrd PROVE ContextOK(t)'
    BY DEF Contexts
  <1>1. t \in Started => context'[slot[t]] = context[slot[t]]
    BY DEF Slots, Started, TypeOK
  <1> QED
    BY <1>1, ContextKept DEF Contexts, Running

\* Every step keeps every variable in its type.
LEMMA TypeStep ==
    ASSUME ThrdstopInv, ~hit, ThrdstopNext
    PROVE  TypeOK'
  <1> USE ThrdstopAssumption
      DEF ThrdstopInv, Thrd, Slot, Main, MainSlot, procVars, libVars, Queued, Stays,
          Context, Place, At, Go, TypeOK, Delay
  <1>1. CASE Tick
    BY <1>1, TickEffect DEF GoesOn, Jumps, Kernel, TypeOK, Context, Place
  <1>2. CASE MainLoop
    BY <1>2 DEF MainLoop, Schedule, Stays, TypeOK, Context, Place
  <1>3. CASE MainCancel
    BY <1>3, MainCancelEffect DEF GoesOn, Jumps, Kernel, TypeOK, Context, Place
  <1>4. CASE MainSleep
    BY <1>4, MainSleepEffect DEF GoesOn, Jumps, Kernel, TypeOK, Context, Place
  <1>5. CASE MainAwake
    BY <1>5 DEF MainAwake, Stays, TypeOK, Context, Place
  <1>6. CASE BackToMain
    BY <1>6, BackToMainEffect DEF GoesOn, Jumps, Kernel, TypeOK, Context, Place
  <1>7. CASE DispatchCurrent
    BY <1>7 DEF DispatchCurrent, Stays, TypeOK, Context, Place
  <1>8. CASE DispatchStop
    BY <1>8, DispatchStopEffect DEF GoesOn, Jumps, Kernel, TypeOK, Context, Place
  <1>9. CASE DispatchResume
    BY <1>9, DispatchResumeEffect DEF GoesOn, Jumps, Kernel, TypeOK, Context, Place
  <1>10. CASE DispatchNew
    BY <1>10, DispatchNewEffect DEF GoesOn, Jumps, Kernel, TypeOK, Context, Place
  <1>11. CASE DispatchStart
    BY <1>11 DEF DispatchStart, TypeOK, Context, Place
  <1>12. CASE Work
    <2>1. user.who \in Thrd
      BY <1>12 DEF Work, Places
    <2>2. user' \in Context /\ done' \in [Thrd -> Nat] /\ hit' \in BOOLEAN
      BY <1>12, <2>1 DEF Work
    <2> QED
      BY <1>12, <2>2 DEF Work
  <1>13. CASE ThreadExitCancel
    BY <1>13, ThreadExitEffect DEF GoesOn, Jumps, Kernel, TypeOK, Context, Place
  <1>14. CASE ThreadExited
    <2>1. user' = Go("dispatch") /\ UNCHANGED <<procVars, sleeping, slot, done, hit>>
      BY <1>14 DEF SwitchHandler, ThreadExited
    <2>2. PICK where \in {"run", "release", "gone"} : Schedule([queue EXCEPT ![current] = where])
      BY <1>14 DEF SwitchHandler, ThreadExited
    <2>3. [queue EXCEPT ![current] = where] \in [Thrd -> {"run", "release", "gone"}]
      OBVIOUS
    <2>4. queue' \in [Thrd -> {"run", "release", "gone"}] /\ current' \in {0} \cup Thrd
      BY <2>2, <2>3, ScheduleType
    <2> QED
      BY <2>1, <2>4
  <1>15. CASE SwitchHandler
    <2>1. user' = Go("dispatch") /\ UNCHANGED <<procVars, sleeping, slot, done, hit>>
      BY <1>15 DEF SwitchHandler, ThreadExited
    <2>2. PICK where \in {"run", "release", "gone"} : Schedule([queue EXCEPT ![current] = where])
      BY <1>15 DEF SwitchHandler, ThreadExited
    <2>3. [queue EXCEPT ![current] = where] \in [Thrd -> {"run", "release", "gone"}]
      OBVIOUS
    <2>4. queue' \in [Thrd -> {"run", "release", "gone"}] /\ current' \in {0} \cup Thrd
      BY <2>2, <2>3, ScheduleType
    <2> QED
      BY <2>1, <2>4
  <1> QED
    BY <1>1, <1>2, <1>3, <1>4, <1>5, <1>6, <1>7, <1>8, <1>9, <1>10, <1>11, <1>12, <1>13,
       <1>14, <1>15 DEF ThrdstopNext

\* The timer goes off in a wrong moment only for a handler that then does not return.
LEMMA HitStep ==
    ASSUME ThrdstopInv, ~hit, ThrdstopNext
    PROVE  (hit => user.at = "switch")'
  <1> USE ThrdstopAssumption
      DEF ThrdstopInv, Thrd, Slot, Main, MainSlot, procVars, libVars, Queued, Stays,
          Context, Place, At, Go, TypeOK
  <1>1. CASE Tick
    <2>1. hit' => Jumps(user, context_id, handler) /\ Armed /\ user.at \in {"resume", "start"}
      BY <1>1, TickEffect, Zenon
    <2> QED
      BY <2>1 DEF Timer, Jumps
  <1>2. CASE MainLoop
    BY <1>2 DEF MainLoop, Schedule, Stays
  <1>3. CASE MainCancel
    BY <1>3, MainCancelEffect DEF GoesOn, Jumps, Kernel
  <1>4. CASE MainSleep
    BY <1>4, MainSleepEffect DEF GoesOn, Jumps, Kernel
  <1>5. CASE MainAwake
    BY <1>5 DEF MainAwake, Stays
  <1>6. CASE BackToMain
    BY <1>6, BackToMainEffect DEF GoesOn, Jumps, Kernel
  <1>7. CASE DispatchCurrent
    BY <1>7 DEF DispatchCurrent, Stays
  <1>8. CASE DispatchStop
    BY <1>8, DispatchStopEffect DEF GoesOn, Jumps, Kernel
  <1>9. CASE DispatchResume
    BY <1>9, DispatchResumeEffect DEF GoesOn, Jumps, Kernel
  <1>10. CASE DispatchNew
    BY <1>10, DispatchNewEffect DEF GoesOn, Jumps, Kernel
  <1>11. CASE DispatchStart
    BY <1>11 DEF DispatchStart
  <1>12. CASE Work
    BY <1>12 DEF Work
  <1>13. CASE ThreadExitCancel
    BY <1>13, ThreadExitEffect DEF GoesOn, Jumps, Kernel
  <1>14. CASE ThreadExited
    BY <1>14 DEF ThreadExited, Schedule, Stays
  <1>15. CASE SwitchHandler
    BY <1>15 DEF SwitchHandler, Schedule, Stays
  <1> QED
    BY <1>1, <1>2, <1>3, <1>4, <1>5, <1>6, <1>7, <1>8, <1>9, <1>10, <1>11, <1>12, <1>13,
       <1>14, <1>15 DEF ThrdstopNext

\* Every step keeps the process where its thread allows.
LEMMA PlacesStep ==
    ASSUME ThrdstopInv, ~hit, ThrdstopNext
    PROVE  (~hit => Places)'
  <1> USE ThrdstopAssumption
      DEF ThrdstopInv, Thrd, Slot, Main, MainSlot, procVars, libVars, Queued, Stays,
          Context, Place, At, Go, Places, Timer, Armed, MainContext, Contexts,
          ContextOK, Started, Running, PlaceAfter, TypeOK
  <1>1. CASE Tick
    <2>1. \/ /\ GoesOn(user) /\ ~hit'
             /\ UNCHANGED <<delay, jump_flag, used, context_id, handler, libVars>>
          \/ /\ Armed /\ Jumps(user, context_id, handler)
             /\ hit' <=> user.at \in {"resume", "start"}
             /\ UNCHANGED <<used, context_id, handler, libVars>>
      BY <1>1, TickEffect
    <2>2. CASE /\ GoesOn(user)
               /\ UNCHANGED <<delay, jump_flag, used, context_id, handler, libVars>>
      BY <2>2 DEF GoesOn, Places
    <2>3. CASE /\ ~hit' /\ Armed /\ Jumps(user, context_id, handler)
               /\ user.at \notin {"resume", "start"}
               /\ UNCHANGED <<used, context_id, handler, libVars>>
      BY <2>3 DEF Jumps, Timer
    <2> QED
      BY <2>1, <2>2, <2>3
  <1>2. CASE MainLoop
    BY <1>2 DEF MainLoop, Schedule, Stays, Places
  <1>3. CASE MainCancel
    BY <1>3, MainCancelEffect DEF GoesOn, Jumps, Kernel, Places
  <1>4. CASE MainSleep
    <2>1. user.at = "sleep" /\ user.who = Main /\ user.k = 0 /\ current = 0
      BY <1>4, MainSleepEffect
    <2>2. /\ user'.who = Main /\ user'.k = 0 /\ user'.at \in {"sleeping", "back"}
          /\ UNCHANGED <<current, queue>>
      <3>1. /\ UNCHANGED <<current, queue>>
            /\ GoesOn(Go("sleeping")) \/ Jumps(Go("sleeping"), MainSlot, "back")
        BY <1>4, MainSleepEffect
      <3>2. Go("sleeping") = At(Main, "sleeping", 0)
        BY <2>1, GoIsAt
      <3> QED
        BY <3>1, <3>2 DEF GoesOn, Jumps
    <2> QED
      BY <2>1, <2>2
  <1>5. CASE MainAwake
    BY <1>5 DEF MainAwake, Stays, Places
  <1>6. CASE BackToMain
    <2>1. /\ user.at \in {"back", "tomain"} /\ current = 0 /\ UNCHANGED <<current, queue>>
          /\ user' = context[MainSlot]
      BY <1>6, BackToMainEffect DEF GoesOn
    <2>2. user' \in {At(Main, "sleeping", 0), At(Main, "dispatch", 0)}
      BY <2>1
    <2> QED
      BY <2>1, <2>2
  <1>7. CASE DispatchCurrent
    BY <1>7 DEF DispatchCurrent, Stays, Places
  <1>8. CASE DispatchStop
    BY <1>8, DispatchStopEffect DEF GoesOn, Jumps, Kernel, Places
  <1>9. CASE DispatchResume
    <2>1. /\ user.at = "resume" /\ GoesOn(context[slot[current]])
          /\ (jump_flag' => delay' = -1) /\ (Armed' => Armed)
          /\ UNCHANGED <<used, context_id, handler, libVars, hit>>
      BY <1>9, DispatchResumeEffect
    <2>2. current \in Thrd /\ queue[current] = "run" /\ slot[current] # -1
      BY <2>1 DEF Places
    <2>3. context[slot[current]] = At(current, PlaceAfter(done[current]), done[current])
      BY <2>1, <2>2 DEF Contexts, ContextOK, Started, Running
    <2>4. PlaceAfter(done[current]) \in {"f", "exit"}
      BY DEF PlaceAfter
    <2>5. user'.who = current /\ user'.at \in {"f", "exit"}
      BY <2>1, <2>3, <2>4 DEF GoesOn
    <2> QED
      BY <2>1, <2>2, <2>5 DEF GoesOn, Places
  <1>10. CASE DispatchNew
    <2>1. /\ user.at = "stopnew" /\ UNCHANGED <<current, sleeping, queue, done>>
          /\ current \in Thrd
      BY <1>10, DispatchNewEffect DEF Places
    <2>2. CASE user' = Go("end") /\ UNCHANGED <<procVars, slot, hit>>
      BY <2>1, <2>2 DEF Armed, Places
    <2>3. ASSUME NEW s \in Slot \ used, ~hit',
                 context_id' = s, handler' = "switch", used' = used \cup {s},
                 slot' = [slot EXCEPT ![current] = s], ~jump_flag', GoesOn(Go("start"))
          PROVE  Places'
      BY <2>1, <2>3 DEF GoesOn, Places
    <2>4. CASE hit'
      BY <2>4
    <2> QED
      BY <1>10, <2>2, <2>3, <2>4, DispatchNewEffect
  <1>11. CASE DispatchStart
    BY <1>11 DEF DispatchStart, Places
  <1>12. CASE Work
    BY <1>12 DEF Work, Places
  <1>13. CASE ThreadExitCancel
    BY <1>13, ThreadExitEffect DEF GoesOn, Jumps, Kernel, Places
  <1>14. CASE ThreadExited
    BY <1>14 DEF ThreadExited, Schedule, Stays, Places
  <1>15. CASE SwitchHandler
    BY <1>15 DEF SwitchHandler, Schedule, Stays, Places
  <1> QED
    BY <1>1, <1>2, <1>3, <1>4, <1>5, <1>6, <1>7, <1>8, <1>9, <1>10, <1>11, <1>12, <1>13,
       <1>14, <1>15 DEF ThrdstopNext

\* Every step keeps the timer for threads and for main asleep.
LEMMA TimerStep ==
    ASSUME ThrdstopInv, ~hit, ThrdstopNext
    PROVE  (~hit => Timer)'
  <1> USE ThrdstopAssumption
      DEF ThrdstopInv, Thrd, Slot, Main, MainSlot, procVars, libVars, Queued, Stays,
          Context, Place, At, Go, Places, Timer, Armed, MainContext, Contexts,
          ContextOK, Started, Running, PlaceAfter, TypeOK
  <1>1. CASE Tick
    BY <1>1, TickEffect DEF GoesOn, Jumps, Kernel, Timer, Armed
  <1>2. CASE MainLoop
    BY <1>2 DEF MainLoop, Schedule, Stays, Timer, Armed
  <1>3. CASE MainCancel
    BY <1>3, MainCancelEffect DEF GoesOn, Jumps, Kernel, Timer, Armed
  <1>4. CASE MainSleep
    BY <1>4, MainSleepEffect DEF GoesOn, Jumps, Kernel, Timer, Armed
  <1>5. CASE MainAwake
    BY <1>5 DEF MainAwake, Stays, Timer, Armed
  <1>6. CASE BackToMain
    BY <1>6, BackToMainEffect DEF GoesOn, Jumps, Kernel, Timer, Armed
  <1>7. CASE DispatchCurrent
    BY <1>7 DEF DispatchCurrent, Stays, Timer, Armed
  <1>8. CASE DispatchStop
    BY <1>8, DispatchStopEffect DEF GoesOn, Jumps, Kernel, Timer, Armed
  <1>9. CASE DispatchResume
    <2>1. /\ user.at = "resume" /\ GoesOn(context[slot[current]])
          /\ (jump_flag' => delay' = -1) /\ (Armed' => Armed)
          /\ UNCHANGED <<used, context_id, handler, libVars, hit>>
      BY <1>9, DispatchResumeEffect
    <2>2. current \in Thrd /\ queue[current] = "run" /\ slot[current] # -1
      BY <2>1 DEF Places
    <2>3. context[slot[current]] = At(current, PlaceAfter(done[current]), done[current])
      BY <2>1, <2>2 DEF Contexts, ContextOK, Started, Running
    <2>4. PlaceAfter(done[current]) \in {"f", "exit"}
      BY DEF PlaceAfter
    <2>5. user'.who = current /\ user'.at \in {"f", "exit"}
      BY <2>1, <2>3, <2>4 DEF GoesOn
    <2> QED
      BY <2>1, <2>2, <2>5 DEF GoesOn, Timer
  <1>10. CASE DispatchNew
    <2>1. /\ user.at = "stopnew" /\ UNCHANGED <<current, sleeping, queue, done>>
          /\ current \in Thrd
      BY <1>10, DispatchNewEffect DEF Places
    <2>2. CASE user' = Go("end") /\ UNCHANGED <<procVars, slot, hit>>
      BY <2>1, <2>2 DEF Armed, Timer
    <2>3. ASSUME NEW s \in Slot \ used, ~hit',
                 context_id' = s, handler' = "switch", used' = used \cup {s},
                 slot' = [slot EXCEPT ![current] = s], ~jump_flag', GoesOn(Go("start"))
          PROVE  Timer'
      BY <2>1, <2>3 DEF GoesOn, Timer, Armed
    <2>4. CASE hit'
      BY <2>4
    <2> QED
      BY <1>10, <2>2, <2>3, <2>4, DispatchNewEffect
  <1>11. CASE DispatchStart
    BY <1>11 DEF DispatchStart, Timer, Armed
  <1>12. CASE Work
    BY <1>12 DEF Work, Timer, Armed
  <1>13. CASE ThreadExitCancel
    BY <1>13, ThreadExitEffect DEF GoesOn, Jumps, Kernel, Timer, Armed
  <1>14. CASE ThreadExited
    BY <1>14 DEF ThreadExited, Schedule, Stays, Timer, Armed
  <1>15. CASE SwitchHandler
    BY <1>15 DEF SwitchHandler, Schedule, Stays, Timer, Armed
  <1> QED
    BY <1>1, <1>2, <1>3, <1>4, <1>5, <1>6, <1>7, <1>8, <1>9, <1>10, <1>11, <1>12, <1>13,
       <1>14, <1>15 DEF ThrdstopNext

\* Every step keeps the slots apart.
LEMMA SlotsStep ==
    ASSUME ThrdstopInv, ~hit, ThrdstopNext
    PROVE  (~hit => Slots)'
  <1> USE ThrdstopAssumption
      DEF ThrdstopInv, Thrd, Slot, Main, MainSlot, procVars, libVars, Queued, Stays,
          Context, Place, At, Go, Places, Slots, Started, TypeOK
  <1>1. CASE Tick
    <2>1. \/ /\ GoesOn(user) /\ ~hit'
             /\ UNCHANGED <<delay, jump_flag, used, context_id, handler, libVars>>
          \/ /\ Armed /\ Jumps(user, context_id, handler)
             /\ hit' <=> user.at \in {"resume", "start"}
             /\ UNCHANGED <<used, context_id, handler, libVars>>
      BY <1>1, TickEffect
    <2>2. CASE /\ GoesOn(user)
               /\ UNCHANGED <<delay, jump_flag, used, context_id, handler, libVars>>
      BY <2>2 DEF GoesOn, Slots
    <2>3. CASE /\ ~hit' /\ Armed /\ Jumps(user, context_id, handler)
               /\ user.at \notin {"resume", "start"}
               /\ UNCHANGED <<used, context_id, handler, libVars>>
      BY <2>3 DEF Jumps, Timer, Slots
    <2> QED
      BY <2>1, <2>2, <2>3
  <1>2. CASE MainLoop
    BY <1>2 DEF MainLoop, Schedule, Stays, Slots, Started
  <1>3. CASE MainCancel
    BY <1>3, MainCancelEffect DEF GoesOn, Jumps, Kernel, Slots, Started
  <1>4. CASE MainSleep
    BY <1>4, MainSleepEffect DEF GoesOn, Jumps, Kernel, Slots, Started
  <1>5. CASE MainAwake
    BY <1>5 DEF MainAwake, Stays, Slots, Started
  <1>6. CASE BackToMain
    BY <1>6, BackToMainEffect DEF GoesOn, Jumps, Kernel, Slots, Started
  <1>7. CASE DispatchCurrent
    BY <1>7 DEF DispatchCurrent, Stays, Slots, Started
  <1>8. CASE DispatchStop
    BY <1>8, DispatchStopEffect DEF GoesOn, Jumps, Kernel, Slots, Started
  <1>9. CASE DispatchResume
    BY <1>9, DispatchResumeEffect DEF GoesOn, Jumps, Kernel, Slots, Started
  <1>10. CASE DispatchNew
    <2>1. /\ user.at = "stopnew" /\ UNCHANGED <<current, sleeping, queue, done>>
          /\ current \in Thrd
      BY <1>10, DispatchNewEffect DEF Places
    <2>2. CASE user' = Go("end") /\ UNCHANGED <<procVars, slot, hit>>
      BY <2>1, <2>2 DEF Armed, Slots, Started
    <2>3. ASSUME NEW s \in Slot \ used, ~hit',
                 context_id' = s, handler' = "switch", used' = used \cup {s},
                 slot' = [slot EXCEPT ![current] = s], ~jump_flag', GoesOn(Go("start"))
          PROVE  Slots'
      <3>1. user'.at # "exited" /\ user.at # "exited" /\ s # MainSlot
        BY <2>1, <2>3 DEF GoesOn, Slots
      <3> SUFFICES ASSUME NEW t \in Started'
                   PROVE  /\ slot'[t] # MainSlot /\ slot'[t] \in used'
                          /\ \A r \in Started' \ {t} : slot'[r] # slot'[t]
        BY <2>3, <3>1 DEF Slots
      <3>2. \A r \in Started' : IF r = current THEN slot'[r] = s
                                ELSE r \in Started /\ slot'[r] = slot[r] /\ slot[r] \in used
        BY <2>1, <2>3, <3>1 DEF Started, Slots
      <3> QED
        BY <2>3, <3>1, <3>2 DEF Slots
    <2>4. CASE hit'
      BY <2>4
    <2> QED
      BY <1>10, <2>2, <2>3, <2>4, DispatchNewEffect
  <1>11. CASE DispatchStart
    BY <1>11 DEF DispatchStart, Slots, Started
  <1>12. CASE Work
    BY <1>12 DEF Work, Slots, Started
  <1>13. CASE ThreadExitCancel
    <2>1. CASE hit'
      BY <2>1
    <2>2. CASE ~hit'
      <3>1. /\ user.at = "exit" /\ UNCHANGED libVars /\ used' = used \ {slot[current]}
            /\ user'.at = "exited"
        BY <1>13, <2>2, ThreadExitEffect DEF GoesOn
      <3>2. Started' = Started /\ current \in Started
        BY <3>1 DEF Started, Places
      <3> QED
        BY <3>1, <3>2 DEF Slots, Started
    <2> QED
      BY <2>1, <2>2
  <1>14. CASE ThreadExited
    <2>1. user.at \in {"switch", "exited"} /\ user' = Go("dispatch") /\ UNCHANGED <<procVars, slot>>
      BY <1>14 DEF SwitchHandler, ThreadExited
    <2>2. PICK where \in {"run", "release", "gone"} : /\ Schedule([queue EXCEPT ![current] = where])
                                                      /\ user.at = "exited" => where = "gone"
      BY <1>14 DEF SwitchHandler, ThreadExited
    <2>3. \A t \in Thrd : [queue EXCEPT ![current] = where][t] = "gone" <=> queue'[t] = "gone"
      BY <2>2, ScheduleType
    <2>4. \A t \in Started' : t \in Started /\ (t = current => user.at # "exited")
      BY <2>1, <2>2, <2>3 DEF Started, Places
    <2> QED
      BY <2>1, <2>4 DEF Slots
  <1>15. CASE SwitchHandler
    <2>1. user.at \in {"switch", "exited"} /\ user' = Go("dispatch") /\ UNCHANGED <<procVars, slot>>
      BY <1>15 DEF SwitchHandler, ThreadExited
    <2>2. PICK where \in {"run", "release", "gone"} : /\ Schedule([queue EXCEPT ![current] = where])
                                                      /\ user.at = "exited" => where = "gone"
      BY <1>15 DEF SwitchHandler, ThreadExited
    <2>3. \A t \in Thrd : [queue EXCEPT ![current] = where][t] = "gone" <=> queue'[t] = "gone"
      BY <2>2, ScheduleType
    <2>4. \A t \in Started' : t \in Started /\ (t = current => user.at # "exited")
      BY <2>1, <2>2, <2>3 DEF Started, Places
    <2> QED
      BY <2>1, <2>4 DEF Slots
  <1> QED
    BY <1>1, <1>2, <1>3, <1>4, <1>5, <1>6, <1>7, <1>8, <1>9, <1>10, <1>11, <1>12, <1>13,
       <1>14, <1>15 DEF ThrdstopNext

\* Every step keeps main's context.
LEMMA MainContextStep ==
    ASSUME ThrdstopInv, ~hit, ThrdstopNext
    PROVE  (~hit => MainContext)'
  <1> USE ThrdstopAssumption
      DEF ThrdstopInv, Thrd, Slot, Main, MainSlot, procVars, libVars, Queued, Stays,
          Context, Place, At, Go, Places, Timer, MainContext, TypeOK
  <1>1. CASE Tick
    <2>1. \/ /\ GoesOn(user) /\ ~hit'
             /\ UNCHANGED <<delay, jump_flag, used, context_id, handler, libVars>>
          \/ /\ Armed /\ Jumps(user, context_id, handler)
             /\ hit' <=> user.at \in {"resume", "start"}
             /\ UNCHANGED <<used, context_id, handler, libVars>>
      BY <1>1, TickEffect
    <2>2. CASE /\ GoesOn(user)
               /\ UNCHANGED <<delay, jump_flag, used, context_id, handler, libVars>>
      BY <2>2 DEF GoesOn, MainContext
    <2>3. CASE /\ ~hit' /\ Armed /\ Jumps(user, context_id, handler)
               /\ user.at \notin {"resume", "start"}
               /\ UNCHANGED <<used, context_id, handler, libVars>>
      <3>1. CASE user.at \in {"f", "exit"}
        <4>1. /\ context_id # MainSlot /\ handler = "switch"
              /\ context[MainSlot] = At(Main, "dispatch", 0)
          BY <3>1, <2>3 DEF Timer, MainContext, Slots, Started, Places
        <4> QED
          BY <3>1, <4>1, <2>3 DEF Jumps, MainContext
      <3>2. CASE user.at = "sleeping"
        <4>1. context_id = MainSlot /\ handler = "back" /\ user = At(Main, "sleeping", 0)
          BY <3>2, <2>3 DEF Timer, Places
        <4> QED
          BY <3>2, <4>1, <2>3 DEF Jumps, MainContext
      <3> QED
        BY <2>3, <3>1, <3>2 DEF Timer
    <2> QED
      BY <2>1, <2>2, <2>3
  <1>2. CASE MainLoop
    BY <1>2 DEF MainLoop, Schedule, Stays, MainContext
  <1>3. CASE MainCancel
    <2>1. /\ user.at = "cancel" /\ user' = Go("dispatch")
          /\ context' = [context EXCEPT ![MainSlot] = Go("dispatch")]
      BY <1>3, MainCancelEffect
    <2>2. Go("dispatch") = At(Main, "dispatch", 0)
      BY <2>1, GoIsAt DEF Places
    <2> QED
      BY <2>1, <2>2 DEF MainContext
  <1>4. CASE MainSleep
    <2>1. user.at = "sleep" /\ (GoesOn(Go("sleeping")) \/ Jumps(Go("sleeping"), MainSlot, "back"))
      BY <1>4, MainSleepEffect
    <2>2. Go("sleeping") = At(Main, "sleeping", 0)
      BY <2>1, GoIsAt DEF Places
    <2>3. CASE GoesOn(Go("sleeping"))
      BY <2>3 DEF GoesOn
    <2>4. CASE Jumps(Go("sleeping"), MainSlot, "back")
      <3>1. context'[MainSlot] = At(Main, "sleeping", 0)
        BY <2>2, <2>4 DEF Jumps
      <3>2. user'.at = "back"
        BY <2>4 DEF Jumps
      <3> QED
        BY <3>1, <3>2
    <2> QED
      BY <2>1, <2>3, <2>4
  <1>5. CASE MainAwake
    BY <1>5 DEF MainAwake, Stays, MainContext
  <1>6. CASE BackToMain
    BY <1>6, BackToMainEffect DEF GoesOn, Jumps, Kernel, MainContext
  <1>7. CASE DispatchCurrent
    BY <1>7 DEF DispatchCurrent, Stays, MainContext
  <1>8. CASE DispatchStop
    BY <1>8, DispatchStopEffect DEF GoesOn, Jumps, Kernel, MainContext
  <1>9. CASE DispatchResume
    <2>1. /\ user.at = "resume" /\ GoesOn(context[slot[current]])
          /\ (jump_flag' => delay' = -1) /\ (Armed' => Armed)
          /\ UNCHANGED <<used, context_id, handler, libVars, hit>>
      BY <1>9, DispatchResumeEffect
    <2>2. current \in Thrd /\ queue[current] = "run" /\ slot[current] # -1
      BY <2>1 DEF Places
    <2>3. context[slot[current]] = At(current, PlaceAfter(done[current]), done[current])
      BY <2>1, <2>2 DEF Contexts, ContextOK, Started, Running
    <2>4. PlaceAfter(done[current]) \in {"f", "exit"}
      BY DEF PlaceAfter
    <2>5. user'.who = current /\ user'.at \in {"f", "exit"}
      BY <2>1, <2>3, <2>4 DEF GoesOn
    <2> QED
      BY <2>1, <2>2, <2>5 DEF GoesOn, MainContext
  <1>10. CASE DispatchNew
    BY <1>10, DispatchNewEffect DEF GoesOn, Jumps, Kernel, MainContext
  <1>11. CASE DispatchStart
    BY <1>11 DEF DispatchStart, MainContext
  <1>12. CASE Work
    BY <1>12 DEF Work, MainContext
  <1>13. CASE ThreadExitCancel
    BY <1>13, ThreadExitEffect DEF GoesOn, Jumps, Kernel, MainContext
  <1>14. CASE ThreadExited
    BY <1>14 DEF ThreadExited, Schedule, Stays, MainContext
  <1>15. CASE SwitchHandler
    BY <1>15 DEF SwitchHandler, Schedule, Stays, MainContext
  <1> QED
    BY <1>1, <1>2, <1>3, <1>4, <1>5, <1>6, <1>7, <1>8, <1>9, <1>10, <1>11, <1>12, <1>13,
       <1>14, <1>15 DEF ThrdstopNext

\* Every step keeps the contexts of the threads.
LEMMA ContextsStep ==
    ASSUME ThrdstopInv, ~hit, ThrdstopNext
    PROVE  (~hit => Contexts)'
  <1> USE ThrdstopAssumption
      DEF ThrdstopInv, Thrd, Slot, Main, MainSlot, procVars, libVars, Queued, Stays,
          Context, Place, At, Go, Places, Slots, Contexts, ContextOK, Started, Running,
          PlaceAfter, TypeOK
  <1>1. CASE Tick
    <2>1. \/ /\ GoesOn(user) /\ ~hit'
             /\ UNCHANGED <<delay, jump_flag, used, context_id, handler, libVars>>
          \/ /\ Armed /\ Jumps(user, context_id, handler)
             /\ hit' <=> user.at \in {"resume", "start"}
             /\ UNCHANGED <<used, context_id, handler, libVars>>
      BY <1>1, TickEffect
    <2>2. CASE /\ GoesOn(user)
               /\ UNCHANGED <<delay, jump_flag, used, context_id, handler, libVars>>
      BY <2>2 DEF GoesOn, Contexts, ContextOK, Started, Running
    <2>3. CASE /\ ~hit' /\ Armed /\ Jumps(user, context_id, handler)
               /\ user.at \notin {"resume", "start"}
               /\ UNCHANGED <<used, context_id, handler, libVars>>
      <3> SUFFICES ASSUME NEW t \in Thrd PROVE ContextOK(t)'
        BY DEF Contexts
      <3>1. ContextOK(t) /\ Started' = Started /\ user' = At(user.who, handler, user.k)
            /\ context' = [context EXCEPT ![context_id] = user]
        BY <2>3 DEF Contexts, Jumps, Started
      <3>2. ~Running(t)'
        BY <2>3, <3>1 DEF Running
      <3>3. CASE user.at \in {"f", "exit"} /\ t = current
        <4>1. context_id = slot[t] /\ user = At(t, PlaceAfter(done[t]), done[t]) /\ slot[t] # -1
          BY <2>3, <3>1, <3>3 DEF Timer, Places, ContextOK
        <4> QED
          BY <2>3, <3>1, <3>2, <4>1 DEF ContextOK, Running
      <3>4. CASE user.at \in {"f", "exit"} /\ t # current
        <4>1. /\ context_id = slot[current] /\ user.who = current
              /\ t \in Started => slot[t] # slot[current]
          BY <2>3, <3>4 DEF Timer, Places, Slots, Started
        <4> QED
          BY <2>3, <3>1, <3>2, <3>4, <4>1, ContextKept DEF Running
      <3>5. CASE user.at = "sleeping"
        <4>1. context_id = MainSlot /\ ~Running(t) /\ (t \in Started => slot[t] # MainSlot)
          BY <2>3, <3>5 DEF Timer, Slots, Running, Places
        <4> QED
          BY <2>3, <3>1, <3>2, <4>1, ContextKept
      <3> QED
        BY <2>3, <3>3, <3>4, <3>5 DEF Timer
    <2> QED
      BY <2>1, <2>2, <2>3
  <1>2. CASE MainLoop
    BY <1>2 DEF MainLoop, Schedule, Stays, Contexts, ContextOK, Started, Running,
       PlaceAfter
  <1>3. CASE MainCancel
    <2>1. /\ user.at = "cancel" /\ UNCHANGED libVars /\ user' = Go("dispatch")
          /\ context' = [context EXCEPT ![MainSlot] = Go("dispatch")]
      BY <1>3, MainCancelEffect
    <2>2. Started' = Started /\ user'.at = "dispatch"
      BY <2>1 DEF Started
    <2>3. \E u : context' = [context EXCEPT ![MainSlot] = u]
      BY <2>1, Zenon
    <2> QED
      BY <2>1, <2>2, <2>3, AllContextsKept
  <1>4. CASE MainSleep
    <2>1. /\ user.at = "sleep" /\ UNCHANGED <<queue, slot, done>>
          /\ GoesOn(Go("sleeping")) \/ Jumps(Go("sleeping"), MainSlot, "back")
      BY <1>4, MainSleepEffect
    <2>2. Started' = Started /\ user'.at \in {"sleeping", "back"}
      BY <2>1 DEF GoesOn, Jumps, Started
    <2>3. context' = context \/ \E u : context' = [context EXCEPT ![MainSlot] = u]
      BY <2>1 DEF GoesOn, Jumps
    <2> QED
      BY <2>1, <2>2, <2>3, AllContextsKept
  <1>5. CASE MainAwake
    BY <1>5 DEF MainAwake, Stays, Contexts, ContextOK, Started, Running, PlaceAfter
  <1>6. CASE BackToMain
    <2>1. /\ user.at \in {"back", "tomain"} /\ UNCHANGED <<queue, slot, done>>
          /\ GoesOn(context[MainSlot])
      BY <1>6, BackToMainEffect
    <2>2. context[MainSlot].at \in {"sleeping", "dispatch"}
      BY <2>1 DEF MainContext
    <2>3. Started' = Started /\ user'.at \in {"sleeping", "dispatch"} /\ context' = context
      BY <2>1, <2>2 DEF GoesOn, Started
    <2> QED
      BY <2>1, <2>3, AllContextsKept
  <1>7. CASE DispatchCurrent
    BY <1>7 DEF DispatchCurrent, Stays, Contexts, ContextOK, Started, Running, PlaceAfter
  <1>8. CASE DispatchStop
    <2>1. CASE hit'
      BY <2>1
    <2>2. CASE ~hit'
      <3>1. /\ user.at = "stop" /\ UNCHANGED libVars /\ GoesOn(Go("resume"))
        BY <1>8, <2>2, DispatchStopEffect
      <3>2. Started' = Started /\ user'.at = "resume" /\ context' = context
        BY <3>1 DEF GoesOn, Started
      <3> QED
        BY <3>1, <3>2, AllContextsKept
    <2> QED
      BY <2>1, <2>2
  <1>9. CASE DispatchResume
    <2>1. /\ user.at = "resume" /\ GoesOn(context[slot[current]])
          /\ (jump_flag' => delay' = -1) /\ (Armed' => Armed)
          /\ UNCHANGED <<used, context_id, handler, libVars, hit>>
      BY <1>9, DispatchResumeEffect
    <2>2. current \in Thrd /\ queue[current] = "run" /\ slot[current] # -1
      BY <2>1 DEF Places
    <2>3. context[slot[current]] = At(current, PlaceAfter(done[current]), done[current])
      BY <2>1, <2>2 DEF Contexts, ContextOK, Started, Running
    <2>4. PlaceAfter(done[current]) \in {"f", "exit"}
      BY DEF PlaceAfter
    <2>5. user'.who = current /\ user'.at \in {"f", "exit"}
      BY <2>1, <2>3, <2>4 DEF GoesOn
    <2>6. ASSUME NEW t \in Thrd
          PROVE  ContextOK(t)'
      <3>1. ContextOK(t) /\ ~Running(t) /\ Started' = Started
        BY <2>1 DEF Contexts, Running, Started
      <3>2. CASE t = current
        <4>1. user' = At(t, PlaceAfter(done[t]), done[t])
          BY <2>1, <2>3, <3>2 DEF GoesOn
        <4> QED
          BY <2>1, <2>5, <3>1, <3>2, <4>1 DEF ContextOK, Running
      <3>3. CASE t # current
        BY <2>1, <2>5, <3>1, <3>3, ContextKept DEF Running, GoesOn
      <3> QED
        BY <3>2, <3>3
    <2> QED
      BY <2>6 DEF Contexts
  <1>10. CASE DispatchNew
    <2>1. /\ user.at = "stopnew" /\ UNCHANGED <<current, sleeping, queue, done>>
          /\ current \in Thrd
      BY <1>10, DispatchNewEffect DEF Places
    <2>2. CASE user' = Go("end") /\ UNCHANGED <<procVars, slot, hit>>
      BY <2>1, <2>2, AllContextsKept DEF Started
    <2>3. ASSUME NEW s \in Slot \ used, ~hit',
                 context_id' = s, handler' = "switch", used' = used \cup {s},
                 slot' = [slot EXCEPT ![current] = s], ~jump_flag', GoesOn(Go("start"))
          PROVE  Contexts'
      <3> SUFFICES ASSUME NEW t \in Thrd PROVE ContextOK(t)'
        BY DEF Contexts
      <3>1. user'.at = "start" /\ context' = context
        BY <2>3 DEF GoesOn
      <3>2. CASE t = current
        <4>1. slot[t] = -1 /\ ContextOK(t)
          BY <2>1, <3>2 DEF Contexts, Places
        <4>2. done'[t] = 0 /\ slot'[t] = s /\ s # -1
          BY <2>1, <2>3, <3>2, <4>1 DEF ContextOK
        <4>3. Running(t)'
          BY <2>1, <3>1, <3>2 DEF Running
        <4> QED
          BY <3>1, <4>2, <4>3 DEF ContextOK
      <3>3. CASE t # current
        <4>1. /\ ~Running(t) /\ ~Running(t)' /\ (t \in Started <=> t \in Started')
              /\ slot'[t] = slot[t] /\ done'[t] = done[t]
          BY <2>1, <2>3, <3>1, <3>3 DEF Running, Started
        <4> QED
          BY <3>1, <4>1, ContextKept DEF Contexts
      <3> QED
        BY <3>2, <3>3
    <2>4. CASE hit'
      BY <2>4
    <2> QED
      BY <1>10, <2>2, <2>3, <2>4, DispatchNewEffect
  <1>11. CASE DispatchStart
    <2>1. /\ user.at = "start" /\ user' = At(current, "f", 0)
          /\ UNCHANGED <<procVars, libVars, hit>>
          /\ current \in Thrd /\ Started' = Started
      BY <1>11 DEF DispatchStart, Places, Started
    <2> SUFFICES ASSUME NEW t \in Thrd PROVE ContextOK(t)'
      BY DEF Contexts
    <2>2. ContextOK(t)
      BY DEF Contexts
    <2>3. CASE t = current
      BY <2>1, <2>2, <2>3 DEF ContextOK, Running, PlaceAfter
    <2>4. CASE t # current
      BY <2>1, <2>2, <2>4, ContextKept DEF Running
    <2> QED
      BY <2>3, <2>4
  <1>12. CASE Work
    <2>1. /\ user.at = "f" /\ user.who \in Thrd /\ user.who = current /\ user.k \in Nat
          /\ user' = At(user.who, IF user.k + 1 = STEPS THEN "exit" ELSE "f", user.k + 1)
          /\ done' = [done EXCEPT ![user.who] = done[user.who] + 1]
          /\ UNCHANGED <<procVars, current, sleeping, queue, slot, hit>> /\ Started' = Started
      BY <1>12 DEF Work, Places, Started
    <2> SUFFICES ASSUME NEW t \in Thrd PROVE ContextOK(t)'
      BY DEF Contexts
    <2>2. ContextOK(t)
      BY DEF Contexts
    <2>3. CASE t = current
      <3>1. user.k = done[t] /\ slot[t] # -1
        BY <2>1, <2>2, <2>3 DEF ContextOK, Places
      <3>2. /\ user' = At(t, PlaceAfter(done'[t]), done'[t])
            /\ user'.who = t /\ user'.at \in {"f", "exit"}
        BY <2>1, <2>3, <3>1 DEF PlaceAfter
      <3> QED
        BY <2>1, <3>1, <3>2 DEF ContextOK, Running
    <2>4. CASE t # current
      BY <2>1, <2>2, <2>4, ContextKept DEF Running
    <2> QED
      BY <2>3, <2>4
  <1>13. CASE ThreadExitCancel
    <2>1. CASE hit'
      BY <2>1
    <2>2. CASE ~hit'
      <3>0. user.at = "exit" /\ UNCHANGED libVars /\ user' = Go("exited") /\ context' = context
        BY <1>13, <2>2, ThreadExitEffect DEF GoesOn
      <3>1. user.who = current /\ Started' = Started
        BY <3>0 DEF Places, Started
      <3> SUFFICES ASSUME NEW t \in Thrd PROVE ContextOK(t)'
        BY DEF Contexts
      <3>2. ContextOK(t)
        BY DEF Contexts
      <3>3. CASE t = current
        BY <3>0, <3>1, <3>2, <3>3 DEF ContextOK, Running
      <3>4. CASE t # current
        BY <3>0, <3>1, <3>2, <3>4, ContextKept DEF Running
      <3> QED
        BY <3>3, <3>4
    <2> QED
      BY <2>1, <2>2
  <1>14. CASE ThreadExited
    <2>1. /\ user.at \in {"switch", "exited"} /\ user'.at = "dispatch"
          /\ UNCHANGED <<procVars, slot, done>> /\ user.who = current
      BY <1>14 DEF SwitchHandler, ThreadExited, Places
    <2>2. PICK where \in {"run", "release", "gone"} : /\ Schedule([queue EXCEPT ![current] = where])
                                                      /\ user.at = "exited" => where = "gone"
      BY <1>14 DEF SwitchHandler, ThreadExited
    <2>3. \A t \in Thrd : [queue EXCEPT ![current] = where][t] = "gone" <=> queue'[t] = "gone"
      BY <2>2, ScheduleType
    <2> SUFFICES ASSUME NEW t \in Thrd PROVE ContextOK(t)'
      BY DEF Contexts
    <2>4. ContextOK(t) /\ ~Running(t)' /\ (t \in Started' => t \in Started /\ ~Running(t))
      BY <2>1, <2>2, <2>3 DEF Started, Running, Contexts
    <2> QED
      BY <2>1, <2>4, ContextKept
  <1>15. CASE SwitchHandler
    <2>1. /\ user.at \in {"switch", "exited"} /\ user'.at = "dispatch"
          /\ UNCHANGED <<procVars, slot, done>> /\ user.who = current
      BY <1>15 DEF SwitchHandler, ThreadExited, Places
    <2>2. PICK where \in {"run", "release", "gone"} : /\ Schedule([queue EXCEPT ![current] = where])
                                                      /\ user.at = "exited" => where = "gone"
      BY <1>15 DEF SwitchHandler, ThreadExited
    <2>3. \A t \in Thrd : [queue EXCEPT ![current] = where][t] = "gone" <=> queue'[t] = "gone"
      BY <2>2, ScheduleType
    <2> SUFFICES ASSUME NEW t \in Thrd PROVE ContextOK(t)'
      BY DEF Contexts
    <2>4. ContextOK(t) /\ ~Running(t)' /\ (t \in Started' => t \in Started /\ ~Running(t))
      BY <2>1, <2>2, <2>3 DEF Started, Running, Contexts
    <2> QED
      BY <2>1, <2>4, ContextKept
  <1> QED
    BY <1>1, <1>2, <1>3, <1>4, <1>5, <1>6, <1>7, <1>8, <1>9, <1>10, <1>11, <1>12, <1>13,
       <1>14, <1>15 DEF ThrdstopNext

\* The initial state, and the steps together.
LEMMA InitInv == ThrdstopInit => ThrdstopInv
  <1> SUFFICES ASSUME ThrdstopInit PROVE ThrdstopInv
    OBVIOUS
  <1> USE ThrdstopAssumption DEF ThrdstopInit, Main, MainSlot, At, Thrd, Slot
  <1>1. TypeOK
    <2>1. At(Main, "loop", 0) \in Context
      BY DEF Context, Place
    <2>2. context \in [Slot -> Context]
      <3> HIDE DEF At, Main, Slot
      <3> QED
        BY <2>1
    <2>3. /\ queue \in [Thrd -> {"run", "release", "gone"}]
          /\ slot \in [Thrd -> {-1} \cup Slot] /\ done \in [Thrd -> Nat]
      OBVIOUS
    <2>4. used \subseteq Slot /\ context_id \in Slot
      OBVIOUS
    <2>5. user \in Context
      BY <2>1
    <2> HIDE DEF Slot, Thrd, At, Main
    <2> QED
      BY <2>2, <2>3, <2>4, <2>5 DEF TypeOK
  <1>2. Places /\ Timer /\ MainContext
    BY DEF Places, Timer, Armed, MainContext
  <1>3. Started = {}
    BY DEF Started
  <1>4. Slots
    BY <1>3 DEF Slots
  <1>5. Contexts
    BY <1>3 DEF Contexts, ContextOK
  <1> QED
    BY <1>1, <1>2, <1>4, <1>5 DEF ThrdstopInv

\* After a tick that the library cannot bear, the handler is as far as it goes.
LEMMA HitIsLast == ASSUME ThrdstopInv, hit, ThrdstopNext PROVE FALSE
  BY DEF ThrdstopInv, ThrdstopNext, Tick, MainLoop, MainCancel, MainSleep, MainAwake, BackToMain,
     DispatchCurrent, DispatchStop, DispatchResume, DispatchNew, DispatchStart, Work,
     ThreadExitCancel, ThreadExited, SwitchHandler

\* Every step keeps the invariant.
LEMMA StepInv == ThrdstopInv /\ [ThrdstopNext]_ThrdstopVars => ThrdstopInv'
  <1> SUFFICES ASSUME ThrdstopInv, [ThrdstopNext]_ThrdstopVars PROVE ThrdstopInv'
    OBVIOUS
  <1>1. CASE ThrdstopNext
    <2>1. ~hit
      BY <1>1, HitIsLast
    <2>2. TypeOK'
      BY <1>1, <2>1, TypeStep
    <2>3. (hit => user.at = "switch")'
      BY <1>1, <2>1, HitStep
    <2>4. (~hit => Places)' /\ (~hit => Timer)'
      BY <1>1, <2>1, PlacesStep, TimerStep
    <2>5. (~hit => Slots)' /\ (~hit => MainContext)'
      BY <1>1, <2>1, SlotsStep, MainContextStep
    <2>6. (~hit => Contexts)'
      BY <1>1, <2>1, ContextsStep
    <2> QED
      BY <2>2, <2>3, <2>4, <2>5, <2>6 DEF ThrdstopInv
  <1>2. CASE UNCHANGED ThrdstopVars
    BY <1>2 DEF ThrdstopVars, procVars, libVars, ThrdstopInv, TypeOK, Places, Timer, Armed, Slots,
       MainContext, Contexts, ContextOK, Started, Running
  <1> QED
    BY <1>1, <1>2

\* ThrdstopInv is an invariant of the switching of threads.
THEOREM ThrdstopInvariant == ThrdstopSpec => []ThrdstopInv
  BY InitInv, StepInv, PTL DEF ThrdstopSpec

\* Every thread that is stopped goes on where it was and on its own stack, with a
\* context of its own, wherever the timer goes off except in the three places where
\* the library cannot bear it (thrd.c, trap.c, threads.c).
THEOREM ThreadsResumeWhereStopped == ThrdstopSpec => []ResumedWhereStopped
  <1>1. ASSUME ThrdstopInv, ~hit
        PROVE  ResumedWhereStopped
    <2> USE <1>1 DEF ThrdstopInv
    <2>1. ASSUME NEW t \in Started
          PROVE  IF Running(t) THEN user.at \in {"f", "exit"} => user.k = done[t]
                 ELSE context[slot[t]] = At(t, IF done[t] = STEPS THEN "exit" ELSE "f", done[t])
      <3>1. ContextOK(t) /\ t \in Thrd
        BY DEF Contexts, Started
      <3>2. Running(t) /\ user.at \in {"f", "exit"} => user.who = t
        BY DEF Running
      <3> QED
        BY <3>1, <3>2 DEF ContextOK, PlaceAfter, At
    <2>2. \A t \in Started :
            /\ slot[t] \in used \ {MainSlot} \/ user.at = "exited"
            /\ \A s \in Started \ {t} : slot[s] # slot[t]
      BY DEF Slots
    <2>3. user.at \in {"f", "exit", "exited", "switch"} => user.who = current
      BY DEF Places
    <2>4. user.who # Main =>
            context[MainSlot] \in {At(Main, at, 0) : at \in {"dispatch", "sleeping"}}
      BY DEF Places, MainContext
    <2> QED
      BY <2>1, <2>2, <2>3, <2>4 DEF ResumedWhereStopped
  <1>2. ThrdstopInv => ResumedWhereStopped
    BY <1>1 DEF ResumedWhereStopped
  <1> QED
    BY <1>2, ThrdstopInvariant, PTL

-----------------------------------------------------------------------------
(***************************************************************************)
(* MP1: the inductive invariant                                            *)
(***************************************************************************)

Pointers == /\ current_thread \in Thread \cup {NULL} /\ current_task \in Task \cup {NULL}
            /\ next \in [Thread -> Thread \cup {NULL}]
            /\ previous \in [Thread -> Thread \cup {NULL}]
            /\ top \in [Thread -> Task \cup {NULL}]
            /\ prev \in [Task -> Task \cup {NULL}] /\ nxt \in [Task -> Task \cup {NULL}]
            /\ buf_set \in [Node -> BOOLEAN] /\ env \in [Node -> Node \cup {NULL}]
            /\ live \subseteq Node /\ added \subseteq live \cap Thread
            /\ running \in Node \cup {NULL}

\* The thread after the i-th one, round the ring.
After(r, i) == IF i = Len(r) THEN r[1] ELSE r[i + 1]

\* r has the threads of the ring, in the order of their turns.
RingIs(r) ==
    /\ r \in Seq(Thread)
    /\ \A i \in 1..Len(r) : r[i] \in added
    /\ \A t \in added : \E i \in 1..Len(r) : r[i] = t
    /\ \A i, j \in 1..Len(r) : r[i] = r[j] => i = j
    /\ current_thread = IF Len(r) = 0 THEN NULL ELSE r[1]
    /\ \A i \in 1..Len(r) : next[r[i]] = After(r, i) /\ previous[After(r, i)] = r[i]

\* The tasks below and above the i-th one from the top.
Below(s, i) == IF i = Len(s) THEN NULL ELSE s[i + 1]
Above(s, i) == IF i = 1 THEN NULL ELSE s[i - 1]

\* s has the tasks of t, from the top.
StackIs(t, s) ==
    /\ top[t] = Below(s, 0)
    /\ \A i \in 1..Len(s) : prev[s[i]] = Below(s, i) /\ nxt[s[i]] = Above(s, i)

\* st has the tasks of every thread; each that is allocated is in one place.
StacksAre(st) ==
    /\ st \in [Thread -> Seq(Task)]
    /\ \A t \in Thread : IF t \in live THEN StackIs(t, st[t]) ELSE st[t] = <<>>
    /\ \A k \in Task : k \in live <=> \E t \in Thread : \E i \in 1..Len(st[t]) : st[t][i] = k
    /\ \A t, u \in Thread : \A i \in 1..Len(st[t]), j \in 1..Len(st[u]) :
         st[t][i] = st[u][j] => t = u /\ i = j

\* The function that runs is the one of the current thread or task; another that
\* has begun has its own context.
OwnContexts(st) ==
    /\ running # NULL =>
         /\ current_thread # NULL /\ running = YieldEnv
         /\ current_task # NULL =>
              \E i \in 1..Len(st[current_thread]) : st[current_thread][i] = current_task
    /\ \A n \in live : buf_set[n] /\ n # running => env[n] = n

Lists(r, st) == Pointers /\ RingIs(r) /\ StacksAre(st) /\ OwnContexts(st)

Threads1Inv == \E r \in Seq(Thread), st \in [Thread -> Seq(Task)] : Lists(r, st)

-----------------------------------------------------------------------------
(***************************************************************************)
(* MP1: what the pointers lead to                                          *)
(***************************************************************************)

IsChain(a, f, m, g) ==
    g = [n \in 1..m |-> IF n = 1 THEN a ELSE IF g[n - 1] = NULL THEN NULL ELSE f[g[n - 1]]]

\* Following pointers comes to an end.
LEMMA ChainExists ==
    ASSUME NEW a, NEW f, NEW n \in Nat
    PROVE  \E g : IsChain(a, f, n, g)
  <1> DEFINE Bad == {m \in Nat : ~\E g : IsChain(a, f, m, g)}
  <1>1. SUFFICES ASSUME Bad # {} PROVE FALSE
    OBVIOUS
  <1>2. PICK m \in Bad : \A y \in Bad : m <= y
    BY <1>1, LeastElement
  <1>3. CASE m = 0
    <2>1. IsChain(a, f, 0, [i \in 1..0 |-> a])
      BY DEF IsChain
    <2> QED
      BY <1>2, <1>3, <2>1
  <1>4. CASE m > 0
    <2>1. m - 1 \in Nat /\ m - 1 \notin Bad
      BY <1>2, <1>4
    <2>2. PICK h : IsChain(a, f, m - 1, h)
      BY <2>1
    <2> DEFINE last == IF m = 1 THEN a ELSE IF h[m - 1] = NULL THEN NULL ELSE f[h[m - 1]]
               g == [i \in 1..m |-> IF i = m THEN last ELSE h[i]]
    <2>3. ASSUME NEW i \in 1..m
          PROVE  g[i] = IF i = 1 THEN a ELSE IF g[i - 1] = NULL THEN NULL ELSE f[g[i - 1]]
      <3>1. CASE i = m
        <4>1. i # 1 => i - 1 \in 1..m /\ i - 1 # m /\ g[i - 1] = h[m - 1]
          BY <1>2, <1>4, <3>1
        <4> QED
          BY <3>1, <4>1
      <3>2. CASE i < m
        <4>1. i \in 1..m - 1 /\ (i # 1 => i - 1 \in 1..m - 1) /\ g[i] = h[i]
              /\ (i # 1 => g[i - 1] = h[i - 1])
          BY <1>2, <3>2
        <4> QED
          BY <2>2, <4>1 DEF IsChain
      <3> QED
        BY <1>2, <3>1, <3>2
    <2>4. IsChain(a, f, m, g)
      BY <2>3 DEF IsChain
    <2> QED
      BY <1>2, <2>4
  <1> QED
    BY <1>2, <1>3, <1>4

\* The nodes of a chain, one after the other.
LEMMA ChainStep ==
    ASSUME NEW a, NEW f, NEW m \in Nat, NEW n \in 1..m
    PROVE  Chain(a, f, m)[n] = IF n = 1 THEN a
                               ELSE IF Chain(a, f, m)[n - 1] = NULL THEN NULL
                                    ELSE f[Chain(a, f, m)[n - 1]]
  <1>1. Chain(a, f, m) = CHOOSE g : IsChain(a, f, m, g)
    BY DEF Chain, IsChain
  <1>2. IsChain(a, f, m, Chain(a, f, m))
    BY <1>1, ChainExists
  <1> HIDE DEF Chain
  <1> QED
    BY <1>2 DEF IsChain

\* A chain whose pointers lead through s has s.
LEMMA ChainHas ==
    ASSUME NEW X, NULL \notin X, NEW s \in Seq(X), NEW a, NEW f, NEW m \in Nat, Len(s) <= m,
           Len(s) # 0 => a = s[1],
           \A i \in 1..Len(s) - 1 : f[s[i]] = s[i + 1]
    PROVE  \A n \in 1..Len(s) : Chain(a, f, m)[n] = s[n]
  <1> DEFINE c == Chain(a, f, m)
             Bad == {n \in Nat : n \in 1..Len(s) /\ c[n] # s[n]}
  <1> HIDE DEF c
  <1>0. Len(s) \in Nat /\ \A i \in 1..Len(s) : s[i] \in X
    OBVIOUS
  <1>1. SUFFICES ASSUME Bad # {} PROVE FALSE
    BY <1>0 DEF c
  <1>2. PICK n \in Bad : \A y \in Bad : n <= y
    BY <1>1, LeastElement
  <1>3. n \in 1..m /\ n \in 1..Len(s)
    BY <1>0, <1>2
  <1>4. c[n] = IF n = 1 THEN a ELSE IF c[n - 1] = NULL THEN NULL ELSE f[c[n - 1]]
    BY <1>3, ChainStep DEF c
  <1>5. CASE n = 1
    BY <1>2, <1>3, <1>4, <1>5
  <1>6. CASE n # 1
    <2>1. n - 1 \in 1..Len(s) - 1 /\ n - 1 \in 1..Len(s) /\ ~(n <= n - 1) /\ n - 1 \in Nat
      BY <1>0, <1>3, <1>6
    <2>2. c[n - 1] = s[n - 1]
      BY <1>2, <2>1
    <2>3. c[n - 1] # NULL /\ f[s[n - 1]] = s[n]
      BY <1>0, <1>3, <2>1, <2>2
    <2> QED
      BY <1>2, <1>4, <1>6, <2>2, <2>3
  <1> QED
    BY <1>5, <1>6

\* Behind NULL there is nothing.
LEMMA ChainEnds ==
    ASSUME NEW X, NULL \notin X, NEW s \in Seq(X), NEW a, NEW f, NEW m \in Nat, Len(s) <= m,
           a = Below(s, 0),
           \A i \in 1..Len(s) : f[s[i]] = Below(s, i)
    PROVE  \A n \in 1..m : Chain(a, f, m)[n] = IF n <= Len(s) THEN s[n] ELSE NULL
  <1> DEFINE c == Chain(a, f, m)
             Bad == {n \in Nat : n \in Len(s) + 1..m /\ c[n] # NULL}
  <1>0. Len(s) \in Nat /\ \A i \in 1..Len(s) : s[i] \in X
    OBVIOUS
  <1>1. \A n \in 1..Len(s) : c[n] = s[n]
    <2>1. Len(s) # 0 => a = s[1]
      BY <1>0 DEF Below
    <2>2. \A i \in 1..Len(s) - 1 : f[s[i]] = s[i + 1]
      BY <1>0 DEF Below
    <2> QED
      BY <2>1, <2>2, ChainHas
  <1> HIDE DEF c
  <1>2. Bad = {}
    <2> SUFFICES ASSUME Bad # {} PROVE FALSE
      OBVIOUS
    <2>1. PICK n \in Bad : \A y \in Bad : n <= y
      BY LeastElement
    <2>2. n \in 1..m /\ n \in Len(s) + 1..m /\ c[n] # NULL
      BY <1>0, <2>1
    <2>3. c[n] = IF n = 1 THEN a ELSE IF c[n - 1] = NULL THEN NULL ELSE f[c[n - 1]]
      BY <2>2, ChainStep DEF c
    <2>4. CASE n = 1
      BY <1>0, <2>2, <2>3, <2>4 DEF Below
    <2>5. CASE n # 1 /\ n - 1 = Len(s)
      <3>1. n - 1 \in 1..Len(s)
        BY <1>0, <2>2, <2>5
      <3>2. f[c[n - 1]] = NULL
        BY <1>1, <2>5, <3>1 DEF Below
      <3> QED
        BY <2>2, <2>3, <2>5, <3>2
    <2>6. CASE n # 1 /\ n - 1 # Len(s)
      <3>1. n - 1 \in Len(s) + 1..m /\ n - 1 \in Nat /\ ~(n <= n - 1)
        BY <1>0, <2>2, <2>6
      <3>2. c[n - 1] = NULL
        BY <2>1, <3>1
      <3> QED
        BY <2>2, <2>3, <2>6, <3>2
    <2> QED
      BY <2>4, <2>5, <2>6
  <1>3. ASSUME NEW n \in 1..m
        PROVE  c[n] = IF n <= Len(s) THEN s[n] ELSE NULL
    <2>1. CASE n <= Len(s)
      BY <1>0, <1>1, <2>1
    <2>2. CASE ~(n <= Len(s))
      <3>1. n \in Len(s) + 1..m /\ n \in Nat
        BY <1>0, <2>2
      <3> QED
        BY <1>2, <2>2, <3>1
    <2> QED
      BY <2>1, <2>2
  <1> QED
    BY <1>3 DEF c

\* A sequence without repetition of elements of a finite set is no longer than it.
LEMMA NoLonger ==
    ASSUME NEW S, IsFiniteSet(S), NEW s \in Seq(S),
           \A i, j \in 1..Len(s) : s[i] = s[j] => i = j
    PROVE  /\ Cardinality(S) \in Nat /\ Len(s) <= Cardinality(S)
           /\ (\A x \in S : \E i \in 1..Len(s) : s[i] = x) => Len(s) = Cardinality(S)
  <1>1. s \in [1..Len(s) -> S] /\ Len(s) \in Nat
    OBVIOUS
  <1>2. s \in Injection(1..Len(s), S)
    BY <1>1 DEF Injection, IsInjective
  <1>3. IsFiniteSet(1..Len(s)) /\ Cardinality(1..Len(s)) = Len(s)
    <2>1. 1 \in Int /\ Len(s) \in Int
      BY <1>1
    <2>2. Cardinality(1..Len(s)) = IF 1 > Len(s) THEN 0 ELSE Len(s) - 1 + 1
      BY <2>1, FS_Interval
    <2>3. IsFiniteSet(1..Len(s))
      BY <2>1, FS_Interval
    <2> QED
      BY <1>1, <2>2, <2>3
  <1>4. Cardinality(1..Len(s)) <= Cardinality(S)
        /\ (Cardinality(1..Len(s)) = Cardinality(S) <=> s \in Surjection(1..Len(s), S))
    BY <1>2, FS_Injection
  <1>5. (\A x \in S : \E i \in 1..Len(s) : s[i] = x) => s \in Surjection(1..Len(s), S)
    BY <1>1 DEF Surjection
  <1>6. Cardinality(S) \in Nat
    BY FS_CardinalityType
  <1> QED
    BY <1>3, <1>4, <1>5, <1>6

\* The ring is what following next from the current thread gives.
LEMMA RingFound ==
    ASSUME Pointers, NEW r \in Seq(Thread), RingIs(r)
    PROVE  Ring = r /\ Len(r) = Cardinality(added)
  <1>1. IsFiniteSet(Thread) /\ added \subseteq Thread /\ IsFiniteSet(added) /\ NULL \notin Thread
        /\ Cardinality(added) <= Cardinality(Thread)
        /\ Cardinality(added) \in Nat /\ Cardinality(Thread) \in Nat
    BY Threads1Assumption, FS_Subset, FS_CardinalityType DEF Pointers
  <1>2. r \in Seq(added)
    <2>1. r = [i \in 1..Len(r) |-> r[i]] /\ Len(r) \in Nat
      OBVIOUS
    <2> QED
      BY <2>1 DEF RingIs
  <1>3. Len(r) = Cardinality(added)
    BY <1>1, <1>2, NoLonger DEF RingIs
  <1> DEFINE m == Cardinality(Thread)
             c == Chain(current_thread, next, m)
  <1>4. \A n \in 1..Len(r) : c[n] = r[n]
    <2>1. Len(r) # 0 => current_thread = r[1]
      BY DEF RingIs
    <2>2. \A i \in 1..Len(r) - 1 : next[r[i]] = r[i + 1]
      BY DEF RingIs, After
    <2>3. Len(r) <= m /\ m \in Nat
      BY <1>1, <1>3
    <2> HIDE DEF m
    <2> QED
      BY <1>1, <2>1, <2>2, <2>3, ChainHas
  <1>5. Ring = [n \in 1..Len(r) |-> c[n]]
    BY <1>3 DEF Ring
  <1>6. r = [n \in 1..Len(r) |-> r[n]]
    OBVIOUS
  <1> HIDE DEF c
  <1>7. [n \in 1..Len(r) |-> c[n]] = [n \in 1..Len(r) |-> r[n]]
    BY <1>4
  <1> QED
    BY <1>3, <1>5, <1>6, <1>7

\* The places of a stack, found from its top.
LEMMA StackFound ==
    ASSUME NEW st, StacksAre(st), NEW t \in Thread \cap live
    PROVE  /\ Len(st[t]) <= Cardinality(Task) /\ Cardinality(Task) \in Nat
           /\ \A n \in 1..Cardinality(Task) :
                Stack(t)[n] = IF n <= Len(st[t]) THEN st[t][n] ELSE NULL
  <1> DEFINE s == st[t]
             m == Cardinality(Task)
  <1>1. s \in Seq(Task) /\ IsFiniteSet(Task) /\ NULL \notin Task
        /\ StackIs(t, s) /\ \A i, j \in 1..Len(s) : s[i] = s[j] => i = j
    BY Threads1Assumption DEF StacksAre
  <1> HIDE DEF s
  <1>2. Len(s) <= m /\ m \in Nat
    BY <1>1, NoLonger
  <1> HIDE DEF m
  <1>3. \A n \in 1..m : Chain(top[t], prev, m)[n] = IF n <= Len(s) THEN s[n] ELSE NULL
    BY <1>1, <1>2, ChainEnds DEF StackIs
  <1> QED
    BY <1>2, <1>3 DEF Stack, s, m

\* The tasks are what following prev from the top gives.
LEMMA TasksFound ==
    ASSUME NEW st, StacksAre(st), NEW t \in Thread \cap live
    PROVE  Tasks(t) = st[t] /\ StackOf(t) = {st[t][i] : i \in 1..Len(st[t])}
  <1> DEFINE s == st[t]
             m == Cardinality(Task)
  <1>1. s \in Seq(Task) /\ NULL \notin Task
    BY Threads1Assumption DEF StacksAre
  <1>2. Len(s) <= m /\ m \in Nat /\ Len(s) \in Nat
        /\ \A n \in 1..m : Stack(t)[n] = IF n <= Len(s) THEN s[n] ELSE NULL
    BY <1>1, StackFound
  <1>3. \A i \in 1..Len(s) : s[i] \in Task
    BY <1>1
  <1>4. s = [n \in 1..Len(s) |-> s[n]]
    BY <1>1
  <1> HIDE DEF s
  <1>5. {d \in 1..m : Stack(t)[d] # NULL} = 1..Len(s)
    BY <1>1, <1>2, <1>3
  <1>6. Cardinality(1..Len(s)) = Len(s)
    <2>1. 1 \in Int /\ Len(s) \in Int
      BY <1>2
    <2>2. Cardinality(1..Len(s)) = IF 1 > Len(s) THEN 0 ELSE Len(s) - 1 + 1
      BY <2>1, FS_Interval
    <2> QED
      BY <1>2, <2>2
  <1>7. Tasks(t) = [n \in 1..Len(s) |-> Stack(t)[n]]
    BY <1>5, <1>6 DEF Tasks
  <1>8. [n \in 1..Len(s) |-> Stack(t)[n]] = [n \in 1..Len(s) |-> s[n]]
    BY <1>2
  <1>9. StackOf(t) = {s[i] : i \in 1..Len(s)}
    <2>1. StackOf(t) = {Stack(t)[n] : n \in 1..m} \ {NULL}
      BY DEF StackOf
    <2>2. ASSUME NEW x \in StackOf(t)
          PROVE  x \in {s[i] : i \in 1..Len(s)}
      <3>1. PICK n \in 1..m : x = Stack(t)[n] /\ x # NULL
        BY <2>1
      <3> QED
        BY <1>2, <3>1
    <2>3. ASSUME NEW i \in 1..Len(s)
          PROVE  s[i] \in StackOf(t)
      BY <1>1, <1>2, <1>3, <2>1
    <2> QED
      BY <2>2, <2>3
  <1> QED
    BY <1>4, <1>7, <1>8, <1>9 DEF s

\* What the refinement mapping makes of the pointers.
LEMMA Found ==
    \A r, st : Lists(r, st) => Ring = r /\ TasksOf = st
  <1> SUFFICES ASSUME NEW r, NEW st, Lists(r, st)
               PROVE  Ring = r /\ TasksOf = st
    OBVIOUS
  <1>1. Ring = r
    BY RingFound DEF Lists, RingIs
  <1>2. \A t \in Thread : (IF t \in live THEN Tasks(t) ELSE <<>>) = st[t]
    BY TasksFound DEF Lists, StacksAre
  <1>3. st = [t \in Thread |-> st[t]]
    BY DEF Lists, StacksAre
  <1> QED
    BY <1>1, <1>2, <1>3 DEF TasksOf

\* The lists are whole.
LEMMA WholeLists ==
    ASSUME NEW r, NEW st, Lists(r, st)
    PROVE  ListsWhole
  <1>1. Ring = r /\ \A t \in Thread \cap live : Tasks(t) = st[t]
    BY RingFound, TasksFound DEF Lists, RingIs
  <1>2. added \subseteq live \cap Thread
    BY DEF Lists, Pointers
  <1>3. current_thread \in added \/ (added = {} /\ current_thread = NULL)
    BY DEF Lists, RingIs
  <1>4. Items(Ring) = added
    <2>1. DOMAIN r = 1..Len(r)
      BY DEF Lists, RingIs
    <2> QED
      BY <1>1, <2>1 DEF Lists, RingIs, Items
  <1>5. \A t \in added : next[t] \in added /\ previous[next[t]] = t
    <2> SUFFICES ASSUME NEW t \in added PROVE next[t] \in added /\ previous[next[t]] = t
      OBVIOUS
    <2>1. PICK i \in 1..Len(r) : r[i] = t
      BY DEF Lists, RingIs
    <2>2. After(r, i) \in added
      BY <2>1 DEF Lists, RingIs, After
    <2> QED
      BY <2>1, <2>2 DEF Lists, RingIs
  <1>6. ASSUME NEW t \in Thread \cap live
        PROVE  /\ Tasks(t) \in Seq(Task) /\ StackIs(t, Tasks(t))
    BY <1>1 DEF Lists, StacksAre
  <1>7. ASSUME NEW t \in Thread \cap live
        PROVE  /\ top[t] # NULL => nxt[top[t]] = NULL
               /\ \A n \in 2..Len(Tasks(t)) : nxt[Tasks(t)[n]] = Tasks(t)[n-1]
    <2> DEFINE s == Tasks(t)
    <2>1. s \in Seq(Task) /\ StackIs(t, s) /\ Len(s) \in Nat
      BY <1>6
    <2> HIDE DEF s
    <2> QED
      BY <2>1 DEF StackIs, Below, Above, s
  <1>8. ASSUME NEW t \in Thread \cap live, NEW k
        PROVE  k \in Items(Tasks(t)) <=> \E i \in 1..Len(st[t]) : st[t][i] = k
    <2>1. st[t] \in Seq(Task) /\ DOMAIN st[t] = 1..Len(st[t])
      BY DEF Lists, StacksAre
    <2> QED
      BY <1>1, <2>1 DEF Items
  <1>9. \A t \in Thread \ live : Len(st[t]) = 0
    BY DEF Lists, StacksAre
  <1>10. \A k \in Task : k \in live <=> \E t \in live \cap Thread : k \in Items(Tasks(t))
    <2> TAKE k \in Task
    <2>1. k \in live <=> \E t \in Thread : \E i \in 1..Len(st[t]) : st[t][i] = k
      BY DEF Lists, StacksAre
    <2>2. \A t \in Thread \ live : ~\E i \in 1..Len(st[t]) : st[t][i] = k
      BY <1>9
    <2> QED
      BY <1>8, <2>1, <2>2
  <1>11. \A t, u \in live \cap Thread : t # u => Items(Tasks(t)) \cap Items(Tasks(u)) = {}
    <2> SUFFICES ASSUME NEW t \in live \cap Thread, NEW u \in live \cap Thread, NEW k,
                        k \in Items(Tasks(t)), k \in Items(Tasks(u))
                 PROVE  t = u
      OBVIOUS
    <2>1. PICK i \in 1..Len(st[t]) : st[t][i] = k
      BY <1>8
    <2>2. PICK j \in 1..Len(st[u]) : st[u][j] = k
      BY <1>8
    <2> QED
      BY <2>1, <2>2 DEF Lists, StacksAre
  <1>12. running # NULL => running = YieldEnv /\ running \in live
    <2> SUFFICES ASSUME running # NULL PROVE running \in live /\ running = YieldEnv
      OBVIOUS
    <2>1. running = YieldEnv /\ current_thread \in added
      BY <1>3 DEF Lists, OwnContexts
    <2>2. CASE current_task = NULL
      BY <1>2, <2>1, <2>2 DEF YieldEnv
    <2>3. CASE current_task # NULL
      <3>1. current_task \in live
        BY <1>2, <2>1, <2>3 DEF Lists, OwnContexts, StacksAre, Pointers
      <3> QED
        BY <2>1, <2>3, <3>1 DEF YieldEnv
    <2> QED
      BY <2>1, <2>2, <2>3
  <1>13. \A t \in live \cap Thread :
           /\ top[t] # NULL => nxt[top[t]] = NULL
           /\ \A n \in 2..Len(Tasks(t)) : nxt[Tasks(t)[n]] = Tasks(t)[n-1]
    BY <1>7
  <1> QED
    BY <1>2, <1>3, <1>4, <1>5, <1>10, <1>11, <1>12, <1>13 DEF ListsWhole

-----------------------------------------------------------------------------
(***************************************************************************)
(* MP1: the steps                                                          *)
(***************************************************************************)

\* Constants of the module.
LEMMA Kinds == Thread \cap Task = {} /\ NULL \notin Thread /\ NULL \notin Task
               /\ Node = Thread \cup Task
  BY Threads1Assumption DEF Node

\* The top of a stack.
LEMMA TopOf ==
    ASSUME NEW s \in Seq(Task)
    PROVE  /\ Below(s, 0) = IF s = <<>> THEN NULL ELSE s[1]
           /\ s # <<>> => 1 \in 1..Len(s) /\ s[1] \in Task
  BY DEF Below

\* dispatch() runs the task on top, or the thread, each in its own context.
LEMMA Dispatched ==
    ASSUME NEW t \in Thread, NEW k, NEW saved \in [Node -> Node \cup {NULL}],
           buf_set \in [Node -> BOOLEAN], Dispatch(t, k, saved), current_thread' = t,
           live' \subseteq Node, t \in live', k = top'[t],
           NEW st, StacksAre(st)',
           \A m \in live' : buf_set[m] => saved[m] = m
    PROVE  /\ OwnContexts(st)'
           /\ current_task' \in Task \cup {NULL} /\ running' \in Node
           /\ buf_set' \in [Node -> BOOLEAN] /\ env' \in [Node -> Node \cup {NULL}]
           /\ running' = IF st[t] = <<>> THEN t ELSE st[t][1]
  <1> DEFINE n == IF k = NULL THEN t ELSE k
  <1>1. /\ current_task' = k
        /\ running' = IF buf_set[n] THEN saved[n] ELSE n
        /\ buf_set' = [buf_set EXCEPT ![n] = TRUE]
        /\ env' = [saved EXCEPT ![n] = NULL]
    BY DEF Dispatch
  <1>2. st[t] \in Seq(Task) /\ k = Below(st[t], 0)
    BY DEF StacksAre, StackIs
  <1>3. k = (IF st[t] = <<>> THEN NULL ELSE st[t][1])
        /\ (st[t] # <<>> => 1 \in 1..Len(st[t]) /\ st[t][1] \in Task)
    BY <1>2, TopOf
  <1>4. k # NULL => k \in Task /\ k \in live' /\ \E i \in 1..Len(st[t]) : st[t][i] = k
    BY <1>3 DEF StacksAre
  <1>5. n \in live' /\ n \in Node /\ n # NULL /\ (k = NULL <=> st[t] = <<>>)
    BY <1>3, <1>4, Kinds
  <1>6. running' = n
    BY <1>1, <1>5
  <1>7. running' = YieldEnv'
    BY <1>1, <1>6 DEF YieldEnv
  <1>8. \A m \in live' : buf_set'[m] /\ m # running' => env'[m] = m
    BY <1>1, <1>6
  <1>9. current_thread' # NULL
    BY Kinds
  <1>10. OwnContexts(st)'
    BY <1>1, <1>4, <1>7, <1>8, <1>9 DEF OwnContexts
  <1>11. buf_set' \in [Node -> BOOLEAN] /\ env' \in [Node -> Node \cup {NULL}]
    BY <1>1
  <1> QED
    BY <1>1, <1>3, <1>4, <1>5, <1>6, <1>10, <1>11

\* thread_create(): a thread without tasks, in no ring.
LEMMA CreateStep ==
    ASSUME NEW r, NEW st, Lists(r, st), NEW t \in Thread, ThreadCreate(t)
    PROVE  Lists(r, st)'
  <1>1. /\ t \notin live /\ live' = live \cup {t}
        /\ buf_set' = [buf_set EXCEPT ![t] = FALSE] /\ top' = [top EXCEPT ![t] = NULL]
        /\ UNCHANGED <<current_thread, next, previous, added, prev, nxt, current_task, env,
                       running>>
    BY DEF ThreadCreate, ringVars
  <1>2. Pointers'
    BY <1>1, Kinds DEF Lists, Pointers
  <1>3. RingIs(r)'
    BY <1>1 DEF Lists, RingIs, After
  <1>4. StacksAre(st)'
    <2>1. st[t] = <<>> /\ t \notin Task
      BY <1>1, Kinds DEF Lists, StacksAre
    <2>2. StackIs(t, <<>>)'
      BY <1>1 DEF StackIs, Below, Lists, Pointers
    <2>3. \A u \in Thread : u # t => top'[u] = top[u] /\ (u \in live' <=> u \in live)
      BY <1>1 DEF Lists, Pointers
    <2>4. \A u \in Thread : IF u \in live' THEN StackIs(u, st[u])' ELSE st[u] = <<>>
      BY <1>1, <2>1, <2>2, <2>3 DEF Lists, StacksAre, StackIs
    <2>5. \A k \in Task : k \in live' <=> k \in live
      BY <1>1, <2>1
    <2> QED
      BY <2>4, <2>5 DEF Lists, StacksAre
  <1>5. OwnContexts(st)'
    <2>1. \A m \in live' : IF m = t THEN ~buf_set'[m] ELSE m \in live /\ buf_set'[m] = buf_set[m]
      BY <1>1, Kinds DEF Lists, Pointers
    <2>2. \A m \in live' : buf_set'[m] /\ m # running' => env'[m] = m
      BY <1>1, <2>1 DEF Lists, OwnContexts
    <2> QED
      BY <1>1, <2>2 DEF Lists, OwnContexts, YieldEnv
  <1> QED
    BY <1>2, <1>3, <1>4, <1>5 DEF Lists

\* thread_add_runqueue(): the thread comes last.
LEMMA AddStep ==
    ASSUME NEW r, NEW st, Lists(r, st), NEW t \in Thread, AddRunqueue(t)
    PROVE  /\ Lists(Append(r, t), st)' /\ running' = running
           /\ \A i \in 1..Len(r) : r[i] # t
  <1> DEFINE q == Append(r, t)
             n == Len(r)
  <1>1. /\ t \in live \ added /\ added' = added \cup {t}
        /\ UNCHANGED <<top, prev, nxt, current_task, buf_set, env, running, live>>
    BY DEF AddRunqueue, stackVars, runVars
  <1>2. r \in Seq(Thread) /\ n \in Nat /\ \A i \in 1..n : r[i] \in Thread
    BY DEF Lists, RingIs
  <1>3. /\ q \in Seq(Thread) /\ Len(q) = n + 1 /\ q[n + 1] = t
        /\ \A i \in 1..n : q[i] = r[i]
    BY <1>2
  <1> HIDE DEF q, n
  <1>4. /\ \A i \in 1..n : r[i] \in added
        /\ \A u \in added : \E i \in 1..n : r[i] = u
        /\ \A i, j \in 1..n : r[i] = r[j] => i = j
        /\ current_thread = IF n = 0 THEN NULL ELSE r[1]
        /\ \A i \in 1..n : next[r[i]] = After(r, i) /\ previous[After(r, i)] = r[i]
    BY DEF Lists, RingIs, n
  <1>5. \A i \in 1..n : r[i] # t
    BY <1>1, <1>4
  <1>6. /\ \A i \in 1..Len(q) : q[i] \in added'
        /\ \A u \in added' : \E i \in 1..Len(q) : q[i] = u
        /\ \A i, j \in 1..Len(q) : q[i] = q[j] => i = j
    <2>1. ASSUME NEW i \in 1..Len(q) PROVE q[i] \in added'
      <3>1. i = n + 1 \/ i \in 1..n
        BY <1>2, <1>3
      <3>2. CASE i \in 1..n
        BY <1>1, <1>3, <1>4, <3>2
      <3>3. CASE i = n + 1
        BY <1>1, <1>3, <3>3
      <3> QED
        BY <3>1, <3>2, <3>3
    <2>2. ASSUME NEW u \in added' PROVE \E i \in 1..Len(q) : q[i] = u
      <3>1. CASE u = t
        BY <1>2, <1>3, <3>1
      <3>2. CASE u # t
        <4>1. PICK i \in 1..n : r[i] = u
          BY <1>1, <1>4, <3>2
        <4>2. i \in 1..Len(q) /\ q[i] = u
          BY <1>2, <1>3, <4>1
        <4> QED
          BY <4>2
      <3> QED
        BY <3>1, <3>2
    <2>3. ASSUME NEW i \in 1..Len(q), NEW j \in 1..Len(q), q[i] = q[j] PROVE i = j
      BY <1>2, <1>3, <1>4, <1>5, <2>3
    <2> QED
      BY <2>1, <2>2, <2>3
  <1>7. Pointers' /\ RingIs(q)'
    <2>1. CASE n = 0
      <3>1. current_thread = NULL
        BY <1>4, <2>1
      <3>2. current_thread' = t /\ next' = [next EXCEPT ![t] = t]
            /\ previous' = [previous EXCEPT ![t] = t]
        BY <3>1 DEF AddRunqueue
      <3>3. Pointers'
        BY <1>1, <3>2 DEF Lists, Pointers
      <3>4. next'[t] = t /\ previous'[t] = t
        BY <3>2 DEF Lists, Pointers
      <3>5. \A i \in 1..Len(q) : i = 1 /\ q[i] = t /\ After(q, i) = t
        BY <1>3, <2>1 DEF After
      <3>6. Len(q) # 0 /\ q[1] = t
        BY <1>3, <2>1
      <3> QED
        BY <1>3, <1>6, <3>2, <3>3, <3>4, <3>5, <3>6 DEF RingIs
    <2>2. CASE n # 0
      <3>1. n \in 1..n /\ 1 \in 1..n /\ current_thread = r[1] /\ r[1] # NULL
        BY <1>2, <1>4, <2>2, Kinds
      <3>2. previous[current_thread] = r[n]
        BY <1>4, <3>1 DEF After, n
      <3>3. /\ next' = [next EXCEPT ![r[n]] = t, ![t] = r[1]]
            /\ previous' = [previous EXCEPT ![t] = r[n], ![r[1]] = t]
            /\ current_thread' = current_thread
        BY <3>1, <3>2 DEF AddRunqueue
      <3>4. Pointers'
        BY <1>1, <1>2, <3>1, <3>3 DEF Lists, Pointers
      <3>5. \A u \in Thread : /\ next'[u] = IF u = t THEN r[1] ELSE IF u = r[n] THEN t ELSE next[u]
                              /\ previous'[u] = IF u = r[1] THEN t
                                                  ELSE IF u = t THEN r[n] ELSE previous[u]
        BY <1>2, <1>5, <3>1, <3>3 DEF Lists, Pointers
      <3>6. ASSUME NEW i \in 1..Len(q)
            PROVE  next'[q[i]] = After(q, i) /\ previous'[After(q, i)] = q[i]
        <4>1. CASE i = n + 1
          <5>1. q[i] = t /\ After(q, i) = r[1]
            BY <1>3, <3>1, <4>1 DEF After
          <5> QED
            BY <1>2, <3>1, <3>5, <5>1
        <4>2. CASE i = n
          <5>1. q[i] = r[n] /\ After(q, i) = t
            BY <1>2, <1>3, <3>1, <4>2 DEF After
          <5> QED
            BY <1>2, <1>5, <3>1, <3>5, <5>1
        <4>3. CASE i < n
          <5>1. i \in 1..n /\ i + 1 \in 1..n /\ i # n /\ i # n + 1
            BY <1>2, <1>3, <4>3
          <5>2. q[i] = r[i] /\ After(q, i) = r[i + 1] /\ After(r, i) = r[i + 1]
            BY <1>3, <5>1 DEF After, n
          <5>3. r[i] # r[n] /\ r[i + 1] # r[1]
            BY <1>4, <3>1, <5>1
          <5> QED
            BY <1>2, <1>4, <1>5, <3>5, <5>1, <5>2, <5>3
        <4> QED
          BY <1>2, <1>3, <4>1, <4>2, <4>3
      <3>7. current_thread' = IF Len(q) = 0 THEN NULL ELSE q[1]
        BY <1>2, <1>3, <3>1, <3>3
      <3> QED
        BY <1>3, <1>6, <3>4, <3>6, <3>7 DEF RingIs
    <2> QED
      BY <2>1, <2>2
  <1>8. StacksAre(st)'
    BY <1>1 DEF Lists, StacksAre, StackIs
  <1>9. OwnContexts(st)'
    <2>1. running # NULL => current_thread' = current_thread
      BY DEF Lists, OwnContexts, AddRunqueue
    <2> QED
      BY <1>1, <2>1 DEF Lists, OwnContexts, YieldEnv
  <1> QED
    BY <1>1, <1>5, <1>7, <1>8, <1>9 DEF Lists, q, n

\* thread_assign_task(): the task comes on top.
LEMMA AssignStep ==
    ASSUME NEW r, NEW st, Lists(r, st), NEW t \in Thread, NEW k \in Task, AssignTask(t, k)
    PROVE  /\ Lists(r, [st EXCEPT ![t] = <<k>> \o @])' /\ running' = running
           /\ \A u \in Thread : \A i \in 1..Len(st[u]) : st[u][i] # k
  <1> DEFINE s == st[t]
             n == Len(s)
             q == <<k>> \o s
             sq == [st EXCEPT ![t] = q]
  <1>1. /\ t \in live /\ k \notin live /\ live' = live \cup {k}
        /\ buf_set' = [buf_set EXCEPT ![k] = FALSE]
        /\ prev' = [prev EXCEPT ![k] = top[t]]
        /\ nxt' = [m \in Task |-> IF m = k THEN NULL ELSE IF m = top[t] THEN k ELSE nxt[m]]
        /\ top' = [top EXCEPT ![t] = k]
        /\ UNCHANGED <<current_thread, next, previous, added, current_task, env, running>>
    BY DEF AssignTask, ringVars
  <1>2. s \in Seq(Task) /\ n \in Nat /\ \A i \in 1..n : s[i] \in Task
    BY DEF Lists, StacksAre
  <1>3. /\ q \in Seq(Task) /\ Len(q) = n + 1 /\ q[1] = k
        /\ \A i \in 1..n : q[i + 1] = s[i]
        /\ \A i \in 1..Len(q) : i = 1 \/ (i - 1 \in 1..n /\ q[i] = s[i - 1])
    <2>1. <<k>> \in Seq(Task) /\ Len(<<k>>) = 1 /\ <<k>>[1] = k
      OBVIOUS
    <2>2. /\ q \in Seq(Task) /\ Len(q) = 1 + n
          /\ \A i \in 1..1 + n : q[i] = IF i <= 1 THEN <<k>>[i] ELSE s[i - 1]
      BY <1>2, <2>1, ConcatProperties
    <2> HIDE DEF q, s, n
    <2>3. ASSUME NEW i \in 1..n PROVE q[i + 1] = s[i]
      BY <1>2, <2>2
    <2> QED
      BY <1>2, <2>1, <2>2, <2>3
  <1>4. \A u \in Thread : \A i \in 1..Len(st[u]) : st[u][i] # k
    BY <1>1 DEF Lists, StacksAre
  <1>5. /\ sq \in [Thread -> Seq(Task)] /\ sq[t] = q
        /\ \A u \in Thread : u # t => sq[u] = st[u]
    BY <1>3 DEF Lists, StacksAre
  <1>5a. \A i \in 1..n : s[i] # k
    BY <1>4
  <1>5b. StackIs(t, s)
    BY <1>1 DEF Lists, StacksAre
  <1>5c. /\ \A i, j \in 1..n : s[i] = s[j] => i = j
         /\ \A u \in Thread : u # t => \A i \in 1..n, j \in 1..Len(st[u]) : s[i] # st[u][j]
    BY DEF Lists, StacksAre
  <1> HIDE DEF s, q, n
  <1>6. Pointers'
    <2>1. top[t] \in Task \cup {NULL}
      BY DEF Lists, Pointers
    <2> QED
      BY <1>1, <2>1, Kinds DEF Lists, Pointers
  <1>7. RingIs(r)'
    BY <1>1 DEF Lists, RingIs, After
  <1>8. top[t] = (IF n = 0 THEN NULL ELSE s[1])
    BY <1>2, <1>5b DEF StackIs, Below, n
  <1>9. StackIs(t, q)'
    <2>1. top'[t] = Below(q, 0)
      BY <1>1, <1>2, <1>3 DEF Lists, Pointers, Below
    <2>2. ASSUME NEW i \in 1..Len(q)
          PROVE  prev'[q[i]] = Below(q, i) /\ nxt'[q[i]] = Above(q, i)
      <3>1. CASE i = 1
        <4>1. prev'[k] = top[t] /\ nxt'[k] = NULL
          BY <1>1 DEF Lists, Pointers
        <4>2. q[i] = k /\ Above(q, i) = NULL /\ Below(q, i) = top[t]
          <5>1. n # 0 => 1 \in 1..n /\ q[1 + 1] = s[1]
            BY <1>2, <1>3
          <5> QED
            BY <1>2, <1>3, <1>8, <3>1, <5>1 DEF Above, Below
        <4> QED
          BY <4>1, <4>2
      <3>2. CASE i # 1
        <4> DEFINE j == i - 1
        <4>1. j \in 1..n /\ i = j + 1 /\ q[i] = s[j]
          BY <1>2, <1>3, <3>2
        <4>2. prev[s[j]] = Below(s, j) /\ nxt[s[j]] = Above(s, j)
          BY <1>5b, <4>1 DEF StackIs, n
        <4>3. Below(q, i) = Below(s, j)
          <5>1. i # Len(q) => j + 1 \in 1..n /\ q[i + 1] = s[j + 1]
            BY <1>2, <1>3, <4>1
          <5>2. i = Len(q) <=> j = n
            BY <1>2, <1>3, <4>1
          <5> QED
            BY <5>1, <5>2 DEF Below, n
        <4>4. prev'[s[j]] = prev[s[j]]
          BY <1>1, <1>2, <1>5a, <4>1 DEF Lists, Pointers
        <4>5. nxt'[s[j]] = IF s[j] = top[t] THEN k ELSE nxt[s[j]]
          BY <1>1, <1>2, <1>5a, <4>1
        <4>6. s[j] = top[t] <=> j = 1
          <5>1. n # 0 /\ 1 \in 1..n
            BY <1>2, <4>1
          <5> QED
            BY <1>5c, <1>8, <4>1, <5>1
        <4>7. Above(q, i) = q[j]
          BY <3>2 DEF Above
        <4>8. CASE j = 1
          BY <1>3, <4>1, <4>2, <4>3, <4>4, <4>5, <4>6, <4>7, <4>8
        <4>9. CASE j # 1
          <5>1. j - 1 \in 1..n /\ j = (j - 1) + 1 /\ q[j] = s[j - 1] /\ Above(s, j) = s[j - 1]
            BY <1>2, <1>3, <4>1, <4>9 DEF Above
          <5> QED
            BY <4>1, <4>2, <4>3, <4>4, <4>5, <4>6, <4>7, <4>9, <5>1
        <4> QED
          BY <4>8, <4>9
      <3> QED
        BY <3>1, <3>2
    <2> QED
      BY <2>1, <2>2 DEF StackIs
  <1>10. ASSUME NEW u \in Thread, u # t, u \in live
         PROVE  StackIs(u, st[u])'
    <2>1. StackIs(u, st[u]) /\ st[u] \in Seq(Task) /\ \A i \in 1..Len(st[u]) : st[u][i] \in Task
      BY <1>10 DEF Lists, StacksAre
    <2>2. top'[u] = top[u]
      BY <1>1, <1>10 DEF Lists, Pointers
    <2>3. ASSUME NEW i \in 1..Len(st[u])
          PROVE  prev'[st[u][i]] = prev[st[u][i]] /\ nxt'[st[u][i]] = nxt[st[u][i]]
      <3>1. st[u][i] # k /\ st[u][i] \in Task
        BY <1>4, <2>1
      <3>2. st[u][i] # top[t]
        <4>1. n # 0 => 1 \in 1..n
          BY <1>2
        <4> QED
          BY <1>5c, <1>8, <1>10, <3>1, <4>1, Kinds
      <3> QED
        BY <1>1, <3>1, <3>2 DEF Lists, Pointers
    <2> QED
      BY <2>1, <2>2, <2>3 DEF StackIs
  <1>11. \A u \in Thread : u \in live' <=> u \in live
    BY <1>1, Kinds
  <1>12. StacksAre(sq)'
    <2>1. \A u \in Thread : IF u \in live' THEN StackIs(u, sq[u])' ELSE sq[u] = <<>>
      BY <1>1, <1>5, <1>9, <1>10, <1>11 DEF Lists, StacksAre
    <2>2. ASSUME NEW x \in Task
          PROVE  x \in live' <=> \E u \in Thread : \E i \in 1..Len(sq[u]) : sq[u][i] = x
      <3>1. x \in live <=> \E u \in Thread : \E i \in 1..Len(st[u]) : st[u][i] = x
        BY DEF Lists, StacksAre
      <3>2. (\E i \in 1..Len(q) : q[i] = x) <=> x = k \/ \E i \in 1..n : s[i] = x
        <4>1. ASSUME NEW i \in 1..n, s[i] = x PROVE \E j \in 1..Len(q) : q[j] = x
          <5>1. i + 1 \in 1..Len(q) /\ q[i + 1] = x
            BY <1>2, <1>3, <4>1
          <5> QED
            BY <5>1
        <4>2. 1 \in 1..Len(q)
          BY <1>2, <1>3
        <4> QED
          BY <1>3, <4>1, <4>2
      <3>3. (\E u \in Thread : \E i \in 1..Len(sq[u]) : sq[u][i] = x)
              <=> x = k \/ \E u \in Thread : \E i \in 1..Len(st[u]) : st[u][i] = x
        BY <1>5, <3>2 DEF s, n
      <3> QED
        BY <1>1, <3>1, <3>3
    <2>3. ASSUME NEW u \in Thread, NEW v \in Thread, NEW i \in 1..Len(sq[u]),
                 NEW j \in 1..Len(sq[v]), sq[u][i] = sq[v][j]
          PROVE  u = v /\ i = j
      <3>1. CASE u = t /\ v = t
        BY <1>2, <1>3, <1>5, <1>5a, <1>5c, <2>3, <3>1
      <3>2. CASE u = t /\ v # t
        BY <1>2, <1>3, <1>4, <1>5, <1>5c, <2>3, <3>2
      <3>3. CASE u # t /\ v = t
        BY <1>2, <1>3, <1>4, <1>5, <1>5c, <2>3, <3>3
      <3>4. CASE u # t /\ v # t
        BY <1>5, <2>3, <3>4 DEF Lists, StacksAre
      <3> QED
        BY <3>1, <3>2, <3>3, <3>4
    <2> QED
      BY <1>5, <2>1, <2>2, <2>3 DEF StacksAre
  <1>13. OwnContexts(sq)'
    <2>1. ASSUME running # NULL, current_task # NULL
          PROVE  \E i \in 1..Len(sq[current_thread]) : sq[current_thread][i] = current_task
      <3>1. current_thread \in Thread
        BY <2>1 DEF Lists, OwnContexts, Pointers
      <3>2. PICK i \in 1..Len(st[current_thread]) : st[current_thread][i] = current_task
        BY <2>1 DEF Lists, OwnContexts
      <3>3. CASE current_thread = t
        <4>1. i + 1 \in 1..Len(q) /\ q[i + 1] = current_task
          BY <1>2, <1>3, <3>2, <3>3 DEF s, n
        <4> QED
          BY <1>5, <3>3, <4>1
      <3>4. CASE current_thread # t
        BY <1>5, <3>1, <3>2, <3>4
      <3> QED
        BY <3>3, <3>4
    <2>2. \A m \in live' : buf_set'[m] /\ m # running' => env'[m] = m
      <3>1. \A m \in live' : IF m = k THEN ~buf_set'[m] ELSE m \in live /\ buf_set'[m] = buf_set[m]
        BY <1>1, Kinds DEF Lists, Pointers
      <3> QED
        BY <1>1, <3>1 DEF Lists, OwnContexts
    <2> QED
      BY <1>1, <2>1, <2>2 DEF Lists, OwnContexts, YieldEnv
  <1> HIDE DEF sq
  <1>14. Lists(r, sq)'
    BY <1>6, <1>7, <1>12, <1>13 DEF Lists
  <1> QED
    BY <1>1, <1>4, <1>14 DEF sq, q, s

\* thread_start_threading(): the head of the ring runs.
LEMMA StartStep ==
    ASSUME NEW r, NEW st, Lists(r, st), Start
    PROVE  /\ Lists(r, st)' /\ Len(r) # 0
           /\ running' = IF st[r[1]] = <<>> THEN r[1] ELSE st[r[1]][1]
  <1>1. /\ running = NULL /\ current_thread # NULL
        /\ Dispatch(current_thread, top[current_thread], env)
        /\ UNCHANGED <<current_thread, next, previous, added, top, prev, nxt, live>>
    BY DEF Start, ringVars, stackVars
  <1>2. current_thread = r[1] /\ Len(r) # 0 /\ current_thread \in added
    BY <1>1 DEF Lists, RingIs
  <1>3. current_thread \in Thread /\ current_thread \in live /\ live \subseteq Node
        /\ buf_set \in [Node -> BOOLEAN] /\ env \in [Node -> Node \cup {NULL}]
    BY <1>2 DEF Lists, Pointers
  <1>4. StacksAre(st)'
    BY <1>1 DEF Lists, StacksAre, StackIs
  <1>5. \A m \in live' : buf_set[m] => env[m] = m
    BY <1>1, <1>3, Kinds DEF Lists, OwnContexts
  <1>6. /\ OwnContexts(st)'
        /\ current_task' \in Task \cup {NULL} /\ running' \in Node
        /\ buf_set' \in [Node -> BOOLEAN] /\ env' \in [Node -> Node \cup {NULL}]
        /\ running' = IF st[current_thread] = <<>> THEN current_thread ELSE st[current_thread][1]
    BY <1>1, <1>3, <1>4, <1>5, Dispatched
  <1>7. Pointers'
    BY <1>1, <1>6 DEF Lists, Pointers
  <1>8. RingIs(r)'
    BY <1>1 DEF Lists, RingIs
  <1> QED
    BY <1>2, <1>4, <1>6, <1>7, <1>8 DEF Lists

\* thread_yield(): the head of the ring comes last, and the next one runs.
LEMMA YieldStep ==
    ASSUME NEW r, NEW st, Lists(r, st), ThreadYield
    PROVE  LET q == Append(Tail(r), Head(r)) IN
           /\ Lists(q, st)' /\ Len(r) # 0 /\ running # NULL
           /\ running' = IF st[q[1]] = <<>> THEN q[1] ELSE st[q[1]][1]
  <1> DEFINE q == Append(Tail(r), Head(r))
             n == Len(r)
             saved == [env EXCEPT ![YieldEnv] = running]
  <1>1. /\ running # NULL /\ current_thread' = next[current_thread]
        /\ Dispatch(current_thread', top[current_thread'], saved)
        /\ UNCHANGED <<next, previous, added, top, prev, nxt, live>>
    BY DEF ThreadYield, stackVars
  <1>2. current_thread = r[1] /\ n # 0 /\ n \in Nat /\ r \in Seq(Thread) /\ r # <<>>
        /\ \A i \in 1..n : r[i] \in Thread
    BY <1>1 DEF Lists, OwnContexts, RingIs
  <1>3. /\ q \in Seq(Thread) /\ Len(q) = n /\ q[n] = r[1]
        /\ \A i \in 1..n - 1 : q[i] = r[i + 1]
    <2>1. Tail(r) \in Seq(Thread) /\ Len(Tail(r)) = n - 1 /\ Head(r) = r[1]
          /\ \A i \in 1..n - 1 : Tail(r)[i] = r[i + 1]
      BY <1>2
    <2> DEFINE l == Tail(r)
    <2> HIDE DEF l, n
    <2>2. l \in Seq(Thread) /\ Head(r) \in Thread
      BY <1>2, <2>1 DEF l
    <2>3. /\ Append(l, Head(r)) \in Seq(Thread) /\ Len(Append(l, Head(r))) = Len(l) + 1
          /\ \A i \in 1..Len(l) : Append(l, Head(r))[i] = l[i]
          /\ Append(l, Head(r))[Len(l) + 1] = Head(r)
      BY <2>2, AppendProperties
    <2> QED
      BY <1>2, <2>1, <2>3 DEF l
  <1> HIDE DEF q, n
  <1>4. /\ \A i \in 1..n : r[i] \in added
        /\ \A u \in added : \E i \in 1..n : r[i] = u
        /\ \A i, j \in 1..n : r[i] = r[j] => i = j
        /\ \A i \in 1..n : next[r[i]] = After(r, i) /\ previous[After(r, i)] = r[i]
    BY DEF Lists, RingIs, n
  <1>4a. ASSUME NEW i \in 1..n
         PROVE  \E j \in 1..n : q[i] = r[j] /\ After(q, i) = After(r, j)
                                /\ j = IF i = n THEN 1 ELSE i + 1
    <2>1. CASE i = n
      <3>1. q[i] = r[1] /\ After(q, i) = q[1] /\ 1 \in 1..n
        BY <1>2, <1>3, <2>1 DEF After
      <3>2. q[1] = After(r, 1)
        <4>1. CASE n = 1
          BY <1>3, <4>1 DEF After, n
        <4>2. CASE n # 1
          <5>1. 1 \in 1..n - 1
            BY <1>2, <4>2
          <5> QED
            BY <1>3, <4>2, <5>1 DEF After, n
        <4> QED
          BY <4>1, <4>2
      <3> QED
        BY <2>1, <3>1, <3>2
    <2>2. CASE i # n
      <3>1. i \in 1..n - 1 /\ i + 1 \in 1..n
        BY <1>2, <2>2
      <3>2. q[i] = r[i + 1] /\ After(q, i) = q[i + 1]
        BY <1>3, <2>2, <3>1 DEF After
      <3>3. CASE i + 1 = n
        BY <1>3, <2>2, <3>1, <3>2, <3>3 DEF After, n
      <3>4. CASE i + 1 # n
        <4>1. i + 1 \in 1..n - 1
          BY <1>2, <3>1, <3>4
        <4> QED
          BY <1>3, <2>2, <3>1, <3>2, <3>4, <4>1 DEF After, n
      <3> QED
        BY <3>3, <3>4
    <2> QED
      BY <2>1, <2>2
  <1>5. current_thread' = q[1] /\ 1 \in 1..n
    <2>1. 1 \in 1..n /\ next[r[1]] = After(r, 1)
      BY <1>2, <1>4
    <2>2. CASE n = 1
      BY <1>1, <1>2, <1>3, <2>1, <2>2 DEF After, n
    <2>3. CASE n # 1
      <3>1. 1 \in 1..n - 1
        BY <1>2, <2>3
      <3> QED
        BY <1>1, <1>2, <1>3, <2>1, <2>3, <3>1 DEF After, n
    <2> QED
      BY <2>1, <2>2, <2>3
  <1>6. RingIs(q)'
    <2>1. \A i \in 1..n : q[i] \in added /\ next[q[i]] = After(q, i) /\ previous[After(q, i)] = q[i]
      BY <1>4, <1>4a
    <2>2. ASSUME NEW u \in added PROVE \E i \in 1..n : q[i] = u
      <3>1. PICK j \in 1..n : r[j] = u
        BY <1>4
      <3>2. CASE j = 1
        BY <1>2, <1>3, <3>1, <3>2
      <3>3. CASE j # 1
        <4>1. j - 1 \in 1..n - 1 /\ j - 1 \in 1..n /\ (j - 1) + 1 = j
          BY <1>2, <3>3
        <4> QED
          BY <1>3, <3>1, <4>1
      <3> QED
        BY <3>2, <3>3
    <2>3. ASSUME NEW i \in 1..n, NEW j \in 1..n, q[i] = q[j] PROVE i = j
      <3>1. PICK a \in 1..n : q[i] = r[a] /\ a = IF i = n THEN 1 ELSE i + 1
        BY <1>4a
      <3>2. PICK b \in 1..n : q[j] = r[b] /\ b = IF j = n THEN 1 ELSE j + 1
        BY <1>4a
      <3>2a. r[a] = r[b]
        BY <2>3, <3>1, <3>2
      <3>3. a = b
        BY <1>4, <3>2a
      <3> QED
        BY <1>2, <3>1, <3>2, <3>3
    <2> QED
      BY <1>1, <1>2, <1>3, <1>5, <2>1, <2>2, <2>3 DEF RingIs
  <1>7. current_thread' \in Thread /\ current_thread' \in live' /\ live' \subseteq Node
        /\ buf_set \in [Node -> BOOLEAN] /\ env \in [Node -> Node \cup {NULL}]
        /\ running \in Node \cup {NULL} /\ live' = live
    <2>1. q[1] \in Thread /\ q[1] \in added
      <3>1. PICK j \in 1..n : q[1] = r[j]
        BY <1>4a, <1>5
      <3> QED
        BY <1>2, <1>4, <3>1
    <2> QED
      BY <1>1, <1>5, <2>1 DEF Lists, Pointers
  <1>8. StacksAre(st)'
    BY <1>1 DEF Lists, StacksAre, StackIs
  <1>9. saved \in [Node -> Node \cup {NULL}] /\ \A m \in live' : buf_set[m] => saved[m] = m
    BY <1>1, <1>7 DEF Lists, OwnContexts
  <1>10. top[current_thread'] = top'[current_thread']
    BY <1>1
  <1> DEFINE t == current_thread'
  <1>11. /\ OwnContexts(st)'
         /\ current_task' \in Task \cup {NULL} /\ running' \in Node
         /\ buf_set' \in [Node -> BOOLEAN] /\ env' \in [Node -> Node \cup {NULL}]
         /\ running' = IF st[t] = <<>> THEN t ELSE st[t][1]
    <2>1. Dispatch(t, top[t], saved) /\ t \in Thread /\ t \in live' /\ top[t] = top'[t]
          /\ current_thread' = t
      BY <1>1, <1>7, <1>10
    <2> HIDE DEF t, saved
    <2> QED
      BY <1>7, <1>8, <1>9, <2>1, Dispatched
  <1>12. Pointers'
    BY <1>1, <1>7, <1>11 DEF Lists, Pointers
  <1>13. Lists(q, st)'
    BY <1>6, <1>8, <1>11, <1>12 DEF Lists
  <1> QED
    BY <1>1, <1>2, <1>5, <1>11, <1>13 DEF q, n

\* A sequence without its i-th element.
LEMMA Removed ==
    ASSUME NEW X, NEW s \in Seq(X), NEW i \in 1..Len(s), NEW q,
           q = SubSeq(s, 1, i - 1) \o SubSeq(s, i + 1, Len(s))
    PROVE  /\ q \in Seq(X) /\ Len(q) = Len(s) - 1
           /\ \A j \in 1..Len(q) : q[j] = IF j < i THEN s[j] ELSE s[j + 1]
  <1> DEFINE n == Len(s)
             l == SubSeq(s, 1, i - 1)
             r == SubSeq(s, i + 1, n)
  <1>1. n \in Nat /\ i \in 1..n /\ \A j \in 1..n : s[j] \in X
    OBVIOUS
  <1>2. l \in Seq(X) /\ Len(l) = i - 1 /\ \A j \in 1..i - 1 : l[j] = s[j]
    <2>1. 1 \in Int /\ i - 1 \in Int /\ \A j \in 1..i - 1 : s[j] \in X
      BY <1>1
    <2> HIDE DEF n
    <2>2. /\ l \in Seq(X)
          /\ Len(l) = IF 1 <= i - 1 THEN (i - 1) - 1 + 1 ELSE 0
          /\ \A j \in 1..(i - 1) - 1 + 1 : l[j] = s[1 + j - 1]
      BY <2>1, SubSeqProperties
    <2> HIDE DEF l
    <2>3. \A j \in 1..i - 1 : j \in 1..(i - 1) - 1 + 1 /\ 1 + j - 1 = j
      BY <1>1
    <2> QED
      BY <1>1, <2>2, <2>3
  <1>3. r \in Seq(X) /\ Len(r) = n - i /\ \A j \in 1..n - i : r[j] = s[i + j]
    <2>1. i + 1 \in Int /\ n \in Int /\ \A j \in i + 1..n : s[j] \in X
      BY <1>1
    <2> HIDE DEF n
    <2>2. /\ r \in Seq(X)
          /\ Len(r) = IF i + 1 <= n THEN n - (i + 1) + 1 ELSE 0
          /\ \A j \in 1..n - (i + 1) + 1 : r[j] = s[i + 1 + j - 1]
      BY <2>1, SubSeqProperties
    <2> HIDE DEF r
    <2>3. \A j \in 1..n - i : j \in 1..n - (i + 1) + 1 /\ i + 1 + j - 1 = i + j
      BY <1>1
    <2> QED
      BY <1>1, <2>2, <2>3
  <1> HIDE DEF n, l, r
  <1>4. /\ l \o r \in Seq(X) /\ Len(l \o r) = Len(l) + Len(r)
        /\ \A j \in 1..Len(l) + Len(r) :
             (l \o r)[j] = IF j <= Len(l) THEN l[j] ELSE r[j - Len(l)]
    BY <1>2, <1>3, ConcatProperties
  <1>5. q = l \o r
    BY DEF l, r, n
  <1>6. Len(q) = n - 1
    <2>1. i \in Nat /\ n \in Nat /\ (i - 1) + (n - i) = n - 1
      BY <1>1
    <2>2. Len(q) = Len(l) + Len(r)
      BY <1>4, <1>5
    <2> QED
      BY <1>2, <1>3, <2>1, <2>2
  <1>7. ASSUME NEW j \in 1..Len(q)
        PROVE  q[j] = IF j < i THEN s[j] ELSE s[j + 1]
    <2>1. j \in 1..Len(l) + Len(r) /\ j \in Nat
      BY <1>4, <1>5
    <2>2. CASE j < i
      <3>1. j <= Len(l) /\ j \in 1..i - 1
        BY <1>1, <1>2, <2>1, <2>2
      <3> QED
        BY <1>2, <1>4, <1>5, <2>1, <2>2, <3>1
    <2>3. CASE ~(j < i)
      <3>1. ~(j <= Len(l)) /\ j - Len(l) \in 1..n - i /\ i + (j - Len(l)) = j + 1
        BY <1>1, <1>2, <1>3, <2>1, <2>3
      <3> QED
        BY <1>3, <1>4, <1>5, <2>1, <2>3, <3>1
    <2> QED
      BY <2>2, <2>3
  <1>8. q \in Seq(X)
    BY <1>4, <1>5
  <1> QED
    BY <1>6, <1>7, <1>8 DEF n

\* task_exit(): the task leaves its stack, wherever it is in it, and the top of
\* what is left runs.
LEMMA TaskExitStep ==
    ASSUME NEW r, NEW st, Lists(r, st), TaskExit
    PROVE  /\ Len(r) # 0 /\ running \in Task
           /\ \E i \in 1..Len(st[r[1]]), q \in Seq(Task) :
                /\ st[r[1]][i] = running
                /\ q = SubSeq(st[r[1]], 1, i - 1) \o SubSeq(st[r[1]], i + 1, Len(st[r[1]]))
                /\ Lists(r, [st EXCEPT ![r[1]] = q])'
                /\ running' = IF q = <<>> THEN r[1] ELSE q[1]
  <1>0. PICK t, k : t = current_thread /\ k = current_task
    OBVIOUS
  <1> DEFINE s == st[t]
             n == Len(s)
  <1>1. running \in Task /\ running # NULL
    BY Kinds DEF TaskExit
  <1>2. /\ nxt' = Freed([m \in Task |-> IF m = prev[k] THEN nxt[k] ELSE nxt[m]], {k})
        /\ prev' = Freed(PrevWithout(k), {k})
        /\ top' = (IF top[t] = k THEN [top EXCEPT ![t] = prev[k]] ELSE top)
        /\ live' = live \ {k}
        /\ Dispatch(t, top'[t], Freed(env, {k}))
        /\ UNCHANGED <<current_thread, next, previous, added>>
    BY <1>0 DEF TaskExit, ringVars
  <1>3. /\ t = r[1] /\ Len(r) # 0 /\ t \in added /\ t \in Thread /\ t \in live
        /\ running = YieldEnv
    BY <1>0, <1>1 DEF Lists, OwnContexts, RingIs, Pointers
  <1>4. k # NULL /\ running = k /\ k \in Task
    BY <1>0, <1>1, <1>3, Kinds DEF YieldEnv
  <1>5. PICK i \in 1..n : s[i] = k
    BY <1>0, <1>1, <1>4 DEF Lists, OwnContexts
  <1>6. s \in Seq(Task) /\ StackIs(t, s) /\ n \in Nat /\ \A j \in 1..n : s[j] \in Task
    BY <1>3 DEF Lists, StacksAre
  <1>7. /\ \A j, m \in 1..n : s[j] = s[m] => j = m
        /\ \A u \in Thread : u # t => \A j \in 1..n, m \in 1..Len(st[u]) : s[j] # st[u][m]
    BY <1>3 DEF Lists, StacksAre
  <1> DEFINE q == SubSeq(s, 1, i - 1) \o SubSeq(s, i + 1, n)
             sq == [st EXCEPT ![t] = q]
  <1>8. /\ q \in Seq(Task) /\ Len(q) = n - 1
        /\ \A j \in 1..Len(q) : q[j] = IF j < i THEN s[j] ELSE s[j + 1]
    <2>1. i \in 1..Len(s) /\ q = SubSeq(s, 1, i - 1) \o SubSeq(s, i + 1, Len(s))
      BY <1>5
    <2>2. s \in Seq(Task)
      BY <1>6
    <2> HIDE DEF s, q
    <2>3. /\ q \in Seq(Task) /\ Len(q) = Len(s) - 1
          /\ \A j \in 1..Len(q) : q[j] = IF j < i THEN s[j] ELSE s[j + 1]
      BY <2>1, <2>2, Removed
    <2> QED
      BY <2>3
  <1>9. /\ sq \in [Thread -> Seq(Task)] /\ sq[t] = q
        /\ \A u \in Thread : u # t => sq[u] = st[u]
    BY <1>3, <1>8 DEF Lists, StacksAre
  <1>10. /\ top[t] = Below(s, 0) /\ prev[k] = Below(s, i) /\ nxt[k] = Above(s, i)
         /\ \A j \in 1..n : prev[s[j]] = Below(s, j) /\ nxt[s[j]] = Above(s, j)
    BY <1>5, <1>6 DEF StackIs
  <1> HIDE DEF q, s, n
  <1>11. \A m \in Task :
           /\ nxt'[m] = IF m = k THEN NULL ELSE IF m = prev[k] THEN nxt[k] ELSE nxt[m]
           /\ prev'[m] = IF m = k THEN NULL ELSE IF m = nxt[k] THEN prev[k] ELSE prev[m]
    BY <1>2 DEF Freed, PrevWithout
  <1>12. /\ prev' \in [Task -> Task \cup {NULL}] /\ nxt' \in [Task -> Task \cup {NULL}]
         /\ top' \in [Thread -> Task \cup {NULL}]
         /\ live' \subseteq Node /\ added \subseteq live' \cap Thread
         /\ Freed(env, {k}) \in [Node -> Node \cup {NULL}]
         /\ \A m \in Node \ {k} : Freed(env, {k})[m] = env[m]
    <2>1. nxt' \in [Task -> Task \cup {NULL}]
      BY <1>2, <1>4 DEF Freed, Lists, Pointers
    <2>2. prev' \in [Task -> Task \cup {NULL}]
      BY <1>2, <1>4 DEF Freed, PrevWithout, Lists, Pointers
    <2>3. top' \in [Thread -> Task \cup {NULL}]
      BY <1>2, <1>3, <1>4 DEF Lists, Pointers
    <2>4. live' \subseteq Node /\ added \subseteq live' \cap Thread
      BY <1>2, <1>4, Kinds DEF Lists, Pointers
    <2>5. Freed(env, {k}) \in [Node -> Node \cup {NULL}]
          /\ \A m \in Node \ {k} : Freed(env, {k})[m] = env[m]
      BY DEF Freed, Lists, Pointers
    <2> QED
      BY <2>1, <2>2, <2>3, <2>4, <2>5
  \* The tasks next to the one that ends.
  <1>13. /\ \A j \in 1..n : s[j] = prev[k] <=> j = i + 1
         /\ \A j \in 1..n : s[j] = nxt[k] <=> j = i - 1
         /\ \A j \in 1..n : s[j] = k <=> j = i
    <2>1. ASSUME NEW j \in 1..n PROVE s[j] = prev[k] <=> j = i + 1
      <3>1. CASE i = n
        BY <1>5, <1>6, <1>10, <3>1, Kinds DEF Below, n
      <3>2. CASE i # n
        <4>1. i + 1 \in 1..n /\ prev[k] = s[i + 1]
          BY <1>5, <1>6, <1>10, <3>2 DEF Below, n
        <4> QED
          BY <1>7, <4>1
      <3> QED
        BY <3>1, <3>2
    <2>2. ASSUME NEW j \in 1..n PROVE s[j] = nxt[k] <=> j = i - 1
      <3>1. CASE i = 1
        BY <1>5, <1>6, <1>10, <3>1, Kinds DEF Above
      <3>2. CASE i # 1
        <4>1. i - 1 \in 1..n /\ nxt[k] = s[i - 1]
          BY <1>5, <1>6, <1>10, <3>2 DEF Above
        <4> QED
          BY <1>7, <4>1
      <3> QED
        BY <3>1, <3>2
    <2>3. \A j \in 1..n : s[j] = k <=> j = i
      BY <1>5, <1>7
    <2> QED
      BY <2>1, <2>2, <2>3
  <1>14. StackIs(t, q)'
    <2>1. top'[t] = Below(q, 0)
      <3>1. n # 0 /\ 1 \in 1..n /\ top[t] = s[1]
        BY <1>5, <1>6, <1>10 DEF Below, n
      <3>2. CASE i = 1
        <4>1. top[t] = k /\ top'[t] = prev[k]
          BY <1>2, <1>3, <1>5, <3>1, <3>2 DEF Lists, Pointers
        <4>2. Below(q, 0) = Below(s, 1)
          <5>1. n # 1 => 1 \in 1..Len(q) /\ q[1] = s[2]
            BY <1>6, <1>8, <3>1, <3>2
          <5> QED
            BY <1>6, <1>8, <5>1 DEF Below, n
        <4> QED
          BY <1>10, <3>2, <4>1, <4>2
      <3>3. CASE i # 1
        <4>1. top[t] # k /\ top'[t] = s[1]
          BY <1>2, <1>13, <3>1, <3>3
        <4>2. 1 \in 1..Len(q) /\ q[1] = s[1]
          BY <1>5, <1>6, <1>8, <3>3
        <4> QED
          BY <4>1, <4>2 DEF Below
      <3> QED
        BY <3>2, <3>3
    <2>2. ASSUME NEW j \in 1..Len(q)
          PROVE  prev'[q[j]] = Below(q, j) /\ nxt'[q[j]] = Above(q, j)
      <3>0. j \in Nat /\ i \in Nat /\ j >= 1 /\ j <= n - 1 /\ i >= 1 /\ i <= n
            /\ n \in Nat /\ Len(q) = n - 1
        BY <1>5, <1>6, <1>8
      <3>1. CASE j < i
        <4>1. j \in 1..n /\ q[j] = s[j] /\ j # i /\ j # i + 1 /\ q[j] \in Task
          BY <1>6, <1>8, <3>0, <3>1
        <4>2. nxt'[q[j]] = nxt[s[j]] /\ prev'[q[j]] = IF j = i - 1 THEN prev[k] ELSE prev[s[j]]
          BY <1>11, <1>13, <4>1
        <4>3. Above(q, j) = Above(s, j)
          <5>1. j # 1 => j - 1 \in 1..Len(q) /\ q[j - 1] = s[j - 1]
            BY <1>8, <3>0, <3>1
          <5> QED
            BY <5>1 DEF Above
        <4>4. CASE j = i - 1
          <5>1. Below(q, j) = Below(s, i)
            <6>1. j = Len(q) <=> i = n
              BY <1>8, <3>0, <4>4
            <6>2. j # Len(q) => j + 1 \in 1..Len(q) /\ q[j + 1] = s[i + 1]
              BY <1>8, <3>0, <4>4
            <6> QED
              BY <6>1, <6>2 DEF Below, n
          <5> QED
            BY <1>10, <4>1, <4>2, <4>3, <4>4, <5>1
        <4>5. CASE j # i - 1
          <5>1. j + 1 \in 1..Len(q) /\ q[j + 1] = s[j + 1] /\ j # Len(q) /\ j # n
            BY <1>8, <3>0, <3>1, <4>5
          <5>2. Below(q, j) = Below(s, j)
            BY <5>1 DEF Below, n
          <5> QED
            BY <1>10, <4>1, <4>2, <4>3, <4>5, <5>2
        <4> QED
          BY <4>4, <4>5
      <3>2. CASE ~(j < i)
        <4> DEFINE m == j + 1
        <4>1. m \in 1..n /\ q[j] = s[m] /\ m # i /\ m # i - 1 /\ q[j] \in Task
          BY <1>6, <1>8, <3>0, <3>2
        <4>2. prev'[q[j]] = prev[s[m]] /\ nxt'[q[j]] = IF m = i + 1 THEN nxt[k] ELSE nxt[s[m]]
          BY <1>11, <1>13, <4>1
        <4>3. Below(q, j) = Below(s, m)
          <5>1. j = Len(q) <=> m = n
            BY <1>8, <3>0
          <5>2. j # Len(q) => j + 1 \in 1..Len(q) /\ q[j + 1] = s[m + 1]
            BY <1>8, <3>0, <3>2
          <5> QED
            BY <5>1, <5>2 DEF Below, n
        <4>4. CASE m = i + 1
          <5>1. Above(q, j) = Above(s, i)
            <6>1. j = i
              BY <3>0, <4>4
            <6>2. j # 1 => j - 1 \in 1..Len(q) /\ q[j - 1] = s[i - 1]
              BY <1>8, <3>0, <6>1
            <6> QED
              BY <6>1, <6>2 DEF Above
          <5> QED
            BY <1>10, <4>1, <4>2, <4>3, <4>4, <5>1
        <4>5. CASE m # i + 1
          <5>1. j # 1 /\ m # 1 /\ j - 1 \in 1..Len(q) /\ q[j - 1] = s[m - 1]
            <6>1. j > i
              BY <3>0, <3>2, <4>5
            <6>2. j - 1 \in 1..Len(q) /\ ~(j - 1 < i) /\ (j - 1) + 1 = m - 1
              BY <1>8, <3>0, <6>1
            <6> QED
              BY <1>8, <3>0, <6>1, <6>2
          <5>2. Above(q, j) = Above(s, m)
            BY <5>1 DEF Above
          <5> QED
            BY <1>10, <4>1, <4>2, <4>3, <4>5, <5>2
        <4> QED
          BY <4>4, <4>5
      <3> QED
        BY <3>1, <3>2
    <2> QED
      BY <2>1, <2>2 DEF StackIs
  <1>15. ASSUME NEW u \in Thread, u # t, u \in live
         PROVE  StackIs(u, st[u])'
    <2>1. StackIs(u, st[u]) /\ st[u] \in Seq(Task) /\ \A j \in 1..Len(st[u]) : st[u][j] \in Task
      BY <1>15 DEF Lists, StacksAre
    <2>2. top'[u] = top[u]
      BY <1>2, <1>3, <1>15 DEF Lists, Pointers
    <2>3. ASSUME NEW j \in 1..Len(st[u])
          PROVE  prev'[st[u][j]] = prev[st[u][j]] /\ nxt'[st[u][j]] = nxt[st[u][j]]
      <3>1. st[u][j] \in Task /\ \A m \in 1..n : st[u][j] # s[m]
        BY <1>7, <1>15, <2>1
      <3>2. st[u][j] # k
        BY <1>5, <3>1
      <3>3. prev[k] = NULL \/ \E m \in 1..n : prev[k] = s[m]
        <4>1. i # n => i + 1 \in 1..n
          BY <1>5, <1>6
        <4> QED
          BY <1>10, <4>1 DEF Below, n
      <3>4. nxt[k] = NULL \/ \E m \in 1..n : nxt[k] = s[m]
        <4>1. i # 1 => i - 1 \in 1..n
          BY <1>5, <1>6
        <4> QED
          BY <1>10, <4>1 DEF Above
      <3>5. st[u][j] # prev[k] /\ st[u][j] # nxt[k]
        BY <3>1, <3>3, <3>4, Kinds
      <3> QED
        BY <1>11, <3>1, <3>2, <3>5
    <2> QED
      BY <2>1, <2>2, <2>3 DEF StackIs
  <1>16. \A u \in Thread : u \in live' <=> u \in live
    BY <1>2, <1>4, Kinds
  <1>17. StacksAre(sq)'
    <2>1. \A u \in Thread : IF u \in live' THEN StackIs(u, sq[u])' ELSE sq[u] = <<>>
      BY <1>3, <1>9, <1>14, <1>15, <1>16 DEF Lists, StacksAre
    <2>2. ASSUME NEW x \in Task
          PROVE  x \in live' <=> \E u \in Thread : \E j \in 1..Len(sq[u]) : sq[u][j] = x
      <3>1. x \in live <=> \E u \in Thread : \E j \in 1..Len(st[u]) : st[u][j] = x
        BY DEF Lists, StacksAre
      <3>2. (\E j \in 1..Len(q) : q[j] = x) <=> x # k /\ \E j \in 1..n : s[j] = x
        <4>1. ASSUME NEW j \in 1..n, s[j] = x, x # k PROVE \E m \in 1..Len(q) : q[m] = x
          <5>1. j # i
            BY <1>13, <4>1
          <5>2. CASE j < i
            <6>1. j \in 1..Len(q) /\ q[j] = x
              BY <1>5, <1>6, <1>8, <4>1, <5>2
            <6> QED
              BY <6>1
          <5>3. CASE ~(j < i)
            <6>1. j - 1 \in 1..Len(q) /\ ~(j - 1 < i) /\ (j - 1) + 1 = j
              BY <1>5, <1>6, <1>8, <5>1, <5>3
            <6>2. q[j - 1] = x
              BY <1>8, <4>1, <6>1
            <6> QED
              BY <6>1, <6>2
          <5> QED
            BY <5>2, <5>3
        <4>2. ASSUME NEW m \in 1..Len(q), q[m] = x PROVE x # k /\ \E j \in 1..n : s[j] = x
          <5>1. m \in 1..n /\ m + 1 \in 1..n
            BY <1>6, <1>8
          <5>2. CASE m < i
            <6>1. s[m] = x /\ m # i
              BY <1>5, <1>6, <1>8, <4>2, <5>2
            <6> QED
              BY <1>13, <5>1, <6>1
          <5>3. CASE ~(m < i)
            <6>1. s[m + 1] = x /\ m + 1 # i
              BY <1>5, <1>6, <1>8, <4>2, <5>3
            <6> QED
              BY <1>13, <5>1, <6>1
          <5> QED
            BY <5>2, <5>3
        <4> QED
          BY <4>1, <4>2
      <3>3. \A u \in Thread : u # t => \A j \in 1..Len(st[u]) : st[u][j] # k
        BY <1>5, <1>7
      <3>4. (\E u \in Thread : \E j \in 1..Len(sq[u]) : sq[u][j] = x)
              <=> x # k /\ \E u \in Thread : \E j \in 1..Len(st[u]) : st[u][j] = x
        BY <1>3, <1>9, <3>2, <3>3 DEF s, n
      <3> QED
        BY <1>2, <3>1, <3>4
    <2>3. ASSUME NEW j \in 1..Len(q)
          PROVE  \E m \in 1..n : q[j] = s[m] /\ m = IF j < i THEN j ELSE j + 1
      <3>1. j \in 1..n /\ j + 1 \in 1..n
        BY <1>6, <1>8
      <3> QED
        BY <1>8, <3>1
    <2>4. ASSUME NEW u \in Thread, NEW v \in Thread, NEW a \in 1..Len(sq[u]),
                 NEW b \in 1..Len(sq[v]), sq[u][a] = sq[v][b]
          PROVE  u = v /\ a = b
      <3>1. CASE u = t /\ v = t
        <4>1. a \in 1..Len(q) /\ b \in 1..Len(q) /\ q[a] = q[b]
          BY <1>9, <2>4, <3>1
        <4>2. PICK c \in 1..n : q[a] = s[c] /\ c = IF a < i THEN a ELSE a + 1
          BY <2>3, <4>1
        <4>3. PICK d \in 1..n : q[b] = s[d] /\ d = IF b < i THEN b ELSE b + 1
          BY <2>3, <4>1
        <4>4. s[c] = s[d]
          BY <4>1, <4>2, <4>3
        <4>5. c = d
          BY <1>7, <4>4
        <4> QED
          BY <1>5, <1>6, <1>8, <3>1, <4>1, <4>2, <4>3, <4>5
      <3>2. CASE u = t /\ v # t
        <4>1. a \in 1..Len(q) /\ b \in 1..Len(st[v]) /\ q[a] = st[v][b]
          BY <1>9, <2>4, <3>2
        <4>2. PICK c \in 1..n : q[a] = s[c]
          BY <2>3, <4>1
        <4> QED
          BY <1>7, <3>2, <4>1, <4>2
      <3>3. CASE u # t /\ v = t
        <4>1. b \in 1..Len(q) /\ a \in 1..Len(st[u]) /\ q[b] = st[u][a]
          BY <1>9, <2>4, <3>3
        <4>2. PICK c \in 1..n : q[b] = s[c]
          BY <2>3, <4>1
        <4> QED
          BY <1>7, <3>3, <4>1, <4>2
      <3>4. CASE u # t /\ v # t
        BY <1>9, <2>4, <3>4 DEF Lists, StacksAre
      <3> QED
        BY <3>1, <3>2, <3>3, <3>4
    <2> QED
      BY <1>9, <2>1, <2>2, <2>4 DEF StacksAre
  <1> HIDE DEF sq
  <1>18. \A m \in live' : buf_set[m] => Freed(env, {k})[m] = m
    BY <1>2, <1>4, <1>12 DEF Lists, OwnContexts, Pointers
  <1>19. /\ OwnContexts(sq)'
         /\ current_task' \in Task \cup {NULL} /\ running' \in Node
         /\ buf_set' \in [Node -> BOOLEAN] /\ env' \in [Node -> Node \cup {NULL}]
         /\ running' = IF sq[t] = <<>> THEN t ELSE sq[t][1]
    <2> DEFINE saved == Freed(env, {k})
               x == top'[t]
    <2>1. Dispatch(t, x, saved) /\ saved \in [Node -> Node \cup {NULL}]
          /\ \A m \in live' : buf_set[m] => saved[m] = m
      BY <1>2, <1>12, <1>18
    <2>2. current_thread' = t /\ x = top'[t] /\ t \in live' /\ t \in Thread
          /\ live' \subseteq Node
      BY <1>0, <1>2, <1>3, <1>12, <1>16
    <2>3. buf_set \in [Node -> BOOLEAN]
      BY DEF Lists, Pointers
    <2> HIDE DEF saved, x
    <2> QED
      BY <1>17, <2>1, <2>2, <2>3, Dispatched
  <1>20. Pointers'
    BY <1>2, <1>12, <1>19 DEF Lists, Pointers
  <1>21. RingIs(r)'
    BY <1>2 DEF Lists, RingIs
  <1>22. Lists(r, sq)'
    BY <1>17, <1>19, <1>20, <1>21 DEF Lists
  <1>23. /\ st[r[1]][i] = running /\ i \in 1..Len(st[r[1]])
         /\ q = SubSeq(st[r[1]], 1, i - 1) \o SubSeq(st[r[1]], i + 1, Len(st[r[1]]))
         /\ sq = [st EXCEPT ![r[1]] = q] /\ q \in Seq(Task)
         /\ running' = IF q = <<>> THEN r[1] ELSE q[1]
    BY <1>3, <1>4, <1>5, <1>8, <1>9, <1>19 DEF q, s, n, sq
  <1> QED
    BY <1>1, <1>3, <1>22, <1>23

\* thread_exit(): the head of the ring leaves it and its tasks go with it; the
\* next thread runs, or main() goes on.
LEMMA ThreadExitStep ==
    ASSUME NEW r, NEW st, Lists(r, st), ThreadExit
    PROVE  LET q == Tail(r)
               sq == [st EXCEPT ![r[1]] = <<>>]
           IN /\ Lists(q, sq)' /\ Len(r) # 0 /\ running # NULL
              /\ running' = IF q = <<>> THEN NULL
                            ELSE IF sq[q[1]] = <<>> THEN q[1] ELSE sq[q[1]][1]
  <1>0. PICK t, k : t = current_thread /\ k = current_task
    OBVIOUS
  <1>1. PICK freed : freed = {t} \cup StackOf(t)
    OBVIOUS
  <1> DEFINE s == st[t]
             n == Len(r)
             q == Tail(r)
             sq == [st EXCEPT ![t] = <<>>]
             saved == Freed(env, freed)
  <1>2. /\ running # NULL /\ added' = added \ {t} /\ live' = live \ freed
        /\ next' = Freed([next EXCEPT ![previous[t]] = next[t]], {t})
        /\ previous' = Freed([previous EXCEPT ![next[t]] = previous[t]], {t})
        /\ top' = Freed(top, {t}) /\ prev' = Freed(prev, freed) /\ nxt' = Freed(nxt, freed)
        /\ next[t] # t => current_thread' = next[t] /\ Dispatch(next[t], top[next[t]], saved)
        /\ next[t] = t => /\ current_thread' = NULL /\ running' = NULL /\ env' = saved
                          /\ current_task' = current_task /\ buf_set' = buf_set
    BY <1>0, <1>1 DEF ThreadExit
  <1>3. /\ t = r[1] /\ n # 0 /\ n \in Nat /\ t \in added /\ t \in Thread /\ t \in live
        /\ r \in Seq(Thread) /\ r # <<>> /\ \A i \in 1..n : r[i] \in Thread
        /\ running = YieldEnv
    BY <1>0, <1>2 DEF Lists, OwnContexts, RingIs, Pointers
  <1>4. /\ \A i \in 1..n : r[i] \in added
        /\ \A u \in added : \E i \in 1..n : r[i] = u
        /\ \A i, j \in 1..n : r[i] = r[j] => i = j
        /\ \A i \in 1..n : next[r[i]] = After(r, i) /\ previous[After(r, i)] = r[i]
    BY DEF Lists, RingIs
  <1>5. /\ q \in Seq(Thread) /\ Len(q) = n - 1
        /\ \A i \in 1..n - 1 : q[i] = r[i + 1]
        /\ (q = <<>> <=> n = 1)
    <2>1. /\ q \in Seq(Thread) /\ Len(q) = n - 1
          /\ \A i \in 1..n - 1 : q[i] = r[i + 1]
      BY <1>3
    <2> HIDE DEF q, n
    <2>2. q = <<>> <=> Len(q) = 0
      BY <2>1, EmptySeq
    <2>3. n - 1 = 0 <=> n = 1
      BY <1>3
    <2> QED
      BY <2>1, <2>2, <2>3
  <1>6. s \in Seq(Task) /\ StackIs(t, s) /\ \A j \in 1..Len(s) : s[j] \in Task
    BY <1>3 DEF Lists, StacksAre
  <1>7. freed = {t} \cup {s[i] : i \in 1..Len(s)}
    BY <1>1, <1>3, TasksFound DEF Lists
  <1>8. running \in freed
    <2>1. CASE k = NULL
      BY <1>0, <1>3, <1>7, <2>1 DEF YieldEnv
    <2>2. CASE k # NULL
      <3>1. \E i \in 1..Len(s) : s[i] = k
        BY <1>0, <1>2, <2>2 DEF Lists, OwnContexts
      <3> QED
        BY <1>0, <1>3, <1>7, <2>2, <3>1 DEF YieldEnv
    <2> QED
      BY <2>1, <2>2
  <1>9. \A u \in Thread : u \in freed <=> u = t
    BY <1>6, <1>7, Kinds
  <1>10. /\ sq \in [Thread -> Seq(Task)] /\ sq[t] = <<>>
         /\ \A u \in Thread : u # t => sq[u] = st[u]
    <2>1. <<>> \in Seq(Task)
      OBVIOUS
    <2> QED
      BY <1>3, <2>1 DEF Lists, StacksAre
  <1> HIDE DEF s, n, q
  <1>11. 1 \in 1..n /\ n \in 1..n /\ previous[t] = r[n] /\ next[t] = After(r, 1)
    <2>1. 1 \in 1..n /\ n \in 1..n
      BY <1>3
    <2>2. After(r, n) = r[1]
      BY DEF After, n
    <2> QED
      BY <1>3, <1>4, <2>1, <2>2
  <1>11a. n # 1 => 2 \in 1..n /\ After(r, 1) = r[2]
    <2>1. n # 1 => After(r, 1) = r[2]
      BY DEF After, n
    <2> QED
      BY <1>3, <2>1
  <1>12. next[t] = t <=> n = 1
    <2>1. CASE n = 1
      BY <1>3, <1>11, <2>1 DEF After, n
    <2>2. CASE n # 1
      <3>1. 2 \in 1..n /\ next[t] = r[2] /\ 1 # 2
        BY <1>11, <1>11a, <2>2
      <3>2. r[2] # r[1]
        BY <1>4, <1>11, <3>1
      <3> QED
        BY <1>3, <2>2, <3>1, <3>2
    <2> QED
      BY <2>1, <2>2
  <1>13. n # 1 => 2 \in 1..n /\ next[t] = r[2] /\ 1 \in 1..n - 1 /\ q[1] = r[2] /\ r[2] \in Thread
                  /\ r[2] # t
    <2> SUFFICES ASSUME n # 1
                 PROVE  2 \in 1..n /\ next[t] = r[2] /\ 1 \in 1..n - 1 /\ q[1] = r[2]
                        /\ r[2] \in Thread /\ r[2] # t
      OBVIOUS
    <2>1. 2 \in 1..n /\ next[t] = r[2]
      BY <1>11, <1>11a
    <2>2. 1 \in 1..n - 1 /\ 1 + 1 = 2
      BY <1>3
    <2> QED
      BY <1>3, <1>5, <1>12, <2>1, <2>2
  <1>14. \A u \in Thread :
           /\ next'[u] = IF u = t THEN NULL ELSE IF u = previous[t] THEN next[t] ELSE next[u]
           /\ previous'[u] = IF u = t THEN NULL
                             ELSE IF u = next[t] THEN previous[t] ELSE previous[u]
    BY <1>2 DEF Freed, Lists, Pointers
  <1>15. current_thread' = IF Len(q) = 0 THEN NULL ELSE q[1]
    <2>1. Len(q) = 0 <=> n = 1
      BY <1>3, <1>5
    <2> QED
      BY <1>2, <1>12, <1>13, <2>1
  <1>16. RingIs(q)'
    <2>1. ASSUME NEW i \in 1..Len(q) PROVE q[i] \in added' /\ i + 1 \in 1..n /\ q[i] = r[i + 1]
      <3>1. i + 1 \in 1..n /\ q[i] = r[i + 1] /\ i + 1 # 1
        BY <1>3, <1>5
      <3>2. r[i + 1] # r[1]
        BY <1>4, <1>11, <3>1
      <3> QED
        BY <1>2, <1>3, <1>4, <3>1, <3>2
    <2>2. ASSUME NEW u \in added' PROVE \E i \in 1..Len(q) : q[i] = u
      <3>1. PICK j \in 1..n : r[j] = u
        BY <1>2, <1>4
      <3>2. j # 1
        BY <1>2, <1>3, <3>1
      <3>3. j - 1 \in 1..Len(q) /\ j - 1 \in 1..n - 1 /\ (j - 1) + 1 = j
        BY <1>3, <1>5, <3>2
      <3>4. q[j - 1] = u
        BY <1>5, <3>1, <3>3
      <3> QED
        BY <3>3, <3>4
    <2>3. ASSUME NEW i \in 1..Len(q), NEW j \in 1..Len(q), q[i] = q[j] PROVE i = j
      <3>1. r[i + 1] = r[j + 1] /\ i + 1 \in 1..n /\ j + 1 \in 1..n
        BY <2>1, <2>3
      <3>2. i + 1 = j + 1
        BY <1>4, <3>1
      <3> QED
        BY <1>3, <1>5, <3>2
    <2>4. ASSUME NEW i \in 1..Len(q)
          PROVE  next'[q[i]] = After(q, i) /\ previous'[After(q, i)] = q[i]
      <3>0. i + 1 \in 1..n /\ q[i] = r[i + 1] /\ r[i + 1] \in Thread /\ i + 1 # 1 /\ n # 1
            /\ Len(q) = n - 1 /\ n \in Nat /\ i \in Nat
        BY <1>3, <1>5, <2>1
      <3>1. r[i + 1] # t
        BY <1>3, <1>4, <1>11, <3>0
      <3>2. CASE i + 1 = n
        <4>1. After(q, i) = r[2] /\ q[i] = r[n]
          BY <1>13, <3>0, <3>2 DEF After
        <4>2. next'[r[n]] = r[2] /\ previous'[r[2]] = r[n]
          BY <1>11, <1>13, <1>14, <3>0, <3>1, <3>2
        <4> QED
          BY <4>1, <4>2
      <3>3. CASE i + 1 # n
        <4>1. i # Len(q) /\ i + 1 \in 1..n - 1 /\ (i + 1) + 1 \in 1..n /\ (i + 1) + 1 # 1
              /\ (i + 1) + 1 # 2
          BY <3>0, <3>3
        <4>2. After(q, i) = r[(i + 1) + 1] /\ After(r, i + 1) = r[(i + 1) + 1]
          BY <1>5, <3>3, <4>1 DEF After, n
        <4>3. r[i + 1] # r[n] /\ r[(i + 1) + 1] # r[1] /\ r[(i + 1) + 1] # r[2]
          BY <1>4, <1>11, <1>13, <3>0, <3>3, <4>1
        <4>4. next[r[i + 1]] = r[(i + 1) + 1] /\ previous[r[(i + 1) + 1]] = r[i + 1]
          BY <1>4, <3>0, <4>2
        <4>5. r[(i + 1) + 1] \in Thread
          BY <1>3, <4>1
        <4>6. next'[r[i + 1]] = next[r[i + 1]]
              /\ previous'[r[(i + 1) + 1]] = previous[r[(i + 1) + 1]]
          BY <1>3, <1>11, <1>13, <1>14, <3>0, <3>1, <4>3, <4>5
        <4> QED
          BY <3>0, <4>2, <4>4, <4>6
      <3> QED
        BY <3>2, <3>3
    <2> QED
      BY <1>5, <1>15, <2>1, <2>2, <2>3, <2>4 DEF RingIs
  <1>17. /\ next' \in [Thread -> Thread \cup {NULL}] /\ previous' \in [Thread -> Thread \cup {NULL}]
         /\ top' \in [Thread -> Task \cup {NULL}]
         /\ prev' \in [Task -> Task \cup {NULL}] /\ nxt' \in [Task -> Task \cup {NULL}]
         /\ live' \subseteq Node /\ added' \subseteq live' \cap Thread
         /\ saved \in [Node -> Node \cup {NULL}]
         /\ \A m \in Node \ freed : saved[m] = env[m]
    <2>1. previous[t] \in Thread /\ next[t] \in Thread
      BY <1>3, <1>11, <1>12, <1>13
    <2>2. next' \in [Thread -> Thread \cup {NULL}] /\ previous' \in [Thread -> Thread \cup {NULL}]
      BY <1>2, <2>1 DEF Freed, Lists, Pointers
    <2>3. top' \in [Thread -> Task \cup {NULL}]
          /\ prev' \in [Task -> Task \cup {NULL}] /\ nxt' \in [Task -> Task \cup {NULL}]
      BY <1>2 DEF Freed, Lists, Pointers
    <2>4. live' \subseteq Node /\ added' \subseteq live' \cap Thread
      BY <1>2, <1>9 DEF Lists, Pointers
    <2>5. saved \in [Node -> Node \cup {NULL}] /\ \A m \in Node \ freed : saved[m] = env[m]
      BY DEF Freed, Lists, Pointers
    <2> QED
      BY <2>2, <2>3, <2>4, <2>5
  <1>18. ASSUME NEW u \in Thread, u # t, u \in live
         PROVE  StackIs(u, st[u])'
    <2>1. StackIs(u, st[u]) /\ st[u] \in Seq(Task) /\ \A j \in 1..Len(st[u]) : st[u][j] \in Task
      BY <1>18 DEF Lists, StacksAre
    <2>2. top'[u] = top[u]
      BY <1>2, <1>18 DEF Freed, Lists, Pointers
    <2>3. ASSUME NEW j \in 1..Len(st[u])
          PROVE  prev'[st[u][j]] = prev[st[u][j]] /\ nxt'[st[u][j]] = nxt[st[u][j]]
      <3>1. st[u][j] \in Task /\ \A m \in 1..Len(s) : st[u][j] # s[m]
        BY <1>3, <1>18, <2>1 DEF Lists, StacksAre, s
      <3>2. st[u][j] \notin freed
        BY <1>3, <1>7, <3>1, Kinds
      <3> QED
        BY <1>2, <3>1, <3>2 DEF Freed, Lists, Pointers
    <2> QED
      BY <2>1, <2>2, <2>3 DEF StackIs
  <1>19. StacksAre(sq)'
    <2>1. \A u \in Thread : u \in live' <=> u \in live /\ u # t
      BY <1>2, <1>9
    <2>2. \A u \in Thread : IF u \in live' THEN StackIs(u, sq[u])' ELSE sq[u] = <<>>
      BY <1>10, <1>18, <2>1 DEF Lists, StacksAre
    <2>3. ASSUME NEW x \in Task
          PROVE  x \in live' <=> \E u \in Thread : \E j \in 1..Len(sq[u]) : sq[u][j] = x
      <3>1. x \in live <=> \E u \in Thread : \E j \in 1..Len(st[u]) : st[u][j] = x
        BY DEF Lists, StacksAre
      <3>2. x \in freed <=> \E j \in 1..Len(s) : s[j] = x
        BY <1>3, <1>7, Kinds
      <3>3. \A u \in Thread : u # t => \A j \in 1..Len(st[u]), m \in 1..Len(s) : st[u][j] # s[m]
        BY <1>3 DEF Lists, StacksAre, s
      <3>4. \A j \in 1..Len(sq[t]) : FALSE
        BY <1>10
      <3>5. (\E u \in Thread : \E j \in 1..Len(sq[u]) : sq[u][j] = x)
              <=> /\ \E u \in Thread : \E j \in 1..Len(st[u]) : st[u][j] = x
                  /\ ~\E j \in 1..Len(s) : s[j] = x
        <4>1. ASSUME NEW u \in Thread, NEW j \in 1..Len(sq[u]), sq[u][j] = x
              PROVE  /\ \E v \in Thread : \E m \in 1..Len(st[v]) : st[v][m] = x
                     /\ ~\E m \in 1..Len(s) : s[m] = x
          <5>1. u # t /\ sq[u] = st[u]
            BY <1>10, <3>4, <4>1
          <5>2. j \in 1..Len(st[u]) /\ st[u][j] = x
            BY <4>1, <5>1
          <5> QED
            BY <3>3, <5>1, <5>2
        <4>2. ASSUME NEW u \in Thread, NEW j \in 1..Len(st[u]), st[u][j] = x,
                     ~\E m \in 1..Len(s) : s[m] = x
              PROVE  \E v \in Thread : \E m \in 1..Len(sq[v]) : sq[v][m] = x
          <5>1. u # t
            BY <4>2 DEF s
          <5>2. sq[u] = st[u]
            BY <1>10, <5>1
          <5>3. j \in 1..Len(sq[u]) /\ sq[u][j] = x
            BY <4>2, <5>2
          <5> QED
            BY <5>3
        <4> QED
          BY <4>1, <4>2
      <3> QED
        BY <1>2, <3>1, <3>2, <3>5
    <2>4. ASSUME NEW u \in Thread, NEW v \in Thread, NEW a \in 1..Len(sq[u]),
                 NEW b \in 1..Len(sq[v]), sq[u][a] = sq[v][b]
          PROVE  u = v /\ a = b
      <3>1. u # t /\ v # t
        BY <1>10
      <3>2. sq[u] = st[u] /\ sq[v] = st[v]
        BY <1>10, <3>1
      <3>3. a \in 1..Len(st[u]) /\ b \in 1..Len(st[v]) /\ st[u][a] = st[v][b]
        BY <2>4, <3>2
      <3> QED
        BY <3>3 DEF Lists, StacksAre
    <2> QED
      BY <1>10, <2>2, <2>3, <2>4 DEF StacksAre
  <1> HIDE DEF sq
  <1>20. \A m \in live' : buf_set[m] => saved[m] = m
    BY <1>2, <1>8, <1>17 DEF Lists, OwnContexts, Pointers
  <1>21. /\ OwnContexts(sq)'
         /\ current_task' \in Task \cup {NULL} /\ running' \in Node \cup {NULL}
         /\ buf_set' \in [Node -> BOOLEAN] /\ env' \in [Node -> Node \cup {NULL}]
         /\ running' = IF q = <<>> THEN NULL
                       ELSE IF sq[q[1]] = <<>> THEN q[1] ELSE sq[q[1]][1]
    <2>1. CASE n = 1
      <3>1. /\ running' = NULL /\ env' = saved /\ buf_set' = buf_set
            /\ current_task' = current_task
        BY <1>2, <1>12, <2>1
      <3>2. OwnContexts(sq)'
        BY <1>20, <3>1 DEF OwnContexts
      <3> QED
        BY <1>5, <1>17, <2>1, <3>1, <3>2 DEF Lists, Pointers
    <2>2. CASE n # 1
      <3> DEFINE u == r[2]
                 x == top[u]
      <3>1. u \in Thread /\ u # t /\ u = q[1] /\ q # <<>>
        BY <1>5, <1>13, <2>2
      <3>2. Dispatch(u, x, saved) /\ current_thread' = u
        BY <1>2, <1>12, <1>13, <2>2
      <3>3. u \in live' /\ x = top'[u]
        <4>1. u \in live
          BY <1>4, <1>13, <2>2 DEF Lists, Pointers
        <4> QED
          BY <1>2, <1>9, <3>1, <4>1 DEF Freed, Lists, Pointers
      <3>4. buf_set \in [Node -> BOOLEAN]
        BY DEF Lists, Pointers
      <3> HIDE DEF u, x, saved
      <3>5. /\ OwnContexts(sq)'
            /\ current_task' \in Task \cup {NULL} /\ running' \in Node
            /\ buf_set' \in [Node -> BOOLEAN] /\ env' \in [Node -> Node \cup {NULL}]
            /\ running' = IF sq[u] = <<>> THEN u ELSE sq[u][1]
        BY <1>17, <1>19, <1>20, <3>1, <3>2, <3>3, <3>4, Dispatched
      <3> QED
        BY <3>1, <3>5
    <2> QED
      BY <2>1, <2>2
  <1>22. current_thread' \in Thread \cup {NULL}
    BY <1>2, <1>12, <1>13
  <1>23. Pointers'
    BY <1>17, <1>21, <1>22 DEF Pointers
  <1>24. Lists(q, sq)'
    BY <1>16, <1>19, <1>21, <1>23 DEF Lists
  <1> QED
    BY <1>2, <1>3, <1>21, <1>24 DEF q, n, sq

\* The lists stay described, whatever is done to them.
LEMMA Threads1Step ==
    ASSUME NEW r, NEW st, Lists(r, st), [Next]_vars
    PROVE  \E q, sq : Lists(q, sq)'
  <1>1. ASSUME NEW t \in Thread, ThreadCreate(t) PROVE \E q, sq : Lists(q, sq)'
    BY <1>1, CreateStep
  <1>2. ASSUME NEW t \in Thread, AddRunqueue(t) PROVE \E q, sq : Lists(q, sq)'
    BY <1>2, AddStep
  <1>3. ASSUME NEW t \in Thread, NEW k \in Task, AssignTask(t, k) PROVE \E q, sq : Lists(q, sq)'
    BY <1>3, AssignStep
  <1>4. CASE Start
    BY <1>4, StartStep
  <1>5. CASE ThreadYield
    BY <1>5, YieldStep
  <1>6. CASE TaskExit
    BY <1>6, TaskExitStep
  <1>7. CASE ThreadExit
    BY <1>7, ThreadExitStep
  <1>8. CASE UNCHANGED vars
    <2>1. Lists(r, st)'
      BY <1>8 DEF Lists, Pointers, RingIs, StacksAre, StackIs, OwnContexts, YieldEnv,
                  vars, ringVars, stackVars, runVars
    <2> QED
      BY <2>1
  <1> QED
    BY <1>1, <1>2, <1>3, <1>4, <1>5, <1>6, <1>7, <1>8 DEF Next

\* Before anything is created there is nothing in the lists.
LEMMA Threads1Init == Init => Lists(<<>>, [t \in Thread |-> <<>>])
  <1> SUFFICES ASSUME Init PROVE Lists(<<>>, [t \in Thread |-> <<>>])
    OBVIOUS
  <1> DEFINE st == [t \in Thread |-> <<>>]
  <1>1. Pointers
    BY DEF Init, Pointers
  <1>2. <<>> \in Seq(Thread) /\ <<>> \in Seq(Task) /\ Len(<<>>) = 0
    BY EmptySeq
  <1>3. RingIs(<<>>)
    BY <1>2 DEF Init, RingIs
  <1>4. \A t \in Thread : st[t] = <<>> /\ Len(st[t]) = 0
    BY <1>2
  <1>5. st \in [Thread -> Seq(Task)]
    BY <1>2
  <1> HIDE DEF st
  <1>6. StacksAre(st)
    BY <1>4, <1>5 DEF Init, StacksAre
  <1>7. OwnContexts(st)
    BY DEF Init, OwnContexts
  <1> QED
    BY <1>1, <1>3, <1>6, <1>7 DEF Lists, st

\* The lists of MP1's threads can always be described: a ring of the added
\* threads, a stack of tasks for each thread that is allocated, and a context
\* of its own for every function that has begun.
THEOREM Threads1Invariant == Spec => []Threads1Inv
  <1>1. Init => Threads1Inv
    <2>1. ASSUME Init PROVE Threads1Inv
      <3>1. Lists(<<>>, [t \in Thread |-> <<>>])
        BY <2>1, Threads1Init
      <3> QED
        BY <3>1 DEF Threads1Inv, Lists, RingIs, StacksAre
    <2> QED
      BY <2>1
  <1>2. Threads1Inv /\ [Next]_vars => Threads1Inv'
    <2>1. ASSUME Threads1Inv, [Next]_vars PROVE Threads1Inv'
      <3>1. PICK r, st : Lists(r, st)
        BY <2>1 DEF Threads1Inv
      <3>2. \E q, sq : Lists(q, sq)'
        BY <2>1, <3>1, Threads1Step
      <3> QED
        BY <3>2 DEF Threads1Inv, Lists, RingIs, StacksAre
    <2> QED
      BY <2>1
  <1> QED
    BY <1>1, <1>2, PTL DEF Spec

\* ListsWhole: thread_exit(), task_exit() and the calls that add leave both
\* directions of every list whole, and no allocated task off its stack.
THEOREM ListsStayWhole == Spec => []ListsWhole
  <1>1. Threads1Inv => ListsWhole
    BY WholeLists DEF Threads1Inv
  <1> QED
    BY <1>1, Threads1Invariant, PTL

-----------------------------------------------------------------------------
(***************************************************************************)
(* MP1: the threads take turns                                             *)
(***************************************************************************)

\* What the refinement mapping makes of the pointers after a step.
LEMMA FoundNext == (\A r, st : Lists(r, st) => Ring = r /\ TasksOf = st)'
  BY Found, PTL

\* Every step is one of the round robin, or changes nothing of it.
LEMMA TurnStep == Threads1Inv /\ [Next]_vars => [IsRoundRobin!Next]_(IsRoundRobin!vars)
  <1> SUFFICES ASSUME Threads1Inv, [Next]_vars
               PROVE  [IsRoundRobin!Next]_(IsRoundRobin!vars)
    OBVIOUS
  <1>1. PICK r, st : Lists(r, st)
    BY DEF Threads1Inv
  <1>2. Ring = r /\ TasksOf = st
    BY <1>1, Found
  <1>3. \A q, sq : Lists(q, sq)' => Ring' = q /\ TasksOf' = sq
    BY FoundNext
  <1>4. r \in Seq(Thread) /\ st \in [Thread -> Seq(Task)]
        /\ (Len(r) # 0 => r[1] = Head(r) /\ r # <<>> /\ Head(r) \in Thread)
    BY <1>1 DEF Lists, RingIs, StacksAre
  <1> HIDE DEF Ring, TasksOf
  <1>5. ASSUME NEW t \in Thread, ThreadCreate(t) PROVE UNCHANGED IsRoundRobin!vars
    <2>1. Ring' = r /\ TasksOf' = st
      BY <1>1, <1>3, <1>5, CreateStep
    <2>2. running' = running
      BY <1>5 DEF ThreadCreate
    <2> QED
      BY <1>2, <2>1, <2>2 DEF IsRoundRobin!vars
  <1>6. ASSUME NEW t \in Thread, AddRunqueue(t) PROVE IsRoundRobin!Add
    <2>1. Ring' = Append(r, t) /\ TasksOf' = st /\ running' = running
          /\ \A i \in 1..Len(r) : r[i] # t
      BY <1>1, <1>3, <1>6, AddStep
    <2>2. DOMAIN r = 1..Len(r)
      BY <1>4
    <2>3. t \in Thread \ IsRoundRobin!ToSet(Ring)
      BY <1>2, <2>1, <2>2 DEF IsRoundRobin!ToSet
    <2> QED
      BY <1>2, <2>1, <2>3 DEF IsRoundRobin!Add
  <1>7. ASSUME NEW t \in Thread, NEW k \in Task, AssignTask(t, k) PROVE IsRoundRobin!Assign
    <2>1. Ring' = r /\ TasksOf' = [st EXCEPT ![t] = <<k>> \o @] /\ running' = running
          /\ \A u \in Thread : \A i \in 1..Len(st[u]) : st[u][i] # k
      BY <1>1, <1>3, <1>7, AssignStep
    <2>2. \A u \in Thread : DOMAIN st[u] = 1..Len(st[u])
      BY <1>4
    <2>3. \A u \in Thread : k \notin IsRoundRobin!ToSet(TasksOf[u])
      BY <1>2, <2>1, <2>2 DEF IsRoundRobin!ToSet
    <2> QED
      BY <1>2, <2>1, <2>3 DEF IsRoundRobin!Assign
  <1>8. CASE Start
    <2>1. Ring' = r /\ TasksOf' = st /\ Len(r) # 0 /\ running = NULL
          /\ running' = IF st[r[1]] = <<>> THEN r[1] ELSE st[r[1]][1]
      BY <1>1, <1>3, <1>8, StartStep DEF Start
    <2>2. running' = IsRoundRobin!Top(Ring, TasksOf)
      BY <1>2, <2>1 DEF IsRoundRobin!Top
    <2>5. IsRoundRobin!Start
      BY <1>2, <1>4, <2>1, <2>2 DEF IsRoundRobin!Start
    <2> QED
      BY <2>5 DEF IsRoundRobin!Next
  <1>9. CASE ThreadYield
    <2> DEFINE q == Append(Tail(r), Head(r))
    <2>1. Lists(q, st)' /\ running # NULL
          /\ running' = IF st[q[1]] = <<>> THEN q[1] ELSE st[q[1]][1]
      BY <1>1, <1>9, YieldStep
    <2>2. Ring' = q /\ TasksOf' = st
      BY <1>3, <2>1
    <2> HIDE DEF q
    <2>3. running' = IsRoundRobin!Top(Ring', TasksOf)
      BY <1>2, <2>1, <2>2 DEF IsRoundRobin!Top
    <2>5. IsRoundRobin!Yield
      BY <1>2, <2>1, <2>2, <2>3 DEF IsRoundRobin!Yield, q
    <2> QED
      BY <2>5 DEF IsRoundRobin!Next
  <1>10. CASE TaskExit
    <2>1. Len(r) # 0 /\ running \in Task
      BY <1>1, <1>10, TaskExitStep
    <2>2. PICK i \in 1..Len(st[r[1]]), q \in Seq(Task) :
            /\ st[r[1]][i] = running
            /\ q = SubSeq(st[r[1]], 1, i - 1) \o SubSeq(st[r[1]], i + 1, Len(st[r[1]]))
            /\ Lists(r, [st EXCEPT ![r[1]] = q])'
            /\ running' = IF q = <<>> THEN r[1] ELSE q[1]
      BY <1>1, <1>10, TaskExitStep
    <2> DEFINE t == r[1]
               s == st[t]
               sq == [st EXCEPT ![t] = q]
    <2>3. Ring' = r /\ TasksOf' = sq
      BY <1>3, <2>2
    <2>4. t = Head(r) /\ t \in Thread /\ s \in Seq(Task) /\ DOMAIN s = 1..Len(s)
      BY <1>4, <2>1
    <2>5. \A j \in DOMAIN s : s[j] = running => j = i
      BY <1>1, <2>2, <2>4 DEF Lists, StacksAre
    <2>6. i = CHOOSE j \in DOMAIN s : s[j] = running
      BY <2>2, <2>4, <2>5
    <2>7. q = IsRoundRobin!RemoveAt(s, CHOOSE j \in DOMAIN s : s[j] = running)
      BY <2>2, <2>6 DEF IsRoundRobin!RemoveAt
    <2>8. sq[t] = q
      BY <1>4, <2>4
    <2>9. running' = IsRoundRobin!Top(Ring, TasksOf')
      BY <1>2, <2>2, <2>3, <2>8 DEF IsRoundRobin!Top
    <2>10. TasksOf' = [TasksOf EXCEPT ![Head(Ring)] =
                         IsRoundRobin!RemoveAt(@, CHOOSE j \in DOMAIN @ : @[j] = running)]
      BY <1>2, <2>3, <2>4, <2>7
    <2>11. IsRoundRobin!TaskEnds
      BY <1>2, <2>1, <2>3, <2>9, <2>10 DEF IsRoundRobin!TaskEnds
    <2> QED
      BY <2>11 DEF IsRoundRobin!Next
  <1>11. CASE ThreadExit
    <2> DEFINE q == Tail(r)
               sq == [st EXCEPT ![r[1]] = <<>>]
    <2>1. Lists(q, sq)' /\ Len(r) # 0 /\ running # NULL
          /\ running' = IF q = <<>> THEN NULL
                        ELSE IF sq[q[1]] = <<>> THEN q[1] ELSE sq[q[1]][1]
      BY <1>1, <1>11, ThreadExitStep
    <2>2. Ring' = q /\ TasksOf' = sq
      BY <1>3, <2>1
    <2>3. r[1] = Head(r)
      BY <1>4, <2>1
    <2> HIDE DEF q
    <2>4. running' = IF Ring' = <<>> THEN NULL ELSE IsRoundRobin!Top(Ring', TasksOf')
      BY <2>1, <2>2 DEF IsRoundRobin!Top
    <2>5. IsRoundRobin!ThreadEnds
      BY <1>2, <2>1, <2>2, <2>3, <2>4 DEF IsRoundRobin!ThreadEnds, q
    <2> QED
      BY <2>5 DEF IsRoundRobin!Next
  <1>12. CASE UNCHANGED vars
    <2>1. Lists(r, st)'
      BY <1>1, <1>12 DEF Lists, Pointers, RingIs, StacksAre, StackIs, OwnContexts, YieldEnv,
                         vars, ringVars, stackVars, runVars
    <2>2. running' = running
      BY <1>12 DEF vars, runVars
    <2> QED
      BY <1>2, <1>3, <2>1, <2>2 DEF IsRoundRobin!vars
  <1> QED
    BY <1>5, <1>6, <1>7, <1>8, <1>9, <1>10, <1>11, <1>12 DEF Next, IsRoundRobin!Next

\* TakesTurns: dispatch() gives the processor to the threads in the order of the
\* run queue and to the task assigned last, whatever is added or ends between.
THEOREM ThreadsTakeTurns == Spec => TakesTurns
  <1>1. Init => IsRoundRobin!Init
    <2> SUFFICES ASSUME Init PROVE IsRoundRobin!Init
      OBVIOUS
    <2> DEFINE st == [t \in Thread |-> <<>>]
    <2>1. Lists(<<>>, st)
      BY Threads1Init
    <2> HIDE DEF st
    <2>2. Ring = <<>> /\ TasksOf = st
      BY <2>1, Found
    <2>3. running = NULL
      BY DEF Init
    <2> QED
      BY <2>2, <2>3 DEF IsRoundRobin!Init, st
  <1> QED
    BY <1>1, TurnStep, Threads1Invariant, PTL DEF Spec, TakesTurns, IsRoundRobin!Spec
=============================================================================
