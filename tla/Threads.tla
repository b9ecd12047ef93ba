------------------------------- MODULE Threads -------------------------------
(***************************************************************************)
(* The preemptive user-level threads of MP3 (user/threads.c) under the     *)
(* five scheduling policies of user/threads_sched.c.                       *)
(*                                                                         *)
(* Time is counted in timer ticks, as threading_system_time is, and the    *)
(* library's own code takes none: the timer that thrdstop() sets goes off  *)
(* in a thread's function or while main sleeps.  A thread is its ID.       *)
(***************************************************************************)
EXTENDS Integers, Sequences, FiniteSetsExt, Functions

CONSTANTS NTHREAD,         \* threads a test program creates
          Policy,          \* the THREAD_SCHEDULER_* the program is built with
          RealTime, Plain, \* what the programs ask of thread_create()
          TIME_QUANTUM,
          MAX_THRD_NUM     \* context slots of a process

Thread == 1..NTHREAD

FAR == 100000         \* later than any release

Task == [is_real_time : BOOLEAN, processing_time : Nat \ {0}, deadline : Int,
         n : Nat \ {0}, weight : Nat \ {0}, arrival : Nat]

\* When a program has ended whose threads run one after the other.
Ending(w) ==
    LET end[t \in 0..NTHREAD] ==
          IF t = 0 THEN Max({0} \cup {w[u].arrival : u \in Thread})
                   ELSE end[t - 1] + w[t].processing_time
    IN end[NTHREAD]

\* A thread that is not real-time is released once, and programs end before FAR.
ASSUME ThreadsAssumption ==
    /\ NTHREAD \in Nat
    /\ Policy \subseteq {"default", "wrr", "sjf", "lst", "dm"}
    /\ TIME_QUANTUM \in Nat \ {0} /\ MAX_THRD_NUM \in Nat \ {0}
    /\ RealTime \cup Plain \subseteq [Thread -> Task]
    /\ \A w \in RealTime, t \in Thread :
         /\ w[t].is_real_time /\ w[t].deadline > 0
         /\ w[t].arrival + w[t].n * w[t].deadline < FAR
    /\ \A w \in Plain : /\ \A t \in Thread : ~w[t].is_real_time /\ w[t].n = 1
                        /\ Ending(w) < FAR

VARIABLES
    policy,
    work,             \* the arguments of thread_create(), thread_add_at()
    job,              \* n, remaining_time, current_deadline of each thread
    slot,             \* thrdstop_context_id, -1 before buf_set
    used,             \* thrdstop_context_used
    run_queue, release_queue,
    now,              \* threading_system_time
    current,          \* the current thread, 0 for &run_queue
    allocated_time,
    phase             \* what the process is about to do

vars == <<policy, work, job, slot, used, run_queue, release_queue, now,
          current, allocated_time, phase>>

MainSlot == 0
Ended == {"done", "missed", "failed"}

\* thread_create() and thread_add_at() of every thread in the order of their
\* IDs, then thread_start_threading(), which takes the first context slot.
Init ==
    /\ policy \in Policy
    /\ work \in IF policy \in {"lst", "dm"} THEN RealTime ELSE Plain
    /\ job = [t \in Thread |->
                [n |-> work[t].n, remaining_time |-> work[t].processing_time,
                 current_deadline |-> IF work[t].is_real_time
                                        THEN work[t].arrival + work[t].deadline ELSE 0]]
    /\ slot = [t \in Thread |-> -1]
    /\ used = {MainSlot}
    /\ run_queue = <<>>
    /\ release_queue = [t \in Thread |-> [thrd |-> t, release_time |-> work[t].arrival]]
    /\ now = 0 /\ current = 0 /\ allocated_time = 0
    /\ phase = "main"

-----------------------------------------------------------------------------
\* Queues.  `rel' stands for release_queue, `j' for job.

\* What a walk along the list q keeps: the places in S.
Kept(q, S) ==
    LET kept[i \in 0..Len(q)] ==
          IF i = 0 THEN <<>>
          ELSE IF i \in S THEN Append(kept[i - 1], q[i]) ELSE kept[i - 1]
    IN kept[Len(q)]

\* Mutant: the release time itself is not late enough.
IsDueLater(e, time) == time > e.release_time

IsDue(e, time)  == time >= e.release_time
Due(rel, time)  == Kept(rel, {i \in DOMAIN rel : IsDue(rel[i], time)})
Rest(rel, time) == Kept(rel, {i \in DOMAIN rel : ~IsDue(rel[i], time)})
Without(q, t)   == Kept(q, {i \in DOMAIN q : q[i] # t})
Thrds(es)       == [i \in DOMAIN es |-> es[i].thrd]

\* Mutant: __release() counts the deadline from the time it happens to run.
RenewedDrifts(j, es) ==
    [t \in Thread |->
       IF \E e \in Range(es) : e.thrd = t
         THEN [j[t] EXCEPT !.remaining_time = work[t].processing_time,
                           !.current_deadline = now + work[t].deadline]
         ELSE j[t]]

\* What __release() writes into the threads it moves to the run queue.
Renewed(j, es) ==
    [t \in Thread |->
       IF \E e \in Range(es) : e.thrd = t
         THEN LET e == CHOOSE e \in Range(es) : e.thrd = t
              IN [j[t] EXCEPT !.remaining_time = work[t].processing_time,
                              !.current_deadline = e.release_time + work[t].deadline]
         ELSE j[t]]

\* __release() at a time, with a run queue, a release queue and jobs.
Release(time, q, rel, j) ==
    /\ run_queue' = q \o Thrds(Due(rel, time))
    /\ release_queue' = Rest(rel, time)
    /\ job' = Renewed(j, Due(rel, time))

-----------------------------------------------------------------------------
\* The main loop of thread_start_threading() calls __release().
MainLoop ==
    /\ phase = "main"
    /\ Release(now, run_queue, release_queue, job)
    /\ phase' = "schedule"
    /\ UNCHANGED <<policy, work, slot, used, now, current, allocated_time>>

-----------------------------------------------------------------------------
\* __schedule(): the five policies

left(t)  == job[t].remaining_time
slack(t) == job[t].current_deadline - now - left(t)

\* The thread of S with the least key, the smaller ID first.
Least(S, key(_)) ==
    CHOOSE t \in S : \A u \in S \ {t} : key(t) < key(u) \/ (key(t) = key(u) /\ t < u)

\* The first of some releases, FAR if there is none.
First(es) == IF es = {} THEN FAR ELSE Min({e.release_time : e \in es})

Chosen(t, ticks) == current' = t /\ allocated_time' = ticks

\* Nobody to run: sleep until the next release (schedule_default: one tick).
Idle == Chosen(0, IF policy = "default" THEN 1
                                        ELSE First(Range(release_queue)) - now)

Default ==
    LET t == Least(Range(run_queue), LAMBDA u : 0) IN Chosen(t, left(t))

\* The head of the queue, for its weight in quanta at most.
WRR ==
    LET t == run_queue[1]
        quantum == TIME_QUANTUM * work[t].weight
    IN Chosen(t, IF quantum > left(t) THEN left(t) ELSE quantum)

\* Mutant: not preempted.
SJFUncut == LET t == Least(Range(run_queue), left) IN Chosen(t, left(t))

\* The shortest job, until one is released that will be shorter.
SJF ==
    LET t == Least(Range(run_queue), left)
        shorter(e) ==
            LET u == e.thrd
                then == left(t) - (e.release_time - now)
            IN /\ e.release_time >= now
               /\ \/ work[u].processing_time < then
                  \/ work[u].processing_time = then /\ u < t
        mn == First({e \in Range(release_queue) : shorter(e)})
    IN Chosen(t, IF left(t) > mn - now THEN mn - now ELSE left(t))

\* A real-time thread in the queue whose deadline has passed is to be reported.
Late == {t \in Range(run_queue) : job[t].current_deadline <= now}
ReportLate == Chosen(Least(Late, LAMBDA u : 0), 0)

\* Mutant: a thread that is too late gets its processing time all the same.
LSTUncapped ==
    LET t == Least(Range(run_queue), slack)
        tighter(e) ==
            LET u == e.thrd
                s == work[u].deadline - work[u].processing_time
            IN e.release_time >= now /\ (s < slack(t) \/ (s = slack(t) /\ u < t))
        mn == First({e \in Range(release_queue) : tighter(e)})
    IN Chosen(t, IF left(t) > mn - now THEN mn - now ELSE left(t))

\* The least slack, until a thread is released that will have less.
LST ==
    LET t == Least(Range(run_queue), slack)
        tighter(e) ==
            LET u == e.thrd
                s == work[u].deadline - work[u].processing_time
            IN e.release_time >= now /\ (s < slack(t) \/ (s = slack(t) /\ u < t))
        mn == First({e \in Range(release_queue) : tighter(e)})
        x  == IF slack(t) >= 0 THEN left(t) ELSE job[t].current_deadline - now
    IN Chosen(t, IF x > mn - now THEN mn - now ELSE x)

\* The shortest relative deadline.  Where the deadline cannot be met, x is the
\* latest time the thread could have started, and not a number of ticks.
DM ==
    LET deadline(u) == work[u].deadline
        t == Least(Range(run_queue), deadline)
        before(e) ==
            LET u == e.thrd
            IN deadline(u) < deadline(t) \/ (deadline(u) = deadline(t) /\ u < t)
        mn == First({e \in Range(release_queue) : before(e)})
        x  == IF slack(t) >= 0 THEN left(t) ELSE job[t].current_deadline - left(t)
    IN Chosen(t, IF x < mn - now THEN x ELSE mn - now)

Schedule ==
    /\ phase = "schedule"
    /\ \/ run_queue = <<>> /\ Idle
       \/ /\ run_queue # <<>>
          /\ \/ policy = "default" /\ Default
             \/ policy = "wrr" /\ WRR
             \/ policy = "sjf" /\ SJF
             \/ policy \in {"lst", "dm"} /\ Late # {} /\ ReportLate
             \/ policy = "lst" /\ Late = {} /\ LST
             \/ policy = "dm" /\ Late = {} /\ DM
    /\ phase' = "dispatch"
    /\ UNCHANGED <<policy, work, job, slot, used, run_queue, release_queue, now>>

-----------------------------------------------------------------------------
\* __dispatch()

\* To main: it ends when both queues are empty, or sets the timer and sleeps.
DispatchMain ==
    /\ phase = "dispatch"
    /\ current = 0
    /\ phase' = IF run_queue = <<>> /\ release_queue = <<>> THEN "done" ELSE "sleeping"
    /\ UNCHANGED <<policy, work, job, slot, used, run_queue, release_queue, now,
                   current, allocated_time>>

\* A real-time thread without time has missed its deadline.  (The test for a
\* negative allocated_time is on an unsigned: it never holds.)
NoTime == work[current].is_real_time /\ allocated_time = 0

\* thrdstop() with the thread's context slot, or the first free one.
FreeSlots == (0..MAX_THRD_NUM-1) \ used

\* Mutant: thrdstop() does not mark the slot it hands out.
DispatchUnmarked ==
    /\ phase = "dispatch"
    /\ current # 0
    /\ IF NoTime THEN phase' = "missed" /\ UNCHANGED slot
       ELSE /\ slot' = [slot EXCEPT ![current] = IF @ >= 0 THEN @ ELSE Min(FreeSlots)]
            /\ phase' = "running"
    /\ UNCHANGED <<policy, work, job, used, run_queue, release_queue, now,
                   current, allocated_time>>

Dispatch ==
    /\ phase = "dispatch"
    /\ current # 0
    /\ IF NoTime THEN phase' = "missed" /\ UNCHANGED <<slot, used>>
       ELSE IF slot[current] >= 0 THEN phase' = "running" /\ UNCHANGED <<slot, used>>
       ELSE IF FreeSlots = {} THEN phase' = "failed" /\ UNCHANGED <<slot, used>>
       ELSE /\ slot' = [slot EXCEPT ![current] = Min(FreeSlots)]
            /\ used' = used \cup {Min(FreeSlots)}
            /\ phase' = "running"
    /\ UNCHANGED <<policy, work, job, run_queue, release_queue, now,
                   current, allocated_time>>

-----------------------------------------------------------------------------
\* What the timer brings

\* A timer interrupt counts ticks only while the delay is positive.
TimerSet == allocated_time > 0

\* back_to_main_handler(), and main's loop goes round.
BackToMain ==
    /\ phase = "sleeping"
    /\ TimerSet
    /\ now' = now + allocated_time
    /\ phase' = "main"
    /\ UNCHANGED <<policy, work, job, slot, used, run_queue, release_queue,
                   current, allocated_time>>

\* __thread_exit() frees the thread, its context slot stays as it is.
Freed(j, t) == [j EXCEPT ![t].n = 0]

\* switch_handler(): the time is used up.  A thread that has its processing
\* time starts its next cycle at its deadline or is freed; another one goes to
\* the end of the queue, behind those that have just been released.
SwitchHandler ==
    LET t    == current
        time == now + allocated_time
        es   == Due(release_queue, time)
        q    == Without(run_queue \o Thrds(es), t)
        rel  == Rest(release_queue, time)
        rem  == left(t) - allocated_time
        j    == [Renewed(job, es) EXCEPT ![t].remaining_time = rem]
        next == job[t].current_deadline
    IN
    /\ phase = "running"
    /\ TimerSet
    /\ now' = time
    /\ IF work[t].is_real_time /\ (time > next \/ (time = next /\ rem > 0))
         THEN /\ run_queue' = run_queue \o Thrds(es)
              /\ release_queue' = rel /\ job' = j
              /\ phase' = "missed"
         ELSE /\ phase' = "schedule"
              /\ IF rem > 0
                   THEN run_queue' = Append(q, t) /\ release_queue' = rel /\ job' = j
                 ELSE IF job[t].n > 1
                   THEN LET again == [n |-> job[t].n - 1, remaining_time |-> rem,
                                      current_deadline |-> IF work[t].is_real_time
                                        THEN next + work[t].deadline ELSE next]
                        IN Release(time, q, Append(rel, [thrd |-> t, release_time |-> next]),
                                   [j EXCEPT ![t] = again])
                 ELSE run_queue' = q /\ release_queue' = rel /\ job' = Freed(j, t)
    /\ UNCHANGED <<policy, work, slot, used, current, allocated_time>>

\* cancelthrdstop() with is_exit set.
GiveBack(s) == used' = used \ {s}

\* The thread's function returns after some ticks: thread_exit() cancels the
\* timer, which gives back the slot, and the thread is freed.
ThreadExit(ticks) ==
    LET t == current IN
    /\ now' = now + ticks
    /\ Release(now + ticks, Without(run_queue, t), release_queue, Freed(job, t))
    /\ GiveBack(slot[t])
    /\ phase' = "schedule"
    /\ UNCHANGED <<policy, work, slot, current, allocated_time>>

Next ==
    \/ MainLoop \/ Schedule \/ DispatchMain \/ Dispatch
    \/ BackToMain \/ SwitchHandler
    \/ phase = "running" /\ \E ticks \in {0} \cup 0..allocated_time - 1 : ThreadExit(ticks)

Spec == Init /\ [][Next]_vars

\* The process goes on and a timer that is set interrupts it.  Nothing makes a
\* thread's function return: those of the repository loop for ever (task1.c to
\* task4.c, rttask1.c to rttask4.c).
Running == MainLoop \/ Schedule \/ DispatchMain \/ Dispatch \/ BackToMain \/ SwitchHandler
FairSpec == Spec /\ WF_vars(Running)

-----------------------------------------------------------------------------
(***************************************************************************)
(* Properties                                                              *)
(***************************************************************************)

\* A thread that is not freed is in one of the two queues, once, a freed one in
\* none, and the process only runs a thread of the run queue.  No two threads,
\* and not main, save their contexts in the same slot, whatever slots
\* thread_exit() gives back.
Places(t) == {i \in DOMAIN run_queue : run_queue[i] = t}
Entries(t) == {i \in DOMAIN release_queue : release_queue[i].thrd = t}

OnceEach ==
    /\ \A t \in Thread : Cardinality(Places(t)) + Cardinality(Entries(t))
                           = IF job[t].n > 0 THEN 1 ELSE 0
    /\ phase = "running" => Places(current) # {}
    /\ \A t \in Thread : job[t].n > 0 /\ slot[t] >= 0 =>
         /\ slot[t] # MainSlot /\ slot[t] \in used
         /\ \A u \in Thread \ {t} : job[u].n > 0 => slot[u] # slot[t]

\* The cycles of a real-time thread do not drift: however late a handler runs
\* __release(), the deadline stays a multiple of the period after the arrival.
NoDrift ==
    \A t \in Thread : job[t].n > 0 /\ work[t].is_real_time =>
        job[t].current_deadline =
            work[t].arrival + (work[t].n - job[t].n + 1) * work[t].deadline

\* SJF, LST and DM are preemptive: while a thread runs, no other one is or gets
\* ready that the policy prefers at that time.  It is given ticks, and no more than
\* it needs, unless DM runs it although it cannot meet its deadline.
Key(t, rem, deadline, time) ==
    CASE policy = "sjf" -> rem
      [] policy = "lst" -> deadline - time - rem
      [] policy = "dm"  -> work[t].deadline

Preferred(u, remU, deadlineU, time) ==
    LET keyU == Key(u, remU, deadlineU, time)
        key  == Key(current, left(current) - (time - now),
                    job[current].current_deadline, time)
    IN keyU < key \/ (keyU = key /\ u < current)

NoOverrun ==
    phase = "running" /\ policy \in {"sjf", "lst", "dm"} =>
        /\ \/ allocated_time \in 1..left(current)
           \/ policy = "dm" /\ now + left(current) > job[current].current_deadline
        /\ \A u \in Range(run_queue) \ {current} :
             ~Preferred(u, left(u), job[u].current_deadline, now)
        /\ \A e \in Range(release_queue) :
             e.release_time \in now .. now + allocated_time - 1 =>
               ~Preferred(e.thrd, work[e.thrd].processing_time,
                          e.release_time + work[e.thrd].deadline, e.release_time)

\* With LST, a miss is reported only when a deadline has been missed, and no
\* cycle ends late without a report, although thread_exit() looks at no deadline.
MissIsReported ==
    policy = "lst" =>
        /\ phase' = "missed" =>
             \E t \in Thread : /\ job'[t].n > 0
                               /\ \/ job'[t].current_deadline < now'
                                  \/ job'[t].current_deadline = now' /\ left(t)' > 0
        /\ \A t \in Thread : job'[t].n < job[t].n => now' <= job[t].current_deadline
MissesReported == [][MissIsReported]_vars

\* DM runs a thread that cannot meet its deadline (threads_sched.c:204-208).
Hopeless ==
    /\ policy = "dm" /\ phase = "running"
    /\ now + left(current) > job[current].current_deadline

\* Every program ends, although its threads never return of themselves: no
\* policy leaves main or a thread waiting for a timer that is not set, and the
\* quanta and cycles come to an end.  DM is the exception, but only once it has
\* run a thread that cannot meet its deadline: for that one it computes a time
\* of day and no number of ticks, which may be nought or negative.
Ends == <>(phase \in Ended \/ Hopeless)
=============================================================================
