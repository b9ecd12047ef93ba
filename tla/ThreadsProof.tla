----------------------------- MODULE ThreadsProof -----------------------------
(***************************************************************************)
(* Proofs about the preemptive threads of MP3 (Threads.tla), for any       *)
(* number of threads and any programs that ThreadsAssumption allows, under *)
(* each of the five policies.                                              *)
(***************************************************************************)
EXTENDS Threads, TLAPS, FunctionTheorems, FiniteSetTheorems, WellFoundedInduction

-----------------------------------------------------------------------------
(***************************************************************************)
(* The inductive invariant                                                 *)
(*                                                                         *)
(* A handler may call __release() in the middle, with queues and jobs that *)
(* no state has, so that what holds of them is said of any queues q and    *)
(* rel and any jobs j.                                                     *)
(***************************************************************************)

Entry == [thrd : Thread, release_time : Int]
Job   == [n : Nat, remaining_time : Int, current_deadline : Int]

\* No two places have the same thread.
Apart(q) == \A a, b \in DOMAIN q : q[a] = q[b] => a = b

Waiting(rel) == Range(Thrds(rel))

\* A thread that is not freed is in one place of one queue, a freed one in none.
Queued(q, rel, j) ==
    /\ q \in Seq(Thread) /\ rel \in Seq(Entry)
    /\ Apart(q) /\ Apart(Thrds(rel))
    /\ Range(q) \cap Waiting(rel) = {}
    /\ \A t \in Thread : j[t].n > 0 <=> t \in Range(q) \cup Waiting(rel)

\* Deadlines and releases are multiples of the period after the arrival.
Periodic(rel, j) ==
    /\ j \in [Thread -> Job]
    /\ \A t \in Thread :
         /\ j[t].n <= work[t].n
         /\ j[t].n > 0 /\ work[t].is_real_time =>
              j[t].current_deadline =
                work[t].arrival + (work[t].n - j[t].n + 1) * work[t].deadline
    /\ \A e \in Range(rel) :
         e.release_time = work[e.thrd].arrival
                            + (work[e.thrd].n - j[e.thrd].n) * work[e.thrd].deadline

\* Every thread in the run queue has something left to compute.
Busy(q, j) == \A t \in Range(q) : j[t].remaining_time > 0

Future(rel, time) == \A e \in Range(rel) : e.release_time > time

Programs ==
    /\ policy \in Policy
    /\ work \in IF policy \in {"lst", "dm"} THEN RealTime ELSE Plain

\* Context slots: no two threads and not main have the same one.
Slots ==
    /\ slot \in [Thread -> Int] /\ used \subseteq Nat /\ MainSlot \in used
    /\ \A t \in Thread : job[t].n > 0 /\ slot[t] >= 0 =>
         /\ slot[t] # MainSlot /\ slot[t] \in used
         /\ \A u \in Thread \ {t} : job[u].n > 0 => slot[u] # slot[t]

Control ==
    /\ phase \in {"main", "schedule", "dispatch", "running", "sleeping"} \cup Ended
    /\ current \in 0..NTHREAD /\ now \in Nat /\ allocated_time \in Int
    /\ phase \notin Ended => Busy(run_queue, job)
    /\ phase \in {"schedule", "dispatch", "running"} => Future(release_queue, now)
    /\ phase = "dispatch" /\ current # 0 => current \in Range(run_queue)
    /\ phase = "running" => current \in Range(run_queue) /\ slot[current] >= 0

\* The current thread gets ticks, and no more than it needs.
Fits ==
    \/ allocated_time \in 1..left(current)
    \/ policy = "dm" /\ now + left(current) > job[current].current_deadline

\* Nobody is preferred to the current thread, now or before its ticks are over.
Foremost ==
    /\ \A u \in Range(run_queue) \ {current} :
         ~Preferred(u, left(u), job[u].current_deadline, now)
    /\ \A e \in Range(release_queue) :
         e.release_time \in now .. now + allocated_time - 1 =>
           ~Preferred(e.thrd, work[e.thrd].processing_time,
                      e.release_time + work[e.thrd].deadline, e.release_time)

\* What __schedule() has chosen, when it is not a deadline to be reported.
Served ==
    /\ policy \in {"sjf", "lst", "dm"} => Fits /\ Foremost
    /\ policy = "lst" => now + allocated_time <= job[current].current_deadline
Reported ==
    /\ phase = "dispatch" /\ policy \in {"lst", "dm"}
    /\ allocated_time = 0 /\ job[current].current_deadline <= now

Choice == phase \in {"dispatch", "running"} /\ current # 0 => Served \/ Reported

\* Under SJF there is time for everything that is left before FAR: s[t] is when
\* the threads up to t could have ended, one after the other.
Owes(j, t) == IF j[t].n > 0 THEN j[t].remaining_time ELSE 0
Fit(s, j, time) ==
    /\ s \in [0..NTHREAD -> 0..FAR - 1]
    /\ time <= s[0] /\ \A t \in Thread : work[t].arrival <= s[0]
    /\ \A i, k \in 0..NTHREAD : i < k => s[i] + Owes(j, k) <= s[k]
Budget ==
    policy = "sjf" =>
      /\ phase \notin Ended => \E s : Fit(s, job, now)
      /\ \A t \in Waiting(release_queue) : left(t) = work[t].processing_time
      /\ phase \in {"dispatch", "sleeping"} /\ current = 0 =>
           /\ run_queue = <<>>
           /\ allocated_time = First(Range(release_queue)) - now
      /\ phase = "sleeping" => current = 0 /\ release_queue # <<>>

ThreadsInv ==
    /\ Programs /\ Slots /\ Control /\ Choice /\ Budget
    /\ Queued(run_queue, release_queue, job) /\ Periodic(release_queue, job)

-----------------------------------------------------------------------------
(***************************************************************************)
(* Least elements                                                          *)
(***************************************************************************)

\* A set of naturals has a least element: what holds of 0 and of every number
\* after one it holds of holds of all.
LEMMA LeastElement ==
    ASSUME NEW S \in SUBSET Nat, S # {}
    PROVE  Min(S) \in S /\ \A y \in S : Min(S) <= y
  <1> DEFINE R == OpToRel(<, Nat)
  <1>1. IsWellFoundedOn(R, Nat)
    BY NatLessThanWellFounded, Zenon
  <1> HIDE DEF R
  <1>2. \E x \in S : \A y \in S : ~ (<<y, x>> \in R)
    BY <1>1, WFMin
  <1>3. PICK x \in S : \A y \in S : ~ (<<y, x>> \in R)
    BY <1>2
  <1>4. \A y \in S : x <= y
    <2> TAKE y \in S
    <2>1. x \in Nat /\ y \in Nat
      OBVIOUS
    <2>2. y < x => <<y, x>> \in R
      BY <2>1 DEF R, OpToRel
    <2> QED
      BY <1>3, <2>1, <2>2
  <1> QED
    BY <1>3, <1>4 DEF Min

\* Threads are natural numbers, from one on.
LEMMA ThreadIDs ==
    /\ NTHREAD \in Nat
    /\ \A t \in Thread : t \in Nat /\ t \in Int /\ 1 <= t /\ t <= NTHREAD
  <1>1. NTHREAD \in Nat
    BY ThreadsAssumption
  <1> QED
    BY <1>1 DEF Thread

\* Among some threads one has the least key, and the smaller ID of those that have it.
LEMMA LeastThread ==
    ASSUME NEW k \in [Thread -> Int], NEW S \in SUBSET Thread, S # {}
    PROVE  \E t \in S : \A u \in S \ {t} : k[t] < k[u] \/ (k[t] = k[u] /\ t < u)
  <1> DEFINE Foremost1(T) == \E t \in T : \A u \in T \ {t} : k[t] < k[u] \/ (k[t] = k[u] /\ t < u)
             Upto(m) == {t \in S : t <= m}
             Bad == {m \in Nat : Upto(m) # {} /\ ~Foremost1(Upto(m))}
  <1>0. NTHREAD \in Nat /\ \A t \in S : t \in Nat /\ t \in Int /\ 1 <= t /\ t <= NTHREAD
    BY ThreadIDs
  <1>1. Bad = {}
    <2>1. SUFFICES ASSUME Bad # {} PROVE FALSE
      OBVIOUS
    <2>2. PICK m \in Bad : \A y \in Bad : m <= y
      BY <2>1, LeastElement
    <2>3. m \in Nat /\ Upto(m) # {} /\ ~Foremost1(Upto(m))
      OBVIOUS
    <2>4. m # 0
      <3>1. PICK t \in S : t <= m
        BY <2>3
      <3> QED
        BY <1>0, <3>1
    <2>4a. m - 1 \in Nat /\ m - 1 \notin Bad
      BY <2>2, <2>3, <2>4
    <2>5. Upto(m) = Upto(m - 1) \cup (S \cap {m})
      <3>1. \A t \in S : t <= m <=> t <= m - 1 \/ t = m
        BY <1>0, <2>3
      <3>2. \A t \in S : t = m => t <= m
        BY <1>0, <2>3
      <3> QED
        BY <3>1, <3>2
    <2>6. m \in S
      BY <2>3, <2>4a, <2>5
    <2>7. CASE Upto(m - 1) = {}
      <3>1. Upto(m) = {m}
        BY <2>5, <2>6, <2>7
      <3> QED
        BY <2>3, <3>1
    <2>8. CASE Foremost1(Upto(m - 1))
      <3>1. PICK t \in Upto(m - 1) :
              \A u \in Upto(m - 1) \ {t} : k[t] < k[u] \/ (k[t] = k[u] /\ t < u)
        BY <2>8
      <3>2. t \in Thread /\ t < m /\ k[t] \in Int /\ k[m] \in Int /\ t \in S /\ m \in Thread
        BY <1>0, <2>3, <2>6
      <3>3. \A u \in Upto(m - 1) : k[u] \in Int
        OBVIOUS
      <3>4. CASE k[m] < k[t]
        <4>1. \A u \in Upto(m) \ {m} : k[m] < k[u]
          BY <2>5, <3>1, <3>2, <3>3, <3>4
        <4> QED
          BY <2>3, <2>5, <2>6, <4>1
      <3>5. CASE k[t] <= k[m]
        <4>1. \A u \in Upto(m) \ {t} : k[t] < k[u] \/ (k[t] = k[u] /\ t < u)
          BY <2>5, <3>1, <3>2, <3>5
        <4> QED
          BY <2>3, <2>5, <4>1
      <3> QED
        BY <3>2, <3>4, <3>5
    <2> QED
      BY <2>4a, <2>7, <2>8
  <1>2. NTHREAD \in Nat /\ Upto(NTHREAD) = S
    BY <1>0
  <1> HIDE DEF Foremost1, Upto
  <1>3. Foremost1(Upto(NTHREAD))
    BY <1>1, <1>2
  <1> QED
    BY <1>2, <1>3 DEF Foremost1

-----------------------------------------------------------------------------
(***************************************************************************)
(* Walks along a queue                                                     *)
(***************************************************************************)

\* What a walk keeps of the first m places of q is f[m].
Walk(q, S, m, f) ==
    f = [i \in 0..m |->
          IF i = 0 THEN <<>>
          ELSE IF i \in S THEN Append(f[i - 1], q[i]) ELSE f[i - 1]]

\* A walk comes to its end.
LEMMA WalkExists ==
    ASSUME NEW q, NEW S, NEW n \in Nat
    PROVE  \E f : Walk(q, S, n, f)
  <1> DEFINE Bad == {m \in Nat : ~\E f : Walk(q, S, m, f)}
  <1>1. SUFFICES ASSUME Bad # {} PROVE FALSE
    OBVIOUS
  <1>2. PICK m \in Bad : \A y \in Bad : m <= y
    BY <1>1, LeastElement
  <1>3. CASE m = 0
    <2>1. Walk(q, S, 0, [i \in 0..0 |-> <<>>])
      BY DEF Walk
    <2> QED
      BY <1>2, <1>3, <2>1
  <1>4. CASE m > 0
    <2>1. m - 1 \in Nat /\ m - 1 \notin Bad
      BY <1>2, <1>4
    <2>2. PICK f : Walk(q, S, m - 1, f)
      BY <2>1
    <2> DEFINE g == [i \in 0..m |->
                       IF i = m THEN IF m \in S THEN Append(f[m - 1], q[m]) ELSE f[m - 1]
                                ELSE f[i]]
    <2>3. ASSUME NEW i \in 0..m
          PROVE  g[i] = IF i = 0 THEN <<>>
                        ELSE IF i \in S THEN Append(g[i - 1], q[i]) ELSE g[i - 1]
      <3>1. CASE i = m
        <4>1. i # 0 /\ i - 1 \in 0..m /\ i - 1 # m /\ g[i - 1] = f[m - 1]
          BY <1>2, <1>4, <3>1
        <4> QED
          BY <3>1, <4>1
      <3>2. CASE i < m
        <4>1. i \in 0..m - 1 /\ (i # 0 => i - 1 \in 0..m - 1) /\ g[i] = f[i]
              /\ (i # 0 => g[i - 1] = f[i - 1])
          BY <1>2, <3>2
        <4> QED
          BY <2>2, <4>1 DEF Walk
      <3> QED
        BY <1>2, <3>1, <3>2
    <2>4. Walk(q, S, m, g)
      BY <2>3 DEF Walk
    <2> QED
      BY <1>2, <2>4
  <1> QED
    BY <1>2, <1>3, <1>4

\* r is what q has at the places in T, one after the other.
Picks(r, q, T) ==
    \E h \in [1..Len(r) -> T] :
        /\ \A a, b \in 1..Len(r) : h[a] = h[b] => a = b
        /\ \A i \in T : \E a \in 1..Len(r) : h[a] = i
        /\ \A a \in 1..Len(r) : r[a] = q[h[a]]

\* A walk keeps the places in S, each once.
LEMMA WalkPicks ==
    ASSUME NEW X, NEW q \in Seq(X), NEW S \in SUBSET (1..Len(q)), NEW f, Walk(q, S, Len(q), f)
    PROVE  f[Len(q)] \in Seq(X) /\ Picks(f[Len(q)], q, S)
  <1> DEFINE To(m) == {i \in S : i <= m}
             Good(m) == f[m] \in Seq(X) /\ Picks(f[m], q, To(m))
             Bad == {m \in Nat : m <= Len(q) /\ ~Good(m)}
  <1>0. Len(q) \in Nat /\ \A i \in S : i \in Nat /\ 1 <= i /\ i <= Len(q)
    OBVIOUS
  <1>1. SUFFICES Bad = {}
    <2>1. Len(q) \in Nat /\ To(Len(q)) = S
      BY <1>0
    <2> HIDE DEF To
    <2>2. Good(Len(q))
      BY <2>1
    <2> QED
      BY <2>1, <2>2
  <1>2. SUFFICES ASSUME Bad # {} PROVE FALSE
    OBVIOUS
  <1>3. PICK m \in Bad : \A y \in Bad : m <= y
    BY <1>2, LeastElement
  <1>4. m \in 0..Len(q) /\ ~Good(m) /\ Len(q) \in Nat
    BY <1>3
  <1>5. \A i \in 0..Len(q) : f[i] = IF i = 0 THEN <<>>
                                   ELSE IF i \in S THEN Append(f[i - 1], q[i]) ELSE f[i - 1]
    BY DEF Walk
  <1>6. CASE m = 0
    <2>1. To(m) = {}
      <3>1. \A i \in S : ~(i <= m)
        BY <1>0, <1>6
      <3> QED
        BY <3>1
    <2>1a. f[m] = <<>>
      BY <1>4, <1>5, <1>6
    <2>2. Picks(<<>>, q, {})
      <3> DEFINE h == [a \in 1..Len(<<>>) |-> 1]
      <3>1. 1..Len(<<>>) = {}
        OBVIOUS
      <3>2. h \in [1..Len(<<>>) -> {}]
        BY <3>1
      <3> QED
        BY <3>1, <3>2 DEF Picks
    <2>3. <<>> \in Seq(X)
      OBVIOUS
    <2> HIDE DEF To
    <2> QED
      BY <1>4, <2>1, <2>1a, <2>2, <2>3
  <1>7. CASE m > 0
    <2>1. m - 1 \in 0..Len(q) /\ m - 1 \in Nat /\ Good(m - 1)
      <3>1. m - 1 \in 0..Len(q) /\ m - 1 \in Nat /\ m - 1 <= Len(q) /\ ~(m <= m - 1)
        BY <1>4, <1>7
      <3> HIDE DEF Good
      <3> QED
        BY <1>3, <3>1
    <2>1a. f[m] = IF m \in S THEN Append(f[m - 1], q[m]) ELSE f[m - 1]
      BY <1>4, <1>5, <1>7
    <2>1b. \A i \in S : i <= m <=> i <= m - 1 \/ i = m
      BY <1>0, <1>4
    <2>2. CASE m \notin S
      <3>1. f[m] = f[m - 1]
        BY <2>1a, <2>2
      <3>2. To(m) = To(m - 1)
        BY <2>1b, <2>2
      <3> HIDE DEF To
      <3> QED
        BY <1>4, <2>1, <3>1, <3>2
    <2>3. CASE m \in S
      <3> DEFINE r == f[m - 1]
                 T == To(m - 1)
      <3>1a. To(m) = T \cup {m}
        <4>1. m <= m
          BY <1>4
        <4> QED
          BY <2>1b, <2>3, <4>1
      <3>1b. m \notin T
        BY <1>4
      <3>1c. m \in 1..Len(q) /\ q[m] \in X
        BY <2>3
      <3>1. f[m] = Append(r, q[m]) /\ To(m) = T \cup {m} /\ m \notin T /\ q[m] \in X
        BY <2>1a, <2>3, <3>1a, <3>1b, <3>1c
      <3>2. r \in Seq(X) /\ Picks(r, q, T)
        BY <2>1
      <3> HIDE DEF r, T, To
      <3>3. PICK h \in [1..Len(r) -> T] :
              /\ \A a, b \in 1..Len(r) : h[a] = h[b] => a = b
              /\ \A i \in T : \E a \in 1..Len(r) : h[a] = i
              /\ \A a \in 1..Len(r) : r[a] = q[h[a]]
        BY <3>2 DEF Picks
      <3> DEFINE s == Append(r, q[m])
                 n == Len(r) + 1
                 g == [a \in 1..n |-> IF a = n THEN m ELSE h[a]]
      <3>4. s \in Seq(X) /\ Len(s) = n /\ s[n] = q[m] /\ n \in Nat
            /\ \A a \in 1..Len(r) : s[a] = r[a]
        BY <3>1, <3>2
      <3>5. \A a \in 1..n : a = n \/ a \in 1..Len(r)
        BY <3>2
      <3>5a. n \in 1..n /\ n \notin 1..Len(r) /\ 1..Len(r) \subseteq 1..n
        BY <3>2
      <3> HIDE DEF s, n
      <3>6. g \in [1..Len(s) -> T \cup {m}]
        BY <3>3, <3>4, <3>5
      <3>7. \A a, b \in 1..n : g[a] = g[b] => a = b
        BY <3>1, <3>3, <3>5
      <3>8. \A i \in T \cup {m} : \E a \in 1..n : g[a] = i
        <4> TAKE i \in T \cup {m}
        <4>1. CASE i = m
          BY <4>1, <3>5a
        <4>2. CASE i \in T
          <5>1. PICK a \in 1..Len(r) : h[a] = i
            BY <3>3, <4>2
          <5>2. a \in 1..n /\ a # n
            BY <3>5a
          <5> QED
            BY <5>1, <5>2
        <4> QED
          BY <4>1, <4>2
      <3>9. \A a \in 1..n : s[a] = q[g[a]]
        BY <3>3, <3>4, <3>5, <3>5a
      <3> HIDE DEF g
      <3>10. Picks(s, q, T \cup {m})
        BY <3>4, <3>6, <3>7, <3>8, <3>9 DEF Picks
      <3> QED
        BY <1>4, <3>1, <3>4, <3>10 DEF s
    <2> QED
      BY <2>2, <2>3
  <1> QED
    BY <1>4, <1>6, <1>7

\* Kept() has what the queue has at the places it keeps.
LEMMA KeptPicks ==
    ASSUME NEW X, NEW q \in Seq(X), NEW S \in SUBSET (1..Len(q))
    PROVE  Kept(q, S) \in Seq(X) /\ Picks(Kept(q, S), q, S)
  <1> DEFINE f == CHOOSE f : Walk(q, S, Len(q), f)
  <1>1. Len(q) \in Nat
    OBVIOUS
  <1>2. Walk(q, S, Len(q), f)
    BY <1>1, WalkExists
  <1>3. Kept(q, S) = f[Len(q)]
    BY DEF Walk, Kept
  <1> HIDE DEF f
  <1> QED
    BY <1>2, <1>3, WalkPicks

-----------------------------------------------------------------------------
(***************************************************************************)
(* Queues                                                                  *)
(***************************************************************************)

\* A walk that keeps the places in S of a queue has what the queue has there, and
\* keeps threads apart.
LEMMA PicksRange ==
    ASSUME NEW X, NEW q \in Seq(X), NEW S \in SUBSET (1..Len(q)), NEW r \in Seq(X), Picks(r, q, S)
    PROVE  Range(r) = {q[i] : i \in S}
  <1>1. PICK h \in [1..Len(r) -> S] :
          /\ \A i \in S : \E a \in 1..Len(r) : h[a] = i
          /\ \A a \in 1..Len(r) : r[a] = q[h[a]]
    BY DEF Picks
  <1>2. DOMAIN r = 1..Len(r)
    OBVIOUS
  <1>3. ASSUME NEW x \in Range(r) PROVE \E i \in S : x = q[i]
    <2>1. PICK a \in 1..Len(r) : x = r[a]
      BY <1>2 DEF Range
    <2> QED
      BY <1>1, <2>1
  <1>4. ASSUME NEW i \in S PROVE q[i] \in Range(r)
    <2>1. PICK a \in 1..Len(r) : h[a] = i
      BY <1>1
    <2> QED
      BY <1>1, <1>2, <2>1 DEF Range
  <1> QED
    BY <1>3, <1>4

\* Threads that are apart in a queue are apart in what a walk keeps.
LEMMA PicksApart ==
    ASSUME NEW X, NEW q \in Seq(X), NEW S \in SUBSET (1..Len(q)), NEW r \in Seq(X), Picks(r, q, S)
    PROVE  /\ Apart(q) => Apart(r)
           /\ Apart(Thrds(q)) => Apart(Thrds(r))
  <1>1. PICK h \in [1..Len(r) -> S] :
          /\ \A a, b \in 1..Len(r) : h[a] = h[b] => a = b
          /\ \A a \in 1..Len(r) : r[a] = q[h[a]]
    BY DEF Picks
  <1>2. DOMAIN r = 1..Len(r) /\ DOMAIN q = 1..Len(q)
    OBVIOUS
  <1>3. DOMAIN Thrds(r) = 1..Len(r) /\ DOMAIN Thrds(q) = 1..Len(q)
        /\ (\A a \in 1..Len(r) : Thrds(r)[a] = r[a].thrd)
        /\ (\A i \in 1..Len(q) : Thrds(q)[i] = q[i].thrd)
    BY <1>2 DEF Thrds
  <1>4. \A a \in 1..Len(r) : h[a] \in 1..Len(q)
    BY <1>1
  <1>5. Apart(q) => Apart(r)
    BY <1>1, <1>2, <1>4 DEF Apart
  <1>6. Apart(Thrds(q)) => Apart(Thrds(r))
    BY <1>1, <1>3, <1>4 DEF Apart
  <1> QED
    BY <1>5, <1>6

\* The threads of some entries of the release queue.
LEMMA ThrdsFacts ==
    ASSUME NEW es \in Seq(Entry)
    PROVE  /\ Thrds(es) \in Seq(Thread) /\ Len(Thrds(es)) = Len(es)
           /\ Waiting(es) = {e.thrd : e \in Range(es)}
           /\ Waiting(es) \subseteq Thread
           /\ Range(es) \subseteq Entry
           /\ Apart(Thrds(es)) => \A e, f \in Range(es) : e.thrd = f.thrd => e = f
  <1>1. Len(es) \in Nat /\ DOMAIN es = 1..Len(es) /\ \A i \in 1..Len(es) : es[i] \in Entry
    OBVIOUS
  <1>2. Thrds(es) = [i \in 1..Len(es) |-> es[i].thrd]
    BY <1>1 DEF Thrds
  <1>3. \A i \in 1..Len(es) : es[i].thrd \in Thread
    BY <1>1 DEF Entry
  <1>4. Thrds(es) \in [1..Len(es) -> Thread]
    BY <1>2, <1>3
  <1>5. Thrds(es) \in Seq(Thread) /\ Len(Thrds(es)) = Len(es) /\ DOMAIN Thrds(es) = 1..Len(es)
    BY <1>1, <1>4
  <1>6. Range(es) \subseteq Entry
    BY <1>1 DEF Range
  <1>7. Waiting(es) = {e.thrd : e \in Range(es)}
    BY <1>1, <1>2 DEF Waiting, Range
  <1>8. ASSUME Apart(Thrds(es)), NEW e \in Range(es), NEW f \in Range(es), e.thrd = f.thrd
        PROVE  e = f
    <2>1. PICK a \in 1..Len(es), b \in 1..Len(es) : e = es[a] /\ f = es[b]
      BY <1>1 DEF Range
    <2>2. a = b
      BY <1>2, <1>8, <2>1 DEF Apart
    <2> QED
      BY <2>1, <2>2
  <1>9. Waiting(es) \subseteq Thread
    BY <1>6, <1>7 DEF Entry
  <1> QED
    BY <1>5, <1>6, <1>7, <1>8, <1>9

\* __release() splits the release queue.
LEMMA DueRest ==
    ASSUME NEW rel \in Seq(Entry), NEW time \in Int
    PROVE  /\ Due(rel, time) \in Seq(Entry) /\ Rest(rel, time) \in Seq(Entry)
           /\ Apart(Thrds(rel)) => Apart(Thrds(Due(rel, time))) /\ Apart(Thrds(Rest(rel, time)))
           /\ Range(Due(rel, time)) = {e \in Range(rel) : e.release_time <= time}
           /\ Range(Rest(rel, time)) = {e \in Range(rel) : e.release_time > time}
  <1> DEFINE D == {i \in DOMAIN rel : IsDue(rel[i], time)}
             N == {i \in DOMAIN rel : ~IsDue(rel[i], time)}
  <1>1. DOMAIN rel = 1..Len(rel) /\ \A i \in 1..Len(rel) : rel[i] \in Entry
    OBVIOUS
  <1>2. D \subseteq 1..Len(rel) /\ N \subseteq 1..Len(rel)
    BY <1>1
  <1>3. Due(rel, time) = Kept(rel, D) /\ Rest(rel, time) = Kept(rel, N)
    BY DEF Due, Rest
  <1>4. \A i \in 1..Len(rel) : /\ i \in D <=> rel[i].release_time <= time
                               /\ i \in N <=> rel[i].release_time > time
    BY <1>1 DEF IsDue, Entry
  <1> HIDE DEF D, N
  <1>5. Kept(rel, D) \in Seq(Entry) /\ Picks(Kept(rel, D), rel, D)
    BY <1>2, KeptPicks
  <1>6. Kept(rel, N) \in Seq(Entry) /\ Picks(Kept(rel, N), rel, N)
    BY <1>2, KeptPicks
  <1>7. /\ Apart(Thrds(rel)) => Apart(Thrds(Kept(rel, D)))
        /\ Apart(Thrds(rel)) => Apart(Thrds(Kept(rel, N)))
    BY <1>2, <1>5, <1>6, PicksApart
  <1>8. Range(Kept(rel, D)) = {rel[i] : i \in D} /\ Range(Kept(rel, N)) = {rel[i] : i \in N}
    BY <1>2, <1>5, <1>6, PicksRange
  <1>9. {rel[i] : i \in D} = {e \in Range(rel) : e.release_time <= time}
    BY <1>1, <1>2, <1>4 DEF Range
  <1>10. {rel[i] : i \in N} = {e \in Range(rel) : e.release_time > time}
    BY <1>1, <1>2, <1>4 DEF Range
  <1> QED
    BY <1>3, <1>5, <1>6, <1>7, <1>8, <1>9, <1>10

\* A thread is taken out of the run queue.
LEMMA WithoutFacts ==
    ASSUME NEW q \in Seq(Thread), NEW t, Apart(q)
    PROVE  /\ Without(q, t) \in Seq(Thread) /\ Apart(Without(q, t))
           /\ Range(Without(q, t)) = Range(q) \ {t}
  <1> DEFINE S == {i \in DOMAIN q : q[i] # t}
  <1>1. DOMAIN q = 1..Len(q) /\ S \subseteq 1..Len(q) /\ Without(q, t) = Kept(q, S)
    BY DEF Without
  <1>2. {q[i] : i \in S} = Range(q) \ {t}
    BY DEF Range
  <1> HIDE DEF S
  <1>3. Kept(q, S) \in Seq(Thread) /\ Picks(Kept(q, S), q, S)
    BY <1>1, KeptPicks
  <1>4. Apart(Kept(q, S)) /\ Range(Kept(q, S)) = {q[i] : i \in S}
    BY <1>1, <1>3, PicksApart, PicksRange
  <1> QED
    BY <1>1, <1>2, <1>3, <1>4

\* One queue behind another.
LEMMA ConcatFacts ==
    ASSUME NEW q \in Seq(Thread), NEW r \in Seq(Thread), Apart(q), Apart(r),
           Range(q) \cap Range(r) = {}
    PROVE  /\ q \o r \in Seq(Thread) /\ Apart(q \o r)
           /\ Range(q \o r) = Range(q) \cup Range(r)
  <1> DEFINE s == q \o r
  <1>1. Len(q) \in Nat /\ Len(r) \in Nat /\ DOMAIN q = 1..Len(q) /\ DOMAIN r = 1..Len(r)
    OBVIOUS
  <1>2. s \in Seq(Thread) /\ Len(s) = Len(q) + Len(r) /\ DOMAIN s = 1..Len(q) + Len(r)
        /\ (\A a \in 1..Len(q) : s[a] = q[a])
        /\ (\A a \in 1..Len(q) + Len(r) : a > Len(q) => s[a] = r[a - Len(q)])
    BY <1>1
  <1> HIDE DEF s
  <1>3. ASSUME NEW a \in 1..Len(q) + Len(r)
        PROVE  \/ a \in 1..Len(q) /\ s[a] = q[a] /\ s[a] \in Range(q)
               \/ a > Len(q) /\ a - Len(q) \in 1..Len(r) /\ s[a] = r[a - Len(q)]
                  /\ s[a] \in Range(r)
    <2>1. CASE a <= Len(q)
      <3>1. a \in 1..Len(q)
        BY <1>1, <2>1
      <3> QED
        BY <1>1, <1>2, <3>1 DEF Range
    <2>2. CASE a > Len(q)
      <3>1. a - Len(q) \in 1..Len(r)
        BY <1>1, <2>2
      <3> QED
        BY <1>1, <1>2, <2>2, <3>1 DEF Range
    <2> QED
      BY <1>1, <2>1, <2>2
  <1>4. Apart(s)
    <2> SUFFICES ASSUME NEW a \in 1..Len(q) + Len(r), NEW b \in 1..Len(q) + Len(r), s[a] = s[b]
                 PROVE  a = b
      BY <1>2 DEF Apart
    <2>1. CASE a \in 1..Len(q) /\ b \in 1..Len(q) /\ s[a] = q[a] /\ s[b] = q[b]
      BY <1>1, <2>1 DEF Apart
    <2>2. CASE /\ a - Len(q) \in 1..Len(r) /\ b - Len(q) \in 1..Len(r)
               /\ s[a] = r[a - Len(q)] /\ s[b] = r[b - Len(q)]
      <3>1. a - Len(q) = b - Len(q)
        BY <1>1, <2>2 DEF Apart
      <3> QED
        BY <1>1, <3>1
    <2> QED
      BY <1>3, <2>1, <2>2
  <1>5. Range(s) = Range(q) \cup Range(r)
    <2>1. Range(s) \subseteq Range(q) \cup Range(r)
      BY <1>2, <1>3 DEF Range
    <2>2. ASSUME NEW i \in 1..Len(q) PROVE q[i] \in Range(s)
      <3>1. i \in 1..Len(q) + Len(r)
        BY <1>1
      <3> QED
        BY <1>2, <3>1 DEF Range
    <2>3. ASSUME NEW i \in 1..Len(r) PROVE r[i] \in Range(s)
      <3>1. PICK k \in 1..Len(q) + Len(r) : k > Len(q) /\ k - Len(q) = i
        <4>1. i + Len(q) \in 1..Len(q) + Len(r) /\ i + Len(q) > Len(q) /\ i + Len(q) - Len(q) = i
          BY <1>1
        <4> QED
          BY <4>1
      <3>2. s[k] = r[i]
        BY <1>2, <3>1
      <3> QED
        BY <1>2, <3>1, <3>2 DEF Range
    <2>4. Range(q) \subseteq Range(s) /\ Range(r) \subseteq Range(s)
      BY <1>1, <2>2, <2>3 DEF Range
    <2> QED
      BY <2>1, <2>4
  <1> QED
    BY <1>2, <1>4, <1>5 DEF s

\* One more at the end of a queue.
LEMMA AppendFacts ==
    ASSUME NEW X, NEW q \in Seq(X), NEW x \in X
    PROVE  /\ Append(q, x) \in Seq(X)
           /\ Range(Append(q, x)) = Range(q) \cup {x}
           /\ Apart(q) /\ x \notin Range(q) => Apart(Append(q, x))
  <1> DEFINE s == Append(q, x)
             n == Len(q) + 1
  <1>1. s \in Seq(X) /\ DOMAIN s = 1..n /\ n \in Nat /\ s[n] = x
        /\ (\A a \in 1..Len(q) : s[a] = q[a]) /\ DOMAIN q = 1..Len(q)
    OBVIOUS
  <1>2. n \in 1..n /\ n \notin 1..Len(q) /\ (\A a \in 1..n : a = n \/ a \in 1..Len(q))
        /\ (\A a \in 1..Len(q) : a \in 1..n)
    OBVIOUS
  <1> HIDE DEF s, n
  <1>3. Range(s) = Range(q) \cup {x}
    BY <1>1, <1>2 DEF Range
  <1>4. Apart(q) /\ x \notin Range(q) => Apart(s)
    BY <1>1, <1>2 DEF Range, Apart
  <1> QED
    BY <1>1, <1>3, <1>4 DEF s

\* One more entry at the end of the release queue.
LEMMA ThrdsAppend ==
    ASSUME NEW rel \in Seq(Entry), NEW e \in Entry
    PROVE  Thrds(Append(rel, e)) = Append(Thrds(rel), e.thrd)
  <1> DEFINE s == Append(rel, e)
             r == Thrds(rel)
             n == Len(rel) + 1
  <1>1. Len(rel) \in Nat /\ DOMAIN s = 1..n /\ n \in Nat /\ s[n] = e
        /\ (\A a \in 1..Len(rel) : s[a] = rel[a]) /\ DOMAIN rel = 1..Len(rel)
    OBVIOUS
  <1>2. \A a \in 1..n : a = n \/ a \in 1..Len(rel)
    OBVIOUS
  <1>3. r \in Seq(Thread) /\ Len(r) = Len(rel) /\ \A a \in 1..Len(rel) : r[a] = rel[a].thrd
    BY <1>1, ThrdsFacts DEF Thrds
  <1> HIDE DEF s, r
  <1>4. Append(r, e.thrd) = [a \in 1..n |-> IF a = n THEN e.thrd ELSE r[a]]
    BY <1>1, <1>2, <1>3
  <1>5. Thrds(s) = [a \in 1..n |-> s[a].thrd]
    BY <1>1 DEF Thrds
  <1>6. \A a \in 1..n : s[a].thrd = IF a = n THEN e.thrd ELSE r[a]
    BY <1>1, <1>2, <1>3
  <1> HIDE DEF n
  <1>7. Thrds(s) = Append(r, e.thrd)
    BY <1>4, <1>5, <1>6
  <1> QED
    BY <1>7 DEF s, r

-----------------------------------------------------------------------------
(***************************************************************************)
(* Programs, and __release()                                               *)
(***************************************************************************)

\* What a program asks of thread_create() and thread_add_at().
LEMMA WorkFacts ==
    ASSUME Programs
    PROVE  /\ work \in [Thread -> Task]
           /\ \A t \in Thread :
                /\ work[t].processing_time \in Nat /\ work[t].processing_time > 0
                /\ work[t].n \in Nat /\ work[t].n > 0
                /\ work[t].deadline \in Int /\ work[t].arrival \in Nat
                /\ work[t].weight \in Nat /\ work[t].weight > 0
           /\ policy \in {"lst", "dm"} =>
                \A t \in Thread : /\ work[t].is_real_time /\ work[t].deadline > 0
                                  /\ work[t].arrival + work[t].n * work[t].deadline < FAR
           /\ policy \notin {"lst", "dm"} =>
                /\ work \in Plain /\ Ending(work) < FAR
                /\ \A t \in Thread : ~work[t].is_real_time /\ work[t].n = 1
  <1>1. work \in [Thread -> Task]
    BY ThreadsAssumption DEF Programs
  <1>2. \A t \in Thread : work[t] \in Task
    BY <1>1
  <1>3. policy \in {"lst", "dm"} => work \in RealTime
    BY DEF Programs
  <1>4. policy \notin {"lst", "dm"} => work \in Plain
    BY DEF Programs
  <1>5. ASSUME NEW t \in Thread
        PROVE  /\ work[t].processing_time \in Nat /\ work[t].processing_time > 0
               /\ work[t].n \in Nat /\ work[t].n > 0
               /\ work[t].deadline \in Int /\ work[t].arrival \in Nat
               /\ work[t].weight \in Nat /\ work[t].weight > 0
    BY <1>2 DEF Task
  <1>6. policy \in {"lst", "dm"} =>
          \A t \in Thread : /\ work[t].is_real_time /\ work[t].deadline > 0
                            /\ work[t].arrival + work[t].n * work[t].deadline < FAR
    BY <1>3, ThreadsAssumption
  <1>7. policy \notin {"lst", "dm"} =>
          /\ Ending(work) < FAR
          /\ \A t \in Thread : ~work[t].is_real_time /\ work[t].n = 1
    <2>1. ASSUME NEW w \in Plain
          PROVE  Ending(w) < FAR /\ \A t \in Thread : ~w[t].is_real_time /\ w[t].n = 1
      BY ThreadsAssumption, Zenon
    <2> QED
      BY <1>4, <2>1, Zenon
  <1> QED
    BY <1>1, <1>4, <1>5, <1>6, <1>7

\* One more period.
LEMMA OneMore ==
    ASSUME NEW c \in Int, NEW d \in Int
    PROVE  (c + 1) * d = c * d + d
  OBVIOUS

\* The job of a thread that __release() does not move stays as it is, one that it
\* moves gets its processing time, and its deadline a period after its release.
LEMMA RenewedFacts ==
    ASSUME Programs, NEW j \in [Thread -> Job], NEW es \in Seq(Entry), Apart(Thrds(es))
    PROVE  /\ Renewed(j, es) \in [Thread -> Job]
           /\ \A t \in Thread : Renewed(j, es)[t].n = j[t].n
           /\ \A t \in Thread \ Waiting(es) : Renewed(j, es)[t] = j[t]
           /\ \A e \in Range(es) :
                /\ Renewed(j, es)[e.thrd].remaining_time = work[e.thrd].processing_time
                /\ Renewed(j, es)[e.thrd].current_deadline
                     = e.release_time + work[e.thrd].deadline
  <1> DEFINE k == Renewed(j, es)
  <1>1. /\ Range(es) \subseteq Entry /\ Waiting(es) = {e.thrd : e \in Range(es)}
        /\ \A e, f \in Range(es) : e.thrd = f.thrd => e = f
    BY ThrdsFacts
  <1>2. ASSUME NEW t \in Thread \ Waiting(es) PROVE k[t] = j[t]
    BY <1>1 DEF Renewed
  <1>3. ASSUME NEW e \in Range(es)
        PROVE  LET t == e.thrd IN
               /\ t \in Thread /\ k[t] \in Job /\ k[t].n = j[t].n
               /\ k[t].remaining_time = work[t].processing_time
               /\ k[t].current_deadline = e.release_time + work[t].deadline
    <2> DEFINE t == e.thrd
    <2>1. t \in Thread /\ e.release_time \in Int /\ j[t] \in Job
      BY <1>1 DEF Entry
    <2>2. (CHOOSE f \in Range(es) : f.thrd = t) = e
      <3>1. \A f \in Range(es) : f.thrd = t <=> f = e
        BY <1>1
      <3> QED
        BY <3>1
    <2>3. k[t] = [j[t] EXCEPT !.remaining_time = work[t].processing_time,
                              !.current_deadline = e.release_time + work[t].deadline]
      BY <2>1, <2>2 DEF Renewed
    <2>4. work[t].processing_time \in Int /\ e.release_time + work[t].deadline \in Int
      BY <2>1, WorkFacts
    <2>5. PICK d \in Int : d = e.release_time + work[t].deadline
      BY <2>4
    <2>6. PICK p \in Int : p = work[t].processing_time
      BY <2>4
    <2>7. PICK b : b = [j[t] EXCEPT !.remaining_time = p]
      OBVIOUS
    <2>8. k[t] = [b EXCEPT !.current_deadline = d]
      BY <2>3, <2>5, <2>6, <2>7
    <2> HIDE DEF t, k
    <2>9. b \in Job /\ b.n = j[t].n /\ b.remaining_time = p
      BY <2>1, <2>7 DEF Job
    <2>10. k[t] \in Job /\ k[t].n = b.n /\ k[t].remaining_time = p /\ k[t].current_deadline = d
      BY <2>8, <2>9 DEF Job
    <2> QED
      BY <2>1, <2>5, <2>6, <2>9, <2>10 DEF t
  <1>4. DOMAIN k = Thread /\ k = [t \in Thread |-> k[t]]
    BY DEF Renewed
  <1> HIDE DEF k
  <1>5. ASSUME NEW t \in Thread PROVE k[t] \in Job /\ k[t].n = j[t].n
    BY <1>1, <1>2, <1>3
  <1>6. k \in [Thread -> Job]
    BY <1>4, <1>5
  <1> QED
    BY <1>2, <1>3, <1>5, <1>6 DEF k

\* What __release() makes, r, re and k, of the queues q and rel and the jobs j.
Moved(q, rel, j, time, r, re, k) ==
    /\ Queued(r, re, k) /\ Periodic(re, k)
    /\ Busy(q, j) => Busy(r, k)
    /\ Future(re, time)
    /\ \A t \in Thread : k[t].n = j[t].n
    /\ \A t \in Range(q) : k[t] = j[t]
    /\ \A t \in Thread \ Waiting(rel) : k[t] = j[t]
    /\ \A t \in Waiting(rel) :
         k[t] = j[t] \/ k[t].remaining_time = work[t].processing_time
    /\ \A t \in Waiting(re) : k[t] = j[t]
    /\ Range(q) \subseteq Range(r)
    /\ Waiting(re) \subseteq Waiting(rel)

\* __release() moves the entries that are due from one queue to the other: the
\* threads stay queued once, with deadlines that do not drift.
LEMMA Released ==
    ASSUME Programs, NEW q, NEW rel, NEW j, NEW time \in Int,
           Queued(q, rel, j), Periodic(rel, j)
    PROVE  Moved(q, rel, j, time,
                 q \o Thrds(Due(rel, time)), Rest(rel, time), Renewed(j, Due(rel, time)))
  <1> DEFINE es == Due(rel, time)
             re == Rest(rel, time)
             k  == Renewed(j, es)
             r  == q \o Thrds(es)
  <1>1. /\ q \in Seq(Thread) /\ rel \in Seq(Entry) /\ Apart(q) /\ Apart(Thrds(rel))
        /\ Range(q) \cap Waiting(rel) = {}
        /\ \A t \in Thread : j[t].n > 0 <=> t \in Range(q) \cup Waiting(rel)
    BY DEF Queued
  <1>2. j \in [Thread -> Job]
    BY DEF Periodic
  <1>3. /\ es \in Seq(Entry) /\ re \in Seq(Entry) /\ Apart(Thrds(es)) /\ Apart(Thrds(re))
        /\ Range(es) = {e \in Range(rel) : e.release_time <= time}
        /\ Range(re) = {e \in Range(rel) : e.release_time > time}
    BY <1>1, DueRest
  <1>4. /\ Waiting(rel) = {e.thrd : e \in Range(rel)} /\ Range(rel) \subseteq Entry
        /\ \A e, f \in Range(rel) : e.thrd = f.thrd => e = f
    BY <1>1, ThrdsFacts
  <1> HIDE DEF es, re
  <1>5. /\ Thrds(es) \in Seq(Thread) /\ Waiting(es) = {e.thrd : e \in Range(es)}
        /\ Waiting(es) \subseteq Thread
        /\ Waiting(re) = {e.thrd : e \in Range(re)} /\ Waiting(re) \subseteq Thread
    BY <1>3, ThrdsFacts
  <1>6. \A e \in Range(rel) : e.release_time \in Int /\ e.thrd \in Thread
    BY <1>4 DEF Entry
  <1>7. Waiting(rel) = Waiting(es) \cup Waiting(re) /\ Waiting(es) \cap Waiting(re) = {}
    BY <1>3, <1>4, <1>5, <1>6
  <1>8. Range(q) \cap Waiting(es) = {}
    BY <1>1, <1>7
  <1>9. r \in Seq(Thread) /\ Apart(r) /\ Range(r) = Range(q) \cup Waiting(es)
    BY <1>1, <1>3, <1>5, <1>8, ConcatFacts DEF Waiting
  <1>10. /\ k \in [Thread -> Job]
         /\ \A t \in Thread : k[t].n = j[t].n
         /\ \A t \in Thread \ Waiting(es) : k[t] = j[t]
         /\ \A e \in Range(es) :
                /\ k[e.thrd].remaining_time = work[e.thrd].processing_time
                /\ k[e.thrd].current_deadline = e.release_time + work[e.thrd].deadline
    BY <1>2, <1>3, RenewedFacts
  <1>11. Range(q) \subseteq Thread
    BY <1>1 DEF Range
  <1> HIDE DEF k, r
  <1>12. Queued(r, re, k)
    <2>1. Range(r) \cap Waiting(re) = {}
      BY <1>1, <1>7, <1>9
    <2>2. \A t \in Thread : k[t].n > 0 <=> t \in Range(r) \cup Waiting(re)
      BY <1>1, <1>7, <1>9, <1>10
    <2> QED
      BY <1>3, <1>9, <2>1, <2>2 DEF Queued
  <1>13. Periodic(re, k)
    <2>1. ASSUME NEW t \in Thread
          PROVE  /\ k[t].n <= work[t].n
                 /\ k[t].n > 0 /\ work[t].is_real_time =>
                      k[t].current_deadline =
                        work[t].arrival + (work[t].n - k[t].n + 1) * work[t].deadline
      <3>1. k[t].n <= work[t].n /\ k[t].n = j[t].n
        BY <1>10 DEF Periodic
      <3>2. CASE t \notin Waiting(es)
        BY <1>10, <3>1, <3>2 DEF Periodic
      <3>3. CASE t \in Waiting(es)
        <4>1. PICK e \in Range(es) : t = e.thrd
          BY <1>5, <3>3
        <4>2. e \in Range(rel)
          BY <1>3
        <4>3. e.release_time = work[t].arrival + (work[t].n - k[t].n) * work[t].deadline
          BY <3>1, <4>1, <4>2 DEF Periodic
        <4>4. k[t].current_deadline = e.release_time + work[t].deadline
          BY <1>10, <4>1
        <4>5. /\ work[t].arrival \in Int /\ work[t].deadline \in Int /\ work[t].n \in Int
              /\ k[t].n \in Int
          BY <1>10, WorkFacts DEF Job
        <4>6. PICK c \in Int : c = work[t].n - k[t].n
          BY <4>5
        <4>7. PICK d \in Int : d = work[t].deadline
          BY <4>5
        <4>8. c * d + d = (c + 1) * d
          BY <4>6, <4>7, OneMore
        <4>9. PICK y \in Int : y = c * d
          BY <4>6, <4>7
        <4> QED
          BY <3>1, <4>3, <4>4, <4>5, <4>6, <4>7, <4>8, <4>9
      <3> QED
        BY <3>2, <3>3
    <2>2. ASSUME NEW e \in Range(re)
          PROVE  e.release_time = work[e.thrd].arrival
                            + (work[e.thrd].n - k[e.thrd].n) * work[e.thrd].deadline
      <3>1. e \in Range(rel) /\ e.thrd \in Thread
        BY <1>3, <1>6
      <3>2. k[e.thrd].n = j[e.thrd].n
        BY <1>10, <3>1
      <3> QED
        BY <3>1, <3>2 DEF Periodic
    <2> QED
      BY <1>10, <2>1, <2>2 DEF Periodic
  <1>14. ASSUME Busy(q, j) PROVE Busy(r, k)
    <2> SUFFICES ASSUME NEW t \in Range(r) PROVE k[t].remaining_time > 0
      BY DEF Busy
    <2>1. CASE t \in Range(q)
      BY <1>8, <1>10, <1>11, <1>14, <2>1 DEF Busy
    <2>2. CASE t \in Waiting(es)
      <3>1. PICK e \in Range(es) : t = e.thrd
        BY <1>5, <2>2
      <3>2. t \in Thread
        BY <1>5, <2>2
      <3> QED
        BY <1>10, <3>1, <3>2, WorkFacts
    <2> QED
      BY <1>9, <2>1, <2>2
  <1>15. Future(re, time)
    BY <1>3 DEF Future
  <1>16. \A t \in Range(q) : k[t] = j[t]
    BY <1>8, <1>10, <1>11
  <1>17. \A t \in Thread \ Waiting(rel) : k[t] = j[t]
    BY <1>7, <1>10
  <1>18. \A t \in Waiting(rel) : k[t] = j[t] \/ k[t].remaining_time = work[t].processing_time
    BY <1>5, <1>7, <1>10
  <1>19. \A t \in Waiting(re) : k[t] = j[t]
    BY <1>5, <1>7, <1>10
  <1> HIDE DEF Queued, Periodic, Busy, Future
  <1>20. Moved(q, rel, j, time, r, re, k)
    BY <1>7, <1>9, <1>10, <1>12, <1>13, <1>14, <1>15, <1>16, <1>17, <1>18, <1>19 DEF Moved
  <1> QED
    BY <1>20 DEF es, re, k, r

\* A thread of the run queue goes to its end.
LEMMA PutBack ==
    ASSUME NEW q, NEW rel, NEW j, NEW k, NEW t \in Thread, Queued(q, rel, j), t \in Range(q),
           \A u \in Thread : k[u].n > 0 <=> j[u].n > 0
    PROVE  /\ Queued(Append(Without(q, t), t), rel, k)
           /\ Range(Append(Without(q, t), t)) = Range(q)
  <1> DEFINE w == Without(q, t)
  <1>1. w \in Seq(Thread) /\ Apart(w) /\ Range(w) = Range(q) \ {t}
    BY WithoutFacts DEF Queued
  <1> HIDE DEF w
  <1>1a. t \notin Range(w) /\ Range(w) \cup {t} = Range(q)
    BY <1>1
  <1>2. Append(w, t) \in Seq(Thread) /\ Apart(Append(w, t)) /\ Range(Append(w, t)) = Range(q)
    <2>1. /\ Append(w, t) \in Seq(Thread) /\ Range(Append(w, t)) = Range(w) \cup {t}
          /\ Apart(w) /\ t \notin Range(w) => Apart(Append(w, t))
      BY <1>1, AppendFacts
    <2> QED
      BY <1>1, <1>1a, <2>1
  <1>3. Queued(Append(w, t), rel, k)
    BY <1>2 DEF Queued
  <1> QED
    BY <1>2, <1>3 DEF w

\* A thread of the run queue is freed.
LEMMA TakenOut ==
    ASSUME NEW q, NEW rel, NEW j, NEW k, NEW t \in Thread, Queued(q, rel, j), t \in Range(q),
           \A u \in Thread \ {t} : k[u].n > 0 <=> j[u].n > 0, ~(k[t].n > 0)
    PROVE  /\ Queued(Without(q, t), rel, k)
           /\ Range(Without(q, t)) = Range(q) \ {t}
  <1> DEFINE w == Without(q, t)
  <1>1. w \in Seq(Thread) /\ Apart(w) /\ Range(w) = Range(q) \ {t}
    BY WithoutFacts DEF Queued
  <1> HIDE DEF w
  <1>2. Queued(w, rel, k)
    BY <1>1 DEF Queued
  <1> QED
    BY <1>1, <1>2 DEF w

\* A thread of the run queue is to be released again.
LEMMA QueuedAgain ==
    ASSUME NEW q, NEW rel, NEW j, NEW k, NEW e \in Entry, Queued(q, rel, j),
           e.thrd \in Range(q), \A u \in Thread : k[u].n > 0 <=> j[u].n > 0
    PROVE  /\ Queued(Without(q, e.thrd), Append(rel, e), k)
           /\ Range(Without(q, e.thrd)) = Range(q) \ {e.thrd}
           /\ Range(Append(rel, e)) = Range(rel) \cup {e}
           /\ Waiting(Append(rel, e)) = Waiting(rel) \cup {e.thrd}
  <1> DEFINE w == Without(q, e.thrd)
             a == Append(rel, e)
  <1>1. w \in Seq(Thread) /\ Apart(w) /\ Range(w) = Range(q) \ {e.thrd}
    BY WithoutFacts DEF Queued
  <1>2. rel \in Seq(Entry) /\ Apart(Thrds(rel)) /\ Range(q) \cap Waiting(rel) = {}
    BY DEF Queued
  <1>3. a \in Seq(Entry) /\ Range(a) = Range(rel) \cup {e}
    BY <1>2, AppendFacts
  <1>4. Thrds(rel) \in Seq(Thread) /\ e.thrd \in Thread
    BY <1>2, ThrdsFacts DEF Entry
  <1>5. Thrds(a) = Append(Thrds(rel), e.thrd)
    BY <1>2, ThrdsAppend
  <1> HIDE DEF w, a
  <1>6. Waiting(a) = Waiting(rel) \cup {e.thrd}
    BY <1>4, <1>5, AppendFacts DEF Waiting
  <1>7. e.thrd \notin Waiting(rel)
    BY <1>2
  <1>8. Apart(Thrds(a))
    BY <1>2, <1>4, <1>5, <1>7, AppendFacts DEF Waiting
  <1>9. Queued(w, a, k)
    <2>1. Range(w) \cap Waiting(a) = {}
      BY <1>1, <1>2, <1>6
    <2>2. \A u \in Thread : k[u].n > 0 <=> u \in Range(w) \cup Waiting(a)
      BY <1>1, <1>6 DEF Queued
    <2> QED
      BY <1>1, <1>3, <1>8, <2>1, <2>2 DEF Queued
  <1> QED
    BY <1>1, <1>3, <1>6, <1>9 DEF w, a

-----------------------------------------------------------------------------
(***************************************************************************)
(* Time                                                                    *)
(***************************************************************************)

\* FAR is a number.
LEMMA FARNat == FAR \in Nat
  BY DEF FAR

\* The first of some releases is one of them, and FAR where there is none.
LEMMA FirstFacts ==
    ASSUME NEW es, es \subseteq Entry, \A e \in es : e.release_time \in Nat
    PROVE  /\ es = {} => First(es) = FAR
           /\ es # {} => \E e \in es : First(es) = e.release_time
           /\ \A e \in es : First(es) <= e.release_time
  <1> DEFINE S == {e.release_time : e \in es}
  <1>1. S \in SUBSET Nat
    OBVIOUS
  <1>2. ASSUME es # {}
        PROVE  /\ \E e \in es : First(es) = e.release_time
               /\ \A e \in es : First(es) <= e.release_time
    <2>1. S # {} /\ First(es) = Min(S)
      BY <1>2 DEF First
    <2> HIDE DEF S
    <2>2. Min(S) \in S /\ \A y \in S : Min(S) <= y
      BY <1>1, <2>1, LeastElement
    <2> QED
      BY <2>1, <2>2 DEF S
  <1>3. es = {} => First(es) = FAR
    BY DEF First
  <1> QED
    BY <1>2, <1>3

\* When the threads up to t could have ended: a walk along the threads.
EndWalk(base, m, f) ==
    f = [t \in 0..m |-> IF t = 0 THEN base ELSE f[t - 1] + work[t].processing_time]

\* That walk comes to its end.
LEMMA EndWalkExists ==
    ASSUME NEW base, NEW n \in Nat
    PROVE  \E f : EndWalk(base, n, f)
  <1> DEFINE Bad == {m \in Nat : ~\E f : EndWalk(base, m, f)}
  <1>1. SUFFICES ASSUME Bad # {} PROVE FALSE
    OBVIOUS
  <1>2. PICK m \in Bad : \A y \in Bad : m <= y
    BY <1>1, LeastElement
  <1>3. CASE m = 0
    <2>1. EndWalk(base, 0, [i \in 0..0 |-> base])
      BY DEF EndWalk
    <2> QED
      BY <1>2, <1>3, <2>1
  <1>4. CASE m > 0
    <2>1. m - 1 \in Nat /\ m - 1 \notin Bad
      BY <1>2, <1>4
    <2>2. PICK f : EndWalk(base, m - 1, f)
      BY <2>1
    <2> DEFINE g == [i \in 0..m |->
                       IF i = m THEN f[m - 1] + work[m].processing_time ELSE f[i]]
    <2>3. ASSUME NEW i \in 0..m
          PROVE  g[i] = IF i = 0 THEN base ELSE g[i - 1] + work[i].processing_time
      <3>1. CASE i = m
        <4>1. i # 0 /\ i - 1 \in 0..m /\ i - 1 # m /\ g[i - 1] = f[m - 1]
          BY <1>2, <1>4, <3>1
        <4> QED
          BY <3>1, <4>1
      <3>2. CASE i < m
        <4>1. i \in 0..m - 1 /\ (i # 0 => i - 1 \in 0..m - 1) /\ g[i] = f[i]
              /\ (i # 0 => g[i - 1] = f[i - 1])
          BY <1>2, <3>2
        <4> QED
          BY <2>2, <4>1 DEF EndWalk
      <3> QED
        BY <1>2, <3>1, <3>2
    <2>4. EndWalk(base, m, g)
      BY <2>3 DEF EndWalk
    <2> QED
      BY <1>2, <2>4
  <1> QED
    BY <1>2, <1>3, <1>4

\* Some thread arrives last.
LEMMA LastArrival ==
    ASSUME Programs
    PROVE  LET base == Max({0} \cup {work[u].arrival : u \in Thread})
           IN base \in Nat /\ \A t \in Thread : work[t].arrival <= base
  <1> DEFINE A == {0} \cup {work[u].arrival : u \in Thread}
  <1>1. \A t \in Thread : work[t].arrival \in Nat
    BY WorkFacts
  <1>2. \E x \in A : \A y \in A : x >= y
    <2>1. CASE Thread = {}
      BY <2>1
    <2>2. CASE Thread # {}
      <3> DEFINE k == [u \in Thread |-> 0 - work[u].arrival]
      <3>1. k \in [Thread -> Int]
        BY <1>1
      <3>2. \A u \in Thread : k[u] = 0 - work[u].arrival
        OBVIOUS
      <3> HIDE DEF k
      <3>3. PICK t \in Thread : \A u \in Thread \ {t} : k[t] < k[u] \/ (k[t] = k[u] /\ t < u)
        BY <2>2, <3>1, LeastThread
      <3>4. \A u \in Thread : work[u].arrival <= work[t].arrival
        BY <1>1, <3>2, <3>3
      <3> QED
        BY <1>1, <3>4
    <2> QED
      BY <2>1, <2>2
  <1> HIDE DEF A
  <1>3. Max(A) \in A /\ \A y \in A : Max(A) >= y
    BY <1>2 DEF Max
  <1>4. A \subseteq Nat
    BY <1>1 DEF A
  <1>5. Max(A) \in Nat /\ \A y \in A : y <= Max(A)
    BY <1>3, <1>4
  <1> QED
    BY <1>5 DEF A

\* Before the threads start there is time for what all of them have to compute.
LEMMA FitAtStart ==
    ASSUME Programs, policy = "sjf", NEW j,
           \A t \in Thread : Owes(j, t) = work[t].processing_time
    PROVE  \E s : Fit(s, j, 0)
  <1> DEFINE base == Max({0} \cup {work[u].arrival : u \in Thread})
             f == CHOOSE f : EndWalk(base, NTHREAD, f)
  <1>1. NTHREAD \in Nat
    BY ThreadIDs
  <1>2. EndWalk(base, NTHREAD, f)
    BY <1>1, EndWalkExists
  <1>3. Ending(work) = f[NTHREAD]
    BY DEF EndWalk, Ending
  <1>4. base \in Nat /\ \A t \in Thread : work[t].arrival <= base
    BY LastArrival
  <1>5. f[NTHREAD] < FAR /\ \A t \in Thread : work[t].processing_time \in Nat
    BY <1>3, WorkFacts
  <1> HIDE DEF base, f
  <1>6. /\ f[0] = base
        /\ \A t \in 1..NTHREAD : f[t] = f[t - 1] + work[t].processing_time
        /\ DOMAIN f = 0..NTHREAD /\ f = [i \in 0..NTHREAD |-> f[i]]
    <2>1. 0 \in 0..NTHREAD /\ \A t \in 1..NTHREAD : t \in 0..NTHREAD /\ t # 0
      BY <1>1
    <2> QED
      BY <1>2, <2>1 DEF EndWalk
  <1> DEFINE Good(m) == f[m] \in Nat /\ \A i \in 0..m : f[i] \in Nat /\ f[i] <= f[m]
             Bad == {m \in Nat : m <= NTHREAD /\ ~Good(m)}
  <1>7. Bad = {}
    <2> SUFFICES ASSUME Bad # {} PROVE FALSE
      OBVIOUS
    <2>1. PICK m \in Bad : \A y \in Bad : m <= y
      BY LeastElement
    <2>2. m \in Nat /\ m <= NTHREAD /\ ~Good(m)
      BY <2>1
    <2>3. CASE m = 0
      <3>1. \A i \in 0..0 : i = 0
        OBVIOUS
      <3> QED
        BY <1>4, <1>6, <2>2, <2>3, <3>1
    <2>4. CASE m > 0
      <3>1. m - 1 \in Nat /\ m - 1 <= NTHREAD /\ ~(m <= m - 1) /\ m \in 1..NTHREAD
        BY <1>1, <2>2, <2>4
      <3>2. Good(m - 1)
        <4> HIDE DEF Good
        <4> QED
          BY <2>1, <3>1
      <3>3. f[m] = f[m - 1] + work[m].processing_time /\ work[m].processing_time \in Nat
        BY <1>5, <1>6, <3>1 DEF Thread
      <3>4. f[m] \in Nat /\ f[m - 1] <= f[m]
        BY <3>2, <3>3
      <3>5. \A i \in 0..m : i = m \/ i \in 0..m - 1
        BY <2>2
      <3>6. ASSUME NEW i \in 0..m PROVE f[i] \in Nat /\ f[i] <= f[m]
        BY <3>2, <3>4, <3>5
      <3> QED
        BY <2>2, <3>4, <3>6
    <2> QED
      BY <2>2, <2>3, <2>4
  <1> HIDE DEF Good
  <1>8. \A m \in 0..NTHREAD : Good(m)
    BY <1>1, <1>7
  <1>9. \A i \in 0..NTHREAD : f[i] \in 0..FAR - 1
    <2>1. Good(NTHREAD)
      BY <1>1, <1>8
    <2> QED
      BY <1>5, <2>1, FARNat DEF Good
  <1>10. ASSUME NEW i \in 0..NTHREAD, NEW k \in 0..NTHREAD, i < k
         PROVE  f[i] + Owes(j, k) <= f[k]
    <2>1. k \in 1..NTHREAD /\ k - 1 \in 0..NTHREAD /\ i \in 0..k - 1
      BY <1>1, <1>10
    <2>2. f[k] = f[k - 1] + Owes(j, k) /\ Owes(j, k) \in Nat
      BY <1>5, <1>6, <2>1 DEF Thread
    <2>3. f[i] <= f[k - 1] /\ f[i] \in Nat /\ f[k - 1] \in Nat
      BY <1>8, <2>1 DEF Good
    <2> QED
      BY <2>2, <2>3
  <1>11. f \in [0..NTHREAD -> 0..FAR - 1]
    BY <1>6, <1>9
  <1>12. Fit(f, j, 0)
    BY <1>4, <1>6, <1>10, <1>11 DEF Fit
  <1> QED
    BY <1>12

\* There is still time after a thread has run for some of what it owes.
LEMMA FitAfter ==
    ASSUME Programs, NEW j, NEW k, NEW time \in Nat,
           NEW ticks \in Nat, NEW t \in Thread, NEW s, Fit(s, j, time),
           \A u \in Thread : Owes(j, u) \in Nat /\ Owes(k, u) \in Nat,
           \A u \in Thread \ {t} : Owes(k, u) = Owes(j, u),
           Owes(k, t) + ticks <= Owes(j, t)
    PROVE  \E r : Fit(r, k, time + ticks)
  <1> DEFINE r == [i \in 0..NTHREAD |-> IF i < t THEN s[i] + ticks ELSE s[i]]
  <1>1. NTHREAD \in Nat /\ t \in 0..NTHREAD /\ 0 \in 0..NTHREAD /\ 0 < t
        /\ (\A i \in 0..NTHREAD : i > 0 => i \in Thread) /\ t \in Nat
    BY ThreadIDs DEF Thread
  <1>2. /\ s \in [0..NTHREAD -> 0..FAR - 1]
        /\ time <= s[0] /\ \A u \in Thread : work[u].arrival <= s[0]
        /\ \A i, m \in 0..NTHREAD : i < m => s[i] + Owes(j, m) <= s[m]
    BY DEF Fit
  <1>3. \A i \in 0..NTHREAD : /\ s[i] \in 0..FAR - 1
                              /\ r[i] = IF i < t THEN s[i] + ticks ELSE s[i]
    BY <1>2
  <1> HIDE DEF r
  <1>4. ASSUME NEW i \in 0..NTHREAD, i < t
        PROVE  s[i] + ticks <= s[t] /\ s[i] + ticks + Owes(k, t) <= s[t]
    <2>1. s[i] \in Int /\ s[t] \in Int /\ Owes(j, t) \in Nat /\ Owes(k, t) \in Nat
      BY <1>1, <1>3
    <2>2. s[i] + Owes(j, t) <= s[t]
      BY <1>1, <1>2, <1>4
    <2> QED
      BY <2>1, <2>2
  <1>5. \A i \in 0..NTHREAD : r[i] \in 0..FAR - 1
    <2> TAKE i \in 0..NTHREAD
    <2>1. s[i] \in 0..FAR - 1 /\ s[t] \in 0..FAR - 1
      BY <1>1, <1>3
    <2>2. CASE i < t
      <3>1. r[i] = s[i] + ticks /\ s[i] + ticks <= s[t]
        BY <1>3, <1>4, <2>2
      <3> QED
        BY <2>1, <3>1, FARNat
    <2>3. CASE ~(i < t)
      BY <1>3, <2>1, <2>3
    <2> QED
      BY <2>2, <2>3
  <1>6. ASSUME NEW i \in 0..NTHREAD, NEW m \in 0..NTHREAD, i < m
        PROVE  r[i] + Owes(k, m) <= r[m]
    <2>1. m \in Thread /\ s[i] \in Int /\ s[m] \in Int /\ s[t] \in Int /\ Owes(k, m) \in Int
          /\ t \in Int /\ i \in Int /\ m \in Int
      BY <1>1, <1>3, <1>6
    <2>2. s[i] + Owes(j, m) <= s[m]
      BY <1>2, <1>6
    <2>3. CASE m < t
      BY <1>3, <2>1, <2>2, <2>3, <1>6
    <2>4. CASE m = t
      BY <1>3, <1>4, <1>6, <2>1, <2>4
    <2>5. CASE t < m
      <3>1. s[t] + Owes(k, m) <= s[m] /\ Owes(k, m) = Owes(j, m)
        BY <1>1, <1>2, <2>1, <2>5
      <3>2. CASE i < t
        <4>1. r[i] = s[i] + ticks /\ r[m] = s[m] /\ s[i] + ticks <= s[t]
          BY <1>3, <1>4, <2>1, <2>5, <3>2
        <4> QED
          BY <2>1, <3>1, <4>1
      <3>3. CASE ~(i < t)
        <4>1. r[i] = s[i] /\ r[m] = s[m]
          BY <1>3, <2>1, <2>5, <3>3
        <4> QED
          BY <2>2, <3>1, <4>1
      <3> QED
        BY <3>2, <3>3
    <2> QED
      BY <2>1, <2>3, <2>4, <2>5
  <1>7. r \in [0..NTHREAD -> 0..FAR - 1]
    BY <1>5 DEF r
  <1>8. r[0] = s[0] + ticks /\ s[0] \in Nat
    BY <1>1, <1>3
  <1>9. \A u \in Thread : work[u].arrival <= r[0]
    <2> TAKE u \in Thread
    <2>1. work[u].arrival <= s[0]
      BY <1>2
    <2>2. work[u].arrival \in Int
      BY WorkFacts
    <2> QED
      BY <1>8, <2>1, <2>2
  <1>10. time + ticks <= r[0]
    BY <1>2, <1>8
  <1>11. Fit(r, k, time + ticks)
    BY <1>6, <1>7, <1>9, <1>10 DEF Fit
  <1> QED
    BY <1>11

-----------------------------------------------------------------------------
(***************************************************************************)
(* The initial states                                                      *)
(***************************************************************************)

\* Every thread waits for its release, once.
LEMMA InitInv == Init => ThreadsInv
  <1> SUFFICES ASSUME Init PROVE ThreadsInv
    OBVIOUS
  <1>1. Programs
    BY DEF Init, Programs
  <1>2. /\ work \in [Thread -> Task]
        /\ \A t \in Thread : /\ work[t].processing_time \in Nat
                             /\ work[t].n \in Nat /\ work[t].n > 0
                             /\ work[t].deadline \in Int /\ work[t].arrival \in Nat
    BY <1>1, WorkFacts
  <1>3. NTHREAD \in Nat /\ Thread = 1..NTHREAD
    BY ThreadIDs DEF Thread
  <1>4. \A t \in Thread :
          job[t] = [n |-> work[t].n, remaining_time |-> work[t].processing_time,
                    current_deadline |-> IF work[t].is_real_time
                                           THEN work[t].arrival + work[t].deadline ELSE 0]
    BY DEF Init
  <1>5. ASSUME NEW t \in Thread
        PROVE  /\ job[t] \in Job /\ job[t].n = work[t].n
               /\ job[t].remaining_time = work[t].processing_time
               /\ work[t].is_real_time =>
                    job[t].current_deadline = work[t].arrival + work[t].deadline
    <2>1. PICK d \in Int : d = IF work[t].is_real_time
                                 THEN work[t].arrival + work[t].deadline ELSE 0
      BY <1>2
    <2>2. job[t] = [n |-> work[t].n, remaining_time |-> work[t].processing_time,
                    current_deadline |-> d]
      BY <1>4, <2>1
    <2> QED
      BY <1>2, <2>1, <2>2 DEF Job
  <1>6. job \in [Thread -> Job]
    <2>1. job = [t \in Thread |-> job[t]]
      BY DEF Init
    <2> QED
      BY <1>5, <2>1
  <1>7. /\ release_queue \in Seq(Entry) /\ DOMAIN release_queue = Thread
        /\ \A t \in Thread : /\ release_queue[t].thrd = t
                             /\ release_queue[t].release_time = work[t].arrival
    <2>1. \A t \in Thread : [thrd |-> t, release_time |-> work[t].arrival] \in Entry
      BY <1>2 DEF Entry
    <2>2. release_queue \in [1..NTHREAD -> Entry]
      BY <1>3, <2>1 DEF Init
    <2>3. release_queue \in Seq(Entry)
      BY <1>3, <2>2
    <2> QED
      BY <2>3 DEF Init
  <1>8. Thrds(release_queue) = [t \in Thread |-> t]
    BY <1>7 DEF Thrds
  <1>9. Apart(Thrds(release_queue)) /\ Waiting(release_queue) = Thread
    BY <1>8 DEF Apart, Waiting, Range
  <1>10. run_queue = <<>> /\ run_queue \in Seq(Thread) /\ Apart(run_queue) /\ Range(run_queue) = {}
    BY DEF Init, Apart, Range
  <1>11. Queued(run_queue, release_queue, job)
    BY <1>2, <1>5, <1>7, <1>9, <1>10 DEF Queued
  <1>12. Periodic(release_queue, job)
    <2>1. ASSUME NEW t \in Thread
          PROVE  /\ job[t].n <= work[t].n
                 /\ work[t].is_real_time =>
                      job[t].current_deadline =
                        work[t].arrival + (work[t].n - job[t].n + 1) * work[t].deadline
      <3>1. work[t].n - job[t].n + 1 = 1
        BY <1>2, <1>5
      <3> QED
        BY <1>2, <1>5, <3>1
    <2>2. ASSUME NEW e \in Range(release_queue)
          PROVE  e.release_time = work[e.thrd].arrival
                            + (work[e.thrd].n - job[e.thrd].n) * work[e.thrd].deadline
      <3>1. PICK t \in Thread : e = release_queue[t]
        BY <1>7 DEF Range
      <3>2. e.thrd = t /\ e.release_time = work[t].arrival /\ work[t].n - job[t].n = 0
        BY <1>2, <1>5, <1>7, <3>1
      <3>3. 0 * work[t].deadline = 0
        BY <1>2
      <3> QED
        BY <1>2, <3>2, <3>3
    <2> QED
      BY <1>6, <2>1, <2>2 DEF Periodic
  <1>13. Slots
    <2>1. slot = [t \in Thread |-> -1] /\ used = {MainSlot} /\ MainSlot \in Nat
      BY DEF Init, MainSlot
    <2>2. \A t \in Thread : ~(slot[t] >= 0)
      BY <2>1
    <2> QED
      BY <2>1, <2>2 DEF Slots
  <1>14. Control
    BY <1>3, <1>10 DEF Init, Control, Busy, Ended
  <1>15. Choice
    BY DEF Init, Choice
  <1>16. Budget
    <2> SUFFICES ASSUME policy = "sjf" PROVE Budget
      BY DEF Budget
    <2>1. \A t \in Thread : Owes(job, t) = work[t].processing_time
      BY <1>2, <1>5 DEF Owes
    <2>2. \E s : Fit(s, job, 0)
      BY <1>1, <2>1, FitAtStart
    <2>3. phase = "main" /\ now = 0
      BY DEF Init
    <2>4. \A t \in Waiting(release_queue) : left(t) = work[t].processing_time
      BY <1>5, <1>9 DEF left
    <2> QED
      BY <2>2, <2>3, <2>4 DEF Budget
  <1> QED
    BY <1>1, <1>11, <1>12, <1>13, <1>14, <1>15, <1>16 DEF ThreadsInv

-----------------------------------------------------------------------------
(***************************************************************************)
(* The main loop                                                           *)
(***************************************************************************)

\* What __release() does with jobs under SJF: the same remains to be computed.
LEMMA FitReleased ==
    ASSUME NEW j, NEW k, NEW time, \E s : Fit(s, j, time),
           \A t \in Thread : k[t].n = j[t].n,
           \A t \in Thread : k[t].remaining_time = j[t].remaining_time
    PROVE  \E s : Fit(s, k, time)
  <1>1. PICK s : Fit(s, j, time)
    OBVIOUS
  <1>2. \A t \in Thread : Owes(k, t) = Owes(j, t)
    BY DEF Owes
  <1>3. \A i, m \in 0..NTHREAD : i < m => m \in Thread
    BY ThreadIDs DEF Thread
  <1>4. Fit(s, k, time)
    BY <1>1, <1>2, <1>3 DEF Fit
  <1> QED
    BY <1>4

\* Context slots are kept apart as long as no thread is queued again.
LEMMA SlotsKept ==
    ASSUME Slots, UNCHANGED <<slot, used>>, \A t \in Thread : job'[t].n > 0 => job[t].n > 0
    PROVE  Slots'
  BY DEF Slots, MainSlot

\* The main loop releases the threads that are due.
LEMMA MainLoopInv == ThreadsInv /\ MainLoop => ThreadsInv'
  <1> SUFFICES ASSUME ThreadsInv, MainLoop PROVE ThreadsInv'
    OBVIOUS
  <1>1. /\ Programs /\ Slots /\ Control /\ Budget
        /\ Queued(run_queue, release_queue, job) /\ Periodic(release_queue, job)
    BY DEF ThreadsInv
  <1>2. phase = "main" /\ phase' = "schedule"
        /\ UNCHANGED <<policy, work, slot, used, now, current, allocated_time>>
    BY DEF MainLoop
  <1>3. now \in Nat /\ now \in Int /\ Busy(run_queue, job) /\ job \in [Thread -> Job]
    BY <1>1, <1>2 DEF Control, Ended, Periodic
  <1> DEFINE es == Due(release_queue, now)
  <1>4. /\ run_queue' = run_queue \o Thrds(es) /\ release_queue' = Rest(release_queue, now)
        /\ job' = Renewed(job, es)
    BY DEF MainLoop, Release
  <1> HIDE DEF es
  <1>5. Moved(run_queue, release_queue, job, now, run_queue', release_queue', job')
    BY <1>1, <1>3, <1>4, Released DEF es
  <1>5a. /\ Queued(run_queue', release_queue', job')
         /\ Periodic(release_queue', job')
         /\ Busy(run_queue', job')
         /\ Future(release_queue', now)
         /\ \A t \in Thread : job'[t].n = job[t].n
         /\ \A t \in Thread \ Waiting(release_queue) : job'[t] = job[t]
         /\ \A t \in Waiting(release_queue) :
              job'[t] = job[t] \/ job'[t].remaining_time = work[t].processing_time
         /\ Waiting(release_queue') \subseteq Waiting(release_queue)
         /\ \A t \in Waiting(release_queue') : job'[t] = job[t]
    BY <1>3, <1>5 DEF Moved
  <1>6. Queued(run_queue, release_queue, job)'
    BY <1>5a DEF Queued
  <1>7. Periodic(release_queue, job)'
    BY <1>2, <1>5a DEF Periodic
  <1>8. Programs'
    BY <1>1, <1>2 DEF Programs
  <1>9. Slots'
    BY <1>1, <1>2, <1>5a, SlotsKept
  <1>10. Control'
    BY <1>1, <1>2, <1>5a DEF Control, Ended, Busy, Future
  <1>11. Choice'
    BY <1>2 DEF Choice
  <1>12. Budget'
    <2> SUFFICES ASSUME policy = "sjf" PROVE Budget'
      BY <1>2 DEF Budget
    <2>1. /\ \E s : Fit(s, job, now)
          /\ \A t \in Waiting(release_queue) : job[t].remaining_time = work[t].processing_time
      BY <1>1, <1>2 DEF Budget, Ended, left
    <2>2. \A t \in Thread : job'[t].remaining_time = job[t].remaining_time
      BY <1>5a, <2>1
    <2>3. \E s : Fit(s, job', now)
      BY <1>5a, <2>1, <2>2, FitReleased
    <2>4. (\E s : Fit(s, job, now))'
      BY <1>2, <2>3 DEF Fit, Owes
    <2>5. \A t \in Waiting(release_queue') : job'[t].remaining_time = work[t].processing_time
      BY <1>5a, <2>1
    <2> QED
      BY <1>2, <2>4, <2>5 DEF Budget, left, Waiting, Thrds
  <1> QED
    BY <1>6, <1>7, <1>8, <1>9, <1>10, <1>11, <1>12 DEF ThreadsInv

-----------------------------------------------------------------------------
(***************************************************************************)
(* __schedule()                                                            *)
(***************************************************************************)

\* Some period more is a later time.
LEMMA MorePeriods ==
    ASSUME NEW a \in Int, NEW b \in Int, NEW d \in Nat, a <= b
    PROVE  a * d <= b * d
  OBVIOUS

\* What __schedule() looks at: threads with something to do, releases to come.
LEMMA SchedFacts ==
    ASSUME ThreadsInv, phase = "schedule"
    PROVE  /\ Range(run_queue) \subseteq Thread
           /\ \A t \in Thread : /\ left(t) \in Int /\ slack(t) \in Int
                                /\ job[t].current_deadline \in Int
                                /\ slack(t) = job[t].current_deadline - now - left(t)
           /\ \A t \in Range(run_queue) : left(t) > 0
           /\ Range(release_queue) \subseteq Entry
           /\ \A e \in Range(release_queue) :
                /\ e.release_time \in Nat /\ e.release_time > now
                /\ e.thrd \in Thread
           /\ run_queue # <<>> => Range(run_queue) # {}
  <1>1. /\ Queued(run_queue, release_queue, job) /\ Periodic(release_queue, job)
        /\ now \in Nat /\ Busy(run_queue, job) /\ Future(release_queue, now)
    BY DEF ThreadsInv, Control, Ended
  <1>2. run_queue \in Seq(Thread) /\ release_queue \in Seq(Entry) /\ job \in [Thread -> Job]
    BY <1>1 DEF Queued, Periodic
  <1>3. Range(run_queue) \subseteq Thread /\ Range(release_queue) \subseteq Entry
    BY <1>2 DEF Range
  <1>4. run_queue # <<>> => Range(run_queue) # {}
    <2> SUFFICES ASSUME run_queue # <<>> PROVE Range(run_queue) # {}
      OBVIOUS
    <2>1. 1 \in DOMAIN run_queue
      BY <1>2
    <2> QED
      BY <2>1 DEF Range
  <1>5. ASSUME NEW t \in Thread
        PROVE  /\ left(t) \in Int /\ slack(t) \in Int
               /\ job[t].current_deadline \in Int
               /\ slack(t) = job[t].current_deadline - now - left(t)
    BY <1>1, <1>2 DEF left, slack, Job
  <1>6. \A t \in Range(run_queue) : left(t) > 0
    BY <1>1 DEF Busy, left
  <1>7. ASSUME NEW e \in Range(release_queue)
        PROVE  e.release_time \in Nat /\ e.release_time > now /\ e.thrd \in Thread
    <2>1. e.release_time \in Int /\ e.thrd \in Thread /\ e.release_time > now
      BY <1>1, <1>3 DEF Entry, Future
    <2> QED
      BY <1>1, <2>1
  <1> QED
    BY <1>3, <1>4, <1>5, <1>6, <1>7

\* A deadline of LST or DM comes before FAR.
LEMMA DeadlineNear ==
    ASSUME ThreadsInv, policy \in {"lst", "dm"}, NEW t \in Range(run_queue)
    PROVE  job[t].current_deadline < FAR
  <1>1. /\ Queued(run_queue, release_queue, job) /\ Periodic(release_queue, job)
        /\ Programs
    BY DEF ThreadsInv
  <1>2. t \in Thread /\ job[t].n > 0 /\ job[t].n \in Nat
    BY <1>1 DEF Queued, Periodic, Range, Job
  <1>3. /\ work[t].deadline \in Nat /\ work[t].arrival \in Nat /\ work[t].n \in Nat
        /\ work[t].arrival + work[t].n * work[t].deadline < FAR
        /\ work[t].is_real_time
    BY <1>1, <1>2, WorkFacts
  <1>4. job[t].current_deadline
          = work[t].arrival + (work[t].n - job[t].n + 1) * work[t].deadline
    BY <1>1, <1>2, <1>3 DEF Periodic
  <1>5. PICK c \in Int : c = work[t].n - job[t].n + 1
    BY <1>2, <1>3
  <1>6. PICK d \in Nat : d = work[t].deadline
    BY <1>3
  <1>7. c <= work[t].n /\ work[t].n \in Int
    BY <1>2, <1>3, <1>5
  <1>8. c * d <= work[t].n * d
    BY <1>7, MorePeriods
  <1>9. c * d \in Int /\ work[t].n * d \in Int
    BY <1>7
  <1> QED
    BY <1>3, <1>4, <1>5, <1>6, <1>8, <1>9, FARNat

\* What a policy compares.
LEMMA KeyFacts ==
    ASSUME NEW t, NEW rem, NEW deadline, NEW time
    PROVE  /\ policy = "sjf" => Key(t, rem, deadline, time) = rem
           /\ policy = "lst" => Key(t, rem, deadline, time) = deadline - time - rem
           /\ policy = "dm" => Key(t, rem, deadline, time) = work[t].deadline
  BY DEF Key

\* __schedule() has chosen, and touches nothing else.
Steady ==
    /\ phase' = "dispatch"
    /\ UNCHANGED <<policy, work, job, slot, used, run_queue, release_queue, now>>

\* Where it has chosen well, the invariant goes on.
LEMMA ScheduleKeeps ==
    ASSUME ThreadsInv, phase = "schedule", Steady, Choice', allocated_time' \in Int,
           \/ current' \in Range(run_queue)
           \/ /\ current' = 0 /\ run_queue = <<>>
              /\ policy = "sjf" => allocated_time' = First(Range(release_queue)) - now
    PROVE  ThreadsInv'
  <1>1. /\ Programs /\ Slots /\ Control /\ Budget
        /\ Queued(run_queue, release_queue, job) /\ Periodic(release_queue, job)
    BY DEF ThreadsInv
  <1>2. Range(run_queue) \subseteq Thread
    BY SchedFacts
  <1>3. Queued(run_queue, release_queue, job)'
    BY <1>1 DEF Queued, Steady
  <1>4. Periodic(release_queue, job)'
    BY <1>1 DEF Periodic, Steady
  <1>5. Programs'
    BY <1>1 DEF Programs, Steady
  <1>6. Slots'
    BY <1>1, SlotsKept DEF Steady
  <1>7. current' \in 0..NTHREAD /\ (current' # 0 => current' \in Range(run_queue))
    BY <1>2, ThreadIDs DEF Thread
  <1>8. Control'
    BY <1>1, <1>7 DEF Control, Ended, Steady, Busy, Future
  <1>9. 0 \notin Thread
    BY ThreadIDs
  <1>10. Budget'
    <2> SUFFICES ASSUME policy = "sjf" PROVE Budget'
      BY DEF Budget, Steady
    <2>1. /\ \E s : Fit(s, job, now)
          /\ \A t \in Waiting(release_queue) : left(t) = work[t].processing_time
      BY <1>1 DEF Budget, Ended
    <2>2. (\E s : Fit(s, job, now))'
      BY <2>1 DEF Fit, Owes, Steady
    <2>3. (\A t \in Waiting(release_queue) : left(t) = work[t].processing_time)'
      BY <2>1 DEF Steady, left, Waiting, Thrds
    <2>4. (phase \in {"dispatch", "sleeping"} /\ current = 0 =>
             /\ run_queue = <<>>
             /\ allocated_time = First(Range(release_queue)) - now)'
      <3> SUFFICES ASSUME current' = 0
                   PROVE  run_queue' = <<>>
                          /\ allocated_time' = First(Range(release_queue))' - now'
        OBVIOUS
      <3>1. run_queue = <<>> /\ allocated_time' = First(Range(release_queue)) - now
        BY <1>2, <1>9
      <3>2. First(Range(release_queue))' = First(Range(release_queue))
        BY DEF Steady, First
      <3> QED
        BY <3>1, <3>2 DEF Steady
    <2> QED
      BY <2>2, <2>3, <2>4 DEF Budget, Steady
  <1> QED
    BY <1>3, <1>4, <1>5, <1>6, <1>8, <1>10 DEF ThreadsInv

\* The thread that runs is the one with the least key, and the time until the first
\* of the releases F cuts its ticks off.
LEMMA CutFacts ==
    ASSUME ThreadsInv, phase = "schedule", NEW F \in SUBSET Range(release_queue), now < FAR
    PROVE  /\ First(F) \in Nat /\ First(F) > now
           /\ \A e \in F : First(F) <= e.release_time
  <1>1. F \subseteq Entry /\ now \in Nat
        /\ \A e \in F : e.release_time \in Nat /\ e.release_time > now
    BY SchedFacts DEF ThreadsInv, Control
  <1>2. /\ F = {} => First(F) = FAR
        /\ F # {} => \E e \in F : First(F) = e.release_time
        /\ \A e \in F : First(F) <= e.release_time
    BY <1>1, FirstFacts
  <1> QED
    BY <1>1, <1>2, FARNat

\* A choice among the threads of the run queue by a key.
LEMMA LeastFacts ==
    ASSUME NEW k \in [Thread -> Int], NEW S \in SUBSET Thread, S # {}
    PROVE  LET t == CHOOSE t \in S : \A u \in S \ {t} :
                      k[t] < k[u] \/ (k[t] = k[u] /\ t < u)
           IN t \in S /\ \A u \in S \ {t} : k[t] < k[u] \/ (k[t] = k[u] /\ t < u)
  BY LeastThread

\* Nobody to run.
LEMMA IdleKeeps ==
    ASSUME ThreadsInv, phase = "schedule", Steady, run_queue = <<>>, Idle
    PROVE  ThreadsInv'
  <1>1. now \in Nat /\ Range(release_queue) \subseteq Entry
        /\ \A e \in Range(release_queue) : e.release_time \in Nat
    BY SchedFacts DEF ThreadsInv, Control
  <1>2. First(Range(release_queue)) \in Int
    <2> DEFINE F == Range(release_queue)
    <2>1. /\ F = {} => First(F) = FAR
          /\ F # {} => \E e \in F : First(F) = e.release_time
      BY <1>1, FirstFacts
    <2> QED
      BY <1>1, <2>1, FARNat
  <1>3. current' = 0 /\ allocated_time' \in Int
        /\ (policy = "sjf" => allocated_time' = First(Range(release_queue)) - now)
    BY <1>1, <1>2 DEF Idle, Chosen
  <1>4. Choice'
    BY <1>3 DEF Choice
  <1> QED
    BY <1>3, <1>4, ScheduleKeeps

\* schedule_default and schedule_wrr look at no deadline and no release.
LEMMA DefaultKeeps ==
    ASSUME ThreadsInv, phase = "schedule", Steady, run_queue # <<>>, policy = "default", Default
    PROVE  ThreadsInv'
  <1> DEFINE S == Range(run_queue)
             k == [u \in Thread |-> 0]
             t == Least(S, LAMBDA u : 0)
  <1>1. S \in SUBSET Thread /\ S # {} /\ \A u \in Thread : left(u) \in Int
    BY SchedFacts
  <1>2. k \in [Thread -> Int] /\ \A u \in Thread : k[u] = 0
    OBVIOUS
  <1> HIDE DEF k
  <1>3. t \in S
    <2> HIDE DEF S
    <2>1. t = CHOOSE t1 \in S : \A u \in S \ {t1} : 0 < 0 \/ (0 = 0 /\ t1 < u)
      BY DEF Least
    <2>2. \E t1 \in S : \A u \in S \ {t1} : k[t1] < k[u] \/ (k[t1] = k[u] /\ t1 < u)
      BY <1>1, <1>2, LeastThread
    <2>3. \E t1 \in S : \A u \in S \ {t1} : 0 < 0 \/ (0 = 0 /\ t1 < u)
      BY <1>1, <1>2, <2>2
    <2> QED
      BY <2>1, <2>3
  <1>4. current' = t /\ allocated_time' = left(t)
    BY DEF Default, Chosen
  <1> HIDE DEF t
  <1>5. current' \in S /\ allocated_time' \in Int
    BY <1>1, <1>3, <1>4
  <1>6. Choice'
    BY DEF Choice, Served, Steady
  <1> QED
    BY <1>5, <1>6, ScheduleKeeps

\* The head of the queue.
LEMMA WRRKeeps ==
    ASSUME ThreadsInv, phase = "schedule", Steady, run_queue # <<>>, policy = "wrr", WRR
    PROVE  ThreadsInv'
  <1> DEFINE t == run_queue[1]
             quantum == TIME_QUANTUM * work[t].weight
  <1>1. /\ Queued(run_queue, release_queue, job) /\ Programs
        /\ \A u \in Thread : left(u) \in Int
    BY SchedFacts DEF ThreadsInv
  <1>2. t \in Range(run_queue) /\ t \in Thread
    <2>1. run_queue \in Seq(Thread)
      BY <1>1 DEF Queued
    <2>2. 1 \in DOMAIN run_queue /\ t \in Thread
      BY <2>1
    <2> QED
      BY <2>2 DEF Range
  <1>3. quantum \in Int
    <2>1. TIME_QUANTUM \in Int
      BY ThreadsAssumption
    <2> QED
      BY <1>1, <1>2, <2>1, WorkFacts
  <1>4. current' = t /\ allocated_time' = IF quantum > left(t) THEN left(t) ELSE quantum
    BY DEF WRR, Chosen
  <1> HIDE DEF t, quantum
  <1>5. current' \in Range(run_queue) /\ allocated_time' \in Int
    BY <1>1, <1>2, <1>3, <1>4
  <1>6. Choice'
    BY DEF Choice, Served, Steady
  <1> QED
    BY <1>5, <1>6, ScheduleKeeps

\* A deadline that has passed.
LEMMA ReportKeeps ==
    ASSUME ThreadsInv, phase = "schedule", Steady, run_queue # <<>>, policy \in {"lst", "dm"},
           Late # {}, ReportLate
    PROVE  ThreadsInv'
  <1> DEFINE S == Late
             k == [u \in Thread |-> 0]
             t == Least(S, LAMBDA u : 0)
  <1>1. S \in SUBSET Thread /\ S # {}
    BY SchedFacts DEF Late
  <1>2. k \in [Thread -> Int] /\ \A u \in Thread : k[u] = 0
    OBVIOUS
  <1> HIDE DEF k
  <1>3. t \in S
    <2> HIDE DEF S
    <2>1. t = CHOOSE t1 \in S : \A u \in S \ {t1} : 0 < 0 \/ (0 = 0 /\ t1 < u)
      BY DEF Least
    <2>2. \E t1 \in S : \A u \in S \ {t1} : k[t1] < k[u] \/ (k[t1] = k[u] /\ t1 < u)
      BY <1>1, <1>2, LeastThread
    <2>3. \E t1 \in S : \A u \in S \ {t1} : 0 < 0 \/ (0 = 0 /\ t1 < u)
      BY <1>1, <1>2, <2>2
    <2> QED
      BY <2>1, <2>3
  <1>4. current' = t /\ allocated_time' = 0
    BY DEF ReportLate, Chosen
  <1> HIDE DEF t
  <1>5. current' \in Range(run_queue) /\ job[current'].current_deadline <= now
    BY <1>3, <1>4 DEF Late
  <1>6. Reported'
    BY <1>4, <1>5 DEF Reported, Steady
  <1>7. Choice'
    BY <1>6 DEF Choice
  <1> QED
    BY <1>4, <1>5, <1>7, ScheduleKeeps

\* The shortest job.
LEMMA SJFKeeps ==
    ASSUME ThreadsInv, phase = "schedule", Steady, run_queue # <<>>, policy = "sjf", SJF
    PROVE  ThreadsInv'
  <1> DEFINE S == Range(run_queue)
             k == [u \in Thread |-> left(u)]
             t == Least(S, left)
             before(e) == LET u == e.thrd
                              then == left(t) - (e.release_time - now)
                          IN /\ e.release_time >= now
                             /\ \/ work[u].processing_time < then
                                \/ work[u].processing_time = then /\ u < t
             F == {e \in Range(release_queue) : before(e)}
             mn == First(F)
  <1>1. /\ S \in SUBSET Thread /\ S # {} /\ now \in Nat
        /\ \A u \in Thread : left(u) \in Int
        /\ \A u \in S : left(u) > 0
        /\ \A e \in Range(release_queue) :
             e.release_time \in Nat /\ e.release_time > now /\ e.thrd \in Thread
    BY SchedFacts DEF ThreadsInv, Control
  <1>2. k \in [Thread -> Int] /\ \A u \in Thread : k[u] = left(u)
    BY <1>1
  <1> HIDE DEF k
  <1>3. t \in S /\ \A u \in S \ {t} : left(t) < left(u) \/ (left(t) = left(u) /\ t < u)
    <2> HIDE DEF S
    <2>1. t = CHOOSE t1 \in S : \A u \in S \ {t1} :
                left(t1) < left(u) \/ (left(t1) = left(u) /\ t1 < u)
      BY DEF Least
    <2>2. \E t1 \in S : \A u \in S \ {t1} : k[t1] < k[u] \/ (k[t1] = k[u] /\ t1 < u)
      BY <1>1, <1>2, LeastThread
    <2>3. \E t1 \in S : \A u \in S \ {t1} :
            left(t1) < left(u) \/ (left(t1) = left(u) /\ t1 < u)
      BY <1>1, <1>2, <2>2
    <2> QED
      BY <2>1, <2>3
  <1>4. current' = t
        /\ allocated_time' = IF left(t) > mn - now THEN mn - now ELSE left(t)
    BY DEF SJF, Chosen
  <1>5. \A e \in Range(release_queue) : e \in F <=>
          \/ work[e.thrd].processing_time < left(t) - (e.release_time - now)
          \/ work[e.thrd].processing_time = left(t) - (e.release_time - now) /\ e.thrd < t
    <2> TAKE e \in Range(release_queue)
    <2> HIDE DEF t
    <2>1. e \in F <=> before(e)
      BY DEF F
    <2>2. e.release_time >= now
      BY <1>1
    <2> HIDE DEF F
    <2> QED
      BY <2>1, <2>2
  <1>6. F \in SUBSET Range(release_queue)
    OBVIOUS
  <1> HIDE DEF t, F, before
  <1>7. now < FAR
    <2>1. PICK s : Fit(s, job, now)
      BY DEF ThreadsInv, Budget, Ended
    <2>2. 0 \in 0..NTHREAD
      BY ThreadIDs
    <2>3. now <= s[0] /\ s[0] \in 0..FAR - 1
      BY <2>1, <2>2 DEF Fit
    <2> QED
      BY <1>1, <2>3, FARNat
  <1>8. mn \in Nat /\ mn > now /\ \A e \in F : mn <= e.release_time
    BY <1>6, <1>7, CutFacts
  <1> HIDE DEF mn
  <1>9. PICK a \in Int : /\ a = allocated_time' /\ a \in 1..left(t) /\ a <= mn - now
    <2>1. left(t) \in Int /\ left(t) > 0
      BY <1>1, <1>3
    <2>2. PICK a : a = IF left(t) > mn - now THEN mn - now ELSE left(t)
      OBVIOUS
    <2>3. a \in Int /\ a \in 1..left(t) /\ a <= mn - now
      BY <1>1, <1>8, <2>1, <2>2
    <2> QED
      BY <1>4, <2>2, <2>3
  <1>10. Fits'
    <2>1. left(current)' = left(t)
      BY <1>4 DEF Steady, left
    <2> QED
      BY <1>9, <2>1 DEF Fits
  <1>11. \A u, rem, deadline, time :
           Preferred(u, rem, deadline, time)' <=>
             LET key == left(t) - (time - now)
             IN rem < key \/ (rem = key /\ u < t)
    <2> TAKE u, rem, deadline, time
    <2>1. left(current)' = left(t) /\ current' = t /\ now' = now /\ policy' = "sjf"
      BY <1>4 DEF Steady, left
    <2> QED
      BY <2>1 DEF Preferred, Key
  <1>12. Foremost'
    <2>1. ASSUME NEW u \in Range(run_queue) \ {t}
          PROVE  ~Preferred(u, left(u), job[u].current_deadline, now)'
      <3>1. left(u)' = left(u) /\ left(u) \in Int /\ left(t) \in Int /\ now \in Int
            /\ u \in Int /\ t \in Int /\ now' = now
        BY <1>1, <1>3, ThreadIDs DEF left, Steady
      <3>2. left(t) - (now - now) = left(t)
        BY <3>1
      <3>3. PICK v, d, y : v = left(u) /\ d = job[u].current_deadline /\ y = now
        OBVIOUS
      <3>4. Preferred(u, left(u), job[u].current_deadline, now)' <=> Preferred(u, v, d, y)'
        BY <3>1, <3>3 DEF Steady
      <3>5. Preferred(u, v, d, y)' <=> (v < left(t) \/ (v = left(t) /\ u < t))
        BY <1>11, <3>2, <3>3
      <3> QED
        BY <1>3, <3>1, <3>3, <3>4, <3>5
    <2>2. ASSUME NEW e \in Range(release_queue), e.release_time \in now .. now + a - 1
          PROVE  ~Preferred(e.thrd, work[e.thrd].processing_time,
                            e.release_time + work[e.thrd].deadline, e.release_time)'
      <3>1. e \notin F
        BY <1>1, <1>8, <1>9, <2>2
      <3> QED
        BY <1>5, <1>11, <3>1 DEF Steady
    <2> QED
      BY <1>4, <1>9, <2>1, <2>2 DEF Foremost, Steady, left
  <1>13. Choice'
    BY <1>10, <1>12 DEF Choice, Served, Steady
  <1> QED
    BY <1>3, <1>4, <1>9, <1>13, ScheduleKeeps

\* The least slack.
LEMMA LSTKeeps ==
    ASSUME ThreadsInv, phase = "schedule", Steady, run_queue # <<>>, policy = "lst",
           Late = {}, LST
    PROVE  ThreadsInv'
  <1> DEFINE S == Range(run_queue)
             k == [u \in Thread |-> slack(u)]
             t == Least(S, slack)
             before(e) == LET u == e.thrd
                              s == work[u].deadline - work[u].processing_time
                          IN e.release_time >= now /\ (s < slack(t) \/ (s = slack(t) /\ u < t))
             F == {e \in Range(release_queue) : before(e)}
             mn == First(F)
             x == IF slack(t) >= 0 THEN left(t) ELSE job[t].current_deadline - now
  <1>1. /\ S \in SUBSET Thread /\ S # {} /\ now \in Nat
        /\ \A u \in Thread : /\ left(u) \in Int /\ slack(u) \in Int
                             /\ job[u].current_deadline \in Int
                             /\ slack(u) = job[u].current_deadline - now - left(u)
        /\ \A u \in S : left(u) > 0
        /\ \A e \in Range(release_queue) :
             e.release_time \in Nat /\ e.release_time > now /\ e.thrd \in Thread
    BY SchedFacts DEF ThreadsInv, Control
  <1>1a. \A u \in Thread : /\ work[u].deadline \in Int /\ work[u].processing_time \in Int
    BY WorkFacts DEF ThreadsInv
  <1>2. k \in [Thread -> Int] /\ \A u \in Thread : k[u] = slack(u)
    BY <1>1
  <1> HIDE DEF k
  <1>3. t \in S /\ \A u \in S \ {t} : slack(t) < slack(u) \/ (slack(t) = slack(u) /\ t < u)
    <2> HIDE DEF S
    <2>1. t = CHOOSE t1 \in S : \A u \in S \ {t1} :
                slack(t1) < slack(u) \/ (slack(t1) = slack(u) /\ t1 < u)
      BY DEF Least
    <2>2. \E t1 \in S : \A u \in S \ {t1} : k[t1] < k[u] \/ (k[t1] = k[u] /\ t1 < u)
      BY <1>1, <1>2, LeastThread
    <2>3. \E t1 \in S : \A u \in S \ {t1} :
            slack(t1) < slack(u) \/ (slack(t1) = slack(u) /\ t1 < u)
      BY <1>1, <1>2, <2>2
    <2> QED
      BY <2>1, <2>3
  <1>4. current' = t /\ allocated_time' = IF x > mn - now THEN mn - now ELSE x
    BY DEF LST, Chosen
  <1>5. \A e \in Range(release_queue) : e \in F <=>
          LET s == work[e.thrd].deadline - work[e.thrd].processing_time
          IN s < slack(t) \/ (s = slack(t) /\ e.thrd < t)
    <2> TAKE e \in Range(release_queue)
    <2> HIDE DEF t
    <2>1. e \in F <=> before(e)
      BY DEF F
    <2>2. e.release_time >= now
      BY <1>1
    <2> HIDE DEF F
    <2> QED
      BY <2>1, <2>2
  <1>6. F \in SUBSET Range(release_queue)
    OBVIOUS
  <1> HIDE DEF t, F, before
  <1>7. job[t].current_deadline < FAR /\ job[t].current_deadline > now
    <2>1. job[t].current_deadline < FAR
      BY <1>3, DeadlineNear
    <2>2. ~(job[t].current_deadline <= now)
      BY <1>3 DEF Late
    <2> QED
      BY <1>1, <1>3, <2>1, <2>2
  <1>8. mn \in Nat /\ mn > now /\ \A e \in F : mn <= e.release_time
    <2>1. now < FAR
      BY <1>1, <1>3, <1>7, FARNat
    <2> QED
      BY <1>6, <2>1, CutFacts
  <1> HIDE DEF mn
  <1>9. PICK a \in Int : /\ a = allocated_time' /\ a \in 1..left(t) /\ a <= mn - now
                         /\ now + a <= job[t].current_deadline
    <2>1. /\ left(t) \in Int /\ left(t) > 0 /\ job[t].current_deadline \in Int
          /\ slack(t) = job[t].current_deadline - now - left(t) /\ slack(t) \in Int
      BY <1>1, <1>3
    <2>2. x \in 1..left(t) /\ now + x <= job[t].current_deadline
      BY <1>1, <1>7, <2>1
    <2> HIDE DEF x
    <2>3. PICK a : a = IF x > mn - now THEN mn - now ELSE x
      OBVIOUS
    <2>4. a \in Int /\ a \in 1..left(t) /\ a <= mn - now /\ now + a <= job[t].current_deadline
      BY <1>1, <1>8, <2>1, <2>2, <2>3
    <2> QED
      BY <1>4, <2>3, <2>4
  <1>10. Fits' /\ (now + allocated_time <= job[current].current_deadline)'
    <2>1. left(current)' = left(t)
      BY <1>4 DEF Steady, left
    <2>2. job[current].current_deadline' = job[t].current_deadline
      BY <1>4 DEF Steady
    <2> QED
      BY <1>9, <2>1, <2>2 DEF Fits, Steady
  <1>11. \A u, rem, deadline, time :
           Preferred(u, rem, deadline, time)' <=>
             LET keyU == deadline - time - rem
                 key  == job[t].current_deadline - time - (left(t) - (time - now))
             IN keyU < key \/ (keyU = key /\ u < t)
    <2> TAKE u, rem, deadline, time
    <2>1. /\ left(current)' = left(t) /\ current' = t /\ now' = now /\ policy' = "lst"
          /\ job[current].current_deadline' = job[t].current_deadline
      BY <1>4 DEF Steady, left
    <2> QED
      BY <2>1 DEF Preferred, Key
  <1>12. Foremost'
    <2>1. ASSUME NEW u \in Range(run_queue) \ {t}
          PROVE  ~Preferred(u, left(u), job[u].current_deadline, now)'
      <3>1. PICK v, d, y : v = left(u) /\ d = job[u].current_deadline /\ y = now
        OBVIOUS
      <3>2. left(u)' = left(u) /\ now' = now /\ job' = job
        BY DEF left, Steady
      <3>3. Preferred(u, left(u), job[u].current_deadline, now)' <=> Preferred(u, v, d, y)'
        BY <3>1, <3>2
      <3>4. /\ d - y - v = slack(u)
            /\ job[t].current_deadline - y - (left(t) - (y - now)) = slack(t)
        BY <1>1, <1>3, <3>1
      <3>5. Preferred(u, v, d, y)' <=> (slack(u) < slack(t) \/ (slack(u) = slack(t) /\ u < t))
        BY <1>11, <3>4
      <3>6. slack(u) \in Int /\ slack(t) \in Int /\ u \in Int /\ t \in Int
        BY <1>1, <1>3, ThreadIDs
      <3> QED
        BY <1>3, <3>3, <3>5, <3>6
    <2>2. ASSUME NEW e \in Range(release_queue), e.release_time \in now .. now + a - 1
          PROVE  ~Preferred(e.thrd, work[e.thrd].processing_time,
                            e.release_time + work[e.thrd].deadline, e.release_time)'
      <3>1. e \notin F
        BY <1>1, <1>8, <1>9, <2>2
      <3>2. PICK u, p, d, r : /\ u = e.thrd /\ p = work[u].processing_time
                              /\ r = e.release_time /\ d = r + work[u].deadline
        OBVIOUS
      <3>3. Preferred(e.thrd, work[e.thrd].processing_time,
                      e.release_time + work[e.thrd].deadline, e.release_time)'
              <=> Preferred(u, p, d, r)'
        BY <3>2 DEF Steady
      <3>4a. r \in Int /\ u \in Thread
        BY <1>1, <3>2
      <3>4b. d - r - p = work[u].deadline - work[u].processing_time
        BY <1>1a, <3>2, <3>4a
      <3>4c. PICK x1, x2 \in Int : x1 = job[t].current_deadline /\ x2 = left(t)
        BY <1>1, <1>3
      <3>4d. x1 - r - (x2 - (r - now)) = x1 - now - x2
        BY <1>1, <3>4a, <3>4c
      <3>4. /\ d - r - p = work[u].deadline - work[u].processing_time
            /\ job[t].current_deadline - r - (left(t) - (r - now)) = slack(t)
        BY <1>1, <1>3, <3>4b, <3>4c, <3>4d
      <3> QED
        BY <1>5, <1>11, <3>1, <3>2, <3>3, <3>4
    <2> QED
      BY <1>4, <1>9, <2>1, <2>2 DEF Foremost, Steady, left
  <1>13. Choice'
    BY <1>10, <1>12 DEF Choice, Served, Steady
  <1> QED
    BY <1>3, <1>4, <1>9, <1>13, ScheduleKeeps

\* The shortest relative deadline.
LEMMA DMKeeps ==
    ASSUME ThreadsInv, phase = "schedule", Steady, run_queue # <<>>, policy = "dm",
           Late = {}, DM
    PROVE  ThreadsInv'
  <1> DEFINE S == Range(run_queue)
             deadline(u) == work[u].deadline
             k == [u \in Thread |-> deadline(u)]
             t == Least(S, deadline)
             before(e) == LET u == e.thrd
                          IN deadline(u) < deadline(t) \/ (deadline(u) = deadline(t) /\ u < t)
             F == {e \in Range(release_queue) : before(e)}
             mn == First(F)
             x == IF slack(t) >= 0 THEN left(t) ELSE job[t].current_deadline - left(t)
  <1>1. /\ S \in SUBSET Thread /\ S # {} /\ now \in Nat
        /\ \A u \in Thread : /\ left(u) \in Int /\ slack(u) \in Int
                             /\ job[u].current_deadline \in Int
                             /\ slack(u) = job[u].current_deadline - now - left(u)
        /\ \A u \in S : left(u) > 0
        /\ \A e \in Range(release_queue) :
             e.release_time \in Nat /\ e.release_time > now /\ e.thrd \in Thread
    BY SchedFacts DEF ThreadsInv, Control
  <1>1a. \A u \in Thread : deadline(u) \in Int
    BY WorkFacts DEF ThreadsInv
  <1>2. k \in [Thread -> Int] /\ \A u \in Thread : k[u] = deadline(u)
    BY <1>1a
  <1> HIDE DEF k
  <1>3. t \in S /\ \A u \in S \ {t} :
                     deadline(t) < deadline(u) \/ (deadline(t) = deadline(u) /\ t < u)
    <2> HIDE DEF S
    <2>1. t = CHOOSE t1 \in S : \A u \in S \ {t1} :
                deadline(t1) < deadline(u) \/ (deadline(t1) = deadline(u) /\ t1 < u)
      BY DEF Least
    <2>2. \E t1 \in S : \A u \in S \ {t1} : k[t1] < k[u] \/ (k[t1] = k[u] /\ t1 < u)
      BY <1>1, <1>2, LeastThread
    <2>3. \E t1 \in S : \A u \in S \ {t1} :
            deadline(t1) < deadline(u) \/ (deadline(t1) = deadline(u) /\ t1 < u)
      BY <1>1, <1>2, <2>2
    <2> QED
      BY <2>1, <2>3
  <1>4. current' = t /\ allocated_time' = IF x < mn - now THEN x ELSE mn - now
    BY DEF DM, Chosen
  <1>5. \A e \in Range(release_queue) : e \in F <=>
          \/ work[e.thrd].deadline < work[t].deadline
          \/ work[e.thrd].deadline = work[t].deadline /\ e.thrd < t
    <2> HIDE DEF t
    <2> QED
      BY DEF F
  <1>6. F \in SUBSET Range(release_queue)
    OBVIOUS
  <1> HIDE DEF t, F, before
  <1>7. job[t].current_deadline < FAR /\ job[t].current_deadline > now
    <2>1. job[t].current_deadline < FAR
      BY <1>3, DeadlineNear
    <2>2. ~(job[t].current_deadline <= now)
      BY <1>3 DEF Late
    <2> QED
      BY <1>1, <1>3, <2>1, <2>2
  <1>8. mn \in Nat /\ mn > now /\ \A e \in F : mn <= e.release_time
    <2>1. now < FAR
      BY <1>1, <1>3, <1>7, FARNat
    <2> QED
      BY <1>6, <2>1, CutFacts
  <1> HIDE DEF mn
  <1>9. PICK a \in Int : /\ a = allocated_time' /\ a <= mn - now
                         /\ \/ a \in 1..left(t)
                            \/ now + left(t) > job[t].current_deadline
    <2>1. /\ left(t) \in Int /\ left(t) > 0 /\ job[t].current_deadline \in Int
          /\ slack(t) = job[t].current_deadline - now - left(t) /\ slack(t) \in Int
      BY <1>1, <1>3
    <2>2. x \in Int /\ (x = left(t) \/ now + left(t) > job[t].current_deadline)
      BY <1>1, <2>1
    <2> HIDE DEF x
    <2>3. PICK a : a = IF x < mn - now THEN x ELSE mn - now
      OBVIOUS
    <2>4. a \in Int /\ a <= mn - now
          /\ (a \in 1..left(t) \/ now + left(t) > job[t].current_deadline)
      BY <1>1, <1>8, <2>1, <2>2, <2>3
    <2> QED
      BY <1>4, <2>3, <2>4
  <1>10. Fits'
    <2>1. left(current)' = left(t)
      BY <1>4 DEF Steady, left
    <2>2. job[current].current_deadline' = job[t].current_deadline
      BY <1>4 DEF Steady
    <2> QED
      BY <1>9, <2>1, <2>2 DEF Fits, Steady
  <1>11. \A u, rem, d, time :
           Preferred(u, rem, d, time)' <=>
             \/ work[u].deadline < work[t].deadline
             \/ work[u].deadline = work[t].deadline /\ u < t
    BY <1>4 DEF Preferred, Key, Steady
  <1>12. Foremost'
    <2>1. ASSUME NEW u \in Range(run_queue) \ {t}
          PROVE  ~Preferred(u, left(u), job[u].current_deadline, now)'
      <3>1. PICK v, d, y : v = left(u) /\ d = job[u].current_deadline /\ y = now
        OBVIOUS
      <3>2. left(u)' = left(u) /\ now' = now /\ job' = job
        BY DEF left, Steady
      <3>3. Preferred(u, left(u), job[u].current_deadline, now)' <=> Preferred(u, v, d, y)'
        BY <3>1, <3>2
      <3>4. /\ work[u].deadline \in Int /\ work[t].deadline \in Int
            /\ u \in Int /\ t \in Int
        BY <1>1, <1>1a, <1>3, ThreadIDs
      <3>5. work[t].deadline < work[u].deadline \/ (work[t].deadline = work[u].deadline /\ t < u)
        BY <1>3
      <3> QED
        BY <1>11, <3>3, <3>4, <3>5
    <2>2. ASSUME NEW e \in Range(release_queue), e.release_time \in now .. now + a - 1
          PROVE  ~Preferred(e.thrd, work[e.thrd].processing_time,
                            e.release_time + work[e.thrd].deadline, e.release_time)'
      <3>1. e \notin F
        BY <1>1, <1>8, <1>9, <2>2
      <3>2. PICK u, p, d, r : /\ u = e.thrd /\ p = work[u].processing_time
                              /\ r = e.release_time /\ d = r + work[u].deadline
        OBVIOUS
      <3>3. Preferred(e.thrd, work[e.thrd].processing_time,
                      e.release_time + work[e.thrd].deadline, e.release_time)'
              <=> Preferred(u, p, d, r)'
        BY <3>2 DEF Steady
      <3> QED
        BY <1>5, <1>11, <3>1, <3>2, <3>3
    <2> QED
      BY <1>4, <1>9, <2>1, <2>2 DEF Foremost, Steady, left
  <1>13. Choice'
    BY <1>10, <1>12 DEF Choice, Served, Steady
  <1> QED
    BY <1>3, <1>4, <1>9, <1>13, ScheduleKeeps

\* Whatever __schedule() chooses, it chooses well.
LEMMA ScheduleInv == ThreadsInv /\ Schedule => ThreadsInv'
  <1> SUFFICES ASSUME ThreadsInv, Schedule PROVE ThreadsInv'
    OBVIOUS
  <1>1. phase = "schedule" /\ Steady
    BY DEF Schedule, Steady
  <1>2. CASE run_queue = <<>> /\ Idle
    BY <1>1, <1>2, IdleKeeps
  <1>3. CASE run_queue # <<>> /\ policy = "default" /\ Default
    BY <1>1, <1>3, DefaultKeeps
  <1>4. CASE run_queue # <<>> /\ policy = "wrr" /\ WRR
    BY <1>1, <1>4, WRRKeeps
  <1>5. CASE run_queue # <<>> /\ policy = "sjf" /\ SJF
    BY <1>1, <1>5, SJFKeeps
  <1>6. CASE run_queue # <<>> /\ policy \in {"lst", "dm"} /\ Late # {} /\ ReportLate
    BY <1>1, <1>6, ReportKeeps
  <1>7. CASE run_queue # <<>> /\ policy = "lst" /\ Late = {} /\ LST
    BY <1>1, <1>7, LSTKeeps
  <1>8. CASE run_queue # <<>> /\ policy = "dm" /\ Late = {} /\ DM
    BY <1>1, <1>8, DMKeeps
  <1> QED
    BY <1>2, <1>3, <1>4, <1>5, <1>6, <1>7, <1>8 DEF Schedule

-----------------------------------------------------------------------------
(***************************************************************************)
(* __dispatch(), and main's sleep                                          *)
(***************************************************************************)

\* An action that leaves queues, jobs and programs alone leaves alone what holds of
\* them.
LEMMA QueuesKept ==
    ASSUME ThreadsInv, UNCHANGED <<policy, work, job, run_queue, release_queue>>
    PROVE  /\ Programs'
           /\ Queued(run_queue, release_queue, job)'
           /\ Periodic(release_queue, job)'
  BY DEF ThreadsInv, Programs, Queued, Periodic

\* What SJF still has time for.
LEMMA BudgetKept ==
    ASSUME ThreadsInv, UNCHANGED <<policy, work, job, run_queue, release_queue, now>>,
           phase \notin Ended, policy = "sjf"
    PROVE  /\ (\E s : Fit(s, job, now))'
           /\ (\A t \in Waiting(release_queue) : left(t) = work[t].processing_time)'
  <1>1. /\ \E s : Fit(s, job, now)
        /\ \A t \in Waiting(release_queue) : left(t) = work[t].processing_time
    BY DEF ThreadsInv, Budget
  <1> QED
    BY <1>1 DEF Fit, Owes, left, Waiting, Thrds

\* Main sleeps, or ends.
LEMMA DispatchMainInv == ThreadsInv /\ DispatchMain => ThreadsInv'
  <1> SUFFICES ASSUME ThreadsInv, DispatchMain PROVE ThreadsInv'
    OBVIOUS
  <1>1. /\ phase = "dispatch" /\ current = 0
        /\ UNCHANGED <<policy, work, job, slot, used, run_queue, release_queue, now,
                       current, allocated_time>>
        /\ phase' \in {"done", "sleeping"}
        /\ phase' = "sleeping" => ~(run_queue = <<>> /\ release_queue = <<>>)
    BY DEF DispatchMain
  <1>2. Slots /\ Control /\ Budget
    BY DEF ThreadsInv
  <1>3. Slots'
    BY <1>1, <1>2, SlotsKept
  <1>4. Control'
    BY <1>1, <1>2 DEF Control, Ended, Busy, Future
  <1>5. Choice'
    BY <1>1 DEF Choice
  <1>6. Budget'
    <2> SUFFICES ASSUME policy = "sjf" PROVE Budget'
      BY <1>1 DEF Budget
    <2>1. /\ (\E s : Fit(s, job, now))'
          /\ (\A t \in Waiting(release_queue) : left(t) = work[t].processing_time)'
      BY <1>1, BudgetKept DEF Ended
    <2>2. run_queue = <<>> /\ allocated_time = First(Range(release_queue)) - now
      BY <1>1, <1>2 DEF Budget
    <2>3. (run_queue = <<>> /\ allocated_time = First(Range(release_queue)) - now)'
      BY <1>1, <2>2 DEF First
    <2>4. phase' = "sleeping" => current' = 0 /\ release_queue' # <<>>
      BY <1>1, <2>2
    <2> QED
      BY <2>1, <2>3, <2>4 DEF Budget
  <1> QED
    BY <1>1, <1>3, <1>4, <1>5, <1>6, QueuesKept DEF ThreadsInv

\* A thread is dispatched that has the time it was chosen for, or has none.
LEMMA DispatchInv == ThreadsInv /\ Dispatch => ThreadsInv'
  <1> SUFFICES ASSUME ThreadsInv, Dispatch PROVE ThreadsInv'
    OBVIOUS
  <1>1. /\ phase = "dispatch" /\ current # 0
        /\ UNCHANGED <<policy, work, job, run_queue, release_queue, now, current,
                       allocated_time>>
        /\ \/ phase' \in {"missed", "failed"} /\ UNCHANGED <<slot, used>>
           \/ phase' = "running" /\ ~NoTime /\ slot[current] >= 0 /\ UNCHANGED <<slot, used>>
           \/ /\ phase' = "running" /\ ~NoTime /\ ~(slot[current] >= 0) /\ FreeSlots # {}
              /\ slot' = [slot EXCEPT ![current] = Min(FreeSlots)]
              /\ used' = used \cup {Min(FreeSlots)}
    BY DEF Dispatch
  <1>2. /\ Programs /\ Slots /\ Control /\ Choice /\ Budget
        /\ Queued(run_queue, release_queue, job) /\ Periodic(release_queue, job)
    BY DEF ThreadsInv
  <1>3. current \in Range(run_queue) /\ current \in Thread
    BY <1>1, <1>2 DEF Control, Queued, Range
  <1>4. Slots' /\ (phase' = "running" => slot'[current] >= 0)
    <2>1. CASE UNCHANGED <<slot, used>> /\ (phase' = "running" => slot[current] >= 0)
      BY <1>1, <1>2, <2>1, SlotsKept
    <2>2. CASE /\ FreeSlots # {}
               /\ slot' = [slot EXCEPT ![current] = Min(FreeSlots)]
               /\ used' = used \cup {Min(FreeSlots)}
      <3>1. FreeSlots \in SUBSET Nat
        BY ThreadsAssumption DEF FreeSlots
      <3>2. Min(FreeSlots) \in FreeSlots
        BY <2>2, <3>1, LeastElement
      <3>3. PICK f \in Nat : f = Min(FreeSlots) /\ f \notin used
        BY <3>1, <3>2 DEF FreeSlots
      <3>4. /\ slot \in [Thread -> Int] /\ used \subseteq Nat /\ MainSlot \in used
            /\ \A t \in Thread : job[t].n > 0 /\ slot[t] >= 0 =>
                 /\ slot[t] # MainSlot /\ slot[t] \in used
                 /\ \A u \in Thread \ {t} : job[u].n > 0 => slot[u] # slot[t]
        BY <1>2 DEF Slots
      <3>5. /\ slot' = [slot EXCEPT ![current] = f] /\ used' = used \cup {f}
            /\ f # MainSlot /\ f >= 0
        BY <2>2, <3>3, <3>4
      <3>6. /\ slot'[current] = f
            /\ \A t \in Thread \ {current} : slot'[t] = slot[t] /\ slot[t] \in Int
            /\ slot' \in [Thread -> Int]
        BY <1>3, <3>4, <3>5
      <3>7. \A t \in Thread : job[t].n > 0 => slot[t] # f
        BY <3>3, <3>4, <3>5
      <3>8. ASSUME NEW t \in Thread, job[t].n > 0, slot'[t] >= 0
            PROVE  /\ slot'[t] # MainSlot /\ slot'[t] \in used'
                   /\ \A u \in Thread \ {t} : job[u].n > 0 => slot'[u] # slot'[t]
        <4>1. CASE t = current
          BY <3>5, <3>6, <3>7, <4>1
        <4>2. CASE t # current
          BY <3>4, <3>5, <3>6, <3>7, <3>8, <4>2
        <4> QED
          BY <4>1, <4>2
      <3>9. Slots'
        BY <1>1, <3>4, <3>5, <3>6, <3>8 DEF Slots, MainSlot
      <3> QED
        BY <3>5, <3>6, <3>9
    <2> QED
      BY <1>1, <2>1, <2>2
  <1>5. Control'
    BY <1>1, <1>2, <1>3, <1>4 DEF Control, Ended, Busy, Future
  <1>6. Choice'
    <2> SUFFICES ASSUME phase' = "running" PROVE Served'
      BY <1>1 DEF Choice
    <2>1. ~NoTime
      BY <1>1
    <2>2. ~Reported
      <3> SUFFICES ASSUME Reported PROVE FALSE
        OBVIOUS
      <3>1. work[current].is_real_time /\ allocated_time = 0
        BY <1>2, <1>3, WorkFacts DEF Reported
      <3> QED
        BY <2>1, <3>1 DEF NoTime
    <2>3. Served
      BY <1>1, <1>2, <2>2 DEF Choice
    <2> QED
      BY <1>1, <2>3 DEF Served, Fits, Foremost, left, Preferred, Key
  <1>7. Budget'
    <2> SUFFICES ASSUME policy = "sjf" PROVE Budget'
      BY <1>1 DEF Budget
    <2>1. /\ (\E s : Fit(s, job, now))'
          /\ (\A t \in Waiting(release_queue) : left(t) = work[t].processing_time)'
      BY <1>1, BudgetKept DEF Ended
    <2>2. phase' \notin {"dispatch", "sleeping"}
      BY <1>1
    <2> QED
      BY <2>1, <2>2 DEF Budget
  <1> QED
    BY <1>1, <1>4, <1>5, <1>6, <1>7, QueuesKept DEF ThreadsInv

\* Main has slept until the first release.
LEMMA BackToMainInv == ThreadsInv /\ BackToMain => ThreadsInv'
  <1> SUFFICES ASSUME ThreadsInv, BackToMain PROVE ThreadsInv'
    OBVIOUS
  <1>1. /\ phase = "sleeping" /\ phase' = "main" /\ allocated_time > 0
        /\ now' = now + allocated_time
        /\ UNCHANGED <<policy, work, job, slot, used, run_queue, release_queue,
                       current, allocated_time>>
    BY DEF BackToMain, TimerSet
  <1>2. /\ Programs /\ Slots /\ Control /\ Budget
        /\ Queued(run_queue, release_queue, job) /\ Periodic(release_queue, job)
    BY DEF ThreadsInv
  <1>3. Slots'
    BY <1>1, <1>2, SlotsKept
  <1>4. now' \in Nat
    BY <1>1, <1>2 DEF Control
  <1>5. Control'
    BY <1>1, <1>2, <1>4 DEF Control, Ended, Busy
  <1>6. Choice'
    BY <1>1 DEF Choice
  <1>7. Budget'
    <2> SUFFICES ASSUME policy = "sjf" PROVE Budget'
      BY <1>1 DEF Budget
    <2>1. /\ \A t \in Waiting(release_queue) : left(t) = work[t].processing_time
          /\ allocated_time = First(Range(release_queue)) - now
          /\ release_queue # <<>>
      BY <1>1, <1>2 DEF Budget
    <2>2. PICK s : Fit(s, job, now)
      BY <1>1, <1>2 DEF Budget, Ended
    <2>3. release_queue \in Seq(Entry) /\ job \in [Thread -> Job] /\ now \in Nat
          /\ allocated_time \in Int
      BY <1>2 DEF Queued, Periodic, Control
    <2>4. /\ Range(release_queue) \subseteq Entry
          /\ Waiting(release_queue) = {e.thrd : e \in Range(release_queue)}
      BY <2>3, ThrdsFacts
    <2>5. ASSUME NEW e \in Range(release_queue)
          PROVE  e.thrd \in Thread /\ e.release_time = work[e.thrd].arrival
                 /\ e.release_time \in Nat
      <3>1. PICK t \in Thread : t = e.thrd
        BY <2>4 DEF Entry
      <3>2. t \in Waiting(release_queue) /\ job[t].n > 0 /\ job[t].n <= work[t].n
        BY <1>2, <2>4, <3>1 DEF Queued, Periodic
      <3>3. work[t].n = 1 /\ work[t].arrival \in Nat /\ work[t].deadline \in Int
        BY <1>2, WorkFacts
      <3>4. job[t].n = 1
        BY <2>3, <3>2, <3>3 DEF Job
      <3>5. e.release_time = work[t].arrival + (work[t].n - job[t].n) * work[t].deadline
        BY <1>2, <3>1 DEF Periodic
      <3>6. 0 * work[t].deadline = 0 /\ work[t].n - job[t].n = 0
        BY <3>3, <3>4
      <3> QED
        BY <3>1, <3>3, <3>5, <3>6
    <2>6. Range(release_queue) # {}
      <3>1. 1 \in DOMAIN release_queue
        BY <2>1, <2>3
      <3> QED
        BY <3>1 DEF Range
    <2>7. PICK e \in Range(release_queue) : First(Range(release_queue)) = e.release_time
      BY <2>4, <2>5, <2>6, FirstFacts
    <2>8. now' = work[e.thrd].arrival /\ e.thrd \in Thread
      BY <1>1, <2>1, <2>3, <2>5, <2>7
    <2>9. Fit(s, job, now')
      BY <2>2, <2>8 DEF Fit
    <2>10. (\E r : Fit(r, job, now))'
      BY <1>1, <2>9 DEF Fit, Owes
    <2>11. (\A t \in Waiting(release_queue) : left(t) = work[t].processing_time)'
      BY <1>1, <2>1 DEF left, Waiting, Thrds
    <2> QED
      BY <1>1, <2>10, <2>11 DEF Budget
  <1> QED
    BY <1>1, <1>3, <1>5, <1>6, <1>7, QueuesKept DEF ThreadsInv

-----------------------------------------------------------------------------
(***************************************************************************)
(* switch_handler() and thread_exit()                                      *)
(***************************************************************************)

\* Deadlines and releases depend on nothing else in the jobs.
LEMMA PeriodicKept ==
    ASSUME Programs, NEW rel, NEW j, NEW k \in [Thread -> Job], Periodic(rel, j),
           \A u \in Thread : k[u].n = j[u].n \/ k[u].n = 0,
           \A u \in Thread : k[u].current_deadline = j[u].current_deadline,
           \A e \in Range(rel) : k[e.thrd].n = j[e.thrd].n
    PROVE  Periodic(rel, k)
  <1>1. ASSUME NEW u \in Thread
        PROVE  /\ k[u].n <= work[u].n
               /\ k[u].n > 0 /\ work[u].is_real_time =>
                    k[u].current_deadline =
                      work[u].arrival + (work[u].n - k[u].n + 1) * work[u].deadline
    <2>1. CASE k[u].n = j[u].n
      BY <2>1 DEF Periodic
    <2>2. CASE k[u].n = 0
      BY <2>2, WorkFacts
    <2> QED
      BY <2>1, <2>2
  <1> QED
    BY <1>1 DEF Periodic

\* The thread that runs: it is in the queue, with ticks chosen for it.
LEMMA RunningFacts ==
    ASSUME ThreadsInv, phase = "running"
    PROVE  /\ current \in Thread /\ current \in Range(run_queue)
           /\ current \notin Waiting(release_queue)
           /\ job \in [Thread -> Job] /\ job[current].n > 0 /\ slot[current] >= 0
           /\ now \in Nat /\ allocated_time \in Int /\ Served
           /\ left(current) = job[current].remaining_time
           /\ left(current) \in Int /\ left(current) > 0
  <1>1. /\ Control /\ Choice
        /\ Queued(run_queue, release_queue, job) /\ Periodic(release_queue, job)
    BY DEF ThreadsInv
  <1>2. current \in Range(run_queue) /\ slot[current] >= 0 /\ Busy(run_queue, job)
        /\ now \in Nat /\ allocated_time \in Int
    BY <1>1 DEF Control, Ended
  <1>3. current \in Thread
    BY <1>1, <1>2 DEF Queued, Range
  <1>4. current \notin Waiting(release_queue) /\ job[current].n > 0
    BY <1>1, <1>2, <1>3 DEF Queued
  <1>5. Served
    <2>1. current # 0
      BY <1>3, ThreadIDs
    <2> QED
      BY <1>1, <2>1 DEF Choice, Reported
  <1>6. job \in [Thread -> Job] /\ job[current].remaining_time > 0
    BY <1>1, <1>2 DEF Busy, Periodic
  <1>7. job[current].remaining_time \in Int
    BY <1>3, <1>6 DEF Job
  <1> QED
    BY <1>2, <1>3, <1>4, <1>5, <1>6, <1>7 DEF left

\* Under SJF a thread owes some number of ticks.
LEMMA OwesNat ==
    ASSUME ThreadsInv, phase \notin Ended, policy = "sjf", NEW t \in Thread
    PROVE  Owes(job, t) \in Nat
  <1>1. /\ Queued(run_queue, release_queue, job) /\ Periodic(release_queue, job)
        /\ Busy(run_queue, job) /\ Programs
        /\ \A u \in Waiting(release_queue) : left(u) = work[u].processing_time
    BY DEF ThreadsInv, Control, Budget
  <1>2. job[t].remaining_time \in Int /\ work[t].processing_time \in Nat
    BY <1>1, WorkFacts DEF Periodic, Job
  <1>3. CASE t \in Range(run_queue)
    BY <1>1, <1>2, <1>3 DEF Busy, Owes
  <1>4. CASE t \in Waiting(release_queue)
    BY <1>1, <1>2, <1>4 DEF left, Owes
  <1>5. CASE t \notin Range(run_queue) \cup Waiting(release_queue)
    BY <1>1, <1>5 DEF Queued, Owes
  <1> QED
    BY <1>3, <1>4, <1>5

\* The jobs k and the queues q and rel after a release at the end of a's ticks, and j,
\* where the thread t has used them up.
Switched(t, a, q, rel, k, j) ==
    /\ t = current /\ a = allocated_time /\ a \in Nat /\ a > 0
    /\ Moved(run_queue, release_queue, job, now + a, q, rel, k)
    /\ q = run_queue \o Thrds(Due(release_queue, now + a))
    /\ rel = Rest(release_queue, now + a)
    /\ k = Renewed(job, Due(release_queue, now + a))
    /\ j = [k EXCEPT ![t].remaining_time = left(t) - a]

\* What a switch finds.
LEMMA SwitchedFacts ==
    ASSUME ThreadsInv, phase = "running", NEW t, NEW a, NEW q, NEW rel, NEW k, NEW j,
           Switched(t, a, q, rel, k, j)
    PROVE  /\ Queued(q, rel, k) /\ Periodic(rel, j) /\ Busy(q, k) /\ Future(rel, now + a)
           /\ t \in Thread /\ t \in Range(q) /\ t \notin Waiting(rel)
           /\ j \in [Thread -> Job] /\ k[t] = job[t] /\ job[t].n > 0
           /\ \A u \in Thread : j[u].n = job[u].n /\ k[u].n = job[u].n
           /\ \A u \in Thread \ {t} : j[u] = k[u]
           /\ j[t].remaining_time = left(t) - a
           /\ j[t].current_deadline = job[t].current_deadline
           /\ now + a \in Nat
  <1>1. /\ current \in Thread /\ current \in Range(run_queue)
        /\ job \in [Thread -> Job] /\ job[current].n > 0
        /\ now \in Nat /\ left(current) \in Int
    BY RunningFacts
  <1>2. t = current /\ a \in Nat /\ a > 0 /\ Busy(run_queue, job)
        /\ Moved(run_queue, release_queue, job, now + a, q, rel, k)
    BY DEF Switched, ThreadsInv, Control, Ended
  <1>3. /\ Queued(q, rel, k) /\ Periodic(rel, k) /\ Busy(q, k) /\ Future(rel, now + a)
        /\ \A u \in Thread : k[u].n = job[u].n
        /\ \A u \in Range(run_queue) : k[u] = job[u]
        /\ Range(run_queue) \subseteq Range(q)
    BY <1>2 DEF Moved
  <1>4. k \in [Thread -> Job]
    BY <1>3 DEF Periodic
  <1>5. PICK rem \in Int : rem = left(t) - a
    BY <1>1, <1>2
  <1>6. j = [k EXCEPT ![t].remaining_time = rem]
    BY <1>5 DEF Switched
  <1>7. /\ \A u \in Thread \ {t} : j[u] = k[u]
        /\ j[t] = [k[t] EXCEPT !.remaining_time = rem]
        /\ DOMAIN j = Thread /\ j = [u \in Thread |-> j[u]]
    BY <1>1, <1>2, <1>4, <1>6
  <1>8. j[t] \in Job /\ j[t].n = k[t].n /\ j[t].current_deadline = k[t].current_deadline
        /\ j[t].remaining_time = rem
    BY <1>1, <1>2, <1>4, <1>7 DEF Job
  <1>9. j \in [Thread -> Job]
    BY <1>4, <1>7, <1>8
  <1>10. /\ \A u \in Thread : j[u].n = k[u].n
         /\ \A u \in Thread : j[u].current_deadline = k[u].current_deadline
    BY <1>7, <1>8
  <1>11. rel \in Seq(Entry) /\ Range(q) \cap Waiting(rel) = {}
    BY <1>3 DEF Queued
  <1>12. \A e \in Range(rel) : j[e.thrd].n = k[e.thrd].n
    BY <1>10, <1>11, ThrdsFacts DEF Entry
  <1>13. Periodic(rel, j)
    BY <1>3, <1>9, <1>10, <1>12, PeriodicKept DEF ThreadsInv
  <1>14. t \in Thread /\ t \in Range(q) /\ t \notin Waiting(rel) /\ k[t] = job[t] /\ job[t].n > 0
    BY <1>1, <1>2, <1>3, <1>11
  <1>15. \A u \in Thread : j[u].n = job[u].n /\ k[u].n = job[u].n
    BY <1>3, <1>10
  <1>16. now + a \in Nat
    BY <1>1, <1>2
  <1> QED
    BY <1>3, <1>5, <1>7, <1>8, <1>9, <1>13, <1>14, <1>15, <1>16

\* Under SJF, there is time for the rest once the ticks are used up.
LEMMA BudgetSwitched ==
    ASSUME ThreadsInv, phase = "running", policy = "sjf",
           NEW t, NEW a, NEW q, NEW rel, NEW k, NEW j, Switched(t, a, q, rel, k, j),
           NEW m \in [Thread -> Job], \A u \in Thread \ {t} : m[u] = k[u],
           \/ m[t].n = 0
           \/ m[t].remaining_time = left(t) - a
    PROVE  /\ \E s : Fit(s, m, now + a)
           /\ \A u \in Waiting(rel) : m[u].remaining_time = work[u].processing_time
  <1>1. /\ current \in Thread /\ current \in Range(run_queue)
        /\ current \notin Waiting(release_queue)
        /\ job[current].n > 0 /\ left(current) = job[current].remaining_time
        /\ now \in Nat /\ left(current) \in Int /\ left(current) > 0 /\ Served
    BY RunningFacts
  <1>2. /\ t \in Thread /\ t \notin Waiting(rel) /\ k[t] = job[t]
        /\ \A u \in Thread : k[u].n = job[u].n
    BY SwitchedFacts
  <1>3. t = current /\ a \in Nat /\ a > 0 /\ a = allocated_time
        /\ Moved(run_queue, release_queue, job, now + a, q, rel, k)
    BY DEF Switched
  <1>4. /\ \E s : Fit(s, job, now)
        /\ \A u \in Waiting(release_queue) : job[u].remaining_time = work[u].processing_time
    BY DEF ThreadsInv, Budget, Ended, left
  <1>5. \A u \in Thread : k[u].remaining_time = job[u].remaining_time
    BY <1>3, <1>4 DEF Moved
  <1>6. PICK s : Fit(s, k, now)
    BY <1>2, <1>4, <1>5, FitReleased
  <1>7. \A u \in Thread : Owes(k, u) = Owes(job, u) /\ Owes(k, u) \in Nat
    BY <1>2, <1>5, OwesNat DEF Owes, Ended
  <1>8. a <= left(t)
    BY <1>1, <1>3 DEF Served, Fits
  <1>9. Owes(k, t) = left(t)
    BY <1>1, <1>2, <1>3 DEF Owes
  <1>10. Owes(m, t) \in Nat /\ Owes(m, t) + a <= Owes(k, t)
    <2>1. CASE m[t].n = 0
      <3>1. Owes(m, t) = 0
        BY <2>1 DEF Owes
      <3> QED
        BY <1>1, <1>3, <1>8, <1>9, <3>1
    <2>2. CASE m[t].remaining_time = left(t) - a
      <3>1. Owes(m, t) = 0 \/ Owes(m, t) = left(t) - a
        BY <2>2 DEF Owes
      <3> QED
        BY <1>1, <1>3, <1>8, <1>9, <3>1
    <2> QED
      BY <2>1, <2>2
  <1>11. \A u \in Thread \ {t} : Owes(m, u) = Owes(k, u)
    BY DEF Owes
  <1>12. \A u \in Thread : Owes(m, u) \in Nat
    BY <1>7, <1>10, <1>11
  <1>13. Programs
    BY DEF ThreadsInv
  <1>14. \E r : Fit(r, m, now + a)
    BY <1>1, <1>2, <1>3, <1>6, <1>7, <1>10, <1>11, <1>12, <1>13, FitAfter
  <1>15. ASSUME NEW u \in Waiting(rel) PROVE m[u].remaining_time = work[u].processing_time
    <2>1. u \in Waiting(release_queue) /\ k[u] = job[u]
      BY <1>3 DEF Moved
    <2>2. u \in Thread
      <3>1. release_queue \in Seq(Entry)
        BY DEF ThreadsInv, Queued
      <3> QED
        BY <2>1, <3>1, ThrdsFacts
    <2> QED
      BY <1>2, <1>4, <2>1, <2>2
  <1> QED
    BY <1>14, <1>15

\* Where queues and jobs are in order again, the invariant goes on.
LEMMA ReturnKeeps ==
    ASSUME ThreadsInv, UNCHANGED <<policy, work, current, allocated_time>>, Slots', now' \in Nat,
           phase' \in {"missed", "schedule"},
           Queued(run_queue', release_queue', job'), Periodic(release_queue', job'),
           phase' = "schedule" => Busy(run_queue', job') /\ Future(release_queue', now'),
           policy = "sjf" /\ phase' = "schedule" => \E s : Fit(s, job', now'),
           policy = "sjf" => \A t \in Waiting(release_queue') :
                               job'[t].remaining_time = work[t].processing_time
    PROVE  ThreadsInv'
  <1>1. Programs /\ Control
    BY DEF ThreadsInv
  <1>2. Programs'
    BY <1>1 DEF Programs
  <1>3. Queued(run_queue, release_queue, job)'
    BY DEF Queued
  <1>4. Periodic(release_queue, job)'
    BY DEF Periodic
  <1>5. Control'
    BY <1>1 DEF Control, Ended, Busy, Future
  <1>6. Choice'
    BY DEF Choice
  <1>7. Budget'
    <2>1. policy = "sjf" /\ phase' = "schedule" => (\E s : Fit(s, job, now))'
      BY DEF Fit, Owes
    <2>2. policy = "sjf" =>
            (\A t \in Waiting(release_queue) : left(t) = work[t].processing_time)'
      BY DEF left, Waiting, Thrds
    <2> QED
      BY <2>1, <2>2 DEF Budget, Ended
  <1> QED
    BY <1>2, <1>3, <1>4, <1>5, <1>6, <1>7 DEF ThreadsInv

\* A deadline is missed.
LEMMA MissedKeeps ==
    ASSUME ThreadsInv, phase = "running", UNCHANGED <<policy, work, slot, used, current>>,
           UNCHANGED allocated_time,
           NEW t, NEW a, NEW q, NEW rel, NEW k, NEW j, Switched(t, a, q, rel, k, j),
           now' = now + a, work[t].is_real_time, phase' = "missed",
           run_queue' = q, release_queue' = rel, job' = j
    PROVE  ThreadsInv'
  <1>1. /\ Queued(q, rel, k) /\ Periodic(rel, j) /\ now + a \in Nat /\ t \in Thread
        /\ \A u \in Thread : j[u].n = job[u].n /\ k[u].n = job[u].n
    BY SwitchedFacts
  <1>2. Queued(q, rel, j)
    BY <1>1 DEF Queued
  <1>3. Slots'
    BY <1>1, SlotsKept DEF ThreadsInv
  <1>4. policy # "sjf"
    BY <1>1, WorkFacts DEF ThreadsInv
  <1> QED
    BY <1>1, <1>2, <1>3, <1>4, ReturnKeeps

\* A thread has more to compute.
LEMMA UnfinishedKeeps ==
    ASSUME ThreadsInv, phase = "running", UNCHANGED <<policy, work, slot, used, current>>,
           UNCHANGED allocated_time,
           NEW t, NEW a, NEW q, NEW rel, NEW k, NEW j, Switched(t, a, q, rel, k, j),
           now' = now + a, left(t) - a > 0, phase' = "schedule",
           run_queue' = Append(Without(q, t), t), release_queue' = rel, job' = j
    PROVE  ThreadsInv'
  <1>1. /\ Queued(q, rel, k) /\ Periodic(rel, j) /\ Busy(q, k) /\ Future(rel, now + a)
        /\ t \in Thread /\ t \in Range(q) /\ j \in [Thread -> Job] /\ now + a \in Nat
        /\ \A u \in Thread : j[u].n = job[u].n /\ k[u].n = job[u].n
        /\ \A u \in Thread \ {t} : j[u] = k[u]
        /\ j[t].remaining_time = left(t) - a
    BY SwitchedFacts
  <1>2. Queued(run_queue', rel, j) /\ Range(run_queue') = Range(q)
    <2>1. \A u \in Thread : j[u].n > 0 <=> k[u].n > 0
      BY <1>1
    <2>2. Queued(Append(Without(q, t), t), rel, j)
          /\ Range(Append(Without(q, t), t)) = Range(q)
      BY <1>1, <2>1, PutBack
    <2> QED
      BY <2>2
  <1>3. Slots'
    BY <1>1, SlotsKept DEF ThreadsInv
  <1>4. Range(q) \subseteq Thread
    BY <1>1 DEF Queued, Range
  <1>5. Busy(run_queue', j)
    BY <1>1, <1>2, <1>4 DEF Busy
  <1>6. policy = "sjf" => /\ \E s : Fit(s, j, now + a)
                          /\ \A u \in Waiting(rel) : j[u].remaining_time = work[u].processing_time
    BY <1>1, BudgetSwitched
  <1> QED
    BY <1>1, <1>2, <1>3, <1>5, <1>6, ReturnKeeps

\* The last cycle of a thread is over.
LEMMA FinishedKeeps ==
    ASSUME ThreadsInv, phase = "running", UNCHANGED <<policy, work, slot, used, current>>,
           UNCHANGED allocated_time,
           NEW t, NEW a, NEW q, NEW rel, NEW k, NEW j, Switched(t, a, q, rel, k, j),
           now' = now + a, phase' = "schedule",
           run_queue' = Without(q, t), release_queue' = rel, job' = Freed(j, t)
    PROVE  ThreadsInv'
  <1> DEFINE m == Freed(j, t)
  <1>1. /\ Queued(q, rel, k) /\ Periodic(rel, j) /\ Busy(q, k) /\ Future(rel, now + a)
        /\ t \in Thread /\ t \in Range(q) /\ t \notin Waiting(rel)
        /\ j \in [Thread -> Job] /\ now + a \in Nat
        /\ \A u \in Thread : j[u].n = job[u].n /\ k[u].n = job[u].n
        /\ \A u \in Thread \ {t} : j[u] = k[u]
    BY SwitchedFacts
  <1>2. /\ m \in [Thread -> Job] /\ m[t].n = 0
        /\ m[t].current_deadline = j[t].current_deadline
        /\ \A u \in Thread \ {t} : m[u] = j[u]
    <2>1. m[t] = [j[t] EXCEPT !.n = 0] /\ j[t] \in Job
          /\ (\A u \in Thread \ {t} : m[u] = j[u]) /\ m = [u \in Thread |-> m[u]]
      BY <1>1 DEF Freed
    <2> HIDE DEF m
    <2>2. m[t] \in Job /\ m[t].n = 0 /\ m[t].current_deadline = j[t].current_deadline
      BY <2>1 DEF Job
    <2>3. m \in [Thread -> Job]
      BY <1>1, <2>1, <2>2
    <2> QED
      BY <2>1, <2>2, <2>3
  <1> HIDE DEF m
  <1>3. \A u \in Thread \ {t} : m[u].n > 0 <=> k[u].n > 0
    BY <1>1, <1>2
  <1>4. Queued(run_queue', rel, m) /\ Range(run_queue') = Range(q) \ {t}
    BY <1>1, <1>2, <1>3, TakenOut
  <1>5. \A e \in Range(rel) : m[e.thrd].n = j[e.thrd].n
    <2>1. rel \in Seq(Entry)
      BY <1>1 DEF Queued
    <2>2. \A e \in Range(rel) : e.thrd \in Thread /\ e.thrd # t
      BY <1>1, <2>1, ThrdsFacts
    <2> QED
      BY <1>2, <2>2
  <1>6. Periodic(rel, m)
    <2>1. \A u \in Thread : /\ m[u].n = j[u].n \/ m[u].n = 0
                            /\ m[u].current_deadline = j[u].current_deadline
      BY <1>2
    <2> QED
      BY <1>1, <1>2, <1>5, <2>1, PeriodicKept DEF ThreadsInv
  <1>7. Slots'
    <2>1. \A u \in Thread : m[u].n > 0 => job[u].n > 0
      BY <1>1, <1>2
    <2> QED
      BY <2>1, SlotsKept DEF ThreadsInv, m
  <1>8. Range(q) \subseteq Thread
    BY <1>1 DEF Queued, Range
  <1>9. Busy(run_queue', m)
    BY <1>1, <1>2, <1>4, <1>8 DEF Busy
  <1>10. policy = "sjf" => /\ \E s : Fit(s, m, now + a)
                           /\ \A u \in Waiting(rel) :
                                m[u].remaining_time = work[u].processing_time
    BY <1>1, <1>2, BudgetSwitched
  <1>11. job' = m
    BY DEF m
  <1> QED
    BY <1>1, <1>4, <1>6, <1>7, <1>9, <1>10, <1>11, ReturnKeeps

\* A cycle is over and another one is to come.
LEMMA AgainKeeps ==
    ASSUME ThreadsInv, phase = "running", UNCHANGED <<policy, work, slot, used, current>>,
           UNCHANGED allocated_time,
           NEW t, NEW a, NEW q, NEW rel, NEW k, NEW j, Switched(t, a, q, rel, k, j),
           NEW e, e = [thrd |-> t, release_time |-> job[t].current_deadline],
           NEW again, again = [n |-> job[t].n - 1, remaining_time |-> left(t) - a,
                               current_deadline |-> IF work[t].is_real_time
                                 THEN job[t].current_deadline + work[t].deadline
                                 ELSE job[t].current_deadline],
           now' = now + a, phase' = "schedule", job[t].n > 1,
           Release(now + a, Without(q, t), Append(rel, e), [j EXCEPT ![t] = again])
    PROVE  ThreadsInv'
  <1> DEFINE m == [j EXCEPT ![t] = again]
             w == Without(q, t)
             r == Append(rel, e)
  <1>1. /\ Queued(q, rel, k) /\ Periodic(rel, j) /\ Busy(q, k)
        /\ t \in Thread /\ t \in Range(q) /\ t \notin Waiting(rel)
        /\ j \in [Thread -> Job] /\ now + a \in Nat
        /\ \A u \in Thread : j[u].n = job[u].n /\ k[u].n = job[u].n
        /\ \A u \in Thread \ {t} : j[u] = k[u]
        /\ j[t].remaining_time = left(t) - a
        /\ j[t].current_deadline = job[t].current_deadline
    BY SwitchedFacts
  <1>2. Programs
    BY DEF ThreadsInv
  <1>3. /\ work[t].n \in Nat /\ work[t].deadline \in Int /\ work[t].arrival \in Nat
        /\ job[t].n \in Nat /\ job[t].n <= work[t].n /\ job[t].current_deadline \in Int
        /\ left(t) - a \in Int
    BY <1>1, <1>2, WorkFacts DEF Job, Periodic
  <1>4. work[t].is_real_time /\ policy # "sjf"
    BY <1>1, <1>2, <1>3, WorkFacts
  <1>5. PICK c, d, x \in Int : /\ c = work[t].n - job[t].n + 1 /\ d = work[t].deadline
                               /\ x = work[t].arrival
    BY <1>3
  <1>6. job[t].current_deadline = x + c * d
    <2>1. j[t].n > 0 /\ j[t].n = job[t].n
      BY <1>1, <1>3
    <2> QED
      BY <1>1, <1>4, <1>5, <2>1 DEF Periodic
  <1>7. c * d \in Int /\ (c + 1) * d = c * d + d
    BY OneMore
  <1>8. PICK y \in Int : y = job[t].current_deadline + d
    BY <1>3
  <1>9. PICK n \in Nat : n = job[t].n - 1 /\ n > 0
    BY <1>3
  <1>10. PICK rem \in Int : rem = left(t) - a
    BY <1>3
  <1>11. again = [n |-> n, remaining_time |-> rem, current_deadline |-> y]
    BY <1>4, <1>5, <1>8, <1>9, <1>10
  <1>12. again \in Job /\ again.n = n /\ again.current_deadline = y
    BY <1>11 DEF Job
  <1>13. /\ m \in [Thread -> Job] /\ m[t] = again
         /\ \A u \in Thread \ {t} : m[u] = j[u]
    BY <1>1, <1>12
  <1>14. e \in Entry /\ e.thrd = t /\ e.release_time = job[t].current_deadline
    BY <1>1, <1>3 DEF Entry
  <1> HIDE DEF m, w, r
  <1>15. \A u \in Thread : m[u].n > 0 <=> k[u].n > 0
    BY <1>1, <1>3, <1>9, <1>12, <1>13
  <1>16. Queued(w, r, m) /\ Range(w) = Range(q) \ {t} /\ Range(r) = Range(rel) \cup {e}
    BY <1>1, <1>14, <1>15, QueuedAgain DEF w, r
  <1>17. Periodic(r, m)
    <2>1. ASSUME NEW u \in Thread
          PROVE  /\ m[u].n <= work[u].n
                 /\ m[u].n > 0 /\ work[u].is_real_time =>
                      m[u].current_deadline =
                        work[u].arrival + (work[u].n - m[u].n + 1) * work[u].deadline
      <3>1. CASE u # t
        BY <1>1, <1>13, <3>1 DEF Periodic
      <3>2. CASE u = t
        <4>1. work[t].n - n + 1 = c + 1 /\ n <= work[t].n
          BY <1>3, <1>5, <1>9
        <4>2. y = x + (c + 1) * d
          BY <1>6, <1>7, <1>8
        <4> QED
          BY <1>5, <1>12, <1>13, <3>2, <4>1, <4>2
      <3> QED
        BY <3>1, <3>2
    <2>2. ASSUME NEW f \in Range(r)
          PROVE  f.release_time = work[f.thrd].arrival
                                    + (work[f.thrd].n - m[f.thrd].n) * work[f.thrd].deadline
      <3>1. CASE f \in Range(rel)
        <4>1. rel \in Seq(Entry)
          BY <1>1 DEF Queued
        <4>2. f.thrd \in Thread /\ f.thrd # t
          BY <1>1, <3>1, <4>1, ThrdsFacts
        <4> QED
          BY <1>1, <1>13, <3>1, <4>2 DEF Periodic
      <3>2. CASE f = e
        <4>1. work[t].n - n = c
          BY <1>3, <1>5, <1>9
        <4> QED
          BY <1>5, <1>6, <1>12, <1>13, <1>14, <3>2, <4>1
      <3> QED
        BY <1>16, <3>1, <3>2
    <2> QED
      BY <1>13, <2>1, <2>2 DEF Periodic
  <1>18. Range(q) \subseteq Thread
    BY <1>1 DEF Queued, Range
  <1>19. Busy(w, m)
    BY <1>1, <1>13, <1>16, <1>18 DEF Busy
  <1>20. now + a \in Int
    BY <1>1
  <1>21. Moved(w, r, m, now + a, run_queue', release_queue', job')
    <2>1. PICK time \in Int : time = now + a
      BY <1>20
    <2>2. /\ run_queue' = w \o Thrds(Due(r, time)) /\ release_queue' = Rest(r, time)
          /\ job' = Renewed(m, Due(r, time))
      BY <2>1 DEF Release, w, r, m
    <2> QED
      BY <1>2, <1>16, <1>17, <2>1, <2>2, Released
  <1>22. /\ Queued(run_queue', release_queue', job') /\ Periodic(release_queue', job')
         /\ Busy(run_queue', job') /\ Future(release_queue', now + a)
         /\ \A u \in Thread : job'[u].n = m[u].n
    BY <1>19, <1>21 DEF Moved
  <1>23. Slots'
    <2>1. \A u \in Thread : job'[u].n > 0 => job[u].n > 0
      BY <1>1, <1>15, <1>22
    <2> QED
      BY <2>1, SlotsKept DEF ThreadsInv
  <1> QED
    BY <1>1, <1>4, <1>22, <1>23, ReturnKeeps

\* switch_handler()
LEMMA SwitchHandlerInv == ThreadsInv /\ SwitchHandler => ThreadsInv'
  <1> SUFFICES ASSUME ThreadsInv, SwitchHandler PROVE ThreadsInv'
    OBVIOUS
  <1>1. /\ phase = "running" /\ allocated_time > 0 /\ now' = now + allocated_time
        /\ UNCHANGED <<policy, work, slot, used, current, allocated_time>>
    BY DEF SwitchHandler, TimerSet
  <1>2. PICK t : t = current
    OBVIOUS
  <1>3. PICK a \in Nat : a = allocated_time /\ a > 0
    BY <1>1, RunningFacts
  <1>4. PICK es : es = Due(release_queue, now + a)
    OBVIOUS
  <1>5. PICK q : q = run_queue \o Thrds(es)
    OBVIOUS
  <1>6. PICK rel : rel = Rest(release_queue, now + a)
    OBVIOUS
  <1>7. PICK k : k = Renewed(job, es)
    OBVIOUS
  <1>8. PICK j : j = [k EXCEPT ![t].remaining_time = left(t) - a]
    OBVIOUS
  <1>9. Switched(t, a, q, rel, k, j)
    <2>1. now + a \in Int /\ Programs
          /\ Queued(run_queue, release_queue, job) /\ Periodic(release_queue, job)
      BY <1>1, RunningFacts DEF ThreadsInv
    <2>2. PICK time \in Int : time = now + a
      BY <2>1
    <2>3. Moved(run_queue, release_queue, job, time, q, rel, k)
      BY <1>4, <1>5, <1>6, <1>7, <2>1, <2>2, Released
    <2> QED
      BY <1>2, <1>3, <1>4, <1>5, <1>6, <1>7, <1>8, <2>2, <2>3 DEF Switched
  <1>10. CASE /\ work[t].is_real_time /\ phase' = "missed"
              /\ run_queue' = q /\ release_queue' = rel /\ job' = j
    BY <1>1, <1>3, <1>9, <1>10, MissedKeeps
  <1>11. CASE /\ left(t) - a > 0 /\ phase' = "schedule"
              /\ run_queue' = Append(Without(q, t), t) /\ release_queue' = rel /\ job' = j
    BY <1>1, <1>3, <1>9, <1>11, UnfinishedKeeps
  <1>12. CASE /\ phase' = "schedule"
              /\ run_queue' = Without(q, t) /\ release_queue' = rel /\ job' = Freed(j, t)
    BY <1>1, <1>3, <1>9, <1>12, FinishedKeeps
  <1>13. PICK e : e = [thrd |-> t, release_time |-> job[t].current_deadline]
    OBVIOUS
  <1>14. PICK again : again = [n |-> job[t].n - 1, remaining_time |-> left(t) - a,
                               current_deadline |-> IF work[t].is_real_time
                                 THEN job[t].current_deadline + work[t].deadline
                                 ELSE job[t].current_deadline]
    OBVIOUS
  <1>15. CASE /\ phase' = "schedule" /\ job[t].n > 1
              /\ Release(now + a, Without(q, t), Append(rel, e), [j EXCEPT ![t] = again])
    BY <1>1, <1>3, <1>9, <1>13, <1>14, <1>15, AgainKeeps
  <1> QED
    BY <1>2, <1>3, <1>4, <1>5, <1>6, <1>7, <1>8, <1>10, <1>11, <1>12, <1>13, <1>14, <1>15
       DEF SwitchHandler

\* thread_exit(): whatever ticks the thread has left.
LEMMA ThreadExitInv ==
    ASSUME ThreadsInv, phase = "running", NEW ticks \in {0} \cup 0..allocated_time - 1,
           ThreadExit(ticks)
    PROVE  ThreadsInv'
  <1>1. /\ current \in Thread /\ current \in Range(run_queue)
        /\ current \notin Waiting(release_queue)
        /\ job \in [Thread -> Job] /\ job[current].n > 0 /\ slot[current] >= 0
        /\ now \in Nat /\ allocated_time \in Int /\ Served
        /\ left(current) = job[current].remaining_time
        /\ left(current) \in Int /\ left(current) > 0
    BY RunningFacts
  <1>2. PICK t \in Thread : t = current
    BY <1>1
  <1>3. ticks \in Nat
    BY <1>1
  <1>4. PICK time \in Nat : time = now + ticks
    BY <1>1, <1>3
  <1> DEFINE w == Without(run_queue, t)
             m == Freed(job, t)
  <1>5. /\ now' = time /\ used' = used \ {slot[t]} /\ phase' = "schedule"
        /\ UNCHANGED <<policy, work, slot, current, allocated_time>>
        /\ Release(time, w, release_queue, m)
    BY <1>2, <1>4 DEF ThreadExit, GiveBack
  <1>6. /\ Programs /\ Slots /\ Control /\ Budget
        /\ Queued(run_queue, release_queue, job) /\ Periodic(release_queue, job)
        /\ Busy(run_queue, job)
    BY DEF ThreadsInv, Control, Ended
  <1>7. /\ m \in [Thread -> Job] /\ m[t].n = 0
        /\ m[t].current_deadline = job[t].current_deadline
        /\ \A u \in Thread \ {t} : m[u] = job[u]
    <2>1. m[t] = [job[t] EXCEPT !.n = 0] /\ job[t] \in Job
          /\ (\A u \in Thread \ {t} : m[u] = job[u]) /\ m = [u \in Thread |-> m[u]]
      BY <1>1 DEF Freed
    <2> HIDE DEF m
    <2>2. m[t] \in Job /\ m[t].n = 0 /\ m[t].current_deadline = job[t].current_deadline
      BY <2>1 DEF Job
    <2>3. m \in [Thread -> Job]
      BY <1>1, <2>1, <2>2
    <2> QED
      BY <2>1, <2>2, <2>3
  <1> HIDE DEF m
  <1>8. Queued(w, release_queue, m) /\ Range(w) = Range(run_queue) \ {t}
    <2>1. \A u \in Thread \ {t} : m[u].n > 0 <=> job[u].n > 0
      BY <1>7
    <2> QED
      BY <1>1, <1>2, <1>6, <1>7, <2>1, TakenOut
  <1> HIDE DEF w
  <1>9. release_queue \in Seq(Entry) /\ run_queue \in Seq(Thread)
    BY <1>6 DEF Queued
  <1>10. \A u \in Waiting(release_queue) : u \in Thread /\ u # t
    BY <1>1, <1>2, <1>9, ThrdsFacts
  <1>11. \A e \in Range(release_queue) : m[e.thrd].n = job[e.thrd].n
    <2>1. \A e \in Range(release_queue) : e.thrd \in Waiting(release_queue)
      BY <1>9, ThrdsFacts
    <2> QED
      BY <1>7, <1>10, <2>1
  <1>12. Periodic(release_queue, m)
    <2>1. \A u \in Thread : /\ m[u].n = job[u].n \/ m[u].n = 0
                            /\ m[u].current_deadline = job[u].current_deadline
      BY <1>7
    <2> QED
      BY <1>6, <1>7, <1>11, <2>1, PeriodicKept
  <1>13. Busy(w, m)
    <2>1. Range(run_queue) \subseteq Thread
      BY <1>9 DEF Range
    <2> QED
      BY <1>6, <1>7, <1>8, <2>1 DEF Busy
  <1>14. Moved(w, release_queue, m, time, run_queue', release_queue', job')
    <2>1. time \in Int
      BY <1>4
    <2> QED
      BY <1>5, <1>6, <1>8, <1>12, <2>1, Released DEF Release
  <1>15. /\ Queued(run_queue', release_queue', job') /\ Periodic(release_queue', job')
         /\ Busy(run_queue', job') /\ Future(release_queue', time)
         /\ \A u \in Thread : job'[u].n = m[u].n
         /\ \A u \in Thread \ Waiting(release_queue) : job'[u] = m[u]
         /\ \A u \in Waiting(release_queue) :
              job'[u] = m[u] \/ job'[u].remaining_time = work[u].processing_time
         /\ \A u \in Waiting(release_queue') : job'[u] = m[u]
         /\ Waiting(release_queue') \subseteq Waiting(release_queue)
    BY <1>13, <1>14 DEF Moved
  <1>16. Slots'
    <2>1. /\ slot \in [Thread -> Int] /\ used \subseteq Nat /\ MainSlot \in used
          /\ \A u \in Thread : job[u].n > 0 /\ slot[u] >= 0 =>
               /\ slot[u] # MainSlot /\ slot[u] \in used
               /\ \A v \in Thread \ {u} : job[v].n > 0 => slot[v] # slot[u]
      BY <1>6 DEF Slots
    <2>2. \A u \in Thread : job'[u].n > 0 => job[u].n > 0 /\ u # t
      BY <1>7, <1>15
    <2>3. used' \subseteq Nat /\ MainSlot \in used'
      BY <1>1, <1>2, <1>5, <2>1
    <2>4. ASSUME NEW u \in Thread, job'[u].n > 0, slot[u] >= 0
          PROVE  /\ slot[u] # MainSlot /\ slot[u] \in used'
                 /\ \A v \in Thread \ {u} : job'[v].n > 0 => slot[v] # slot[u]
      <3>1. job[u].n > 0 /\ u # t /\ slot[u] # slot[t]
        BY <1>1, <1>2, <2>1, <2>2, <2>4
      <3> QED
        BY <1>5, <2>1, <2>2, <2>4, <3>1
    <2> QED
      BY <1>5, <2>1, <2>3, <2>4 DEF Slots, MainSlot
  <1>17. policy = "sjf" => /\ \E s : Fit(s, job', time)
                           /\ \A u \in Waiting(release_queue') :
                                job'[u].remaining_time = work[u].processing_time
    <2> SUFFICES ASSUME policy = "sjf"
                 PROVE  /\ \E s : Fit(s, job', time)
                        /\ \A u \in Waiting(release_queue') :
                             job'[u].remaining_time = work[u].processing_time
      OBVIOUS
    <2>1. /\ \E s : Fit(s, job, now)
          /\ \A u \in Waiting(release_queue) : job[u].remaining_time = work[u].processing_time
      BY <1>6 DEF Budget, Ended, left
    <2>2. PICK s : Fit(s, job, now)
      BY <2>1
    <2>3. \A u \in Thread : Owes(job, u) \in Nat
      BY OwesNat DEF Ended
    <2>4. Owes(m, t) = 0 /\ Owes(job, t) = left(t)
      BY <1>1, <1>2, <1>7 DEF Owes
    <2>5. \A u \in Thread \ {t} : Owes(m, u) = Owes(job, u)
      BY <1>7 DEF Owes
    <2>6. ticks <= left(t)
      BY <1>1, <1>2, <1>3 DEF Served, Fits
    <2>7. Owes(m, t) + ticks <= Owes(job, t)
      BY <1>1, <1>2, <1>3, <2>4, <2>6
    <2>8. \A u \in Thread : Owes(m, u) \in Nat
      BY <2>3, <2>4, <2>5
    <2>9. \E r : Fit(r, m, now + ticks)
      BY <1>1, <1>3, <1>6, <2>2, <2>3, <2>5, <2>7, <2>8, FitAfter
    <2>10. \A u \in Thread : job'[u].remaining_time = m[u].remaining_time
      BY <1>7, <1>10, <1>15, <2>1
    <2>11. \E r : Fit(r, job', time)
      BY <1>4, <1>15, <2>9, <2>10, FitReleased
    <2>12. \A u \in Waiting(release_queue') : job'[u].remaining_time = work[u].processing_time
      BY <1>7, <1>10, <1>15, <2>1
    <2> QED
      BY <2>11, <2>12
  <1> QED
    BY <1>4, <1>5, <1>15, <1>16, <1>17, ReturnKeeps

-----------------------------------------------------------------------------
(***************************************************************************)
(* The invariant, and what follows from it                                 *)
(***************************************************************************)

\* Nothing happens.
LEMMA StutterInv == ThreadsInv /\ UNCHANGED vars => ThreadsInv'
  <1> SUFFICES ASSUME ThreadsInv, UNCHANGED vars PROVE ThreadsInv'
    OBVIOUS
  <1>1. UNCHANGED <<policy, work, job, run_queue, release_queue, slot, used, phase, now,
                    current, allocated_time>>
    BY DEF vars
  <1>2. Slots /\ Control /\ Choice /\ Budget
    BY DEF ThreadsInv
  <1>3. Slots'
    BY <1>1, <1>2, SlotsKept
  <1>4. Control'
    BY <1>1, <1>2 DEF Control, Busy, Future
  <1>5. Choice'
    BY <1>1, <1>2 DEF Choice, Served, Reported, Fits, Foremost, left, Preferred, Key
  <1>6. Budget'
    BY <1>1, <1>2 DEF Budget, Fit, Owes, left, Waiting, Thrds, First
  <1> QED
    BY <1>1, <1>3, <1>4, <1>5, <1>6, QueuesKept DEF ThreadsInv

\* The invariant holds in every state of every program, under each policy.
THEOREM ThreadsInvariant == Spec => []ThreadsInv
  <1>1. ThreadsInv /\ [Next]_vars => ThreadsInv'
    <2> SUFFICES ASSUME ThreadsInv, [Next]_vars PROVE ThreadsInv'
      OBVIOUS
    <2>1. CASE MainLoop
      BY <2>1, MainLoopInv
    <2>2. CASE Schedule
      BY <2>2, ScheduleInv
    <2>3. CASE DispatchMain
      BY <2>3, DispatchMainInv
    <2>4. CASE Dispatch
      BY <2>4, DispatchInv
    <2>5. CASE BackToMain
      BY <2>5, BackToMainInv
    <2>6. CASE SwitchHandler
      BY <2>6, SwitchHandlerInv
    <2>7. ASSUME NEW ticks \in {0} \cup 0..allocated_time - 1, phase = "running",
                 ThreadExit(ticks)
          PROVE  ThreadsInv'
      BY <2>7, ThreadExitInv
    <2>8. CASE UNCHANGED vars
      BY <2>8, StutterInv
    <2> QED
      BY <2>1, <2>2, <2>3, <2>4, <2>5, <2>6, <2>7, <2>8 DEF Next
  <1> QED
    BY <1>1, InitInv, PTL DEF Spec

\* The places of a queue where one thing is: none, or one.
LEMMA OnePlace ==
    ASSUME NEW X, NEW q \in Seq(X), Apart(q), NEW x
    PROVE  Cardinality({i \in DOMAIN q : q[i] = x}) = IF x \in Range(q) THEN 1 ELSE 0
  <1> DEFINE P == {i \in DOMAIN q : q[i] = x}
  <1>1. CASE x \in Range(q)
    <2>1. PICK i \in DOMAIN q : q[i] = x
      BY <1>1 DEF Range
    <2>2. P = {i}
      BY <2>1 DEF Apart
    <2>3. Cardinality(P) = 1
      BY <2>2, FS_Singleton
    <2> QED
      BY <1>1, <2>3
  <1>2. CASE x \notin Range(q)
    <2>1. P = {}
      BY <1>2 DEF Range
    <2>2. Cardinality(P) = 0
      BY <2>1, FS_EmptySet
    <2> QED
      BY <1>2, <2>2
  <1> QED
    BY <1>1, <1>2

\* No thread is lost and none is queued twice, the process only runs a thread of the run
\* queue, and no two contexts share a slot.
THEOREM QueuedOnce == Spec => []OnceEach
  <1>1. ThreadsInv => OnceEach
    <2> SUFFICES ASSUME ThreadsInv PROVE OnceEach
      OBVIOUS
    <2>1. Queued(run_queue, release_queue, job) /\ Control /\ Slots
      BY DEF ThreadsInv
    <2>2. ASSUME NEW t \in Thread
          PROVE  Cardinality(Places(t)) + Cardinality(Entries(t)) = IF job[t].n > 0 THEN 1 ELSE 0
      <3>1. run_queue \in Seq(Thread) /\ Apart(run_queue)
            /\ release_queue \in Seq(Entry) /\ Apart(Thrds(release_queue))
            /\ Range(run_queue) \cap Waiting(release_queue) = {}
            /\ (job[t].n > 0 <=> t \in Range(run_queue) \cup Waiting(release_queue))
        BY <2>1 DEF Queued
      <3>2. Thrds(release_queue) \in Seq(Thread)
        BY <3>1, ThrdsFacts
      <3>3. Cardinality(Places(t)) = IF t \in Range(run_queue) THEN 1 ELSE 0
        BY <3>1, OnePlace DEF Places
      <3>4. Entries(t) = {i \in DOMAIN Thrds(release_queue) : Thrds(release_queue)[i] = t}
        BY DEF Entries, Thrds
      <3>5. Cardinality(Entries(t)) = IF t \in Waiting(release_queue) THEN 1 ELSE 0
        BY <3>1, <3>2, <3>4, OnePlace DEF Waiting
      <3> QED
        BY <3>1, <3>3, <3>5
    <2>3. phase = "running" => Places(current) # {}
      BY <2>1 DEF Control, Places, Range
    <2>4. \A t \in Thread : job[t].n > 0 /\ slot[t] >= 0 =>
            /\ slot[t] # MainSlot /\ slot[t] \in used
            /\ \A u \in Thread \ {t} : job[u].n > 0 => slot[u] # slot[t]
      BY <2>1 DEF Slots
    <2> QED
      BY <2>2, <2>3, <2>4 DEF OnceEach
  <1> QED
    BY <1>1, ThreadsInvariant, PTL

\* Deadlines stay multiples of the period after the arrival.
THEOREM CyclesDoNotDrift == Spec => []NoDrift
  <1>1. ThreadsInv => NoDrift
    BY DEF ThreadsInv, Periodic, NoDrift
  <1> QED
    BY <1>1, ThreadsInvariant, PTL

\* While a thread runs, nobody whom SJF, LST or DM prefers is ready or gets ready.
THEOREM Preemptive == Spec => []NoOverrun
  <1>1. ThreadsInv => NoOverrun
    <2> SUFFICES ASSUME ThreadsInv, phase = "running", policy \in {"sjf", "lst", "dm"}
                 PROVE  Fits /\ Foremost
      BY DEF NoOverrun, Fits, Foremost
    <2> QED
      BY RunningFacts DEF Served
  <1> QED
    BY <1>1, ThreadsInvariant, PTL

\* __release() leaves the number of cycles alone.
LEMMA RenewedCycles ==
    ASSUME NEW j, NEW es, NEW t \in Thread, j[t] \in Job
    PROVE  Renewed(j, es)[t].n = j[t].n
  <1>1. PICK e : e = CHOOSE f \in Range(es) : f.thrd = t
    OBVIOUS
  <1>2. PICK p, d : p = work[t].processing_time /\ d = e.release_time + work[t].deadline
    OBVIOUS
  <1>3. \/ Renewed(j, es)[t] = j[t]
        \/ Renewed(j, es)[t] = [j[t] EXCEPT !.remaining_time = p, !.current_deadline = d]
    BY <1>1, <1>2 DEF Renewed
  <1>4. PICK b : b = [j[t] EXCEPT !.remaining_time = p]
    OBVIOUS
  <1>5. b.n = j[t].n /\ [b EXCEPT !.current_deadline = d].n = b.n
    BY <1>4 DEF Job
  <1>6. [j[t] EXCEPT !.remaining_time = p, !.current_deadline = d]
          = [b EXCEPT !.current_deadline = d]
    BY <1>4
  <1> QED
    BY <1>3, <1>5, <1>6

\* Under LST, what is reported is a miss, and no cycle ends late without a report.
THEOREM LSTReportsMisses == Spec => MissesReported
  <1>1. ThreadsInv /\ Next => MissIsReported
    <2> SUFFICES ASSUME ThreadsInv, Next, policy = "lst"
                 PROVE  /\ phase' = "missed" =>
                             \E t \in Thread :
                               /\ job'[t].n > 0
                               /\ \/ job'[t].current_deadline < now'
                                  \/ job'[t].current_deadline = now' /\ left(t)' > 0
                        /\ \A t \in Thread : job'[t].n < job[t].n =>
                                               now' <= job[t].current_deadline
      BY DEF MissIsReported
    <2>1. /\ Programs /\ Slots /\ Control /\ Choice
          /\ Queued(run_queue, release_queue, job) /\ Periodic(release_queue, job)
      BY DEF ThreadsInv
    <2>2. \A t \in Thread : work[t].is_real_time
      BY <2>1, WorkFacts
    <2>3. job \in [Thread -> Job] /\ now \in Nat
      BY <2>1 DEF Periodic, Control
    <2>3a. \A t \in Thread : job[t].n \in Nat /\ job[t].current_deadline \in Int
                             /\ job[t].remaining_time \in Int
      BY <2>3 DEF Job
    <2>4. CASE MainLoop
      <3>1. job' = Renewed(job, Due(release_queue, now)) /\ phase' = "schedule"
        BY <2>4 DEF MainLoop, Release
      <3>2. PICK time \in Int : time = now
        BY <2>3
      <3>3. Moved(run_queue, release_queue, job, time,
                  run_queue \o Thrds(Due(release_queue, time)), Rest(release_queue, time),
                  Renewed(job, Due(release_queue, time)))
        BY <2>1, Released
      <3>4. \A t \in Thread : job'[t].n = job[t].n
        BY <3>1, <3>2, <3>3 DEF Moved
      <3> QED
        BY <2>3a, <3>1, <3>4
    <2>5. CASE Schedule \/ DispatchMain \/ BackToMain
      <3>1. job' = job /\ phase' # "missed"
        BY <2>5 DEF Schedule, DispatchMain, BackToMain
      <3> QED
        BY <2>3a, <3>1
    <2>6. CASE Dispatch
      <3>1. job' = job /\ now' = now /\ phase = "dispatch" /\ current # 0
            /\ (phase' = "missed" => NoTime)
        BY <2>6 DEF Dispatch
      <3>2. ASSUME phase' = "missed"
            PROVE  \E t \in Thread : /\ job'[t].n > 0
                                     /\ \/ job'[t].current_deadline < now'
                                        \/ job'[t].current_deadline = now' /\ left(t)' > 0
        <4>1. current \in Range(run_queue) /\ current \in Thread /\ Busy(run_queue, job)
          BY <2>1, <3>1 DEF Control, Queued, Range, Ended
        <4>2. allocated_time = 0
          BY <3>1, <3>2 DEF NoTime
        <4>3. ~Served
          <5> SUFFICES ASSUME Served PROVE FALSE
            OBVIOUS
          <5>1. allocated_time \in 1..left(current)
            BY DEF Served, Fits
          <5>2. left(current) \in Int
            BY <2>3a, <4>1 DEF left
          <5> QED
            BY <4>2, <5>1, <5>2
        <4>4. job[current].current_deadline <= now
          BY <2>1, <3>1, <4>3 DEF Choice, Reported
        <4>5. job[current].n > 0 /\ job[current].remaining_time > 0
          BY <2>1, <4>1 DEF Queued, Busy
        <4> QED
          BY <2>3, <2>3a, <3>1, <4>1, <4>4, <4>5 DEF left
      <3> QED
        BY <2>3a, <3>1, <3>2
    <2>7. CASE SwitchHandler
      <3>1. phase = "running" /\ allocated_time > 0 /\ now' = now + allocated_time
        BY <2>7 DEF SwitchHandler, TimerSet
      <3>2. PICK t \in Thread : t = current /\ job[t].n > 0
        BY <3>1, RunningFacts
      <3>3. PICK a \in Nat : a = allocated_time /\ a > 0
        BY <3>1, RunningFacts
      <3>4. PICK es : es = Due(release_queue, now + a)
        OBVIOUS
      <3>5. PICK q : q = run_queue \o Thrds(es)
        OBVIOUS
      <3>6. PICK rel : rel = Rest(release_queue, now + a)
        OBVIOUS
      <3>7. PICK k : k = Renewed(job, es)
        OBVIOUS
      <3>8. PICK j : j = [k EXCEPT ![t].remaining_time = left(t) - a]
        OBVIOUS
      <3>9. PICK time \in Int : time = now + a
        BY <2>3
      <3>10. Moved(run_queue, release_queue, job, time, q, rel, k)
        BY <2>1, <3>4, <3>5, <3>6, <3>7, <3>9, Released
      <3>11. Switched(t, a, q, rel, k, j)
        BY <3>2, <3>3, <3>4, <3>5, <3>6, <3>7, <3>8, <3>9, <3>10 DEF Switched
      <3>12. /\ j \in [Thread -> Job]
             /\ \A u \in Thread : j[u].n = job[u].n
             /\ j[t].remaining_time = left(t) - a
             /\ j[t].current_deadline = job[t].current_deadline
        BY <3>1, <3>11, SwitchedFacts
      <3>13. PICK again, e : /\ again = [n |-> job[t].n - 1, remaining_time |-> left(t) - a,
                                         current_deadline |-> IF work[t].is_real_time
                                           THEN job[t].current_deadline + work[t].deadline
                                           ELSE job[t].current_deadline]
                             /\ e = [thrd |-> t, release_time |-> job[t].current_deadline]
        OBVIOUS
      <3>14. \/ /\ phase' = "missed" /\ job' = j
                /\ \/ time > job[t].current_deadline
                   \/ time = job[t].current_deadline /\ left(t) - a > 0
             \/ /\ phase' = "schedule"
                /\ ~ \/ time > job[t].current_deadline
                     \/ time = job[t].current_deadline /\ left(t) - a > 0
                /\ \/ job' = j
                   \/ job' = Freed(j, t)
                   \/ Release(time, Without(q, t), Append(rel, e), [j EXCEPT ![t] = again])
        BY <2>2, <2>7, <3>2, <3>3, <3>4, <3>5, <3>6, <3>7, <3>8, <3>9, <3>13
           DEF SwitchHandler
      <3>15. CASE /\ phase' = "missed" /\ job' = j
                  /\ \/ time > job[t].current_deadline
                     \/ time = job[t].current_deadline /\ left(t) - a > 0
        <4>1. job'[t].n > 0 /\ left(t)' = left(t) - a
          BY <3>2, <3>12, <3>15 DEF left
        <4>2. \/ job'[t].current_deadline < now'
              \/ job'[t].current_deadline = now' /\ left(t)' > 0
          BY <2>3a, <3>1, <3>3, <3>9, <3>12, <3>15, <4>1
        <4> QED
          BY <2>3a, <3>12, <3>15, <4>1, <4>2
      <3>16. CASE /\ phase' = "schedule"
                  /\ ~ \/ time > job[t].current_deadline
                       \/ time = job[t].current_deadline /\ left(t) - a > 0
                  /\ \A u \in Thread \ {t} : job'[u].n = job[u].n
        <4>1. now' <= job[t].current_deadline
          BY <2>3a, <3>1, <3>3, <3>9, <3>16
        <4> QED
          BY <2>3a, <3>16, <4>1
      <3>17. CASE job' = j \/ job' = Freed(j, t)
        <4>1. \A u \in Thread \ {t} : job'[u].n = job[u].n
          BY <3>12, <3>17 DEF Freed
        <4> QED
          BY <3>14, <3>15, <3>16, <4>1
      <3>18. CASE Release(time, Without(q, t), Append(rel, e), [j EXCEPT ![t] = again])
        <4>1. PICK m : m = [j EXCEPT ![t] = again]
          OBVIOUS
        <4>2. \A u \in Thread \ {t} : m[u] = j[u] /\ m[u] \in Job
          BY <3>12, <4>1
        <4>3. job' = Renewed(m, Due(Append(rel, e), time))
          BY <3>18, <4>1 DEF Release
        <4>4. \A u \in Thread \ {t} : job'[u].n = job[u].n
          BY <3>12, <4>2, <4>3, RenewedCycles
        <4> QED
          BY <3>14, <3>15, <3>16, <4>4
      <3> QED
        BY <3>14, <3>15, <3>17, <3>18
    <2>8. ASSUME NEW ticks \in {0} \cup 0..allocated_time - 1, phase = "running",
                 ThreadExit(ticks)
          PROVE  /\ phase' # "missed"
                 /\ \A t \in Thread : job'[t].n < job[t].n => now' <= job[t].current_deadline
      <3>1. PICK t \in Thread : t = current
        BY <2>8, RunningFacts
      <3>2. /\ now' = now + ticks /\ phase' = "schedule"
            /\ job' = Renewed(Freed(job, t), Due(release_queue, now + ticks))
        BY <2>8, <3>1 DEF ThreadExit, Release
      <3>3. /\ allocated_time \in 1..left(t)
            /\ now + allocated_time <= job[t].current_deadline
            /\ left(t) \in Int
        BY <2>8, <3>1, RunningFacts DEF Served, Fits
      <3>4. ticks \in Nat /\ ticks <= allocated_time
        BY <3>3
      <3>5. now' <= job[t].current_deadline
        BY <2>3, <2>3a, <3>2, <3>3, <3>4
      <3>6. PICK m : m = Freed(job, t)
        OBVIOUS
      <3>7. \A u \in Thread \ {t} : m[u] = job[u] /\ m[u] \in Job
        BY <2>3, <3>6 DEF Freed
      <3>8. \A u \in Thread \ {t} : job'[u].n = job[u].n
        BY <3>2, <3>6, <3>7, RenewedCycles
      <3> QED
        BY <2>3a, <3>2, <3>5, <3>8
    <2> QED
      BY <2>4, <2>5, <2>6, <2>7, <2>8 DEF Next
  <1> QED
    BY <1>1, ThreadsInvariant, PTL DEF Spec, MissesReported
=============================================================================
