--------------------------- MODULE ThreadsProofs ---------------------------
(***************************************************************************)
(* The run queue and thread_join() of pm/thread/multithread.c, for any     *)
(* number of cores, thread slots and threads.                              *)
(***************************************************************************)
EXTENDS ThreadsLemmas, FiniteSetTheorems, WellFoundedInduction

(* Every nonempty set of naturals has a least element: what induction over *)
(* the naturals rests on here.                                             *)
LEMMA Least ==
    ASSUME NEW S \in SUBSET Nat, S # {}
    PROVE  \E x \in S : \A y \in S : x <= y
<1> DEFINE R == OpToRel(<, Nat)
<1>1. PICK x \in S : \A y \in S : <<y, x>> \notin R
  BY Zenon, NatLessThanWellFounded, WFMin
<1>2. \A y \in S : y < x => <<y, x>> \in R
  BY Zenon DEF OpToRel
<1> HIDE DEF R
<1>3. \A y \in S : ~(y < x)
  BY Zenon, <1>1, <1>2
<1>4. QED
  BY <1>3

LEMMA Counting == Facts
<1>1. \A S \in SUBSET Nat : S # {} => \E x \in S : \A y \in S : x <= y
  BY Zenon, Least
<1>2. Cardinality({}) = 0 /\ \A x : Cardinality({x}) = 1
  BY Zenon, FS_EmptySet, FS_Singleton
<1>3. IsFiniteSet(Workers)
  BY ThreadsAssumption, FS_Interval DEF Workers
<1>4. \A S \in SUBSET Workers : IsFiniteSet(S)
  BY Zenon, <1>3, FS_Subset
<1>5. ASSUME NEW S \in SUBSET Workers
      PROVE  /\ Cardinality(S) \in Nat
             /\ \A x \in Workers : Cardinality(S \cup {x}) =
                  IF x \in S THEN Cardinality(S) ELSE Cardinality(S) + 1
             /\ \A x : Cardinality(S \ {x}) =
                  IF x \in S THEN Cardinality(S) - 1 ELSE Cardinality(S)
  BY Zenon, <1>4, FS_CardinalityType, FS_AddElement, FS_RemoveElement
<1>6. QED
  BY Zenon, <1>1, <1>2, <1>5 DEF Facts

-----------------------------------------------------------------------------
(* g follows the next pointers n from h for m steps. *)
Follows(h, n, m, g) == g[0] = h /\ \A k \in 1 .. m : g[k] = n[g[k - 1]]

LEMMA FollowsExists ==
    ASSUME NEW h, NEW n
    PROVE  \A m \in Nat : \E g : Follows(h, n, m, g)
<1> DEFINE Bad == {m \in Nat : ~ \E g : Follows(h, n, m, g)}
<1>1. SUFFICES ASSUME Bad # {}
               PROVE  FALSE
  BY Zenon
<1>2. PICK m \in Bad : \A l \in Bad : m <= l
  BY Zenon, <1>1, Least
<1>3. CASE m = 0
  <2>1. Follows(h, n, 0, [k \in Nat |-> h])
    BY DEF Follows
  <2>2. QED
    BY SMTT(60), <1>2, <1>3, <2>1
<1>4. CASE m # 0
  <2>1. m - 1 \in Nat /\ m - 1 \notin Bad
    BY <1>2, <1>4
  <2>2. PICK g : Follows(h, n, m - 1, g)
    BY Zenon, <2>1
  <2> DEFINE e == [k \in Nat |-> IF k = m THEN n[g[m - 1]] ELSE g[k]]
  <2>3. e[0] = h
    BY Zenon, <1>4, <2>2 DEF Follows
  <2>4. \A k \in 1 .. m : e[k] = n[e[k - 1]]
    <3> SUFFICES ASSUME NEW k \in 1 .. m
                 PROVE  e[k] = n[e[k - 1]]
      BY Zenon
    <3>1. k \in Nat /\ k - 1 \in Nat /\ k - 1 # m /\ (k # m => k \in 1 .. m - 1)
      BY <1>2
    <3>2. e[k - 1] = g[k - 1]
      BY Zenon, <3>1
    <3>3. QED
      BY Zenon, <2>2, <3>1, <3>2 DEF Follows
  <2>5. Follows(h, n, m, e)
    BY Zenon, <2>3, <2>4 DEF Follows
  <2>6. QED
    BY Zenon, <1>2, <2>5
<1>5. QED
  BY <1>3, <1>4

LEMMA FollowsUnique ==
    ASSUME NEW h, NEW n, NEW m \in Nat, NEW g, Follows(h, n, m, g), NEW e, Follows(h, n, m, e)
    PROVE  \A k \in 0 .. m : g[k] = e[k]
<1> DEFINE Bad == {k \in 0 .. m : g[k] # e[k]}
<1>1. SUFFICES ASSUME Bad # {}
               PROVE  FALSE
  BY Zenon
<1>2. PICK k \in Bad : \A l \in Bad : k <= l
  <2>1. Bad \in SUBSET Nat
    OBVIOUS
  <2> HIDE DEF Bad
  <2>2. QED
    BY Zenon, <1>1, <2>1, Least
<1>3. k # 0
  BY Zenon, <1>2 DEF Follows
<1>4. k \in 1 .. m /\ k - 1 \in 0 .. m /\ ~(k <= k - 1)
  BY <1>2, <1>3
<1>5. g[k - 1] = e[k - 1]
  BY ZenonT(60), <1>2, <1>4
<1>6. QED
  BY <1>2, <1>4, <1>5 DEF Follows

(* What the recursive definition of Queued says. *)
LEMMA Unfold ==
    ASSUME NEW h, NEW n,
           NEW F, F = CHOOSE g : g = [k \in Nat |-> IF k = 0 THEN h ELSE n[g[k - 1]]]
    PROVE  F = [k \in Nat |-> IF k = 0 THEN h ELSE n[F[k - 1]]]
<1> DEFINE c(k) == CHOOSE g : Follows(h, n, k, g)
           G == [k \in Nat |-> c(k)[k]]
<1>1. \A k \in Nat : Follows(h, n, k, c(k))
  BY Zenon, FollowsExists
<1> HIDE DEF c
<1>2. G = [k \in Nat |-> IF k = 0 THEN h ELSE n[G[k - 1]]]
  <2> SUFFICES ASSUME NEW k \in Nat
               PROVE  c(k)[k] = IF k = 0 THEN h ELSE n[G[k - 1]]
    OBVIOUS
  <2>1. CASE k = 0
    BY Zenon, <1>1, <2>1 DEF Follows
  <2>2. CASE k # 0
    <3>1. k - 1 \in Nat /\ k \in 1 .. k /\ k - 1 \in 0 .. k - 1 /\ 1 .. k - 1 \subseteq 1 .. k
      BY <2>2
    <3>2. Follows(h, n, k - 1, c(k)) /\ Follows(h, n, k - 1, c(k - 1))
      BY Zenon, <1>1, <3>1 DEF Follows
    <3>3. c(k)[k - 1] = c(k - 1)[k - 1]
      BY SMTT(60), <3>1, <3>2, FollowsUnique
    <3>4. G[k - 1] = c(k - 1)[k - 1]
      BY Zenon, <3>1
    <3>5. c(k)[k] = n[c(k)[k - 1]]
      BY Zenon, <1>1, <3>1 DEF Follows
    <3>6. QED
      BY Zenon, <2>2, <3>3, <3>4, <3>5
  <2>3. QED
    BY Zenon, <2>1, <2>2
<1> HIDE DEF G
<1>3. QED
  BY Zenon, <1>2

(* The threads of the queue are the ones that Queued finds. *)
LEMMA ChainQueued ==
    ASSUME NEW S, Chain(next, sched, S)
    PROVE  /\ {Queued[k] : k \in 0 .. sched.size - 1} = S
           /\ sched.size > 0 => sched.tail = Queued[sched.size - 1]
           /\ IsFiniteSet(S) /\ Cardinality(S) = sched.size
<1>1. PICK f : Order(next, sched, S, f)
  BY ZenonT(60) DEF Chain
<1>2. Queued = [k \in Nat |-> IF k = 0 THEN sched.head ELSE next[Queued[k - 1]]]
  <2>1. Queued = CHOOSE g : g = [k \in Nat |-> IF k = 0 THEN sched.head ELSE next[g[k - 1]]]
    BY Zenon DEF Queued
  <2>2. QED
    BY <2>1, Unfold
<1>3. sched.size \in Nat
  BY Zenon, <1>1 DEF Order
<1>4. \A k \in 0 .. sched.size - 1 : Queued[k] = f[k]
  <2> DEFINE Bad == {k \in 0 .. sched.size - 1 : Queued[k] # f[k]}
  <2>1. SUFFICES ASSUME Bad # {}
                 PROVE  FALSE
    BY Zenon
  <2>2. PICK k \in Bad : \A l \in Bad : k <= l
    <3>1. Bad \in SUBSET Nat
      BY <1>3
    <3> HIDE DEF Bad
    <3>2. QED
      BY Zenon, <2>1, <3>1, Least
  <2>3. k # 0
    BY SMTT(60), <1>1, <1>2, <1>3, <2>2 DEF Order
  <2>4. k - 1 \in 0 .. sched.size - 2 /\ k - 1 \in 0 .. sched.size - 1 /\ (k - 1) + 1 = k
        /\ k \in Nat /\ ~(k <= k - 1)
    BY <1>3, <2>2, <2>3
  <2>5. Queued[k - 1] = f[k - 1]
    BY Zenon, <2>2, <2>4
  <2>6. Queued[k] = next[Queued[k - 1]]
    BY Zenon, <1>2, <2>3, <2>4
  <2>7. next[f[k - 1]] = f[k]
    BY Zenon, <1>1, <2>4 DEF Order
  <2>8. QED
    BY Zenon, <2>2, <2>5, <2>6, <2>7
<1>5. {Queued[k] : k \in 0 .. sched.size - 1} = S
  <2>1. \A k \in 0 .. sched.size - 1 : f[k] \in S
    BY Zenon, <1>1 DEF Order
  <2>2. \A s \in S : \E k \in 0 .. sched.size - 1 : f[k] = s
    BY Zenon, <1>1 DEF Order
  <2> HIDE DEF Queued
  <2>3. QED
    BY <1>4, <2>1, <2>2
<1>6. sched.size > 0 => sched.tail = Queued[sched.size - 1]
  BY <1>1, <1>3, <1>4 DEF Order
<1>7. f \in Bijection(0 .. sched.size - 1, S)
  <2>1. DOMAIN f = 0 .. sched.size - 1 /\ f \in [0 .. sched.size - 1 -> S]
    BY Zenon, <1>1 DEF Order
  <2>2. IsInjective(f) /\ \A s \in S : \E i \in 0 .. sched.size - 1 : f[i] = s
    BY <1>1, <2>1, Zenon DEF Order, IsInjective
  <2>3. QED
    BY <2>1, <2>2, Zenon DEF Bijection, Injection, Surjection
<1>8. IsFiniteSet(0 .. sched.size - 1) /\ Cardinality(0 .. sched.size - 1) = sched.size
  <2>1. 0 \in Int /\ sched.size - 1 \in Int
    BY <1>3
  <2>2. Cardinality(0 .. sched.size - 1)
          = IF 0 > sched.size - 1 THEN 0 ELSE (sched.size - 1) - 0 + 1
    BY Zenon, <2>1, FS_Interval
  <2>3. IsFiniteSet(0 .. sched.size - 1)
    BY Zenon, <2>1, FS_Interval
  <2>4. QED
    BY <1>3, <2>2, <2>3
<1>9. QED
  <2>1. ExistsBijection(0 .. sched.size - 1, S)
    BY Zenon, <1>7 DEF ExistsBijection
  <2>2. QED
    BY Zenon, <1>5, <1>6, <1>8, <2>1, FS_Bijection

-----------------------------------------------------------------------------
(* thread_create(): slot s is taken for the thread that is to get ID i, or *)
(* left without one when there are no pages.                               *)
LEMMA Created ==
    ASSUME TInv, ~panic, NEW x \in Tids, pc[x] \in {"boot", "kcall"},
           NEW s \in Slots, state[s] \in {"NOT_STARTED", "ZOMBIE"},
           NEW i \in Tids \cup {NULL}, NEW k \in Cores \cup {NULL}, NEW l \in {"serve", "run"},
           state' = [state EXCEPT ![s] = "STARTED"], tid' = [tid EXCEPT ![s] = i],
           coreid' = [coreid EXCEPT ![s] = k], stack' = [stack EXCEPT ![s] = i],
           nthreads' \in Int,
           \/ /\ i = NULL /\ pc' = [pc EXCEPT ![x] = l]
              /\ UNCHANGED <<next, ctx, next_tid, sched>>
           \/ /\ i = next_tid /\ i \in Tids /\ k = NULL /\ next_tid' = i + 1
              /\ ctx' = [ctx EXCEPT ![s] = i]
              /\ next' = Link(sched, next, s) /\ sched' = Schedule(sched, s)
              /\ pc' = [[pc EXCEPT ![x] = l] EXCEPT ![i] = "start"],
           UNCHANGED <<joincond, exits, fence, wakeups, core, frame, joined, panic>>
    PROVE  TInv'
<1>1. /\ TypeOK /\ Current /\ Ready /\ IdleSlots /\ Named /\ Labelled /\ JInv /\ Apart
      /\ CORES_NUM <= next_tid /\ QueueNotified /\ Chain(next, sched, Runnable)
  BY Zenon DEF TInv, QInv, JInv
<1>2. s \in Users
  BY Zenon, <1>1, Bounds DEF IdleSlots
<1>3. \A t \in Slots : /\ state'[t] = IF t = s THEN "STARTED" ELSE state[t]
                       /\ tid'[t] = IF t = s THEN i ELSE tid[t]
                       /\ coreid'[t] = IF t = s THEN k ELSE coreid[t]
  BY SMTT(60), <1>1 DEF TypeOK
<1>4. next_tid \in Nat /\ next_tid' \in Nat /\ next_tid <= next_tid' /\ CORES_NUM <= next_tid'
  BY SMTT(60), <1>1, Bounds DEF TypeOK
<1>5. i = NULL \/ (i = next_tid /\ i \in Tids /\ i \notin Workers /\ i \in Nat)
  BY <1>1, <1>4, Bounds DEF Workers
<1>6. \A y \in Tids : pc'[y] = IF y = i THEN "start" ELSE IF y = x THEN l ELSE pc[y]
  BY SMTT(60), <1>1, Bounds DEF TypeOK
<1>7. /\ next' \in NextType /\ sched' \in QueueType /\ Chain(next, sched, Runnable)'
      /\ Runnable' = IF i = NULL THEN Runnable ELSE Runnable \cup {s}
      /\ sched'.size - sched'.sem = sched.size - sched.sem
      /\ next \in NextType /\ sched \in QueueType
  <2>1. \A t \in Users : t \in Slots
    BY Zenon, Bounds
  <2>2. s \notin Runnable
    BY Zenon DEF Runnable
  <2>3. Runnable' = IF i = NULL THEN Runnable ELSE Runnable \cup {s}
    BY SMTT(60), <1>2, <1>3, <2>1, <2>2 DEF Runnable
  <2>4. next \in NextType /\ sched \in QueueType /\ Runnable \in SUBSET Slots
    BY Zenon, <1>1, <2>1 DEF TypeOK, NextType, QueueType, Runnable
  <2>5. CASE i = NULL
    <3>1. Chain(next', sched', Runnable')
      BY Zenon, <1>1, <2>3, <2>5, Bounds
    <3>2. next' = next /\ sched' = sched
      BY Zenon, <2>5, Bounds
    <3>3. QED
      BY Zenon, <2>3, <2>4, <3>1, <3>2
  <2>6. CASE i # NULL
    <3>1. next' = Link(sched, next, s) /\ sched' = Schedule(sched, s)
      BY Zenon, <2>6
    <3>2. next' \in NextType /\ sched' \in QueueType /\ Chain(next', sched', Runnable \cup {s})
      BY Zenon, <1>1, <2>2, <2>4, <3>1, Enqueue
    <3>3. Chain(next', sched', Runnable')
      BY Zenon, <2>3, <2>6, <3>2
    <3>4. sched'.size - sched'.sem = sched.size - sched.sem
      BY SMTT(60), <2>4, <3>1 DEF Schedule, QueueType
    <3>5. QED
      BY Zenon, <2>3, <2>4, <3>2, <3>3, <3>4
  <2>7. QED
    BY Zenon, <2>5, <2>6
<1>8. TypeOK'
  <2>1. state' \in [Slots -> States] /\ tid' \in [Slots -> Tids \cup {NULL}]
    BY Zenon, <1>1 DEF TypeOK, States
  <2>2. coreid' \in [Slots -> Cores \cup {NULL}] /\ stack' \in [Slots -> Tids \cup {NULL}]
    BY Zenon, <1>1 DEF TypeOK
  <2>3. ctx' \in [Slots -> Tids \cup {NULL}]
    BY Zenon, <1>1 DEF TypeOK
  <2>4. pc' \in [Tids -> Labels]
    <3>1. "start" \in Labels /\ l \in Labels /\ pc \in [Tids -> Labels]
      BY Zenon, <1>1 DEF Labels, TypeOK
    <3>2. QED
      BY Zenon, <3>1
  <2>5. next_tid' \in 0 .. MaxTid + 1
    BY SMTT(60), <1>1, <1>4, Bounds DEF TypeOK, Tids
  <2>6. QED
    BY Zenon, <1>1, <1>7, <2>1, <2>2, <2>3, <2>4, <2>5 DEF TypeOK, NextType, QueueType
<1>9. Current' /\ IdleSlots' /\ Named'
  <2>1. Current'
    BY <1>1, <1>3 DEF Current, IsCurr
  <2>2. \A t \in Cores : t \in Slots /\ t # s
    BY Zenon, <1>2, Bounds
  <2>3. IdleSlots'
    BY <1>1, <1>3, <2>2 DEF IdleSlots
  <2>4. \A t \in Users : t \in Slots
    BY Zenon, Bounds
  <2>5. Named'
    BY <1>1, <1>3, <2>4 DEF Named
  <2>6. QED
    BY Zenon, <2>1, <2>3, <2>5
<1>10. Ready'
  <2>1. \A t \in Runnable : t \in Slots /\ t # s
    BY Zenon, Bounds DEF Runnable
  <2>2. s \in Runnable' => k = NULL
    BY Zenon, <1>5, <1>7, <2>1, Bounds
  <2>3. QED
    BY Zenon, <1>1, <1>3, <1>7, <2>1, <2>2 DEF Ready
<1>11. Labelled'
  BY Zenon, <1>1, <1>5, <1>6 DEF Labelled, Returns
<1>12. QueueNotified'
  <2>1. Workers \subseteq Tids
    BY Zenon, Bounds
  <2>2. Yielding' = Yielding
    BY Zenon, <1>5, <1>6, <2>1, Bounds DEF Yielding
  <2>3. Cardinality(Yielding) \in Nat
    BY Zenon, Counting DEF Facts, Yielding
  <2>4. sched.size <= sched.sem + Cardinality(Yielding)
    BY Zenon, <1>1 DEF QueueNotified, Yielding
  <2>5. sched.size \in Nat /\ sched.sem \in Nat /\ sched'.size \in Nat /\ sched'.sem \in Nat
    BY Zenon, <1>7 DEF QueueType
  <2>6. sched'.size <= sched'.sem + Cardinality(Yielding)'
    BY SMTT(60), <1>7, <2>2, <2>3, <2>4, <2>5
  <2>7. QED
    BY Zenon, <2>6 DEF QueueNotified, Yielding
<1>13. Apart'
  <2>1. \A c \in Cores : core[c] \in Nat /\ core[c] < next_tid /\ core[c] # NULL
    <3>1. \A c \in Cores : core[c] \in Tids
      BY Zenon, <1>1 DEF TypeOK
    <3>2. QED
      <4>1. \A j \in Tids : j \in Nat /\ j # NULL
        BY Zenon, Bounds
      <4>2. QED
        BY Zenon, <1>1, <3>1, <4>1 DEF Apart
  <2>2. \A t \in Slots : /\ ctx[t] \in Int /\ ctx[t] < next_tid
                         /\ tid[t] \in Int /\ tid[t] < next_tid
    <3>1. \A t \in Slots : ctx[t] \in Tids \cup {NULL} /\ tid[t] \in Tids \cup {NULL}
      BY Zenon, <1>1 DEF TypeOK
    <3>2. \A j \in Tids \cup {NULL} : j \in Int
      BY Bounds
    <3>3. QED
      BY Zenon, <1>1, <3>1, <3>2 DEF Apart
  <2>3. \/ ctx' = ctx
        \/ i = next_tid /\ \A t \in Slots : ctx'[t] = IF t = s THEN i ELSE ctx[t]
    BY Zenon, <1>1 DEF TypeOK
  <2>4. i \in Int /\ i < next_tid' /\ (i = NULL \/ i >= next_tid)
    BY SMTT(60), <1>4, <1>5, Bounds
  <2>5. \A t \in Slots : /\ tid'[t] < next_tid' /\ ctx'[t] < next_tid'
    BY SMTT(60), <1>3, <1>4, <2>2, <2>3, <2>4
  <2>6. \A t, u \in Slots : tid'[t] = tid'[u] /\ tid'[t] # NULL => t = u
    BY SMTT(60), <1>1, <1>3, <1>4, <2>2, <2>4 DEF Apart
  <2>7. \A t, u \in Slots : ctx'[t] = ctx'[u] /\ ctx'[t] # NULL => t = u
    BY SMTT(60), <1>1, <1>4, <2>2, <2>3, <2>4 DEF Apart
  <2>8. \A c \in Cores, t \in Slots : ctx'[t] # core[c]
    BY SMTT(60), <1>1, <1>4, <2>1, <2>3 DEF Apart
  <2>9. \A c \in Cores : core[c] < next_tid'
    BY <1>4, <2>1
  <2>10. QED
    BY Zenon, <1>1, <2>5, <2>6, <2>7, <2>8, <2>9 DEF Apart
<1>14. Waiters' /\ Woken' /\ JoinedGone'
  <2>1. \A d \in Workers : pc[core[d]] = "asleep" => pc'[core[d]] = "asleep"
    <3> SUFFICES ASSUME NEW d \in Workers, pc[core[d]] = "asleep"
                 PROVE  pc'[core[d]] = "asleep"
      BY Zenon
    <3>1. core[d] \in Tids /\ core[d] < next_tid /\ core[d] \in Nat
      BY Zenon, <1>1, Bounds DEF TypeOK, Apart
    <3>2. core[d] # i /\ core[d] # x
      BY SMTT(60), <1>4, <1>5, <3>1, Bounds
    <3>3. QED
      BY Zenon, <1>6, <3>1, <3>2
  <2>2. \A t \in Slots : MustWait(t) => MustWait(t)' /\ tid'[t] = tid[t]
    BY Zenon, <1>3 DEF MustWait
  <2>3. \A t \in Slots : MustWait(t)' /\ tid'[t] \in Tids /\ tid'[t] < next_tid =>
                           MustWait(t) /\ tid[t] = tid'[t]
    BY SMTT(60), <1>3, <1>4, <1>5, Bounds DEF MustWait
  <2>4. \A d \in Workers, t \in Slots :
           coreid[t] = d /\ state[t] \in {"RUNNING", "TERMINATED"} =>
             coreid'[t] = d /\ state'[t] \in {"RUNNING", "TERMINATED"}
    BY Zenon, <1>3
  <2>5. QED
    BY Zenon, <1>1, <1>4, <2>1, <2>2, <2>3, <2>4, QuietJoin
<1>15. QED
  BY SMTT(60), <1>4, <1>7, <1>8, <1>9, <1>10, <1>11, <1>12, <1>13, <1>14, <1>1 DEF TInv, QInv, JInv

(* thread_create() and thread_alloc(). *)
LEMMA StepCreate ==
    ASSUME TInv, ~panic, MasterStep
    PROVE  TInv'
<1>1. PICK x \in Tids, no_pages \in BOOLEAN : Create(x, no_pages)
  BY ZenonT(60) DEF MasterStep
<1> DEFINE l == IF x = 0 THEN "serve" ELSE "run"
<1>2. TypeOK /\ JInv /\ pc[x] \in {"boot", "kcall"} /\ next_tid \in Tids /\ nthreads \in Int
  BY <1>1 DEF Create, TInv, QInv, TypeOK, Tids
<1>3. CASE Allocatable = {}
  <2>1. /\ pc' = [pc EXCEPT ![x] = l]
        /\ UNCHANGED <<table, sched, joincond, exits, fence, wakeups, core, frame, joined, panic>>
    BY Zenon, <1>1, <1>3 DEF Create
  <2>2. \A y \in Tids : pc'[y] = IF y = x THEN l ELSE pc[y]
    BY Zenon, <1>2, <2>1 DEF TypeOK
  <2>3. pc' \in [Tids -> Labels]
    BY Zenon, <1>2, <2>1 DEF TypeOK, Labels
  <2>4. TypeOK'
    BY Zenon, <1>2, <2>1, <2>3 DEF TypeOK, table
  <2>5. Current' /\ Ready' /\ IdleSlots' /\ Named' /\ Chain(next, sched, Runnable)'
    BY Zenon, <2>1, SameTable DEF TInv, table
  <2>6. Labelled'
    BY <2>1, <2>2 DEF TInv, QInv, Labelled, Returns
  <2>7. QueueNotified'
    <3>1. Workers \subseteq Tids
      BY Zenon, Bounds
    <3>2. Yielding' = Yielding
      BY Zenon, <1>2, <2>2, <3>1 DEF Yielding
    <3>3. QED
      BY Zenon, <2>1, <3>2 DEF TInv, QInv, QueueNotified, Yielding
  <2>8. Apart'
    BY Zenon, <2>1 DEF TInv, JInv, Apart, table
  <2>9. Waiters' /\ Woken' /\ JoinedGone'
    <3>1. \A d \in Workers : core[d] \in Tids
      BY Zenon, <1>2, Bounds DEF TypeOK
    <3>2. \A d \in Workers : pc[core[d]] = "asleep" => pc'[core[d]] = "asleep"
      BY Zenon, <1>2, <2>2, <3>1
    <3>3. \A t \in Slots : MustWait(t)' <=> MustWait(t)
      BY Zenon, <2>1 DEF MustWait, table
    <3>4. next_tid \in Nat /\ next_tid' = next_tid
      BY Zenon, <1>2, <2>1, Bounds DEF table
    <3>5. QED
      BY SMTT(60), <1>2, <2>1, <3>2, <3>3, <3>4, QuietJoin DEF table
  <2>10. QED
    BY SMTT(60), <2>1, <2>4, <2>5, <2>6, <2>7, <2>8, <2>9 DEF TInv, QInv, JInv, table
<1>4. CASE Allocatable # {}
  <2>1. PICK s \in Allocatable : s = First(Allocatable)
    <3>1. Allocatable \in SUBSET Nat
      BY Zenon, Bounds DEF Allocatable
    <3>2. \E s \in Allocatable : \A t \in Allocatable : s <= t
      BY Zenon, <1>4, <3>1, Least
    <3>3. QED
      BY Zenon, <3>2 DEF First
  <2>2. s \in Slots /\ state[s] \in {"NOT_STARTED", "ZOMBIE"}
    BY <2>1 DEF Allocatable
  <2>3. coreid[s] \in Cores \cup {NULL} /\ coreid \in [Slots -> Cores \cup {NULL}]
    BY SMTT(60), <1>2, <2>2 DEF TypeOK
  <2>4. /\ nthreads' \in Int /\ state' = [state EXCEPT ![s] = "STARTED"]
        /\ UNCHANGED <<joincond, exits, fence, wakeups, core, frame, joined, panic>>
    BY SMTT(60), <1>1, <1>2, <1>4, <2>1 DEF Create
  <2>5. CASE no_pages
    <3>1. /\ tid' = [tid EXCEPT ![s] = NULL] /\ stack' = [stack EXCEPT ![s] = NULL]
          /\ coreid' = [coreid EXCEPT ![s] = IF state[s] = "ZOMBIE" THEN NULL ELSE @]
          /\ pc' = [pc EXCEPT ![x] = l] /\ UNCHANGED <<next, ctx, next_tid, sched>>
      BY Zenon, <1>1, <1>4, <2>1, <2>5 DEF Create
    <3>2. PICK k \in Cores \cup {NULL} : coreid' = [coreid EXCEPT ![s] = k]
      BY Zenon, <2>3, <3>1
    <3>3. QED
      BY ZenonT(60), <1>2, <2>2, <2>4, <3>1, <3>2, Created
  <2>6. CASE ~no_pages
    <3>1. PICK i \in Tids : i = next_tid
      BY Zenon, <1>2
    <3>2. /\ tid' = [tid EXCEPT ![s] = i] /\ stack' = [stack EXCEPT ![s] = i]
          /\ coreid' = [coreid EXCEPT ![s] = NULL]
          /\ pc' = [[pc EXCEPT ![x] = l] EXCEPT ![i] = "start"]
          /\ ctx' = [ctx EXCEPT ![s] = i] /\ next_tid' = i + 1
          /\ next' = Link(sched, next, s) /\ sched' = Schedule(sched, s)
      BY ZenonT(60), <1>1, <1>4, <2>1, <2>6, <3>1 DEF Create
    <3>3. QED
      BY ZenonT(60), <1>2, <2>2, <2>4, <3>1, <3>2, Created
  <2>7. QED
    BY Zenon, <2>5, <2>6
<1>5. QED
  BY <1>3, <1>4

-----------------------------------------------------------------------------
(* thread_init() *)
LEMMA InitTInv ==
    ASSUME Init
    PROVE  TInv
<1>1. \A s \in Slots : /\ state[s] = IF s \in Cores THEN "RUNNING" ELSE "NOT_STARTED"
                       /\ tid[s] = IF s \in Cores THEN s ELSE NULL
                       /\ coreid[s] = IF s \in Cores THEN s ELSE 0
                       /\ ctx[s] = NULL /\ joincond[s] = <<>>
  BY Zenon DEF Init
<1>2. \A x \in Tids : /\ pc[x] \in {"boot", "first", "fence", "none"}
                      /\ pc[x] \in {"first", "fence"} => x \in Workers
                      /\ frame[x] = [curr |-> NULL, next |-> NULL, tid |-> NULL, ret |-> "run"]
                      /\ joined[x] = [tid |-> NULL, retval |-> NoValue]
  <2>1. 1 \in Workers
    BY SMTT(60), ThreadsAssumption DEF Workers
  <2>2. QED
    BY Zenon, <2>1 DEF Init
<1>3. TypeOK
  <2>1. state \in [Slots -> States] /\ tid \in [Slots -> Tids \cup {NULL}]
    BY Zenon, Bounds DEF Init, States
  <2>2. coreid \in [Slots -> Cores \cup {NULL}]
    BY Zenon, Bounds DEF Init
  <2>3. /\ next \in [Slots -> Slots \cup {NULL}] /\ ctx \in [Slots -> Tids \cup {NULL}]
        /\ stack \in [Slots -> Tids \cup {NULL}] /\ joincond \in [Slots -> Seq(Slots)]
    BY DEF Init
  <2>4. sched \in [head : Slots \cup {NULL}, tail : Slots \cup {NULL}, size : Nat, sem : Nat]
    BY Zenon DEF Init
  <2>5. exits \in [entry : [Ring -> [tid : Tids \cup {NoTid}, retval : Tids \cup {NoValue}]],
                   next : Ring]
    <3>1. 0 \in Ring
      BY ExitAssumption DEF Ring
    <3>2. QED
      BY Zenon, <3>1 DEF Init, InitExits
  <2>6. pc \in [Tids -> Labels]
    BY Zenon DEF Init, Labels
  <2>7. frame \in [Tids -> [curr : Slots \cup {NULL}, next : Slots \cup {NULL},
                            tid : Tids \cup {NULL}, ret : Labels]]
    BY Zenon DEF Init, Labels
  <2>8. joined \in [Tids -> [tid : Tids \cup {NULL}, retval : Tids \cup {NoValue}]]
    BY Zenon DEF Init
  <2>9. /\ nthreads \in Int /\ next_tid \in 0 .. MaxTid + 1 /\ fence \in BOOLEAN
        /\ wakeups \in [Cores -> Nat] /\ core \in [Cores -> Tids] /\ panic \in BOOLEAN
    <3>1. \A c \in Cores : c \in Tids
      BY Zenon, Bounds
    <3>2. CORES_NUM \in 0 .. MaxTid + 1 /\ CORES_NUM \in Int
      BY ThreadsAssumption
    <3>3. core \in [Cores -> Tids]
      BY Zenon, <3>1 DEF Init
    <3>4. QED
      BY Zenon, <3>2, <3>3 DEF Init
  <2>10. QED
    BY SMTT(60), <2>1, <2>2, <2>3, <2>4, <2>5, <2>6, <2>7, <2>8, <2>9 DEF TypeOK
<1>4. Current /\ IdleSlots
  <2>1. \A c \in Cores : c \in Slots
    BY Zenon, Bounds
  <2>2. \A c \in Cores : IsCurr(c, c)
    BY Zenon, <1>1, <2>1 DEF IsCurr
  <2>3. QED
    BY Zenon, <1>1, <2>1, <2>2 DEF Current, IdleSlots
<1>5. Runnable = {} /\ Named
  <2>1. \A s \in Users : s \in Slots /\ s \notin Cores
    BY Zenon, Bounds
  <2>2. QED
    BY Zenon, <1>1, <2>1 DEF Runnable, Named
<1>6. Chain(next, sched, Runnable)
  <2>1. sched.size = 0
    BY Zenon DEF Init
  <2> DEFINE f == [i \in 0 .. sched.size - 1 |-> 0]
  <2>2. 0 .. sched.size - 1 = {} /\ 0 .. sched.size - 2 = {}
    BY <2>1
  <2>3. f \in [0 .. sched.size - 1 -> Runnable]
    BY Zenon, <2>2
  <2> HIDE DEF f
  <2>4. Order(next, sched, Runnable, f)
    BY SMTT(60), <1>5, <2>1, <2>2, <2>3 DEF Order
  <2>5. QED
    BY Zenon, <2>3, <2>4 DEF Chain
<1>7. QueueNotified
  <2>2. Cardinality(Yielding) \in Nat
    BY Zenon, Counting DEF Facts, Yielding
  <2>3. sched.size = 0 /\ sched.sem = 0
    BY Zenon DEF Init
  <2>4. QED
    BY <2>2, <2>3 DEF QueueNotified, Yielding
<1>8. QInv
  <2>1. CORES_NUM <= next_tid
    BY SMTT(60), Bounds DEF Init
  <2>2. Labelled
    BY <1>2 DEF Labelled, Returns
  <2>3. Ready
    BY Zenon, <1>5 DEF Ready
  <2>4. QED
    BY ZenonT(60), <1>3, <1>4, <1>5, <1>6, <1>7, <2>1, <2>2, <2>3 DEF QInv
<1>9. Apart
  <2>1. /\ \A c \in Cores : core[c] = c /\ c < next_tid /\ c # NULL /\ c \in Nat
        /\ NULL < next_tid
    BY Bounds DEF Init, Cores
  <2>2. \A s \in Slots : tid[s] < next_tid /\ ctx[s] < next_tid
    BY ZenonT(60), <1>1, <2>1
  <2>3. QED
    BY SMTT(60), <1>1, <2>1, <2>2 DEF Apart
<1>10. Waiters /\ Woken /\ JoinedGone
  <2>1. \A d \in Cores : wakeups[d] = 0
    BY Zenon DEF Init
  <2>2. \A s \in Slots : DOMAIN joincond[s] = {}
    BY <1>1
  <2>3. QED
    BY <1>2, <2>1, <2>2 DEF Waiters, Woken, JoinedGone
<1>11. QED
  BY Zenon, <1>8, <1>9, <1>10 DEF TInv, JInv

(* Every step of every core keeps the invariant. *)
LEMMA StepTInv ==
    ASSUME TInv, [Next]_vars
    PROVE  TInv'
<1>1. ASSUME NEW c \in Workers, ~panic, KernelStep(c)
      PROVE  TInv'
  BY Zenon, <1>1, Counting, StepPick, StepSwitch, StepReap, StepWoken, StepMoved DEF KernelStep
<1>2. ASSUME NEW c \in Workers, ~panic, UserStep(c)
      PROVE  TInv'
  BY Zenon, <1>2, Counting, StepExit, StepJoin, StepMoved DEF UserStep
<1>3. CASE UNCHANGED vars
  <2>1. TypeOK'
    BY ZenonT(60), <1>3 DEF vars, table, TInv, QInv, TypeOK
  <2>2. /\ Current' /\ Ready' /\ IdleSlots' /\ Named' /\ Labelled' /\ QueueNotified'
        /\ CORES_NUM <= next_tid'
    BY <1>3 DEF vars, table, TInv, QInv, Current, IsCurr, Ready, Runnable, IdleSlots, Named,
                Labelled, Returns, QueueNotified
  <2>3. Chain(next', sched', Runnable')
    <3>1. Runnable' = Runnable
      BY Zenon, <1>3 DEF vars, table, Runnable
    <3>2. QED
      BY Zenon, <1>3, <3>1 DEF vars, table, TInv, QInv
  <2>4. Apart'
    BY ZenonT(60), <1>3 DEF vars, table, TInv, JInv, Apart
  <2>5. Waiters' /\ Woken' /\ JoinedGone'
    BY <1>3 DEF vars, table, TInv, JInv, Waiters, Waits, Woken, JoinedGone, Gone, MustWait
  <2>6. QED
    BY SMTT(60), <2>1, <2>2, <2>3, <2>4, <2>5 DEF TInv, QInv, JInv
<1>4. QED
  BY SMTT(60), <1>1, <1>2, <1>3, StepCreate DEF Next, Sane

-----------------------------------------------------------------------------
(* For any number of cores, slots and threads, and for every interleaving  *)
(* of thread_yield(), thread_exit(), thread_join() and thread_create() up  *)
(* to a failed KASSERT(): each core has one current thread in the table,   *)
(* and the run queue of thread_schedule() holds the ready threads, each    *)
(* once and no other, with the right size and tail, none of them waiting   *)
(* there unnoticed while all idle threads sleep.                           *)
THEOREM RunQueue == Spec => []QueueSound
<1>1. Init => TInv
  BY Zenon, InitTInv
<1>2. TInv /\ [Next]_vars => TInv'
  BY Zenon, StepTInv
<1>3. TInv => QueueSound
  <2> SUFFICES ASSUME TInv
               PROVE  QueueSound
    BY Zenon
  <2>1. ASSUME NEW c \in Cores
        PROVE  Cardinality({s \in Slots : coreid[s] = c /\ state[s] \in {"RUNNING", "TERMINATED"}}) = 1
    <3>1. PICK s \in Slots : IsCurr(c, s)
      BY Zenon, <2>1 DEF TInv, QInv, Current
    <3>2. {t \in Slots : coreid[t] = c /\ state[t] \in {"RUNNING", "TERMINATED"}} = {s}
      BY Zenon, <3>1 DEF IsCurr
    <3>3. QED
      BY Zenon, <3>2, Counting DEF Facts
  <2>2. OneCurrentThread /\ QueueNotified
    BY Zenon, <2>1 DEF OneCurrentThread, TInv, QInv, Ready
  <2>3. Chain(next, sched, Runnable)
    BY Zenon DEF TInv, QInv
  <2>4. QED
    BY SMTT(60), <2>2, <2>3, ChainQueued DEF QueueSound
<1>4. QED
  BY <1>1, <1>2, <1>3, PTL DEF Spec

(* For any number of cores, slots and threads: thread_join() returns only  *)
(* when the thread it was given has exited, although it waits just once on *)
(* a per-core wake-up and does not look at the table again; and no thread  *)
(* created later gets the ID.                                              *)
THEOREM JoinWaits == Spec => []JoinSound
<1>1. Init => TInv
  BY Zenon, InitTInv
<1>2. TInv /\ [Next]_vars => TInv'
  BY Zenon, StepTInv
<1>3. TInv => JoinSound
  BY Zenon DEF TInv, JInv, JoinedGone, Gone, JoinSound
<1>4. QED
  BY <1>1, <1>2, <1>3, PTL DEF Spec
=============================================================================
