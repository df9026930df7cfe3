--------------------------- MODULE ThreadsLemmas ---------------------------
(***************************************************************************)
(* The invariant of pm/thread/multithread.c that ThreadsProofs concludes   *)
(* from, what keeps the run queue a list, and the steps of the worker      *)
(* cores: thread_yield(), thread_idle(), thread_exit(), thread_join().     *)
(***************************************************************************)
EXTENDS Threads, TLAPS

(* What the steps use of the naturals and of finite sets; ThreadsProofs    *)
(* proves it, as lemma Counting.                                           *)
Facts ==
    /\ \A S \in SUBSET Nat : S # {} => \E x \in S : \A y \in S : x <= y
    /\ Cardinality({}) = 0 /\ \A x : Cardinality({x}) = 1
    /\ \A S \in SUBSET Workers :
         /\ Cardinality(S) \in Nat
         /\ \A x \in Workers : Cardinality(S \cup {x}) =
              IF x \in S THEN Cardinality(S) ELSE Cardinality(S) + 1
         /\ \A x : Cardinality(S \ {x}) =
              IF x \in S THEN Cardinality(S) - 1 ELSE Cardinality(S)

-----------------------------------------------------------------------------
(* The queue that thread_schedule() and thread_yield() keep: f lists the   *)
(* threads S, each once, from the head along the next pointers n.          *)
Order(n, q, S, f) ==
    /\ q.size \in Nat
    /\ f \in [0 .. q.size - 1 -> S]
    /\ \A i, j \in 0 .. q.size - 1 : f[i] = f[j] => i = j
    /\ \A s \in S : \E i \in 0 .. q.size - 1 : f[i] = s
    /\ q.size > 0 => f[0] = q.head /\ f[q.size - 1] = q.tail /\ n[q.tail] = NULL
    /\ \A i \in 0 .. q.size - 2 : n[f[i]] = f[i + 1]

Chain(n, q, S) == \E f \in [0 .. q.size - 1 -> S] : Order(n, q, S, f)

QueueType == [head : Slots \cup {NULL}, tail : Slots \cup {NULL}, size : Nat, sem : Nat]
NextType == [Slots -> Slots \cup {NULL}]

(* thread_yield() takes the head. *)
LEMMA Dequeue ==
    ASSUME NEW n \in NextType, NEW q \in QueueType, NEW S \in SUBSET Slots, Chain(n, q, S),
           q.size > 0,
           NEW n2, n2 = [n EXCEPT ![q.head] = NULL],
           NEW q2, q2 = [q EXCEPT !.head = n[q.head], !.size = @ - 1]
    PROVE  q.head \in S /\ n2 \in NextType /\ q2 \in QueueType /\ Chain(n2, q2, S \ {q.head})
<1>1. PICK f : Order(n, q, S, f)
  BY Zenon DEF Chain
<1>2. q.size \in Nat /\ f[0] = q.head /\ f[0] \in S
  BY <1>1 DEF Order
<1>3. n[q.head] \in Slots \cup {NULL} /\ n2 \in NextType
  BY Zenon, <1>2 DEF NextType
<1>4. q2 \in QueueType /\ q2.size = q.size - 1 /\ q2.head = n[q.head] /\ q2.tail = q.tail
  <2>1. q.size - 1 \in Nat
    BY <1>2
  <2>2. q2 = [head |-> n[q.head], tail |-> q.tail, size |-> q.size - 1, sem |-> q.sem]
    BY Zenon DEF QueueType
  <2>3. QED
    BY Zenon, <1>3, <2>1, <2>2 DEF QueueType
<1>5. \A s \in S : s # q.head => n2[s] = n[s]
  BY Zenon DEF NextType
<1> DEFINE g == [i \in 0 .. q2.size - 1 |-> f[i + 1]]
<1>6. \A i \in 0 .. q2.size - 1 : i + 1 \in 0 .. q.size - 1 /\ f[i + 1] \in S /\ f[i + 1] # q.head
  <2> SUFFICES ASSUME NEW i \in 0 .. q2.size - 1
               PROVE  i + 1 \in 0 .. q.size - 1 /\ f[i + 1] \in S /\ f[i + 1] # q.head
    BY Zenon
  <2>1. i + 1 \in 0 .. q.size - 1 /\ 0 \in 0 .. q.size - 1 /\ i + 1 # 0
    BY <1>2, <1>4
  <2>2. QED
    BY SMTT(60), <1>1, <1>2, <2>1 DEF Order
<1>7. g \in [0 .. q2.size - 1 -> S \ {q.head}]
  BY Zenon, <1>6
<1>8. \A i, j \in 0 .. q2.size - 1 : g[i] = g[j] => i = j
  <2>1. \A i, j \in 0 .. q2.size - 1 : f[i + 1] = f[j + 1] => i + 1 = j + 1
    BY Zenon, <1>1, <1>6 DEF Order
  <2>2. QED
    BY <2>1, <1>2, <1>4
<1>9. \A s \in S \ {q.head} : \E i \in 0 .. q2.size - 1 : g[i] = s
  <2> SUFFICES ASSUME NEW s \in S, s # q.head
               PROVE  \E i \in 0 .. q2.size - 1 : g[i] = s
    BY Zenon
  <2>1. PICK i \in 0 .. q.size - 1 : f[i] = s
    BY Zenon, <1>1 DEF Order
  <2>2. i # 0
    BY Zenon, <2>1, <1>2
  <2>3. i - 1 \in 0 .. q2.size - 1 /\ (i - 1) + 1 = i
    BY <1>2, <1>4, <2>1, <2>2
  <2>4. g[i - 1] = s
    BY Zenon, <2>1, <2>3
  <2>5. QED
    BY Zenon, <2>3, <2>4
<1>10. q2.size > 0 => g[0] = q2.head /\ g[q2.size - 1] = q2.tail /\ n2[q2.tail] = NULL
  <2> SUFFICES ASSUME q2.size > 0
               PROVE  g[0] = q2.head /\ g[q2.size - 1] = q2.tail /\ n2[q2.tail] = NULL
    BY Zenon
  <2>1. g[0] = f[1] /\ g[q2.size - 1] = f[q.size - 1]
    BY <1>2, <1>4
  <2>2. n[f[0]] = f[1] /\ f[q.size - 1] = q.tail /\ n[q.tail] = NULL
    BY SMTT(60), <1>1, <1>2, <1>4 DEF Order
  <2>3. q.tail \in S /\ q.tail # q.head
    BY SMTT(60), <2>1, <2>2, <1>4, <1>2, <1>6, <1>7
  <2>4. QED
    BY Zenon, <2>1, <2>2, <2>3, <1>2, <1>4, <1>5
<1>11. \A i \in 0 .. q2.size - 2 : n2[g[i]] = g[i + 1]
  <2> SUFFICES ASSUME NEW i \in 0 .. q2.size - 2
               PROVE  n2[g[i]] = g[i + 1]
    BY Zenon
  <2>1. i \in 0 .. q2.size - 1 /\ i + 1 \in 0 .. q2.size - 1 /\ i + 1 \in 0 .. q.size - 2
    BY <1>2, <1>4
  <2>2. g[i] = f[i + 1] /\ g[i + 1] = f[(i + 1) + 1]
    BY Zenon, <2>1
  <2>3. n[f[i + 1]] = f[(i + 1) + 1]
    BY Zenon, <1>1, <2>1 DEF Order
  <2>4. QED
    BY Zenon, <1>5, <1>6, <2>1, <2>2, <2>3
<1>12. Order(n2, q2, S \ {q.head}, g)
  <2> HIDE DEF g
  <2>1. q2.size \in Nat
    BY Zenon, <1>4 DEF QueueType
  <2>2. QED
    BY Zenon, <2>1, <1>7, <1>8, <1>9, <1>10, <1>11 DEF Order
<1>13. QED
  <2> HIDE DEF g
  <2>1. Chain(n2, q2, S \ {q.head})
    BY Zenon, <1>7, <1>12 DEF Chain
  <2>2. QED
    BY Zenon, <1>2, <1>3, <1>4, <2>1

(* thread_schedule() appends a thread that is not in the queue. *)
LEMMA Enqueue ==
    ASSUME NEW n \in NextType, NEW q \in QueueType, NEW S \in SUBSET Slots, Chain(n, q, S),
           NEW s \in Slots \ S
    PROVE  /\ Link(q, n, s) \in NextType /\ Schedule(q, s) \in QueueType
           /\ Chain(Link(q, n, s), Schedule(q, s), S \cup {s})
<1> DEFINE n2 == Link(q, n, s)
           q2 == Schedule(q, s)
<1>1. PICK f : Order(n, q, S, f)
  BY Zenon DEF Chain
<1>2. q.size \in Nat /\ q.head \in Slots \cup {NULL} /\ q.sem \in Nat
  BY Zenon DEF QueueType
<1>3. /\ q2 \in QueueType /\ q2.size = q.size + 1 /\ q2.tail = s
      /\ q2.head = IF q.size = 0 THEN s ELSE q.head
  BY <1>2 DEF Schedule, QueueType
<1>4. n2 \in NextType
  BY Zenon DEF Link, NextType
<1>5. n2[s] = NULL /\ \A t \in S : n2[t] = IF q.size > 0 /\ t = q.tail THEN s ELSE n[t]
  BY Zenon DEF Link, NextType
<1> DEFINE g == [i \in 0 .. q2.size - 1 |-> IF i = q.size THEN s ELSE f[i]]
<1>6. \A i \in 0 .. q2.size - 1 : i = q.size \/ (i \in 0 .. q.size - 1 /\ f[i] \in S)
  BY SMTT(60), <1>1, <1>2, <1>3 DEF Order
<1>7. g \in [0 .. q2.size - 1 -> S \cup {s}]
  BY Zenon, <1>6
<1>8. \A i, j \in 0 .. q2.size - 1 : g[i] = g[j] => i = j
  BY <1>1, <1>2, <1>6 DEF Order
<1>9. \A t \in S \cup {s} : \E i \in 0 .. q2.size - 1 : g[i] = t
  <2>1. q.size \in 0 .. q2.size - 1 /\ g[q.size] = s
    BY <1>2, <1>3
  <2>2. ASSUME NEW t \in S
        PROVE  \E i \in 0 .. q2.size - 1 : g[i] = t
    <3>1. PICK i \in 0 .. q.size - 1 : f[i] = t
      BY Zenon, <1>1 DEF Order
    <3>2. i \in 0 .. q2.size - 1 /\ i # q.size
      BY <1>2, <1>3, <3>1
    <3>3. QED
      BY Zenon, <3>1, <3>2
  <2>3. QED
    BY Zenon, <2>1, <2>2
<1>10. g[0] = q2.head /\ g[q2.size - 1] = q2.tail /\ n2[q2.tail] = NULL
  BY <1>1, <1>2, <1>3, <1>5 DEF Order
<1>11. \A i \in 0 .. q2.size - 2 : n2[g[i]] = g[i + 1]
  <2> SUFFICES ASSUME NEW i \in 0 .. q2.size - 2
               PROVE  n2[g[i]] = g[i + 1]
    BY Zenon
  <2>1. i \in 0 .. q.size - 1 /\ i \in 0 .. q2.size - 1 /\ i + 1 \in 0 .. q2.size - 1
    BY <1>2, <1>3
  <2>2. g[i] = f[i] /\ f[i] \in S
    BY <1>2, <1>6, <2>1
  <2>3. CASE i = q.size - 1
    <3>1. g[i + 1] = s /\ q.size > 0 /\ f[i] = q.tail
      BY <1>1, <1>2, <2>1, <2>3 DEF Order
    <3>2. QED
      BY Zenon, <1>5, <2>2, <3>1
  <2>4. CASE i # q.size - 1
    <3>1. i \in 0 .. q.size - 2 /\ q.size - 1 \in 0 .. q.size - 1 /\ i + 1 # q.size
      BY <1>2, <2>1, <2>4
    <3>2. g[i + 1] = f[i + 1] /\ n[f[i]] = f[i + 1]
      BY Zenon, <1>1, <2>1, <3>1 DEF Order
    <3>3. f[q.size - 1] = q.tail /\ f[i] # q.tail
      BY <1>1, <1>2, <2>1, <2>4, <3>1 DEF Order
    <3>4. QED
      BY Zenon, <1>5, <2>2, <3>2, <3>3
  <2>5. QED
    BY Zenon, <2>3, <2>4
<1>12. Order(n2, q2, S \cup {s}, g)
  <2> HIDE DEF g, n2, q2
  <2>1. q2.size \in Nat
    BY <1>2, <1>3
  <2>2. QED
    BY Zenon, <2>1, <1>7, <1>8, <1>9, <1>10, <1>11 DEF Order
<1>13. QED
  <2> HIDE DEF g
  <2>1. Chain(n2, q2, S \cup {s})
    BY Zenon, <1>7, <1>12 DEF Chain
  <2>2. QED
    BY Zenon, <1>3, <1>4, <2>1

(* Whoever writes the next pointer of a thread that is not queued, or the  *)
(* count of the semaphore, leaves the queue alone.                         *)
LEMMA SameChain ==
    ASSUME NEW n, NEW q, NEW S, Chain(n, q, S), NEW n2, \A s \in S : n2[s] = n[s],
           NEW q2, q2.size = q.size, q2.head = q.head, q2.tail = q.tail
    PROVE  Chain(n2, q2, S)
<1>1. PICK f : Order(n, q, S, f)
  BY Zenon DEF Chain
<1>2. \A i \in 0 .. q.size - 1 : f[i] \in S
  BY Zenon, <1>1 DEF Order
<1>3. q.size > 0 => q.tail \in S
  <2>1. q.size > 0 => q.size - 1 \in 0 .. q.size - 1
    BY <1>1 DEF Order
  <2>2. QED
    BY Zenon, <1>1, <1>2, <2>1 DEF Order
<1>4. \A i \in 0 .. q.size - 2 : i \in 0 .. q.size - 1
  BY <1>1 DEF Order
<1>5. Order(n2, q2, S, f)
  BY Zenon, <1>1, <1>2, <1>3, <1>4 DEF Order
<1>6. QED
  <2>1. f \in [0 .. q2.size - 1 -> S]
    BY Zenon, <1>5 DEF Order
  <2>2. QED
    BY Zenon, <1>5, <2>1 DEF Chain

(* The next pointer of a queued thread leads to a queued one, or nowhere. *)
LEMMA ChainClosed ==
    ASSUME NEW n, NEW q, NEW S, Chain(n, q, S), NEW s \in S
    PROVE  n[s] \in S \cup {NULL}
<1>1. PICK f : Order(n, q, S, f)
  BY Zenon DEF Chain
<1>2. PICK i \in 0 .. q.size - 1 : f[i] = s
  BY Zenon, <1>1 DEF Order
<1>3. CASE i = q.size - 1
  BY <1>1, <1>2, <1>3 DEF Order
<1>4. CASE i # q.size - 1
  <2>1. i \in 0 .. q.size - 2 /\ i + 1 \in 0 .. q.size - 1
    BY <1>1, <1>2, <1>4 DEF Order
  <2>2. QED
    BY <1>1, <1>2, <2>1 DEF Order
<1>5. QED
  BY Zenon, <1>3, <1>4

-----------------------------------------------------------------------------
(* The slot s holds the current thread of core c. *)
IsCurr(c, s) ==
    \A t \in Slots : (coreid[t] = c /\ state[t] \in {"RUNNING", "TERMINATED"}) <=> t = s

Current == \A c \in Cores : \E s \in Slots : IsCurr(c, s)
Ready == \A s \in Runnable : coreid[s] = NULL

(* Slot c belongs to the idle thread of core c for ever. *)
IdleSlots ==
    \A c \in Cores : /\ coreid[c] = c /\ tid[c] = c
                     /\ state[c] \in {"RUNNING", "STOPPED", "TERMINATED"}
                     /\ state[c] = "TERMINATED" => panic

Named == \A s \in Users : state[s] \in {"RUNNING", "STOPPED", "TERMINATED"} => tid[s] # NULL

(* Only the idle threads are in thread_idle(), and thread_yield() has      *)
(* chosen when it switches.                                                *)
Returns(f, x) == f[x].ret \in {"run", "down", "lost"} /\ (f[x].ret = "down" => x \in Workers)
Labelled ==
    \A x \in Tids :
      /\ pc[x] \in {"first", "fence", "down"} => x \in Workers
      /\ Returns(frame, x)
      /\ pc[x] \in {"switch", "back"} => frame[x].curr \in Slots /\ frame[x].next \in Slots

QInv ==
    /\ TypeOK /\ CORES_NUM <= next_tid
    /\ Current /\ Ready /\ IdleSlots /\ Named /\ Labelled
    /\ Chain(next, sched, Runnable) /\ QueueNotified

(* An execution is on one core or saved in one context; IDs are unique. *)
Apart ==
    /\ \A c, d \in Cores : core[c] = core[d] => c = d
    /\ \A c \in Cores, s \in Slots : ctx[s] # core[c]
    /\ \A s, t \in Slots : ctx[s] = ctx[t] /\ ctx[s] # NULL => s = t
    /\ \A s, t \in Slots : tid[s] = tid[t] /\ tid[s] # NULL => s = t
    /\ \A c \in Cores : core[c] < next_tid
    /\ \A s \in Slots : ctx[s] < next_tid /\ tid[s] < next_tid

Gone(id) == id \in Tids /\ id < next_tid /\ \A s \in Slots : tid[s] = id => ~MustWait(s)

(* Who is in joincond[t] is the current thread of a core that sleeps until *)
(* the thread in slot t exits; a core that was woken up sleeps for a       *)
(* thread that has exited.                                                 *)
Waits(t, s) ==
    \E d \in Workers :
      /\ coreid[s] = d /\ state[s] \in {"RUNNING", "TERMINATED"}
      /\ pc[core[d]] = "asleep" /\ wakeups[d] = 0
      /\ frame[core[d]].tid = tid[t]
Waiters ==
    \A t \in Slots : \A k \in DOMAIN joincond[t] :
      MustWait(t) /\ tid[t] # NULL /\ Waits(t, joincond[t][k])
Woken ==
    \A d \in Cores :
      /\ wakeups[d] \in {0, 1}
      /\ wakeups[d] = 1 => d \in Workers /\ pc[core[d]] = "asleep" /\ Gone(frame[core[d]].tid)

JoinedGone == \A x \in Tids : joined[x].tid # NULL => Gone(joined[x].tid)

JInv == Apart /\ Waiters /\ Woken /\ JoinedGone

TInv == QInv /\ JInv

-----------------------------------------------------------------------------
LEMMA Bounds ==
    /\ Cores \subseteq Slots /\ Users \subseteq Slots /\ Workers \subseteq Cores
    /\ Slots \subseteq Cores \cup Users /\ Cores \cap Users = {}
    /\ Cores \subseteq Tids /\ 0 \in Cores \ Workers
    /\ NULL \notin Slots /\ NULL \notin Tids /\ NULL \notin Cores
    /\ Slots \subseteq Nat /\ Tids \subseteq Nat
    /\ CORES_NUM \in Nat /\ MaxTid \in Nat /\ NULL = -1
  BY ThreadsAssumption DEF Cores, Users, Slots, Workers, Tids, NULL

(* thread_get_curr() finds the current thread. *)
LEMMA CurrIs ==
    ASSUME NEW c \in Cores, NEW s \in Slots, IsCurr(c, s)
    PROVE  thread_get_curr(c) = s
<1> DEFINE running == {t \in Slots : coreid[t] = c /\ state[t] = "RUNNING"}
           terminated == {t \in Slots : coreid[t] = c /\ state[t] = "TERMINATED"}
<1>1. coreid[s] = c /\ state[s] \in {"RUNNING", "TERMINATED"}
  BY Zenon DEF IsCurr
<1>2. running \subseteq {s} /\ terminated \subseteq {s}
  BY Zenon DEF IsCurr
<1>3. First({s}) = s /\ Last({s}) = s
  BY Bounds DEF First, Last
<1>4. CASE state[s] = "RUNNING"
  <2>1. running = {s}
    BY Zenon, <1>1, <1>2, <1>4
  <2>2. QED
    BY Zenon, <1>3, <2>1 DEF thread_get_curr
<1>5. CASE state[s] = "TERMINATED"
  <2>1. running = {} /\ terminated = {s}
    BY Zenon, <1>1, <1>2, <1>5
  <2>2. QED
    BY Zenon, <1>3, <2>1 DEF thread_get_curr
<1>6. QED
  BY Zenon, <1>1, <1>4, <1>5

(* The idle threads in thread_yield(), after one execution has moved on. *)
Yielding == {x \in Workers : pc[x] = "yield"}

LEMMA YieldCount ==
    ASSUME Facts, TypeOK, NEW x \in Tids, NEW l, pc' = [pc EXCEPT ![x] = l]
    PROVE  /\ Cardinality(Yielding) \in Nat /\ Cardinality(Yielding)' \in Nat
           /\ pc[x] # "yield" => Cardinality(Yielding)' >= Cardinality(Yielding)
           /\ Cardinality(Yielding)' + 1 >= Cardinality(Yielding)
           /\ x \in Workers /\ pc[x] # "yield" /\ l = "yield" =>
                Cardinality(Yielding)' = Cardinality(Yielding) + 1
<1>1. Yielding \in SUBSET Workers /\ Yielding' \in SUBSET Workers
  BY Zenon DEF Yielding
<1>2. Cardinality(Yielding) \in Nat /\ Cardinality(Yielding)' \in Nat
  BY Zenon, <1>1 DEF Facts
<1>3. \A y \in Workers : pc'[y] = IF y = x THEN l ELSE pc[y]
  BY Zenon, Bounds DEF TypeOK
<1>4. CASE x \in Workers /\ l = "yield"
  <2>1. Yielding' = Yielding \cup {x}
    BY Zenon, <1>3, <1>4 DEF Yielding
  <2>2. Cardinality(Yielding)' = IF x \in Yielding THEN Cardinality(Yielding)
                                 ELSE Cardinality(Yielding) + 1
    BY Zenon, <1>1, <1>4, <2>1 DEF Facts
  <2>3. x \in Yielding <=> pc[x] = "yield"
    BY Zenon, <1>4 DEF Yielding
  <2>4. QED
    BY <1>2, <2>2, <2>3
<1>5. CASE ~(x \in Workers /\ l = "yield")
  <2>1. Yielding' = Yielding \ {x}
    BY Zenon, <1>3, <1>5 DEF Yielding
  <2>2. Cardinality(Yielding)' = IF x \in Yielding THEN Cardinality(Yielding) - 1
                                 ELSE Cardinality(Yielding)
    BY Zenon, <1>1, <2>1 DEF Facts
  <2>3. x \in Yielding => pc[x] = "yield"
    BY Zenon DEF Yielding
  <2>4. QED
    BY <1>2, <1>5, <2>2, <2>3
<1>6. QED
  BY Zenon, <1>4, <1>5

(* A step of others leaves those that sleep in thread_join() alone. *)
LEMMA QuietJoin ==
    ASSUME TypeOK, next_tid' \in Nat, JInv,
           \A d \in Workers : pc[core[d]] = "asleep" =>
             /\ core'[d] = core[d] /\ pc'[core[d]] = "asleep"
             /\ frame'[core[d]].tid = frame[core[d]].tid
             /\ \A s \in Slots : coreid[s] = d /\ state[s] \in {"RUNNING", "TERMINATED"} =>
                  coreid'[s] = d /\ state'[s] \in {"RUNNING", "TERMINATED"},
           \A t \in Slots : MustWait(t) /\ tid[t] # NULL => MustWait(t)' /\ tid'[t] = tid[t],
           \A t \in Slots : MustWait(t)' /\ tid'[t] \in Tids /\ tid'[t] < next_tid =>
                              MustWait(t) /\ tid[t] = tid'[t],
           next_tid <= next_tid', UNCHANGED <<joincond, wakeups, joined>>
    PROVE  Waiters' /\ Woken' /\ JoinedGone'
<1>1. \A id : Gone(id) => Gone(id)'
  <2> SUFFICES ASSUME NEW id, Gone(id)
               PROVE  Gone(id)'
    BY Zenon
  <2>1. id \in Tids /\ id < next_tid /\ next_tid \in Nat /\ id \in Nat
    BY Bounds DEF Gone, TypeOK
  <2>2. id < next_tid'
    BY <2>1
  <2>3. ASSUME NEW s \in Slots, tid'[s] = id
        PROVE  ~MustWait(s)'
    BY Zenon, <2>1, <2>3 DEF Gone, MustWait
  <2>4. QED
    BY Zenon, <2>1, <2>2, <2>3 DEF Gone
<1>2. Waiters'
  <2> SUFFICES ASSUME NEW t \in Slots, NEW k \in DOMAIN joincond[t]
               PROVE  MustWait(t)' /\ tid'[t] # NULL /\ Waits(t, joincond[t][k])'
    BY Zenon DEF Waiters
  <2>1. MustWait(t) /\ tid[t] # NULL /\ Waits(t, joincond[t][k])
    BY Zenon DEF JInv, Waiters
  <2>2. MustWait(t)' /\ tid'[t] = tid[t]
    BY Zenon, <2>1
  <2>3. joincond[t][k] \in Slots
    BY DEF TypeOK
  <2>4. QED
    BY <2>1, <2>2, <2>3 DEF Waits
<1>3. Woken'
  BY <1>1 DEF JInv, Woken
<1>4. QED
  <2>1. ASSUME NEW x \in Tids, joined'[x].tid # NULL
        PROVE  Gone(joined[x].tid)'
    <3>1. PICK id : id = joined[x].tid
      BY Zenon
    <3>2. Gone(id)'
      BY Zenon, <1>1, <2>1, <3>1 DEF JInv, JoinedGone
    <3>3. QED
      BY Zenon, <3>1, <3>2 DEF Gone
  <2>2. QED
    BY Zenon, <1>2, <1>3, <2>1 DEF JoinedGone

(* What does not touch the table leaves it sound. *)
LEMMA SameTable ==
    ASSUME QInv, ~panic, UNCHANGED <<state, tid, coreid, next>>,
           sched'.head = sched.head, sched'.tail = sched.tail, sched'.size = sched.size
    PROVE  Current' /\ Ready' /\ IdleSlots' /\ Named' /\ Chain(next, sched, Runnable)'
<1>1. Current' /\ Ready' /\ IdleSlots' /\ Named'
  BY DEF QInv, Current, IsCurr, Ready, Runnable, IdleSlots, Named
<1>2. Runnable' = Runnable
  BY Zenon DEF Runnable
<1>3. Chain(next, sched, Runnable)
  BY Zenon DEF QInv
<1>4. Chain(next', sched', Runnable')
  BY Zenon, <1>2, <1>3, SameChain
<1>5. QED
  BY Zenon, <1>1, <1>4

FrameType == [curr : Slots \cup {NULL}, next : Slots \cup {NULL},
              tid : Tids \cup {NULL}, ret : Labels]

(* CallYield() writes the return label only. *)
LEMMA FrameReturn ==
    ASSUME TypeOK, Labelled, NEW x \in Tids, NEW r \in {"run", "down", "lost"},
           r = "down" => x \in Workers,
           frame' = [frame EXCEPT ![x].ret = r]
    PROVE  /\ frame' \in [Tids -> FrameType]
           /\ \A y \in Tids : /\ frame'[y].curr = frame[y].curr /\ frame'[y].next = frame[y].next
                              /\ frame'[y].tid = frame[y].tid
                              /\ Returns(frame', y)
<1>1. frame \in [Tids -> FrameType]
  BY Zenon DEF TypeOK, FrameType
<1>2. \A y \in Tids : frame'[y] = IF y = x THEN [frame[x] EXCEPT !.ret = r] ELSE frame[y]
  BY Zenon, <1>1
<1>3. \A y \in Tids : frame[y] \in FrameType
  BY Zenon, <1>1
<1>4. frame' \in [Tids -> FrameType]
  <2>1. r \in Labels
    BY Zenon DEF Labels
  <2>2. QED
    BY Zenon, <1>1, <1>2, <1>3, <2>1 DEF FrameType
<1>5. \A y \in Tids : Returns(frame', y)
  BY <1>2, <1>3 DEF Labelled, Returns, FrameType
<1>6. QED
  BY Zenon, <1>2, <1>3, <1>4, <1>5 DEF FrameType

(* An execution goes on without the table: thread_idle(), and the calls    *)
(* that a user thread starts.                                              *)
LEMMA Moved ==
    ASSUME TInv, ~panic, NEW c \in Workers, NEW l \in Labels \ {"switch", "back"},
           ~At(c, "asleep"), l \in {"first", "fence", "down"} => core[c] \in Workers,
           Goto(c, l),
           frame' \in [Tids -> FrameType],
           \A y \in Tids : /\ frame'[y].curr = frame[y].curr /\ frame'[y].next = frame[y].next
                           /\ frame'[y].tid = frame[y].tid
                           /\ Returns(frame', y),
           NEW k \in Nat, sched' = [sched EXCEPT !.sem = k],
           sched.size <= k + Cardinality(Yielding)', fence' \in BOOLEAN,
           UNCHANGED <<table, joincond, exits, wakeups, core, joined, panic>>
    PROVE  TInv'
<1>1. TypeOK /\ core[c] \in Tids /\ sched \in QueueType
  BY Zenon, Bounds DEF TInv, QInv, TypeOK, QueueType
<1>2. \A y \in Tids : pc'[y] = IF y = core[c] THEN l ELSE pc[y]
  BY Zenon, <1>1 DEF TypeOK, Goto
<1>3. /\ sched' \in QueueType /\ sched'.head = sched.head /\ sched'.tail = sched.tail
      /\ sched'.size = sched.size /\ sched'.sem = k
  BY Zenon, <1>1 DEF QueueType
<1>4. TypeOK'
  <2>1. pc' \in [Tids -> Labels]
    BY Zenon, <1>1 DEF TypeOK, Goto
  <2>2. QED
    BY Zenon, <1>1, <1>3, <2>1 DEF TypeOK, table, FrameType, QueueType
<1>5. Current' /\ Ready' /\ IdleSlots' /\ Named' /\ Chain(next, sched, Runnable)'
  BY Zenon, <1>3, SameTable DEF TInv, table
<1>6. Labelled'
  BY Zenon, <1>2 DEF TInv, QInv, Labelled
<1>7. QueueNotified'
  BY Zenon, <1>3 DEF QueueNotified, Yielding
<1>8. QInv'
  BY Zenon, <1>4, <1>5, <1>6, <1>7 DEF TInv, QInv, table
<1>9. Apart'
  BY Zenon DEF TInv, JInv, Apart, table
<1>10. Waiters' /\ Woken' /\ JoinedGone'
  <2>1. \A d \in Workers : pc[core[d]] = "asleep" => core[d] \in Tids /\ core[d] # core[c]
    BY Zenon, <1>1, Bounds DEF At, TypeOK
  <2>2. \A d \in Workers : pc[core[d]] = "asleep" =>
           pc'[core[d]] = "asleep" /\ frame'[core[d]].tid = frame[core[d]].tid
    BY Zenon, <1>2, <2>1
  <2>3. \A t \in Slots : MustWait(t)' <=> MustWait(t)
    BY Zenon DEF MustWait, table
  <2>4. next_tid \in Nat /\ next_tid' = next_tid
    BY <1>1 DEF TypeOK, table
  <2>5. QED
    BY <1>1, <2>2, <2>3, <2>4, QuietJoin DEF TInv, table
<1>11. QED
  BY Zenon, <1>8, <1>9, <1>10 DEF TInv, JInv

LEMMA StepMoved ==
    ASSUME Facts, TInv, ~panic, NEW c \in Workers,
           IdleFirst(c) \/ IdleFence(c) \/ IdleDown(c) \/ UserYield(c) \/ CallCreate(c)
    PROVE  TInv'
<1> DEFINE x == core[c]
<1>1. TypeOK /\ Labelled /\ x \in Tids /\ sched \in QueueType
  BY Zenon, Bounds DEF TInv, QInv, TypeOK, QueueType
<1>2. sched.size \in Nat /\ sched.sem \in Nat /\ sched = [sched EXCEPT !.sem = sched.sem]
  BY Zenon, <1>1 DEF QueueType
<1>3. sched.size <= sched.sem + Cardinality(Yielding)
  BY Zenon DEF TInv, QInv, QueueNotified, Yielding
<1>4. \A y \in Tids : Returns(frame, y)
  BY Zenon, <1>1 DEF Labelled
<1>5. frame \in [Tids -> FrameType]
  BY Zenon, <1>1 DEF TypeOK, FrameType
<1>6. {"yield", "down", "run", "kcall"} \subseteq Labels \ {"switch", "back"}
  BY Zenon DEF Labels
<1>7. CASE IdleFirst(c) \/ IdleDown(c)
  <2>1. /\ pc[x] \in {"first", "down"} /\ sched.sem > 0
        /\ sched' = [sched EXCEPT !.sem = @ - 1]
        /\ pc' = [pc EXCEPT ![x] = "yield"] /\ frame' = [frame EXCEPT ![x].ret = "down"]
        /\ fence' \in {FALSE, fence}
        /\ UNCHANGED <<table, joincond, exits, wakeups, core, joined, panic>>
    BY Zenon, <1>7 DEF IdleFirst, IdleDown, At, CallYield
  <2>2. x \in Workers
    BY Zenon, <1>1, <2>1 DEF Labelled
  <2>3. PICK k \in Nat : k = sched.sem - 1
    BY <1>2, <2>1
  <2>4. Cardinality(Yielding)' = Cardinality(Yielding) + 1 /\ Cardinality(Yielding) \in Nat
    BY Zenon, <1>1, <2>1, <2>2, YieldCount
  <2>5. sched' = [sched EXCEPT !.sem = k] /\ sched.size <= k + Cardinality(Yielding)'
    BY <1>2, <1>3, <2>1, <2>3, <2>4
  <2>6. /\ frame' \in [Tids -> FrameType]
        /\ \A y \in Tids : /\ frame'[y].curr = frame[y].curr /\ frame'[y].next = frame[y].next
                           /\ frame'[y].tid = frame[y].tid
                           /\ Returns(frame', y)
    BY Zenon, <1>1, <1>6, <2>1, <2>2, FrameReturn
  <2>7. Goto(c, "yield") /\ ~At(c, "asleep") /\ fence' \in BOOLEAN
    BY Zenon, <1>1, <2>1 DEF Goto, At, TypeOK
  <2>8. QED
    BY Zenon, <1>6, <2>1, <2>5, <2>6, <2>7, Moved
<1>8. CASE UserYield(c)
  <2>1. /\ pc[x] = "run" /\ sched' = sched /\ fence' = fence
        /\ pc' = [pc EXCEPT ![x] = "yield"] /\ frame' = [frame EXCEPT ![x].ret = "run"]
        /\ UNCHANGED <<table, joincond, exits, wakeups, core, joined, panic>>
    BY Zenon, <1>8 DEF UserYield, At, CallYield
  <2>2. PICK k \in Nat : k = sched.sem
    BY Zenon, <1>2
  <2>3. /\ Cardinality(Yielding)' >= Cardinality(Yielding) /\ Cardinality(Yielding) \in Nat
        /\ Cardinality(Yielding)' \in Nat
    BY Zenon, <1>1, <2>1, YieldCount
  <2>4. sched' = [sched EXCEPT !.sem = k] /\ sched.size <= k + Cardinality(Yielding)'
    BY <1>2, <1>3, <2>1, <2>2, <2>3
  <2>5. /\ frame' \in [Tids -> FrameType]
        /\ \A y \in Tids : /\ frame'[y].curr = frame[y].curr /\ frame'[y].next = frame[y].next
                           /\ frame'[y].tid = frame[y].tid
                           /\ Returns(frame', y)
    BY Zenon, <1>1, <1>6, <2>1, FrameReturn
  <2>6. Goto(c, "yield") /\ ~At(c, "asleep") /\ fence' \in BOOLEAN
    BY Zenon, <1>1, <2>1 DEF Goto, At, TypeOK
  <2>7. QED
    BY Zenon, <1>6, <2>1, <2>4, <2>5, <2>6, Moved
<1>9. CASE IdleFence(c) \/ CallCreate(c)
  <2>1. PICK l \in {"down", "kcall"} :
           /\ pc[x] \in {"fence", "run"} /\ (l = "down" => pc[x] = "fence")
           /\ pc' = [pc EXCEPT ![x] = l]
           /\ UNCHANGED <<table, sched, joincond, exits, fence, wakeups, core, frame, joined, panic>>
    BY Zenon, <1>9 DEF IdleFence, CallCreate, At, Goto
  <2>2. l \in {"first", "fence", "down"} => x \in Workers
    BY Zenon, <1>1, <2>1 DEF Labelled
  <2>3. PICK k \in Nat : k = sched.sem
    BY Zenon, <1>2
  <2>4. /\ Cardinality(Yielding)' >= Cardinality(Yielding) /\ Cardinality(Yielding) \in Nat
        /\ Cardinality(Yielding)' \in Nat
    BY Zenon, <1>1, <2>1, YieldCount
  <2>5. sched' = [sched EXCEPT !.sem = k] /\ sched.size <= k + Cardinality(Yielding)'
    BY <1>2, <1>3, <2>1, <2>3, <2>4
  <2>6. Goto(c, l) /\ ~At(c, "asleep") /\ fence' \in BOOLEAN /\ l \in Labels \ {"switch", "back"}
    BY Zenon, <1>1, <1>6, <2>1 DEF Goto, At, TypeOK
  <2>7. /\ frame' \in [Tids -> FrameType]
        /\ \A y \in Tids : /\ frame'[y].curr = frame[y].curr /\ frame'[y].next = frame[y].next
                           /\ frame'[y].tid = frame[y].tid
                           /\ Returns(frame', y)
    BY Zenon, <1>4, <1>5, <2>1
  <2>8. QED
    BY Zenon, <2>1, <2>2, <2>5, <2>6, <2>7, Moved
<1>10. QED
  BY Zenon, <1>7, <1>8, <1>9

-----------------------------------------------------------------------------
(* thread_yield() switches, or the switch fails. *)
LEMMA StepSwitch ==
    ASSUME Facts, TInv, ~panic, NEW c \in Workers, Switch(c)
    PROVE  TInv'
<1>1. PICK x \in Tids : x = core[c]
  BY Zenon, Bounds DEF TInv, QInv, TypeOK
<1>2. TypeOK /\ Labelled /\ Apart
  BY Zenon DEF TInv, QInv, JInv
<1>3. /\ pc[x] = "switch" /\ pc' = [pc EXCEPT ![x] = "back"] /\ panic' \in BOOLEAN
      /\ UNCHANGED <<state, tid, coreid, next, stack, nthreads, next_tid, sched, joincond, exits,
                     fence, wakeups, frame, joined>>
  BY Zenon, <1>1 DEF Switch, At, Goto
<1>4. PICK p \in Slots, nx \in Slots : p = frame[x].curr /\ nx = frame[x].next
  BY Zenon, <1>2, <1>3 DEF Labelled
<1>5. \/ /\ p # nx /\ ctx[p] = NULL /\ ctx[nx] # NULL
         /\ core' = [core EXCEPT ![c] = ctx[nx]]
         /\ ctx' = [ctx EXCEPT ![p] = x, ![nx] = NULL]
      \/ UNCHANGED <<core, ctx>>
  BY Zenon, <1>1, <1>4 DEF Switch, CanSwitch
<1>6. \A d \in Cores : d # c => core'[d] = core[d]
  BY Zenon, <1>2, <1>5 DEF TypeOK
<1>7. core' \in [Cores -> Tids] /\ ctx' \in [Slots -> Tids \cup {NULL}] /\ pc' \in [Tids -> Labels]
  <2>1. core' \in [Cores -> Tids] /\ ctx' \in [Slots -> Tids \cup {NULL}]
    <3>1. /\ ctx[nx] \in Tids \cup {NULL} /\ core \in [Cores -> Tids]
          /\ ctx \in [Slots -> Tids \cup {NULL}]
      BY Zenon, <1>2 DEF TypeOK
    <3>2. QED
      BY Zenon, <1>5, <3>1
  <2>2. pc' \in [Tids -> Labels]
    BY Zenon, <1>2, <1>3 DEF TypeOK, Labels
  <2>3. QED
    BY Zenon, <2>1, <2>2
<1>8. TypeOK'
  BY Zenon, <1>2, <1>3, <1>7 DEF TypeOK
<1>9. Current' /\ Ready' /\ IdleSlots' /\ Named' /\ Chain(next, sched, Runnable)'
  BY Zenon, <1>3, SameTable DEF TInv
<1>10. \A y \in Tids : pc'[y] = IF y = x THEN "back" ELSE pc[y]
  BY Zenon, <1>2, <1>3 DEF TypeOK
<1>11. Labelled'
  BY <1>2, <1>3, <1>4, <1>10 DEF Labelled
<1>12. QueueNotified'
  <2>1. /\ Cardinality(Yielding)' >= Cardinality(Yielding) /\ Cardinality(Yielding) \in Nat
        /\ Cardinality(Yielding)' \in Nat
    BY Zenon, <1>2, <1>3, YieldCount
  <2>2. sched.size <= sched.sem + Cardinality(Yielding)
    BY Zenon DEF TInv, QInv, QueueNotified, Yielding
  <2>3. sched.size \in Nat /\ sched.sem \in Nat
    BY Zenon, <1>2 DEF TypeOK
  <2>4. QED
    BY <1>3, <2>1, <2>2, <2>3 DEF QueueNotified, Yielding
<1>13. QInv'
  BY Zenon, <1>3, <1>8, <1>9, <1>11, <1>12 DEF TInv, QInv
<1>14. Apart'
  <2>1. CASE UNCHANGED <<core, ctx>>
    BY Zenon, <1>2, <1>3, <2>1 DEF Apart
  <2>2. CASE /\ p # nx /\ ctx[p] = NULL /\ ctx[nx] # NULL
             /\ core' = [core EXCEPT ![c] = ctx[nx]]
             /\ ctx' = [ctx EXCEPT ![p] = x, ![nx] = NULL]
    <3>1. \A d \in Cores : core'[d] = IF d = c THEN ctx[nx] ELSE core[d]
      BY Zenon, <1>2, <2>2 DEF TypeOK
    <3>2. \A s \in Slots : ctx'[s] = IF s = nx THEN NULL ELSE IF s = p THEN x ELSE ctx[s]
      BY Zenon, <1>2, <2>2 DEF TypeOK
    <3>3. c \in Cores /\ NULL \notin Tids /\ NULL < next_tid /\ x # NULL
      BY <1>2, Bounds DEF TypeOK
    <3>4. \A d \in Cores : core[d] \in Tids
      BY Zenon, <1>2 DEF TypeOK
    <3>5. QED
      <4>1. \A d \in Cores : core[d] = x => d = c
        BY Zenon, <1>1, <1>2, <3>3 DEF Apart
      <4>2. \A d \in Cores, s \in Slots : ctx[s] # core[d]
        BY Zenon, <1>2 DEF Apart
      <4>3. \A s, t \in Slots : ctx[s] = ctx[t] /\ ctx[s] # NULL => s = t
        BY Zenon, <1>2 DEF Apart
      <4>4. \A d, e \in Cores : core'[d] = core'[e] => d = e
        BY <1>2, <3>1, <4>2 DEF Apart
      <4>5. \A d \in Cores, s \in Slots : ctx'[s] # core'[d]
        <5> SUFFICES ASSUME NEW d \in Cores, NEW s \in Slots
                     PROVE  ctx'[s] # core'[d]
          BY Zenon
        <5>1. core'[d] # NULL
          BY Zenon, <2>2, <3>1, <3>3, <3>4
        <5>2. core'[d] # x
          BY Zenon, <1>1, <3>1, <3>3, <4>1, <4>2
        <5>3. s # nx => core'[d] # ctx[s]
          BY Zenon, <2>2, <3>1, <4>2, <4>3
        <5>4. QED
          BY Zenon, <3>2, <5>1, <5>2, <5>3
      <4>6. \A s, t \in Slots : ctx'[s] = ctx'[t] /\ ctx'[s] # NULL => s = t
        BY <1>1, <3>2, <3>3, <4>2, <4>3
      <4>7. \A d \in Cores : core'[d] < next_tid'
        BY Zenon, <1>2, <1>3, <3>1 DEF Apart
      <4>8. \A s \in Slots : ctx'[s] < next_tid'
        BY Zenon, <1>1, <1>2, <1>3, <3>2, <3>3 DEF Apart
      <4>9. QED
        BY Zenon, <1>2, <1>3, <4>4, <4>5, <4>6, <4>7, <4>8 DEF Apart
  <2>3. QED
    BY Zenon, <1>5, <2>1, <2>2
<1>15. Waiters' /\ Woken' /\ JoinedGone'
  <2>1. \A d \in Workers : pc[core[d]] = "asleep" => d # c /\ d \in Cores /\ core[d] \in Tids
    BY Zenon, <1>1, <1>2, <1>3, Bounds DEF TypeOK
  <2>2. \A d \in Workers : pc[core[d]] = "asleep" => core'[d] = core[d] /\ pc'[core[d]] = "asleep"
    BY Zenon, <1>3, <1>6, <1>10, <2>1
  <2>3. \A t \in Slots : MustWait(t)' <=> MustWait(t)
    BY Zenon, <1>3 DEF MustWait
  <2>4. next_tid \in Nat /\ next_tid' = next_tid
    BY <1>2, <1>3 DEF TypeOK
  <2>5. QED
    BY <1>2, <1>3, <2>2, <2>3, <2>4, QuietJoin DEF TInv
<1>16. QED
  BY Zenon, <1>13, <1>14, <1>15 DEF TInv, JInv

(* thread_yield() or thread_start() frees the zombie it was left with. *)
LEMMA Reaped ==
    ASSUME Facts, TInv, ~panic, NEW c \in Workers, NEW s \in Slots, ReapAfter(s),
           At(c, "back") \/ At(c, "start"),
           NEW l \in {"run", "down", "lost"}, l = "down" => core[c] \in Workers, Goto(c, l),
           panic' \in BOOLEAN,
           UNCHANGED <<ctx, next_tid, sched, joincond, exits, fence, wakeups, core, frame, joined>>
    PROVE  TInv'
<1>1. PICK x \in Tids : x = core[c]
  BY Zenon, Bounds DEF TInv, QInv, TypeOK
<1>2. TypeOK /\ Labelled /\ Apart /\ IdleSlots /\ Ready /\ Named /\ Current
  BY Zenon DEF TInv, QInv, JInv
<1>3. pc[x] \in {"back", "start"} /\ pc' = [pc EXCEPT ![x] = l]
  BY Zenon, <1>1 DEF At, Goto
<1>4. \A y \in Tids : pc'[y] = IF y = x THEN l ELSE pc[y]
  BY Zenon, <1>2, <1>3 DEF TypeOK
<1>5. pc' \in [Tids -> Labels]
  BY Zenon, <1>2, <1>3 DEF TypeOK, Labels
<1>6. Labelled'
  BY Zenon, <1>1, <1>2, <1>4 DEF Labelled
<1>7. QueueNotified'
  <2>1. /\ Cardinality(Yielding)' >= Cardinality(Yielding) /\ Cardinality(Yielding) \in Nat
        /\ Cardinality(Yielding)' \in Nat
    BY Zenon, <1>2, <1>3, YieldCount
  <2>2. sched.size <= sched.sem + Cardinality(Yielding)
    BY Zenon DEF TInv, QInv, QueueNotified, Yielding
  <2>3. sched.size \in Nat /\ sched.sem \in Nat
    BY Zenon, <1>2 DEF TypeOK
  <2>4. QED
    BY <2>1, <2>2, <2>3 DEF QueueNotified, Yielding
<1>8. /\ TypeOK' /\ Current' /\ Ready' /\ IdleSlots' /\ Named' /\ Chain(next, sched, Runnable)'
      /\ \A t \in Slots : MustWait(t) /\ tid[t] # NULL => MustWait(t)' /\ tid'[t] = tid[t]
      /\ \A t \in Slots : MustWait(t)' => MustWait(t)
      /\ \A t \in Slots : tid'[t] \in {tid[t], NULL}
      /\ \A t \in Slots : state[t] \in {"RUNNING", "TERMINATED"} =>
           coreid'[t] = coreid[t] /\ state'[t] = state[t]
  <2>1. CASE UNCHANGED <<stack, coreid, state, tid, nthreads, next>>
    <3>1. TypeOK'
      BY Zenon, <1>2, <1>5, <2>1 DEF TypeOK
    <3>2. Current' /\ Ready' /\ IdleSlots' /\ Named' /\ Chain(next, sched, Runnable)'
      BY Zenon, <2>1, SameTable DEF TInv
    <3>3. QED
      BY Zenon, <2>1, <3>1, <3>2 DEF MustWait
  <2>2. CASE next[s] # NULL /\ state[next[s]] = "ZOMBIE"
    <3>1. PICK z \in Slots : z = next[s] /\ state[z] = "ZOMBIE"
      BY Zenon, <1>2, <2>2 DEF TypeOK
    <3>2. /\ stack' = [stack EXCEPT ![z] = NULL] /\ coreid' = [coreid EXCEPT ![z] = NULL]
          /\ state' = [state EXCEPT ![z] = "NOT_STARTED"] /\ tid' = [tid EXCEPT ![z] = NULL]
          /\ nthreads' = nthreads - 1 /\ next' = [next EXCEPT ![s] = NULL]
      BY Zenon, <2>2, <3>1 DEF ReapAfter
    <3>3. TypeOK'
      BY <1>2, <1>5, <3>2 DEF TypeOK, States
    <3>4. \A t \in Slots : /\ coreid'[t] = IF t = z THEN NULL ELSE coreid[t]
                           /\ state'[t] = IF t = z THEN "NOT_STARTED" ELSE state[t]
                           /\ tid'[t] = IF t = z THEN NULL ELSE tid[t]
                           /\ next'[t] = IF t = s THEN NULL ELSE next[t]
      BY Zenon, <1>2, <3>2 DEF TypeOK
    <3>5. z \notin Cores
      BY Zenon, <1>2, <3>1 DEF IdleSlots
    <3>6. Current'
      BY <1>2, <3>1, <3>4 DEF Current, IsCurr
    <3>7. IdleSlots' /\ Named'
      BY <1>2, <3>1, <3>4, <3>5, Bounds DEF IdleSlots, Named
    <3>8. Runnable' = Runnable /\ z \notin Runnable
      <4>1. \A t \in Users : t \in Slots
        BY Zenon, Bounds
      <4>2. \A t \in Users : t # z => state'[t] = state[t] /\ tid'[t] = tid[t]
        BY Zenon, <3>4, <4>1
      <4>3. \A t \in Users : (state'[t] \in {"STARTED", "STOPPED"} /\ tid'[t] # NULL)
                               <=> (state[t] \in {"STARTED", "STOPPED"} /\ tid[t] # NULL)
        BY Zenon, <3>1, <3>4, <4>2
      <4>4. QED
        BY Zenon, <3>1, <4>3 DEF Runnable
    <3>9. Ready'
      <4>1. \A t \in Runnable : t \in Slots
        BY Zenon, Bounds DEF Runnable
      <4>2. QED
        BY Zenon, <1>2, <3>4, <3>8, <4>1 DEF Ready
    <3>10. Chain(next, sched, Runnable)
      BY Zenon DEF TInv, QInv
    <3>11. s \notin Runnable
      BY Zenon, <2>2, <3>1, <3>8, <3>10, ChainClosed
    <3>12. \A t \in Runnable : next'[t] = next[t]
      <4>1. \A t \in Runnable : t \in Slots
        BY Zenon, Bounds DEF Runnable
      <4>2. QED
        BY Zenon, <3>4, <3>11, <4>1
    <3>13. Chain(next', sched', Runnable')
      BY Zenon, <3>8, <3>10, <3>12, SameChain
    <3>14. QED
      BY Zenon, <3>1, <3>3, <3>4, <3>6, <3>7, <3>9, <3>13 DEF MustWait
  <2>3. QED
    BY Zenon, <2>1, <2>2 DEF ReapAfter
<1>9. QInv'
  BY Zenon, <1>6, <1>7, <1>8 DEF TInv, QInv
<1>10. Apart'
  <2>1. NULL < next_tid
    BY <1>2, Bounds DEF TypeOK
  <2>2. \A t \in Slots : tid'[t] < next_tid'
    BY Zenon, <1>2, <1>8, <2>1 DEF Apart
  <2>3. QED
    BY <1>2, <1>8, <2>2 DEF Apart
<1>11. Waiters' /\ Woken' /\ JoinedGone'
  <2>1. \A d \in Workers : pc[core[d]] = "asleep" => core[d] \in Tids /\ core[d] # x
    BY Zenon, <1>2, <1>3, Bounds DEF TypeOK
  <2>2. \A d \in Workers : pc[core[d]] = "asleep" => pc'[core[d]] = "asleep"
    BY Zenon, <1>4, <2>1
  <2>3. next_tid \in Nat /\ next_tid' = next_tid
    BY <1>2 DEF TypeOK
  <2>4. QED
    BY <1>2, <1>8, <2>2, <2>3, QuietJoin, Bounds DEF TInv
<1>12. QED
  BY Zenon, <1>9, <1>10, <1>11 DEF TInv, JInv

LEMMA StepReap ==
    ASSUME Facts, TInv, ~panic, NEW c \in Workers, YieldReap(c) \/ Start(c)
    PROVE  TInv'
<1>1. core[c] \in Tids /\ Labelled /\ Current /\ panic \in BOOLEAN
  BY Zenon, Bounds DEF TInv, QInv, TypeOK
<1>2. CASE YieldReap(c)
  <2>1. /\ At(c, "back") /\ ReapAfter(frame[core[c]].curr) /\ Goto(c, frame[core[c]].ret)
        /\ panic' \in BOOLEAN
        /\ UNCHANGED <<ctx, next_tid, sched, joincond, exits, fence, wakeups, core, frame, joined>>
    BY Zenon, <1>2 DEF YieldReap
  <2>2. PICK s \in Slots, l \in {"run", "down", "lost"} :
           s = frame[core[c]].curr /\ l = frame[core[c]].ret /\ (l = "down" => core[c] \in Workers)
    BY Zenon, <1>1, <2>1 DEF Labelled, At, Returns
  <2>3. QED
    BY Zenon, <2>1, <2>2, Reaped
<1>3. CASE Start(c)
  <2>1. PICK s \in Slots : IsCurr(c, s)
    BY Zenon, <1>1, Bounds DEF Current
  <2>2. thread_get_curr(c) = s
    BY Zenon, <2>1, CurrIs, Bounds
  <2>3. /\ At(c, "start") /\ ReapAfter(s) /\ Goto(c, "run") /\ panic' \in BOOLEAN
        /\ UNCHANGED <<ctx, next_tid, sched, joincond, exits, fence, wakeups, core, frame, joined>>
    BY Zenon, <1>1, <1>3, <2>2 DEF Start
  <2>4. QED
    BY Zenon, <2>3, Reaped
<1>4. QED
  BY Zenon, <1>2, <1>3

-----------------------------------------------------------------------------
ExitsType ==
    [entry : [Ring -> [tid : Tids \cup {NoTid}, retval : Tids \cup {NoValue}]], next : Ring]

(* thread_search_retval() *)
LEMMA SearchType ==
    ASSUME Facts, NEW e \in ExitsType, NEW id
    PROVE  SearchRetval(e, id) \in Tids \cup {NoValue}
<1> DEFINE found == {k \in Ring : e.entry[k].tid = id}
<1>1. CASE found = {}
  BY Zenon, <1>1 DEF SearchRetval
<1>2. CASE found # {}
  <2>1. \E k \in found : \A l \in found : k <= l
    <3>1. found \in SUBSET Nat
      BY ExitAssumption DEF Ring
    <3>2. QED
      BY <1>2, <3>1, Zenon DEF Facts
  <2>2. (CHOOSE k \in found : \A l \in found : k <= l) \in found
    BY Zenon, <2>1
  <2>3. QED
    BY Zenon, <1>2, <2>2 DEF SearchRetval, ExitsType
<1>3. QED
  BY Zenon, <1>1, <1>2

(* thread_save_retval() *)
LEMMA SaveType ==
    ASSUME NEW e \in ExitsType, NEW id \in Tids \cup {NoTid}, NEW v \in Tids \cup {NoValue}
    PROVE  SaveRetval(e, id, v) \in ExitsType
<1>1. e.next \in Ring /\ (e.next + 1) % KTHREAD_EXIT_VALUE_NUM \in Ring
  BY ExitAssumption DEF ExitsType, Ring
<1>2. [e.entry EXCEPT ![e.next] = [tid |-> id, retval |-> v]]
        \in [Ring -> [tid : Tids \cup {NoTid}, retval : Tids \cup {NoValue}]]
  BY Zenon, <1>1 DEF ExitsType
<1>3. QED
  BY Zenon, <1>1, <1>2 DEF SaveRetval, ExitsType

(* thread_join() returns for a thread that is gone. *)
LEMMA Returned ==
    ASSUME Facts, TypeOK, JInv, NEW x \in Tids, NEW id, Gone(id),
           UNCHANGED <<state, tid, next_tid>>,
           joined' = [joined EXCEPT ![x] = [tid |-> id, retval |-> SearchRetval(exits, id)]]
    PROVE  /\ joined' \in [Tids -> [tid : Tids \cup {NULL}, retval : Tids \cup {NoValue}]]
           /\ JoinedGone'
<1>1. SearchRetval(exits, id) \in Tids \cup {NoValue}
  <2>1. exits \in ExitsType
    BY Zenon DEF TypeOK, ExitsType
  <2>2. QED
    BY Zenon, <2>1, SearchType
<1>2. joined \in [Tids -> [tid : Tids \cup {NULL}, retval : Tids \cup {NoValue}]] /\ id \in Tids
  BY Zenon DEF TypeOK, Gone
<1>3. joined' \in [Tids -> [tid : Tids \cup {NULL}, retval : Tids \cup {NoValue}]]
  BY Zenon, <1>1, <1>2
<1>4. \A y \in Tids : joined'[y].tid = IF y = x THEN id ELSE joined[y].tid
  BY Zenon, <1>2
<1>5. \A i : Gone(i) => Gone(i)'
  BY Zenon DEF Gone, MustWait
<1>6. ASSUME NEW y \in Tids, joined'[y].tid # NULL
      PROVE  Gone(joined[y].tid)'
  <2>1. PICK i : i = joined'[y].tid
    BY Zenon
  <2>2. Gone(i)
    BY Zenon, <1>4, <1>6, <2>1 DEF JInv, JoinedGone
  <2>3. QED
    BY Zenon, <1>5, <2>1, <2>2 DEF Gone
<1>7. QED
  BY Zenon, <1>3, <1>6 DEF JoinedGone

(* A core wakes up in thread_join(). *)
LEMMA StepWoken ==
    ASSUME Facts, TInv, ~panic, NEW c \in Workers, JoinWoken(c)
    PROVE  TInv'
<1>1. PICK x \in Tids : x = core[c]
  BY Zenon, Bounds DEF TInv, QInv, TypeOK
<1>2. TypeOK /\ Labelled /\ Apart /\ Woken /\ Waiters /\ JInv /\ c \in Cores
  BY Zenon, Bounds DEF TInv, QInv, JInv
<1>3. /\ pc[x] = "asleep" /\ wakeups[c] > 0 /\ wakeups' = [wakeups EXCEPT ![c] = @ - 1]
      /\ joined' = [joined EXCEPT ![x] = [tid |-> frame[x].tid,
                                          retval |-> SearchRetval(exits, frame[x].tid)]]
      /\ pc' = [pc EXCEPT ![x] = "run"]
      /\ UNCHANGED <<state, tid, coreid, next, ctx, stack, nthreads, next_tid, sched, joincond,
                     exits, fence, core, frame, panic>>
  BY Zenon, <1>1 DEF JoinWoken, JoinReturns, At, Goto, table
<1>4. wakeups[c] = 1 /\ Gone(frame[x].tid)
  BY <1>1, <1>2, <1>3 DEF Woken
<1>5. PICK id : id = frame[x].tid
  BY Zenon
<1>6. /\ joined' \in [Tids -> [tid : Tids \cup {NULL}, retval : Tids \cup {NoValue}]]
      /\ JoinedGone'
  BY Zenon, <1>2, <1>3, <1>4, <1>5, Returned
<1>7. \A d \in Cores : wakeups'[d] = IF d = c THEN 0 ELSE wakeups[d]
  BY <1>2, <1>3, <1>4 DEF TypeOK
<1>8. \A y \in Tids : pc'[y] = IF y = x THEN "run" ELSE pc[y]
  BY Zenon, <1>2, <1>3 DEF TypeOK
<1>9. TypeOK'
  <2>1. wakeups' \in [Cores -> Nat]
    BY <1>2, <1>3, <1>4 DEF TypeOK
  <2>2. pc' \in [Tids -> Labels]
    BY Zenon, <1>2, <1>3 DEF TypeOK, Labels
  <2>3. QED
    BY Zenon, <1>2, <1>3, <1>6, <2>1, <2>2 DEF TypeOK
<1>10. Current' /\ Ready' /\ IdleSlots' /\ Named' /\ Chain(next, sched, Runnable)'
  BY Zenon, <1>3, SameTable DEF TInv
<1>11. Labelled'
  BY <1>2, <1>3, <1>8 DEF Labelled
<1>12. QueueNotified'
  <2>1. /\ Cardinality(Yielding)' >= Cardinality(Yielding) /\ Cardinality(Yielding) \in Nat
        /\ Cardinality(Yielding)' \in Nat
    BY Zenon, <1>2, <1>3, YieldCount
  <2>2. sched.size <= sched.sem + Cardinality(Yielding)
    BY Zenon DEF TInv, QInv, QueueNotified, Yielding
  <2>3. sched.size \in Nat /\ sched.sem \in Nat
    BY Zenon, <1>2 DEF TypeOK
  <2>4. QED
    BY <1>3, <2>1, <2>2, <2>3 DEF QueueNotified, Yielding
<1>13. Apart'
  BY Zenon, <1>2, <1>3 DEF Apart
<1>14. \A d \in Workers : d # c => core[d] \in Tids /\ core[d] # x /\ d \in Cores
  BY Zenon, <1>1, <1>2, Bounds DEF TypeOK, Apart
<1>15. Waiters'
  <2> SUFFICES ASSUME NEW t \in Slots, NEW k \in DOMAIN joincond[t]
               PROVE  MustWait(t)' /\ tid'[t] # NULL /\ Waits(t, joincond[t][k])'
    BY Zenon, <1>3 DEF Waiters
  <2>1. MustWait(t) /\ tid[t] # NULL /\ Waits(t, joincond[t][k])
    BY Zenon, <1>2 DEF Waiters
  <2>2. PICK d \in Workers :
           /\ coreid[joincond[t][k]] = d /\ state[joincond[t][k]] \in {"RUNNING", "TERMINATED"}
           /\ pc[core[d]] = "asleep" /\ wakeups[d] = 0 /\ frame[core[d]].tid = tid[t]
    BY Zenon, <2>1 DEF Waits
  <2>3. d # c
    BY <1>4, <2>2
  <2>4. pc'[core[d]] = "asleep" /\ wakeups'[d] = 0
    BY ZenonT(60), <1>7, <1>8, <1>14, <2>2, <2>3
  <2>5. QED
    BY Zenon, <1>3, <2>1, <2>2, <2>4 DEF Waits, MustWait
<1>16. Woken'
  <2>1. \A i : Gone(i) => Gone(i)'
    BY Zenon, <1>3 DEF Gone, MustWait
  <2>2. QED
    BY <1>2, <1>3, <1>7, <1>8, <1>14, <2>1 DEF Woken
<1>17. QED
  BY Zenon, <1>3, <1>6, <1>9, <1>10, <1>11, <1>12, <1>13, <1>15, <1>16 DEF TInv, QInv, JInv

(* cond_wait() puts the caller in front of those that wait already. *)
LEMMA InFront ==
    ASSUME NEW S, NEW q \in Seq(S), NEW a \in S
    PROVE  /\ <<a>> \o q \in Seq(S)
           /\ \A k \in DOMAIN (<<a>> \o q) :
                (<<a>> \o q)[k] = a \/ \E j \in DOMAIN q : (<<a>> \o q)[k] = q[j]
<1>1. Len(q) \in Nat /\ DOMAIN q = 1 .. Len(q)
  OBVIOUS
<1>2. <<a>> \o q \in Seq(S) /\ Len(<<a>> \o q) = Len(q) + 1
  OBVIOUS
<1>3. \A k \in 1 .. Len(q) + 1 : (<<a>> \o q)[k] = IF k = 1 THEN a ELSE q[k - 1]
  OBVIOUS
<1>4. DOMAIN (<<a>> \o q) = 1 .. Len(q) + 1
  BY <1>2
<1>5. \A k \in 1 .. Len(q) + 1 : k # 1 => k - 1 \in DOMAIN q
  BY <1>1
<1>6. QED
  BY Zenon, <1>2, <1>3, <1>4, <1>5

(* thread_join() is called. *)
LEMMA StepJoin ==
    ASSUME Facts, TInv, ~panic, NEW c \in Workers, NEW id \in Tids, Join(c, id)
    PROVE  TInv'
<1>1. PICK x \in Tids : x = core[c]
  BY Zenon, Bounds DEF TInv, QInv, TypeOK
<1>2. TypeOK /\ Labelled /\ Apart /\ Woken /\ Waiters /\ JInv /\ c \in Cores /\ Current /\ Ready
  BY Zenon, Bounds DEF TInv, QInv, JInv
<1>3. PICK curr \in Slots : IsCurr(c, curr) /\ thread_get_curr(c) = curr
  BY Zenon, <1>2, CurrIs DEF Current
<1>4. /\ pc[x] = "run" /\ id < next_tid
      /\ UNCHANGED <<state, tid, coreid, ctx, stack, nthreads, next_tid, sched, exits,
                     fence, wakeups, core, panic>>
  <2>1. id \in CORES_NUM .. next_tid - 1 /\ next_tid \in Nat
    BY <1>2 DEF Join, Joinable, TypeOK
  <2>2. id < next_tid
    BY <2>1, Bounds
  <2>3. QED
    BY Zenon, <1>1, <2>2 DEF Join, At
<1>5. wakeups[c] = 0
  BY Zenon, <1>1, <1>2, <1>4 DEF Woken
<1>6. \A d \in Workers : pc[core[d]] = "asleep" => core[d] \in Tids /\ core[d] # x /\ d \in Cores
  BY Zenon, <1>1, <1>2, <1>4, Bounds DEF TypeOK
<1>7. \A i : Gone(i) => Gone(i)'
  BY Zenon, <1>4 DEF Gone, MustWait
<1>8. CASE \E s \in {t \in Slots : tid[t] = id} :
             /\ MustWait(s)
             /\ next' = [next EXCEPT ![curr] = IF joincond[s] = <<>> THEN NULL
                                               ELSE Head(joincond[s])]
             /\ joincond' = [joincond EXCEPT ![s] = <<curr>> \o @]
             /\ frame' = [frame EXCEPT ![x].tid = id]
             /\ pc' = [pc EXCEPT ![x] = "asleep"]
             /\ joined' = joined
  <2> DEFINE Put(s, nx) ==
        /\ MustWait(s) /\ tid[s] = id
        /\ nx = IF joincond[s] = <<>> THEN NULL ELSE Head(joincond[s])
        /\ next' = [next EXCEPT ![curr] = nx]
        /\ joincond' = [joincond EXCEPT ![s] = <<curr>> \o @]
        /\ frame' = [frame EXCEPT ![x].tid = id]
        /\ pc' = [pc EXCEPT ![x] = "asleep"]
        /\ joined' = joined
  <2>1. PICK s \in Slots, nx \in Slots \cup {NULL} : Put(s, nx)
    <3>1. PICK s \in {t \in Slots : tid[t] = id} :
               /\ MustWait(s)
               /\ next' = [next EXCEPT ![curr] = IF joincond[s] = <<>> THEN NULL
                                                 ELSE Head(joincond[s])]
               /\ joincond' = [joincond EXCEPT ![s] = <<curr>> \o @]
               /\ frame' = [frame EXCEPT ![x].tid = id]
               /\ pc' = [pc EXCEPT ![x] = "asleep"]
               /\ joined' = joined
      BY Zenon, <1>8
    <3> DEFINE nx == IF joincond[s] = <<>> THEN NULL ELSE Head(joincond[s])
    <3>2. nx \in Slots \cup {NULL}
      BY <1>2, <3>1 DEF TypeOK
    <3>3. Put(s, nx)
      BY Zenon, <3>1
    <3>4. QED
      BY Zenon, <3>1, <3>2, <3>3
  <2>2. joincond[s] \in Seq(Slots) /\ nx \in Slots \cup {NULL}
    BY Zenon, <1>2, <2>1 DEF TypeOK
  <2>3. /\ <<curr>> \o joincond[s] \in Seq(Slots)
        /\ \A k \in DOMAIN (<<curr>> \o joincond[s]) :
             \/ (<<curr>> \o joincond[s])[k] = curr
             \/ \E j \in DOMAIN joincond[s] : (<<curr>> \o joincond[s])[k] = joincond[s][j]
    BY <2>2, InFront
  <2>4. \A y \in Tids : pc'[y] = IF y = x THEN "asleep" ELSE pc[y]
    BY Zenon, <1>2, <2>1 DEF TypeOK
  <2>5. /\ frame' \in [Tids -> FrameType]
        /\ \A y \in Tids : /\ frame'[y].tid = IF y = x THEN id ELSE frame[y].tid
                           /\ frame'[y].curr = frame[y].curr /\ frame'[y].next = frame[y].next
                           /\ frame'[y].ret = frame[y].ret
    <3>1. frame \in [Tids -> FrameType] /\ \A y \in Tids : frame[y] \in FrameType
      BY Zenon, <1>2 DEF TypeOK, FrameType
    <3>2. \A y \in Tids : frame'[y] = IF y = x THEN [frame[x] EXCEPT !.tid = id] ELSE frame[y]
      BY Zenon, <2>1, <3>1
    <3>3. frame' \in [Tids -> FrameType]
      BY <2>1, <3>1 DEF FrameType
    <3>4. QED
      BY <3>1, <3>2, <3>3 DEF FrameType
  <2>6. TypeOK'
    <3>1. joincond' \in [Slots -> Seq(Slots)]
      BY Zenon, <1>2, <2>1, <2>3 DEF TypeOK
    <3>2. next' \in [Slots -> Slots \cup {NULL}]
      BY Zenon, <1>2, <2>1, <2>2 DEF TypeOK
    <3>3. pc' \in [Tids -> Labels]
      BY Zenon, <1>2, <2>1 DEF TypeOK, Labels
    <3>4. QED
      BY Zenon, <1>2, <1>4, <2>1, <2>5, <3>1, <3>2, <3>3 DEF TypeOK, FrameType
  <2>7. Current' /\ Ready' /\ IdleSlots' /\ Named'
    BY <1>4 DEF TInv, QInv, Current, IsCurr, Ready, Runnable, IdleSlots, Named
  <2>8. Chain(next, sched, Runnable)'
    <3>1. curr \notin Runnable
      BY Zenon, <1>2, <1>3, Bounds DEF Ready, IsCurr
    <3>2. \A t \in Runnable : t \in Slots
      BY Zenon, Bounds DEF Runnable
    <3>3. \A t \in Runnable : next'[t] = next[t]
      BY Zenon, <1>2, <2>1, <3>1, <3>2 DEF TypeOK
    <3>4. Runnable' = Runnable /\ sched' = sched
      BY Zenon, <1>4 DEF Runnable
    <3>5. Chain(next, sched, Runnable)
      BY Zenon DEF TInv, QInv
    <3>6. Chain(next', sched', Runnable')
      BY Zenon, <3>3, <3>4, <3>5, SameChain
    <3>7. QED
      BY Zenon, <3>6
  <2>9. Labelled'
    BY Zenon, <1>2, <1>4, <2>4, <2>5 DEF Labelled, Returns
  <2>10. QueueNotified'
    <3>1. /\ Cardinality(Yielding)' >= Cardinality(Yielding) /\ Cardinality(Yielding) \in Nat
          /\ Cardinality(Yielding)' \in Nat
      BY Zenon, <1>2, <1>4, <2>1, YieldCount
    <3>2. sched.size <= sched.sem + Cardinality(Yielding)
      BY Zenon DEF TInv, QInv, QueueNotified, Yielding
    <3>3. sched.size \in Nat /\ sched.sem \in Nat
      BY Zenon, <1>2 DEF TypeOK
    <3>4. QED
      BY <1>4, <3>1, <3>2, <3>3 DEF QueueNotified, Yielding
  <2>11. Apart'
    BY Zenon, <1>2, <1>4 DEF Apart
  <2>12. Waiters'
    <3>1. Waits(s, curr)'
      <4>1. coreid'[curr] = c /\ state'[curr] \in {"RUNNING", "TERMINATED"}
        BY Zenon, <1>3, <1>4 DEF IsCurr
      <4>2. pc'[core'[c]] = "asleep" /\ wakeups'[c] = 0 /\ frame'[core'[c]].tid = tid'[s]
        BY SMTT(60), <1>1, <1>4, <1>5, <2>1, <2>4, <2>5
      <4>3. QED
        BY Zenon, <4>1, <4>2 DEF Waits
    <3>2. \A t \in Slots, r \in Slots : Waits(t, r) => Waits(t, r)'
      BY <1>4, <1>6, <2>4, <2>5 DEF Waits
    <3>3. \A t \in Slots : joincond'[t] = IF t = s THEN <<curr>> \o joincond[s] ELSE joincond[t]
      BY Zenon, <1>2, <2>1 DEF TypeOK
    <3>4. \A t \in Slots : MustWait(t)' <=> MustWait(t)
      BY Zenon, <1>4 DEF MustWait
    <3> SUFFICES ASSUME NEW t \in Slots, NEW k \in DOMAIN joincond'[t]
                 PROVE  MustWait(t)' /\ tid'[t] # NULL /\ Waits(t, joincond[t][k])'
      BY Zenon DEF Waiters
    <3>5. PICK r \in Slots : r = joincond'[t][k]
      BY <2>6 DEF TypeOK
    <3>6. (t = s /\ r = curr) \/ \E j \in DOMAIN joincond[t] : r = joincond[t][j]
      BY Zenon, <2>3, <3>3, <3>5
    <3>7. MustWait(t) /\ tid[t] # NULL /\ Waits(t, r)'
      BY Zenon, <1>2, <2>1, <3>1, <3>2, <3>6, Bounds DEF Waiters
    <3>8. QED
      BY Zenon, <1>4, <3>4, <3>5, <3>7 DEF Waits
  <2>13. Woken'
    <3> SUFFICES ASSUME NEW d \in Cores
                 PROVE  /\ wakeups'[d] \in {0, 1}
                        /\ wakeups'[d] = 1 => /\ d \in Workers /\ pc'[core'[d]] = "asleep"
                                              /\ Gone(frame[core[d]].tid)'
      BY Zenon DEF Woken
    <3>1. wakeups'[d] \in {0, 1}
      BY Zenon, <1>2, <1>4 DEF Woken
    <3>2. ASSUME wakeups'[d] = 1
          PROVE  d \in Workers /\ pc'[core'[d]] = "asleep" /\ Gone(frame[core[d]].tid)'
      <4>1. d \in Workers /\ pc[core[d]] = "asleep" /\ Gone(frame[core[d]].tid)
        BY Zenon, <1>2, <1>4, <3>2 DEF Woken
      <4>2. core'[d] = core[d] /\ pc'[core[d]] = "asleep" /\ frame'[core[d]].tid = frame[core[d]].tid
        BY Zenon, <1>4, <1>6, <2>4, <2>5, <4>1
      <4>3. PICK i : i = frame[core[d]].tid
        BY Zenon
      <4>4. Gone(i)'
        BY Zenon, <1>7, <4>1, <4>3
      <4>5. QED
        BY Zenon, <4>1, <4>2, <4>3, <4>4 DEF Gone
    <3>3. QED
      BY Zenon, <3>1, <3>2
  <2>14. JoinedGone'
    <3> SUFFICES ASSUME NEW y \in Tids, joined'[y].tid # NULL
                 PROVE  Gone(joined[y].tid)'
      BY Zenon DEF JoinedGone
    <3>1. PICK i : i = joined[y].tid
      BY Zenon
    <3>2. Gone(i)'
      BY Zenon, <1>2, <1>7, <2>1, <3>1 DEF JInv, JoinedGone
    <3>3. QED
      BY Zenon, <2>1, <3>1, <3>2 DEF Gone
  <2>15. QED
    BY Zenon, <1>4, <2>6, <2>7, <2>8, <2>9, <2>10, <2>11, <2>12, <2>13, <2>14 DEF TInv, QInv, JInv
<1>9. CASE /\ \A s \in {t \in Slots : tid[t] = id} : ~MustWait(s)
           /\ joined' = [joined EXCEPT ![x] = [tid |-> id, retval |-> SearchRetval(exits, id)]]
           /\ pc' = [pc EXCEPT ![x] = "run"]
           /\ UNCHANGED <<next, joincond, frame>>
  <2>1. Gone(id)
    BY Zenon, <1>4, <1>9 DEF Gone
  <2>2. /\ joined' \in [Tids -> [tid : Tids \cup {NULL}, retval : Tids \cup {NoValue}]]
        /\ JoinedGone'
    BY Zenon, <1>2, <1>4, <1>9, <2>1, Returned
  <2>3. pc' = pc
    BY Zenon, <1>2, <1>4, <1>9 DEF TypeOK
  <2>4. TypeOK'
    BY SMTT(60), <1>2, <1>4, <1>9, <2>2, <2>3 DEF TypeOK
  <2>5. Current' /\ Ready' /\ IdleSlots' /\ Named' /\ Chain(next, sched, Runnable)'
    BY Zenon, <1>4, <1>9, SameTable DEF TInv
  <2>6. Labelled' /\ QueueNotified'
    BY Zenon, <1>4, <1>9, <2>3 DEF TInv, QInv, Labelled, QueueNotified
  <2>7. Apart' /\ Waiters' /\ Woken'
    <3>1. Apart'
      BY Zenon, <1>2, <1>4 DEF Apart
    <3>2. Waiters'
      <4>1. UNCHANGED <<state, tid, coreid, joincond, wakeups, core, frame, pc>>
        BY Zenon, <1>4, <1>9, <2>3
      <4>2. \A t, s : (Waits(t, s) => Waits(t, s)') /\ (MustWait(t) => MustWait(t)')
        BY Zenon, <4>1 DEF Waits, MustWait
      <4>3. QED
        BY Zenon, <1>2, <4>1, <4>2 DEF Waiters
    <3>3. Woken'
      BY Zenon, <1>2, <1>4, <1>7, <1>9, <2>3 DEF Woken
    <3>4. QED
      BY Zenon, <3>1, <3>2, <3>3
  <2>8. QED
    BY Zenon, <1>4, <2>2, <2>4, <2>5, <2>6, <2>7 DEF TInv, QInv, JInv
<1>10. QED
  BY Zenon, <1>1, <1>3, <1>8, <1>9 DEF Join, JoinReturns, Goto

-----------------------------------------------------------------------------
(* thread_exit(): every core that sleeps for the thread gets one wake-up. *)
LEMMA StepExit ==
    ASSUME Facts, TInv, ~panic, NEW c \in Workers, NEW retval \in {NoValue, core[c]},
           Exit(c, retval)
    PROVE  TInv'
<1>1. PICK x \in Tids : x = core[c]
  BY Zenon, Bounds DEF TInv, QInv, TypeOK
<1>2. /\ TypeOK /\ Labelled /\ Apart /\ Woken /\ Waiters /\ JInv /\ c \in Cores
      /\ Current /\ Ready /\ IdleSlots /\ Named
  BY Zenon, Bounds DEF TInv, QInv, JInv
<1>3. PICK curr \in Slots : IsCurr(c, curr) /\ thread_get_curr(c) = curr
  BY Zenon, <1>2, CurrIs DEF Current
<1> DEFINE woken == {joincond[curr][k] : k \in DOMAIN joincond[curr]}
           Wd(d) == {s \in woken : coreid[s] = d}
<1>4. /\ pc[x] = "run" /\ panic' = (curr \notin Users)
      /\ exits' = SaveRetval(exits, tid[curr], retval)
      /\ state' = [state EXCEPT ![curr] = "TERMINATED"]
      /\ wakeups' = [d \in Cores |-> wakeups[d] + Cardinality(Wd(d))]
      /\ joincond' = [joincond EXCEPT ![curr] = <<>>]
      /\ pc' = [pc EXCEPT ![x] = "yield"] /\ frame' = [frame EXCEPT ![x].ret = "lost"]
      /\ UNCHANGED <<tid, coreid, next, ctx, stack, nthreads, next_tid, sched, fence, core, joined>>
  BY Zenon, <1>1, <1>3 DEF Exit, At, CallYield
<1>5. \A y \in Tids : pc'[y] = IF y = x THEN "yield" ELSE pc[y]
  BY Zenon, <1>2, <1>4 DEF TypeOK
<1>6. /\ frame' \in [Tids -> FrameType]
      /\ \A y \in Tids : /\ frame'[y].curr = frame[y].curr /\ frame'[y].next = frame[y].next
                         /\ frame'[y].tid = frame[y].tid
                         /\ Returns(frame', y)
  BY Zenon, <1>2, <1>4, FrameReturn
<1>7. \A t \in Slots : /\ state'[t] = IF t = curr THEN "TERMINATED" ELSE state[t]
                       /\ joincond'[t] = IF t = curr THEN <<>> ELSE joincond[t]
  BY Zenon, <1>2, <1>4 DEF TypeOK
<1>8. coreid[curr] = c /\ state[curr] \in {"RUNNING", "TERMINATED"}
  BY Zenon, <1>3 DEF IsCurr
<1>9. \A d \in Workers : pc[core[d]] = "asleep" => core[d] \in Tids /\ core[d] # x /\ d \in Cores
  BY Zenon, <1>1, <1>2, <1>4, Bounds DEF TypeOK
<1>10. \A d \in Workers : pc[core[d]] = "asleep" =>
          /\ core'[d] = core[d] /\ pc'[core[d]] = "asleep"
          /\ frame'[core[d]].tid = frame[core[d]].tid
  BY <1>4, <1>5, <1>6, <1>9
<1>11. \A i : Gone(i) => Gone(i)'
  BY Zenon, <1>4, <1>7 DEF Gone, MustWait
<1>12. tid[curr] # NULL => Gone(tid[curr])'
  <2>1. ASSUME tid[curr] # NULL
        PROVE  tid'[curr] \in Tids /\ tid'[curr] < next_tid' /\ \A s \in Slots :
                 tid'[s] = tid'[curr] => state'[s] = "TERMINATED"
    BY <1>2, <1>4, <1>7, <2>1 DEF TypeOK, Apart
  <2>2. QED
    BY Zenon, <2>1 DEF Gone, MustWait
(* Who waits for the thread is alone on its core. *)
<1>13. ASSUME NEW d \in Cores, NEW q \in Wd(d)
       PROVE  /\ Wd(d) = {q} /\ d \in Workers /\ wakeups[d] = 0 /\ tid[curr] # NULL
              /\ pc[core[d]] = "asleep" /\ frame[core[d]].tid = tid[curr]
  <2>1. \A r \in Wd(d) : r \in Slots /\ Waits(curr, r) /\ coreid[r] = d /\ tid[curr] # NULL
    BY <1>2 DEF Waiters, TypeOK
  <2>2. \A r \in Wd(d) : state[r] \in {"RUNNING", "TERMINATED"}
    BY Zenon, <2>1 DEF Waits
  <2>3. PICK s \in Slots : IsCurr(d, s)
    BY Zenon, <1>2 DEF Current
  <2>4. \A r \in Wd(d) : r = s
    BY Zenon, <2>1, <2>2, <2>3 DEF IsCurr
  <2> HIDE DEF Wd
  <2>5. QED
    BY SMTT(60), <1>13, <2>1, <2>4 DEF Waits
<1>14. \A d \in Cores : \/ Wd(d) = {} /\ wakeups'[d] = wakeups[d]
                        \/ Wd(d) # {} /\ wakeups[d] = 0 /\ wakeups'[d] = 1
  <2> SUFFICES ASSUME NEW d \in Cores
               PROVE  \/ Wd(d) = {} /\ wakeups'[d] = wakeups[d]
                      \/ Wd(d) # {} /\ wakeups[d] = 0 /\ wakeups'[d] = 1
    BY Zenon
  <2>1. wakeups'[d] = wakeups[d] + Cardinality(Wd(d)) /\ wakeups[d] \in Nat
    BY Zenon, <1>2, <1>4 DEF TypeOK
  <2>2. CASE Wd(d) = {}
    <3> HIDE DEF Wd
    <3>1. Cardinality(Wd(d)) = 0
      BY Zenon, <2>2 DEF Facts
    <3>2. QED
      BY <2>1, <2>2, <3>1
  <2>3. ASSUME NEW q \in Wd(d)
        PROVE  wakeups[d] = 0 /\ wakeups'[d] = 1
    <3>1. Wd(d) = {q} /\ wakeups[d] = 0
      BY Zenon, <1>13, <2>3
    <3> HIDE DEF Wd
    <3>2. Cardinality(Wd(d)) = 1
      BY Zenon, <3>1 DEF Facts
    <3>3. QED
      BY <2>1, <3>1, <3>2
  <2>4. QED
    BY Zenon, <2>2, <2>3
<1> HIDE DEF Wd
<1>15. TypeOK'
  <2>1. exits' \in ExitsType
    <3>1. exits \in ExitsType /\ tid[curr] \in Tids \cup {NoTid} /\ retval \in Tids \cup {NoValue}
      BY Zenon, <1>1, <1>2 DEF TypeOK, ExitsType, NULL, NoTid
    <3>2. QED
      BY Zenon, <1>4, <3>1, SaveType
  <2>2. wakeups' \in [Cores -> Nat]
    <3>1. \A d \in Cores : wakeups'[d] \in Nat
      <4>1. \A d \in Cores : wakeups[d] \in Nat
        BY Zenon, <1>2 DEF TypeOK
      <4>2. \A d \in Cores : wakeups'[d] = wakeups[d] \/ wakeups'[d] = 1
        BY Zenon, <1>14
      <4>3. QED
        BY <4>1, <4>2
    <3>2. wakeups' = [d \in Cores |-> wakeups'[d]]
      BY Zenon, <1>4
    <3>3. QED
      BY Zenon, <3>1, <3>2
  <2>3. state' \in [Slots -> States]
    BY Zenon, <1>2, <1>4 DEF TypeOK, States
  <2>4. pc' \in [Tids -> Labels]
    BY Zenon, <1>2, <1>4 DEF TypeOK, Labels
  <2>5. joincond' \in [Slots -> Seq(Slots)]
    BY <1>2, <1>4 DEF TypeOK
  <2>6. QED
    BY Zenon, <1>2, <1>4, <1>6, <2>1, <2>2, <2>3, <2>4, <2>5 DEF TypeOK, FrameType, ExitsType
<1>16. Current'
  BY <1>2, <1>4, <1>7, <1>8 DEF Current, IsCurr
<1>17. IdleSlots' /\ Named'
  <2>1. IdleSlots'
    <3> SUFFICES ASSUME NEW d \in Cores
                 PROVE  /\ coreid'[d] = d /\ tid'[d] = d
                        /\ state'[d] \in {"RUNNING", "STOPPED", "TERMINATED"}
                        /\ state'[d] = "TERMINATED" => panic'
      BY Zenon DEF IdleSlots
    <3>1. d \in Slots /\ d \notin Users
      BY Zenon, Bounds
    <3>2. coreid[d] = d /\ tid[d] = d /\ state[d] \in {"RUNNING", "STOPPED"}
      BY Zenon, <1>2 DEF IdleSlots
    <3>3. QED
      BY Zenon, <1>4, <1>7, <3>1, <3>2
  <2>2. \A t \in Users : t \in Slots
    BY Zenon, Bounds
  <2>3. Named'
    BY Zenon, <1>2, <1>4, <1>7, <1>8, <2>2 DEF Named
  <2>4. QED
    BY Zenon, <2>1, <2>3
<1>18. Ready' /\ Chain(next, sched, Runnable)'
  <2>1. curr \notin Runnable /\ \A t \in Users : t \in Slots
    BY Zenon, <1>2, <1>8, Bounds DEF Ready
  <2>2. Runnable' = Runnable
    BY <1>4, <1>7, <2>1 DEF Runnable
  <2>3. Chain(next, sched, Runnable)
    BY Zenon DEF TInv, QInv
  <2>4. Chain(next', sched', Runnable')
    BY Zenon, <1>4, <2>2, <2>3
  <2>5. QED
    BY Zenon, <1>2, <1>4, <2>2, <2>4 DEF Ready
<1>19. Labelled'
  BY Zenon, <1>2, <1>5, <1>6 DEF Labelled
<1>20. QueueNotified'
  <2>1. /\ Cardinality(Yielding)' >= Cardinality(Yielding) /\ Cardinality(Yielding) \in Nat
        /\ Cardinality(Yielding)' \in Nat
    BY Zenon, <1>2, <1>4, YieldCount
  <2>2. sched.size <= sched.sem + Cardinality(Yielding)
    BY Zenon DEF TInv, QInv, QueueNotified, Yielding
  <2>3. sched.size \in Nat /\ sched.sem \in Nat
    BY Zenon, <1>2 DEF TypeOK
  <2>4. QED
    BY <1>4, <2>1, <2>2, <2>3 DEF QueueNotified, Yielding
<1>21. Apart'
  BY Zenon, <1>2, <1>4 DEF Apart
<1>22. Waiters'
  <2> SUFFICES ASSUME NEW t \in Slots, NEW k \in DOMAIN joincond'[t]
               PROVE  MustWait(t)' /\ tid'[t] # NULL /\ Waits(t, joincond[t][k])'
    BY Zenon DEF Waiters
  <2>1. t # curr /\ joincond'[t] = joincond[t]
    BY SMTT(60), <1>7
  <2>2. PICK r \in Slots : r = joincond[t][k]
    BY <1>2, <2>1 DEF TypeOK
  <2>3. MustWait(t) /\ tid[t] # NULL /\ Waits(t, r)
    BY Zenon, <1>2, <2>1, <2>2 DEF Waiters
  <2>4. PICK d \in Workers :
           /\ coreid[r] = d /\ state[r] \in {"RUNNING", "TERMINATED"}
           /\ pc[core[d]] = "asleep" /\ wakeups[d] = 0 /\ frame[core[d]].tid = tid[t]
    BY Zenon, <2>3 DEF Waits
  <2>5. wakeups'[d] = 0
    <3>1. d \in Cores
      BY Zenon, Bounds
    <3>2. ASSUME NEW q \in Wd(d)
          PROVE  FALSE
      <4>1. frame[core[d]].tid = tid[curr]
        BY Zenon, <1>13, <3>1, <3>2
      <4>2. QED
        BY Zenon, <1>2, <2>1, <2>3, <2>4, <4>1 DEF Apart
    <3>3. QED
      BY Zenon, <1>14, <2>4, <3>1, <3>2
  <2>6. Waits(t, r)'
    <3>1. coreid'[r] = d /\ state'[r] \in {"RUNNING", "TERMINATED"}
      BY Zenon, <1>4, <1>7, <2>4
    <3>2. pc'[core'[d]] = "asleep" /\ frame'[core'[d]].tid = tid'[t]
      BY Zenon, <1>4, <1>10, <2>4
    <3>3. QED
      BY Zenon, <2>5, <3>1, <3>2 DEF Waits
  <2>7. MustWait(t)' /\ tid'[t] # NULL
    BY Zenon, <1>4, <1>7, <2>1, <2>3 DEF MustWait
  <2>8. QED
    BY Zenon, <2>1, <2>2, <2>6, <2>7 DEF Waits
<1>23. Woken'
  <2> SUFFICES ASSUME NEW d \in Cores
               PROVE  /\ wakeups'[d] \in {0, 1}
                      /\ wakeups'[d] = 1 => /\ d \in Workers /\ pc'[core'[d]] = "asleep"
                                            /\ Gone(frame[core[d]].tid)'
    BY Zenon DEF Woken
  <2>1. CASE Wd(d) = {}
    <3>1. wakeups'[d] = wakeups[d]
      BY Zenon, <1>14, <2>1
    <3>2. ASSUME wakeups[d] = 1
          PROVE  d \in Workers /\ pc'[core'[d]] = "asleep" /\ Gone(frame[core[d]].tid)'
      <4>1. d \in Workers /\ pc[core[d]] = "asleep" /\ Gone(frame[core[d]].tid)
        BY Zenon, <1>2, <3>2 DEF Woken
      <4>2. PICK i : i = frame[core[d]].tid
        BY Zenon
      <4>3. Gone(i)'
        BY Zenon, <1>11, <4>1, <4>2
      <4>4. QED
        BY Zenon, <1>10, <4>1, <4>2, <4>3 DEF Gone
    <3>3. QED
      BY Zenon, <1>2, <3>1, <3>2 DEF Woken
  <2>2. ASSUME NEW q \in Wd(d)
        PROVE  /\ wakeups'[d] \in {0, 1}
               /\ d \in Workers /\ pc'[core'[d]] = "asleep" /\ Gone(frame[core[d]].tid)'
    <3>1. /\ d \in Workers /\ tid[curr] # NULL
          /\ pc[core[d]] = "asleep" /\ frame[core[d]].tid = tid[curr]
      BY Zenon, <1>13, <2>2
    <3>2. core'[d] = core[d] /\ pc'[core[d]] = "asleep" /\ frame'[core[d]].tid = tid'[curr]
      BY Zenon, <1>4, <1>10, <3>1
    <3>3. Gone(frame[core[d]].tid)'
      BY Zenon, <1>12, <3>1, <3>2 DEF Gone
    <3>4. wakeups'[d] \in {0, 1}
      BY Zenon, <1>14, <2>2
    <3>5. QED
      BY Zenon, <3>1, <3>2, <3>3, <3>4
  <2>3. QED
    BY Zenon, <2>1, <2>2
<1>24. JoinedGone'
  <2> SUFFICES ASSUME NEW y \in Tids, joined'[y].tid # NULL
               PROVE  Gone(joined[y].tid)'
    BY Zenon DEF JoinedGone
  <2>1. PICK i : i = joined[y].tid
    BY Zenon
  <2>2. Gone(i)'
    BY Zenon, <1>2, <1>4, <1>11, <2>1 DEF JInv, JoinedGone
  <2>3. QED
    BY Zenon, <1>4, <2>1, <2>2 DEF Gone
<1>25. QED
  BY Zenon, <1>4, <1>15, <1>16, <1>17, <1>18, <1>19, <1>20, <1>21, <1>22, <1>23, <1>24
     DEF TInv, QInv, JInv

-----------------------------------------------------------------------------
(* The first section of thread_yield().  The current thread of a core is   *)
(* never in the queue, and its idle thread never terminates.               *)
LEMMA PickFacts ==
    ASSUME TInv, ~panic, NEW c \in Workers, NEW curr \in Slots, IsCurr(c, curr)
    PROVE  /\ coreid[curr] = c /\ state[curr] \in {"RUNNING", "TERMINATED"} /\ curr \notin Runnable
           /\ c \in Slots /\ c \notin Users /\ coreid[c] = c /\ tid[c] = c
           /\ curr # c => curr \in Users /\ tid[curr] # NULL
           /\ state[curr] = "TERMINATED" => curr # c
           /\ c \notin Runnable /\ state[c] \in {"RUNNING", "STOPPED"}
<1>1. coreid[curr] = c /\ state[curr] \in {"RUNNING", "TERMINATED"}
  BY Zenon DEF IsCurr
<1>2. curr \notin Runnable
  BY Zenon, <1>1, Bounds DEF TInv, QInv, Ready
<1>3. /\ c \in Slots /\ c \notin Users /\ coreid[c] = c /\ tid[c] = c
      /\ state[c] \in {"RUNNING", "STOPPED"}
  BY Zenon, Bounds DEF TInv, QInv, IdleSlots
<1>4. ASSUME curr # c
      PROVE  curr \in Users /\ tid[curr] # NULL
  <2>1. curr \notin Cores
    BY Zenon, <1>1, <1>4 DEF TInv, QInv, IdleSlots
  <2>2. curr \in Users
    BY Zenon, <2>1, Bounds
  <2>3. QED
    BY Zenon, <1>1, <2>2 DEF TInv, QInv, Named
<1>5. QED
  BY Zenon, <1>1, <1>2, <1>3, <1>4 DEF Runnable

(* What a choice leaves of the table, and of those who wait. *)
Chosen(c) ==
    /\ Current' /\ Ready' /\ IdleSlots' /\ Named' /\ Chain(next, sched, Runnable)'
    /\ next' \in NextType /\ sched' \in QueueType
    /\ state' \in [Slots -> States] /\ coreid' \in [Slots -> Cores \cup {NULL}]
    /\ sched'.size = 0 \/ sched'.size + 1 + sched.sem = sched.size + sched'.sem
    /\ \A t \in Slots : MustWait(t)' <=> MustWait(t)
    /\ \A d \in Workers \ {c}, t \in Slots :
         coreid[t] = d /\ state[t] \in {"RUNNING", "TERMINATED"} =>
           coreid'[t] = d /\ state'[t] = state[t]

(* A thread is taken off the queue. *)
LEMMA PickTaken ==
    ASSUME TInv, ~panic, NEW c \in Workers, NEW curr \in Slots, IsCurr(c, curr),
           thread_get_curr(c) = curr, YieldPick(c), sched.size > 0
    PROVE  Chosen(c) /\ sched.head \in Slots
<1>1. /\ TypeOK /\ Current /\ Ready /\ IdleSlots /\ Named /\ Chain(next, sched, Runnable)
      /\ \A t \in Users : t \in Slots
  BY Zenon, Bounds DEF TInv, QInv
<1>2. next \in NextType /\ sched \in QueueType /\ Runnable \in SUBSET Slots
  BY Zenon, <1>1 DEF TypeOK, NextType, QueueType, Runnable
<1>3. PICK h : h = sched.head
  BY Zenon
<1>4. PICK n, q : /\ n = [next EXCEPT ![h] = NULL]
                  /\ q = [sched EXCEPT !.head = next[h], !.size = @ - 1]
  BY Zenon
<1>5. /\ h \in Runnable /\ n \in NextType /\ q \in QueueType /\ Chain(n, q, Runnable \ {h})
  BY Zenon, <1>1, <1>2, <1>3, <1>4, Dequeue
<1>6. /\ h \in Slots /\ h \in Users /\ tid[h] # NULL /\ coreid[h] = NULL
      /\ state[h] \in {"STARTED", "STOPPED"}
  BY Zenon, <1>1, <1>5 DEF Runnable, Ready
<1>7. /\ coreid[curr] = c /\ state[curr] \in {"RUNNING", "TERMINATED"} /\ curr \notin Runnable
      /\ c \in Slots /\ c \notin Users /\ coreid[c] = c /\ tid[c] = c
      /\ curr # c => curr \in Users /\ tid[curr] # NULL
      /\ state[curr] = "TERMINATED" => curr # c
      /\ c \notin Runnable /\ state[c] \in {"RUNNING", "STOPPED"}
  BY Zenon, PickFacts
<1>8. PICK requeue \in BOOLEAN : requeue <=> state[curr] # "TERMINATED" /\ curr # c
  BY Zenon
<1>9. /\ sched' = IF requeue THEN Schedule(q, curr) ELSE q
      /\ next' = IF requeue THEN Link(q, n, curr)
                 ELSE IF state[curr] = "TERMINATED" THEN [n EXCEPT ![h] = curr] ELSE n
      /\ coreid' = [s \in Slots |-> IF s = h THEN c
                                    ELSE IF requeue /\ s = curr THEN NULL ELSE coreid[s]]
      /\ state' = [s \in Slots |-> IF s = h THEN "RUNNING" ELSE IF s # curr THEN state[s]
                                   ELSE IF state[curr] = "TERMINATED" THEN "ZOMBIE" ELSE "STOPPED"]
      /\ UNCHANGED tid
  <2>1. Requeue(c, curr) <=> requeue
    BY Zenon, <1>8 DEF Requeue
  <2>2. NextThread(c, curr) = h
    BY Zenon, <1>3 DEF NextThread
  <2>3. /\ sched' = IF requeue THEN Schedule(q, curr) ELSE q
        /\ next' = IF requeue THEN Link(q, n, curr)
                   ELSE IF state[curr] = "TERMINATED" THEN [n EXCEPT ![h] = curr] ELSE n
    BY Zenon, <1>4, <2>1, <2>2 DEF YieldPick
  <2>4. coreid' = [s \in Slots |-> IF s = h THEN c
                                   ELSE IF requeue /\ s = curr THEN NULL ELSE coreid[s]]
    BY Zenon, <2>1, <2>2 DEF YieldPick
  <2>5. state' = [s \in Slots |-> IF s = h THEN "RUNNING" ELSE IF s # curr THEN state[s]
                                  ELSE IF state[curr] = "TERMINATED" THEN "ZOMBIE" ELSE "STOPPED"]
    BY Zenon, <2>2 DEF YieldPick
  <2>6. tid' = tid
    BY Zenon DEF YieldPick
  <2>7. QED
    BY Zenon, <2>3, <2>4, <2>5, <2>6
<1>10. \A t \in Slots :
         /\ state'[t] = IF t = h THEN "RUNNING" ELSE IF t # curr THEN state[t]
                        ELSE IF state[curr] = "TERMINATED" THEN "ZOMBIE" ELSE "STOPPED"
         /\ coreid'[t] = IF t = h THEN c ELSE IF requeue /\ t = curr THEN NULL ELSE coreid[t]
         /\ tid'[t] = tid[t]
  BY Zenon, <1>9
<1>11. c \in Cores /\ c # NULL /\ h # curr /\ h # c
  BY Zenon, <1>5, <1>7, Bounds
<1>12. Current'
  <2> SUFFICES ASSUME NEW d \in Cores
               PROVE  \E s \in Slots : IsCurr(d, s)'
    BY Zenon DEF Current
  <2>1. CASE d = c
    <3>1. IsCurr(c, h)'
      BY Zenon, <1>6, <1>7, <1>10, <1>11 DEF IsCurr
    <3>2. QED
      BY Zenon, <1>6, <2>1, <3>1
  <2>2. CASE d # c
    <3>1. PICK s \in Slots : IsCurr(d, s)
      BY Zenon, <1>1 DEF Current
    <3>2. s # curr /\ s # h /\ d # NULL
      BY Zenon, <1>6, <1>7, <2>2, <3>1, Bounds DEF IsCurr
    <3>3. IsCurr(d, s)'
      BY <1>7, <1>10, <2>2, <3>1, <3>2 DEF IsCurr
    <3>4. QED
      BY Zenon, <3>3
  <2>3. QED
    BY Zenon, <2>1, <2>2
<1>13. IdleSlots'
  <2> SUFFICES ASSUME NEW d \in Cores
               PROVE  coreid'[d] = d /\ tid'[d] = d /\ state'[d] \in {"RUNNING", "STOPPED"}
    BY Zenon DEF IdleSlots
  <2>1. d \in Slots /\ d # h /\ coreid[d] = d /\ tid[d] = d /\ state[d] \in {"RUNNING", "STOPPED"}
    BY Zenon, <1>1, <1>6, Bounds DEF IdleSlots
  <2>2. d = curr => d = c
    BY Zenon, <1>7, <2>1
  <2>3. QED
    BY Zenon, <1>7, <1>8, <1>10, <2>1, <2>2
<1>14. Named'
  BY <1>1, <1>6, <1>7, <1>10 DEF Named
<1>15. Runnable' = IF requeue THEN (Runnable \ {h}) \cup {curr} ELSE Runnable \ {h}
  <2>1. \A t \in Users : (state'[t] \in {"STARTED", "STOPPED"} /\ tid'[t] # NULL)
                           <=> IF t = h THEN FALSE ELSE IF t = curr THEN requeue
                               ELSE state[t] \in {"STARTED", "STOPPED"} /\ tid[t] # NULL
    BY Zenon, <1>1, <1>7, <1>8, <1>10
  <2>2. requeue => curr \in Users
    BY Zenon, <1>7, <1>8
  <2>3. QED
    <3>1. h \in Users /\ (curr \in Users => ~(state[curr] \in {"STARTED", "STOPPED"}))
      BY Zenon, <1>6, <1>7
    <3>2. Runnable \ {h} = {t \in Users : t # h /\ state[t] \in {"STARTED", "STOPPED"} /\ tid[t] # NULL}
      BY Zenon DEF Runnable
    <3>3. Runnable' = {t \in Users : IF t = h THEN FALSE ELSE IF t = curr THEN requeue
                                     ELSE state[t] \in {"STARTED", "STOPPED"} /\ tid[t] # NULL}
      BY Zenon, <2>1 DEF Runnable
    <3>4. CASE requeue
      BY Zenon, <2>2, <3>1, <3>2, <3>3, <3>4, <1>11
    <3>5. CASE ~requeue
      BY Zenon, <3>1, <3>2, <3>3, <3>5
    <3>6. QED
      BY Zenon, <3>4, <3>5
<1>16. Ready'
  BY Zenon, <1>1, <1>2, <1>10, <1>11, <1>15 DEF Ready
<1>17. /\ next' \in NextType /\ sched' \in QueueType /\ Chain(next', sched', Runnable')
       /\ sched'.size + 1 + sched.sem = sched.size + sched'.sem
  <2>1. q.size = sched.size - 1 /\ q.sem = sched.sem /\ sched.size \in Nat /\ sched.sem \in Nat
    BY Zenon, <1>2, <1>4 DEF QueueType
  <2>2. CASE requeue
    <3>1. sched' = Schedule(q, curr) /\ next' = Link(q, n, curr)
      BY Zenon, <1>9, <2>2
    <3>2. curr \in Slots \ (Runnable \ {h}) /\ Runnable \ {h} \in SUBSET Slots
      BY Zenon, <1>2, <1>7
    <3>3. /\ next' \in NextType /\ sched' \in QueueType
          /\ Chain(next', sched', (Runnable \ {h}) \cup {curr})
      BY Zenon, <1>5, <3>1, <3>2, Enqueue
    <3>4. sched'.size = q.size + 1 /\ sched'.sem = q.sem + 1
      BY Zenon, <3>1 DEF Schedule
    <3>5. QED
      BY <1>15, <2>1, <2>2, <3>3, <3>4
  <2>3. CASE ~requeue
    <3>1. sched' = q /\ next' = IF state[curr] = "TERMINATED" THEN [n EXCEPT ![h] = curr] ELSE n
      BY Zenon, <1>9, <2>3
    <3>2. next' \in NextType /\ \A t \in Runnable \ {h} : next'[t] = n[t]
      BY Zenon, <1>2, <1>5, <3>1 DEF NextType
    <3>3. Chain(next', sched', Runnable \ {h})
      BY Zenon, <1>5, <3>1, <3>2, SameChain
    <3>4. QED
      BY <1>5, <1>15, <2>1, <2>3, <3>1, <3>2, <3>3
  <2>4. QED
    BY Zenon, <2>2, <2>3
<1>18. state' \in [Slots -> States] /\ coreid' \in [Slots -> Cores \cup {NULL}]
  <2>1. \A t \in Slots : state'[t] \in States /\ coreid'[t] \in Cores \cup {NULL}
    BY Zenon, <1>1, <1>10, <1>11 DEF TypeOK, States
  <2>2. state' = [t \in Slots |-> state'[t]] /\ coreid' = [t \in Slots |-> coreid'[t]]
    BY Zenon, <1>9
  <2>3. QED
    BY Zenon, <2>1, <2>2
<1>19. \A t \in Slots : MustWait(t)' <=> MustWait(t)
  BY Zenon, <1>6, <1>7, <1>10 DEF MustWait
<1>20. \A d \in Workers \ {c}, t \in Slots :
         coreid[t] = d /\ state[t] \in {"RUNNING", "TERMINATED"} =>
           coreid'[t] = d /\ state'[t] = state[t]
  BY Zenon, <1>6, <1>7, <1>10
<1>21. QED
  BY Zenon, <1>3, <1>6, <1>12, <1>13, <1>14, <1>16, <1>17, <1>18, <1>19, <1>20 DEF Chosen

(* The queue is empty: a thread that has exited hands over to the idle     *)
(* thread, any other keeps the core.                                       *)
LEMMA PickEmpty ==
    ASSUME TInv, ~panic, NEW c \in Workers, NEW curr \in Slots, IsCurr(c, curr),
           thread_get_curr(c) = curr, YieldPick(c), ~(sched.size > 0)
    PROVE  Chosen(c)
<1>1. /\ TypeOK /\ Current /\ Ready /\ IdleSlots /\ Named /\ Chain(next, sched, Runnable)
      /\ \A t \in Users : t \in Slots
  BY Zenon, Bounds DEF TInv, QInv
<1>2. next \in NextType /\ sched \in QueueType /\ Runnable \in SUBSET Slots
  BY Zenon, <1>1 DEF TypeOK, NextType, QueueType, Runnable
<1>3. /\ coreid[curr] = c /\ state[curr] \in {"RUNNING", "TERMINATED"} /\ curr \notin Runnable
      /\ c \in Slots /\ c \notin Users /\ coreid[c] = c /\ tid[c] = c
      /\ curr # c => curr \in Users /\ tid[curr] # NULL
      /\ state[curr] = "TERMINATED" => curr # c
      /\ c \notin Runnable /\ state[c] \in {"RUNNING", "STOPPED"}
  BY Zenon, PickFacts
<1>4. ~Requeue(c, curr) /\ sched.size = 0
  BY <1>2 DEF Requeue, QueueType
<1>5. sched' = sched /\ tid' = tid
  BY Zenon, <1>4 DEF YieldPick
<1>6. PICK nx \in Slots : nx = IF state[curr] = "TERMINATED" THEN c ELSE curr
  BY Zenon, <1>3
<1>7. NextThread(c, curr) = nx
  BY Zenon, <1>6 DEF NextThread
<1>8. next' = IF state[curr] = "TERMINATED" THEN [next EXCEPT ![nx] = curr] ELSE next
  BY Zenon, <1>4, <1>7 DEF YieldPick
<1>9. coreid' = [s \in Slots |-> coreid[s]]
  BY Zenon, <1>4 DEF YieldPick
<1>10. state' = [s \in Slots |-> IF s = nx THEN "RUNNING" ELSE IF s # curr THEN state[s]
                                 ELSE IF state[curr] = "TERMINATED" THEN "ZOMBIE" ELSE state[s]]
  BY Zenon, <1>7 DEF YieldPick
<1>11. \A t \in Slots : /\ coreid'[t] = coreid[t] /\ tid'[t] = tid[t]
                        /\ state'[t] = IF t = nx THEN "RUNNING"
                                       ELSE IF t = curr THEN "ZOMBIE" ELSE state[t]
  BY Zenon, <1>5, <1>6, <1>9, <1>10
<1>12. coreid[nx] = c /\ (nx # curr => nx = c /\ curr # c)
  BY Zenon, <1>3, <1>6
<1>13. Current'
  <2> SUFFICES ASSUME NEW d \in Cores
               PROVE  \E s \in Slots : IsCurr(d, s)'
    BY Zenon DEF Current
  <2>1. CASE d = c
    <3>1. IsCurr(c, nx)'
      BY <1>11, <1>12 DEF IsCurr
    <3>2. QED
      BY Zenon, <2>1, <3>1
  <2>2. CASE d # c
    <3>1. PICK s \in Slots : IsCurr(d, s)
      BY Zenon, <1>1 DEF Current
    <3>2. s # curr /\ s # nx
      BY Zenon, <1>3, <1>12, <2>2, <3>1 DEF IsCurr
    <3>3. IsCurr(d, s)'
      BY <1>3, <1>11, <1>12, <2>2, <3>1, <3>2 DEF IsCurr
    <3>4. QED
      BY Zenon, <3>3
  <2>3. QED
    BY Zenon, <2>1, <2>2
<1>14. IdleSlots'
  <2> SUFFICES ASSUME NEW d \in Cores
               PROVE  coreid'[d] = d /\ tid'[d] = d /\ state'[d] \in {"RUNNING", "STOPPED"}
    BY Zenon DEF IdleSlots
  <2>1. d \in Slots /\ coreid[d] = d /\ tid[d] = d /\ state[d] \in {"RUNNING", "STOPPED"}
    BY Zenon, <1>1, Bounds DEF IdleSlots
  <2>2. d = curr => d = nx
    BY ZenonT(60), <1>3, <1>12, <2>1
  <2>3. QED
    BY Zenon, <1>11, <2>1, <2>2
<1>15. Named'
  BY <1>1, <1>3, <1>11, <1>12 DEF Named
<1>16. Runnable' = Runnable
  <2>1. \A t \in Users : (state'[t] \in {"STARTED", "STOPPED"} /\ tid'[t] # NULL)
                           <=> (state[t] \in {"STARTED", "STOPPED"} /\ tid[t] # NULL)
    BY <1>1, <1>3, <1>11, <1>12
  <2>2. QED
    BY ZenonT(60), <2>1 DEF Runnable
<1>17. Ready'
  BY Zenon, <1>1, <1>2, <1>11, <1>16 DEF Ready
<1>18. next' \in NextType /\ Chain(next', sched', Runnable')
  <2>1. next' \in NextType /\ \A t \in Runnable : next'[t] = next[t]
    BY Zenon, <1>2, <1>3, <1>6, <1>8 DEF NextType
  <2>2. QED
    BY Zenon, <1>1, <1>5, <1>16, <2>1, SameChain
<1>19. state' \in [Slots -> States] /\ coreid' \in [Slots -> Cores \cup {NULL}]
  <2>1. \A t \in Slots : state'[t] \in States /\ coreid'[t] \in Cores \cup {NULL}
    BY Zenon, <1>1, <1>11 DEF TypeOK, States
  <2>2. state' = [t \in Slots |-> state'[t]] /\ coreid' = [t \in Slots |-> coreid'[t]]
    BY Zenon, <1>9, <1>10
  <2>3. QED
    BY Zenon, <2>1, <2>2
<1>20. \A t \in Slots : MustWait(t)' <=> MustWait(t)
  BY Zenon, <1>3, <1>6, <1>11 DEF MustWait
<1>21. \A d \in Workers \ {c}, t \in Slots :
         coreid[t] = d /\ state[t] \in {"RUNNING", "TERMINATED"} =>
           coreid'[t] = d /\ state'[t] = state[t]
  BY Zenon, <1>3, <1>11, <1>12
<1>22. QED
  BY Zenon, <1>2, <1>4, <1>5, <1>13, <1>14, <1>15, <1>17, <1>18, <1>19, <1>20, <1>21 DEF Chosen

LEMMA StepPick ==
    ASSUME Facts, TInv, ~panic, NEW c \in Workers, YieldPick(c)
    PROVE  TInv'
<1>1. PICK x \in Tids : x = core[c]
  BY Zenon, Bounds DEF TInv, QInv, TypeOK
<1>2. TypeOK /\ Labelled /\ Apart /\ JInv /\ Current /\ c \in Cores /\ c \in Slots
  BY Zenon, Bounds DEF TInv, QInv, JInv
<1>3. PICK curr \in Slots : IsCurr(c, curr) /\ thread_get_curr(c) = curr
  BY Zenon, <1>2, CurrIs DEF Current
<1>4. Chosen(c)
  BY Zenon, <1>3, PickTaken, PickEmpty
<1>5. PICK nx \in Slots : nx = NextThread(c, curr)
  BY Zenon, <1>2, <1>3, PickTaken DEF NextThread
<1>6. /\ pc[x] = "yield" /\ pc' = [pc EXCEPT ![x] = "switch"]
      /\ frame' = [frame EXCEPT ![x].curr = curr, ![x].next = nx]
      /\ UNCHANGED <<tid, ctx, stack, nthreads, next_tid, joincond, exits, fence,
                     wakeups, core, joined>>
  BY Zenon, <1>1, <1>3, <1>5 DEF YieldPick, At, Goto
<1>7. panic' \in BOOLEAN
  BY Zenon DEF YieldPick
<1>8. \A y \in Tids : pc'[y] = IF y = x THEN "switch" ELSE pc[y]
  BY Zenon, <1>2, <1>6 DEF TypeOK
<1>9. frame \in [Tids -> FrameType] /\ \A y \in Tids : frame[y] \in FrameType
  BY Zenon, <1>2 DEF TypeOK, FrameType
<1>10. \A y \in Tids : frame'[y] = IF y = x THEN [frame[x] EXCEPT !.curr = curr, !.next = nx]
                                   ELSE frame[y]
  BY Zenon, <1>6, <1>9
<1>11. frame' \in [Tids -> FrameType]
  BY ZenonT(60), <1>6, <1>9, <1>10 DEF FrameType
<1>12. \A y \in Tids : /\ frame'[y].tid = frame[y].tid /\ frame'[y].ret = frame[y].ret
                       /\ y # x => frame'[y] = frame[y]
                       /\ y = x => frame'[y].curr = curr /\ frame'[y].next = nx
  BY ZenonT(60), <1>9, <1>10 DEF FrameType
<1>13. TypeOK'
  <2>1. pc' \in [Tids -> Labels]
    BY Zenon, <1>2, <1>6 DEF TypeOK, Labels
  <2>2. QED
    BY Zenon, <1>2, <1>4, <1>6, <1>7, <1>11, <2>1
       DEF TypeOK, Chosen, NextType, QueueType, FrameType
<1>14. Labelled'
  BY Zenon, <1>2, <1>8, <1>12 DEF Labelled, Returns
<1>15. QueueNotified'
  <2>1. /\ Cardinality(Yielding)' + 1 >= Cardinality(Yielding) /\ Cardinality(Yielding) \in Nat
        /\ Cardinality(Yielding)' \in Nat
    BY Zenon, <1>2, <1>6, YieldCount
  <2>2. sched.size <= sched.sem + Cardinality(Yielding)
    BY Zenon DEF TInv, QInv, QueueNotified, Yielding
  <2>3. sched.size \in Nat /\ sched.sem \in Nat /\ sched'.size \in Nat /\ sched'.sem \in Nat
    BY Zenon, <1>2, <1>13 DEF TypeOK
  <2>4. sched'.size <= sched'.sem + Cardinality(Yielding)'
    BY <1>4, <2>1, <2>2, <2>3 DEF Chosen
  <2>5. QED
    BY Zenon, <2>4 DEF QueueNotified, Yielding
<1>16. Apart'
  BY Zenon, <1>2, <1>6 DEF Apart
<1>17. Waiters' /\ Woken' /\ JoinedGone'
  <2>1. \A d \in Workers : pc[core[d]] = "asleep" => core[d] \in Tids /\ core[d] # x /\ d # c
    BY Zenon, <1>1, <1>2, <1>6, Bounds DEF TypeOK
  <2>2. \A d \in Workers : pc[core[d]] = "asleep" =>
           /\ core'[d] = core[d] /\ pc'[core[d]] = "asleep"
           /\ frame'[core[d]].tid = frame[core[d]].tid
    <3>1. \A y \in Tids : y # x => pc'[y] = pc[y] /\ frame'[y].tid = frame[y].tid
      BY Zenon, <1>8, <1>12
    <3>2. QED
      BY Zenon, <1>6, <2>1, <3>1
  <2>3. next_tid \in Nat /\ next_tid' = next_tid
    BY <1>2, <1>6 DEF TypeOK
  <2>4. \A d \in Workers : pc[core[d]] = "asleep" =>
           \A s \in Slots : coreid[s] = d /\ state[s] \in {"RUNNING", "TERMINATED"} =>
             coreid'[s] = d /\ state'[s] \in {"RUNNING", "TERMINATED"}
    BY Zenon, <1>4, <2>1 DEF Chosen
  <2>5. \A t \in Slots : MustWait(t)' <=> MustWait(t)
    BY Zenon, <1>4 DEF Chosen
  <2>6. QED
    <3>1. \A d \in Workers : pc[core[d]] = "asleep" =>
             /\ core'[d] = core[d] /\ pc'[core[d]] = "asleep"
             /\ frame'[core[d]].tid = frame[core[d]].tid
             /\ \A s \in Slots : coreid[s] = d /\ state[s] \in {"RUNNING", "TERMINATED"} =>
                  coreid'[s] = d /\ state'[s] \in {"RUNNING", "TERMINATED"}
      BY Zenon, <2>2, <2>4
    <3>2. \A t \in Slots : tid'[t] = tid[t]
      BY Zenon, <1>6
    <3>3. next_tid <= next_tid'
      BY <2>3
    <3>4. QED
      <4>1. \A t \in Slots : MustWait(t) /\ tid[t] # NULL => MustWait(t)' /\ tid'[t] = tid[t]
        BY Zenon, <2>5, <3>2
      <4>2. \A t \in Slots : MustWait(t)' /\ tid'[t] \in Tids /\ tid'[t] < next_tid =>
                               MustWait(t) /\ tid[t] = tid'[t]
        BY Zenon, <2>5, <3>2
      <4>3. next_tid' \in Nat /\ UNCHANGED <<joincond, wakeups, joined>>
        BY Zenon, <1>6, <2>3
      <4>4. QED
        BY Zenon, <1>2, <3>1, <3>3, <4>1, <4>2, <4>3, QuietJoin
<1>18. QED
  BY Zenon, <1>4, <1>6, <1>13, <1>14, <1>15, <1>16, <1>17 DEF TInv, QInv, JInv, Chosen
=============================================================================
