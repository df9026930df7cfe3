----------------------------- MODULE SyncProofs -----------------------------
(***************************************************************************)
(* Where threads wait for each other inside the kernel, for any number of  *)
(* threads, cores, exceptions, signals and synchronization points:         *)
(* Semaphore implements AbsSemaphore, exceptions are handed off to user    *)
(* space and resumed, the two tables of signal_control() agree, and        *)
(* references to synchronization points between nodes are counted exactly. *)
(***************************************************************************)
EXTENDS Sync, TLAPS

-----------------------------------------------------------------------------
(* The semaphore. *)

Holding == {"down_locked", "down_take", "down_queued",
            "up_locked", "up_broadcast", "up_woke"}

(* The inductive invariant: whoever is inside a critical section owns      *)
(* sem->lock, so the test of count still holds when count is decremented,  *)
(* and the head a broadcaster woke is still the head when it is removed.   *)
IInv ==
    /\ TypeOK
    /\ \A t \in Threads : pc[t] \in Holding => lock = t
    /\ \A t \in Threads : pc[t] = "down_take" => count > 0
    /\ \A t \in Threads : pc[t] = "up_woke" => queue # NULL

LEMMA InitIInv == Init => IInv
  BY SemaphoreAssumption DEF Init, IInv, TypeOK, Holding, Waiting, Raising

LEMMA StepIInv == IInv /\ [Next]_vars => IInv'
<1> SUFFICES ASSUME IInv, [Next]_vars PROVE IInv'
  BY Zenon
<1> USE SemaphoreAssumption DEF IInv, TypeOK, Holding, Waiting, Raising, Goto, Acquire, Release
<1>1. ASSUME NEW t \in Threads, DownLock(t) PROVE IInv'
  BY Zenon, <1>1 DEF DownLock
<1>2. ASSUME NEW t \in Threads, DownCheck(t) PROVE IInv'
  BY Zenon, <1>2 DEF DownCheck
<1>3. ASSUME NEW t \in Threads, DownTake(t) PROVE IInv'
  BY <1>3 DEF DownTake
<1>4. ASSUME NEW t \in Threads, CondWait(t) PROVE IInv'
  BY Zenon, <1>4 DEF CondWait
<1>5. ASSUME NEW t \in Threads, Asleep(t) PROVE IInv'
  BY Zenon, <1>5 DEF Asleep
<1>6. ASSUME NEW t \in Threads, CoreSleep(t) PROVE IInv'
  BY <1>6 DEF CoreSleep
<1>7. ASSUME NEW t \in Threads, Relock(t) PROVE IInv'
  BY Zenon, <1>7 DEF Relock
<1>8. ASSUME NEW t \in Threads, UpLock(t) PROVE IInv'
  BY Zenon, <1>8 DEF UpLock
<1>9. ASSUME NEW t \in Threads, UpCount(t) PROVE IInv'
  BY <1>9 DEF UpCount
<1>10. ASSUME NEW t \in Threads, BroadcastWake(t) PROVE IInv'
  BY <1>10 DEF BroadcastWake
<1>11. ASSUME NEW t \in Threads, BroadcastNext(t) PROVE IInv'
  BY Zenon, <1>11 DEF BroadcastNext
<1>12. ASSUME NEW t \in Threads, BroadcastDone(t) PROVE IInv'
  BY Zenon, <1>12 DEF BroadcastDone
<1>13. CASE UNCHANGED vars
  BY Zenon, <1>13 DEF vars
<1>14. QED
  BY Zenon, <1>1, <1>2, <1>3, <1>4, <1>5, <1>6, <1>7, <1>8, <1>9, <1>10, <1>11, <1>12, <1>13
     DEF Next, Step

(* TypeOK holds in every state of the semaphore code: no lock, list or     *)
(* counter of pm/semaphore.c and pm/cond.c leaves its domain.              *)
THEOREM TypeCorrect == Spec => []TypeOK
<1>1. IInv => TypeOK
  BY Zenon DEF IInv
<1>2. QED
  BY InitIInv, StepIInv, <1>1, PTL DEF Spec

(* semaphore_down() and semaphore_up() implement the atomic counter: every *)
(* step of the code is a call, an atomic decrement of a positive count, an *)
(* atomic increment, or invisible to the callers.                          *)
THEOREM Refinement == Spec => ImplementsAbs
<1>1. Init => Abs!Init
  BY Zenon DEF Init, Abs!Init, Waiting
<1>2. IInv /\ [Next]_vars => [Abs!Next]_Abs!vars
  <2> SUFFICES ASSUME IInv, [Next]_vars PROVE [Abs!Next]_Abs!vars
    BY Zenon
  <2> USE DEF IInv, TypeOK, Waiting, Raising, Goto, Abs!vars
  <2>1. ASSUME NEW t \in Threads, DownLock(t) PROVE Abs!Call(t)
    BY Zenon, <2>1 DEF DownLock, Abs!Call
  <2>2. ASSUME NEW t \in Threads, DownTake(t) PROVE Abs!Take(t)
    BY Zenon, <2>2 DEF DownTake, Abs!Take
  <2>3. ASSUME NEW t \in Threads, UpCount(t) PROVE Abs!Give(t)
    BY Zenon, <2>3 DEF UpCount, Abs!Give
  <2>4. ASSUME NEW t \in Threads,
               DownCheck(t) \/ CondWait(t) \/ Asleep(t) \/ CoreSleep(t) \/ Relock(t)
        PROVE UNCHANGED Abs!vars
    BY Zenon, <2>4 DEF DownCheck, CondWait, Asleep, CoreSleep, Relock
  <2>5. ASSUME NEW t \in Threads,
               UpLock(t) \/ BroadcastWake(t) \/ BroadcastNext(t) \/ BroadcastDone(t)
        PROVE UNCHANGED Abs!vars
    BY Zenon, <2>5 DEF UpLock, BroadcastWake, BroadcastNext, BroadcastDone
  <2>6. CASE UNCHANGED vars
    BY Zenon, <2>6 DEF vars
  <2>7. QED
    BY Zenon, <2>1, <2>2, <2>3, <2>4, <2>5, <2>6 DEF Next, Step, Abs!Next
<1>3. QED
  BY InitIInv, StepIInv, <1>1, <1>2, PTL DEF Spec, ImplementsAbs, Abs!Spec
-----------------------------------------------------------------------------
(* The list of sleepers.  Reach(q, n) is what can be reached from q through *)
(* the pointers n; facts about it need no induction, since it is the least  *)
(* closed set.                                                              *)

Closed(q, n, S) ==
    /\ q # NULL => q \in S
    /\ \A u \in S : n[u] # NULL => n[u] \in S

Reach(q, n) == {t \in Threads : \A S \in SUBSET Threads : Closed(q, n, S) => t \in S}

(* The list is a path: nothing points to its head, and no two members to   *)
(* the same thread.                                                        *)
IsPath(q, n) ==
    /\ \A u \in Reach(q, n) : n[u] # NULL => n[u] # q
    /\ \A u, v \in Reach(q, n) : n[u] # NULL /\ n[u] = n[v] => u = v

Pointers == [Threads -> Threads \cup {NULL}]

(* Reach is closed itself, and is contained in every other closed set. *)
LEMMA ReachLeast ==
    ASSUME NEW q \in Threads \cup {NULL}, NEW n \in Pointers
    PROVE  /\ Closed(q, n, Reach(q, n))
           /\ \A S \in SUBSET Threads : Closed(q, n, S) => Reach(q, n) \subseteq S
<1>1. q # NULL => q \in Reach(q, n)
  BY Zenon DEF Reach, Closed
<1>2. ASSUME NEW u \in Reach(q, n), n[u] # NULL PROVE n[u] \in Reach(q, n)
  <2>1. u \in Threads /\ n[u] \in Threads
    BY Zenon, <1>2 DEF Reach, Pointers
  <2>2. ASSUME NEW S \in SUBSET Threads, Closed(q, n, S) PROVE n[u] \in S
    BY Zenon, <1>2, <2>2 DEF Reach, Closed
  <2>3. QED
    BY Zenon, <2>1, <2>2 DEF Reach
<1>3. \A S \in SUBSET Threads : Closed(q, n, S) => Reach(q, n) \subseteq S
  BY Zenon DEF Reach
<1>4. QED
  BY Zenon, <1>1, <1>2, <1>3 DEF Closed

(* cond_wait() puts a thread that is not in the list in front of it. *)
LEMMA Push ==
    ASSUME NEW q \in Threads \cup {NULL}, NEW n \in Pointers,
           NEW t \in Threads, t \notin Reach(q, n), IsPath(q, n)
    PROVE  LET m == [n EXCEPT ![t] = q]
           IN  Reach(t, m) = Reach(q, n) \cup {t} /\ IsPath(t, m)
<1> DEFINE m == [n EXCEPT ![t] = q]
<1>1. m \in Pointers /\ m[t] = q /\ \A u \in Threads \ {t} : m[u] = n[u]
  BY Zenon DEF Pointers
<1>2. Reach(q, n) \subseteq Threads /\ t # NULL
  BY Zenon, SemaphoreAssumption DEF Reach
<1> HIDE DEF m
<1>3. Closed(t, m, Reach(q, n) \cup {t})
  BY Zenon, <1>1, <1>2, ReachLeast DEF Closed
<1>4. Reach(t, m) \subseteq Reach(q, n) \cup {t}
  BY <1>1, <1>2, <1>3, ReachLeast
<1>5. t \in Reach(t, m)
  BY Zenon, <1>1, <1>2, ReachLeast DEF Closed
<1>6. Closed(q, n, Reach(t, m) \cap Reach(q, n))
  <2>1. q # NULL => q \in Reach(t, m)
    BY Zenon, <1>1, <1>5, ReachLeast DEF Closed
  <2>2. ASSUME NEW u \in Reach(t, m) \cap Reach(q, n), n[u] # NULL
        PROVE n[u] \in Reach(t, m)
    BY Zenon, <1>1, <1>2, <2>2, ReachLeast DEF Closed
  <2>3. QED
    BY Zenon, <2>1, <2>2, ReachLeast DEF Closed
<1>7. Reach(q, n) \subseteq Reach(t, m)
  <2>1. Reach(q, n) \subseteq Reach(t, m) \cap Reach(q, n)
    BY Zenon, <1>2, <1>6, ReachLeast
  <2>2. QED
    BY Zenon, <2>1
<1>8. Reach(t, m) = Reach(q, n) \cup {t}
  BY Zenon, <1>4, <1>5, <1>7
<1>9. \A u \in Reach(q, n) : n[u] # NULL => n[u] \in Reach(q, n)
  BY Zenon, ReachLeast DEF Closed
<1>10. IsPath(t, m)
  BY <1>1, <1>2, <1>8, <1>9, ReachLeast DEF IsPath, Closed
<1>11. QED
  BY Zenon, <1>8, <1>10 DEF m

(* cond_broadcast() takes the head off the list. *)
LEMMA Pop ==
    ASSUME NEW q \in Threads, NEW n \in Pointers, IsPath(q, n)
    PROVE  Reach(n[q], n) = Reach(q, n) \ {q} /\ IsPath(n[q], n)
<1>1. q \in Reach(q, n) /\ q # NULL /\ n[q] \in Threads \cup {NULL}
  BY Zenon, SemaphoreAssumption, ReachLeast DEF Closed, Pointers
<1>2. Reach(q, n) \subseteq Threads
  BY Zenon DEF Reach
<1>3. Closed(n[q], n, Reach(q, n) \ {q})
  BY Zenon, <1>1, ReachLeast DEF Closed, IsPath
<1>4. Reach(n[q], n) \subseteq Reach(q, n) \ {q}
  BY <1>1, <1>2, <1>3, ReachLeast
<1>5. Closed(q, n, Reach(n[q], n) \cup {q})
  BY Zenon, <1>1, ReachLeast DEF Closed
<1>6. Reach(q, n) \subseteq Reach(n[q], n) \cup {q}
  <2>1. Reach(n[q], n) \cup {q} \in SUBSET Threads
    BY Zenon DEF Reach
  <2>2. QED
    BY Zenon, <1>5, <2>1, ReachLeast
<1>7. Reach(n[q], n) = Reach(q, n) \ {q}
  BY Zenon, <1>4, <1>6
<1>8. IsPath(n[q], n)
  BY Zenon, <1>1, <1>7 DEF IsPath
<1>9. QED
  BY Zenon, <1>7, <1>8

LEMMA QueuedIsReach == Queued = Reach(queue, next)
  BY Zenon DEF Queued, Reach, Closed

(* The invariant of the hand-off between sleepers and broadcasters: a      *)
(* broadcaster between its wakeup and its read of the next pointer holds   *)
(* the lock, so the list it follows is the one it found.                   *)
WInv == IInv /\ IsPath(queue, next) /\ WakeupBalance

(* One broadcaster at most, and only while nobody else has the lock. *)
LEMMA OneHolder ==
    ASSUME IInv, NEW t \in Threads, pc[t] \in Holding
    PROVE  /\ \A b \in Threads : pc[b] = "up_woke" => b = t
           /\ pc[t] # "up_woke" => BeingWoken = {}
           /\ pc[t] = "up_woke" => BeingWoken = {queue}
  BY Zenon, SemaphoreAssumption DEF IInv, TypeOK, Holding, BeingWoken

LEMMA InitWInv == Init => WInv
<1> SUFFICES ASSUME Init PROVE WInv
  BY Zenon
<1>1. Closed(queue, next, {})
  BY Zenon DEF Init, Closed
<1>2. Reach(queue, next) = {}
  <2>1. queue \in Threads \cup {NULL} /\ next \in Pointers
    BY Zenon DEF Init, Pointers
  <2>2. QED
    BY Zenon, <1>1, <2>1, ReachLeast
<1>3. IsPath(queue, next)
  BY Zenon, <1>2 DEF IsPath
<1>4. WakeupBalance
  BY <1>2, QueuedIsReach DEF WakeupBalance, Init
<1>5. QED
  BY Zenon, <1>3, <1>4, InitIInv DEF WInv

LEMMA StepWInv == WInv /\ [Next]_vars => WInv'
<1> SUFFICES ASSUME WInv, [Next]_vars PROVE WInv'
  BY Zenon
<1>1. IInv'
  BY Zenon, StepIInv DEF WInv
<1>2. queue \in Threads \cup {NULL} /\ next \in Pointers
  BY Zenon DEF WInv, IInv, TypeOK, Pointers
<1>3. Queued = Reach(queue, next) /\ Queued' = Reach(queue', next')
  BY Zenon, QueuedIsReach DEF Queued, Reach, Closed
<1>4. queue # NULL => queue \in Queued
  BY Zenon, <1>2, <1>3, ReachLeast DEF Closed
<1>5. ASSUME UNCHANGED <<queue, next>>
      PROVE Queued' = Queued /\ IsPath(queue, next)'
  BY Zenon, <1>5, <1>3 DEF WInv, IsPath
<1> USE DEF WInv, WakeupBalance, Goto
<1>6. ASSUME NEW t \in Threads,
             DownLock(t) \/ DownCheck(t) \/ DownTake(t) \/ Asleep(t) \/ Relock(t) \/ UpLock(t)
               \/ UpCount(t) \/ BroadcastDone(t)
      PROVE WInv'
  <2>1. UNCHANGED <<queue, next, wakeups>>
    BY Zenon, <1>6 DEF DownLock, DownCheck, DownTake, Asleep, Relock, UpLock, UpCount, BroadcastDone
  <2>2. BeingWoken' = BeingWoken
    BY Zenon, <1>6, <2>1 DEF DownLock, DownCheck, DownTake, Asleep, Relock, UpLock, UpCount,
                      BroadcastDone, BeingWoken, IInv, TypeOK
  <2>3. \A u \in Threads : pc'[u] \in {"down_queued", "down_asleep"}
                              <=> pc[u] \in {"down_queued", "down_asleep"}
    BY Zenon, <1>6 DEF DownLock, DownCheck, DownTake, Asleep, Relock, UpLock, UpCount,
                BroadcastDone, IInv, TypeOK
  <2>4. WakeupBalance'
    BY Zenon, <2>1, <2>2, <2>3, <1>5
  <2>5. QED
    BY Zenon, <1>1, <1>5, <2>1, <2>4
<1>7. ASSUME NEW t \in Threads, CondWait(t) PROVE WInv'
  <2>1. pc[t] = "down_locked" /\ pc' = [pc EXCEPT ![t] = "down_queued"] /\ UNCHANGED wakeups
        /\ queue' = t /\ next' = [next EXCEPT ![t] = queue]
    BY Zenon, <1>7 DEF CondWait
  <2>2. BeingWoken = {} /\ \A b \in Threads : pc[b] # "up_woke"
    BY Zenon, <2>1, OneHolder DEF Holding
  <2>3. BeingWoken' = {}
    BY Zenon, <2>1, <2>2 DEF BeingWoken, IInv, TypeOK
  <2>4. t \notin Queued /\ wakeups[t] = 0
    BY <2>1, <2>2 DEF IInv, TypeOK
  <2>5. Queued' = Queued \cup {t} /\ IsPath(queue', next')
    BY ZenonT(60), <1>2, <1>3, <2>1, <2>4, Push
  <2>6. WakeupBalance'
    BY <2>1, <2>2, <2>3, <2>4, <2>5 DEF IInv, TypeOK
  <2>7. QED
    BY Zenon, <1>1, <2>5, <2>6 DEF IsPath
<1>8. ASSUME NEW t \in Threads, CoreSleep(t) PROVE WInv'
  <2>1. pc[t] = "down_asleep" /\ pc' = [pc EXCEPT ![t] = "down_awake"] /\ wakeups[t] > 0
        /\ wakeups' = [wakeups EXCEPT ![t] = @ - 1] /\ UNCHANGED <<queue, next>>
    BY Zenon, <1>8 DEF CoreSleep
  <2>2. BeingWoken' = BeingWoken
    BY Zenon, <2>1 DEF BeingWoken, IInv, TypeOK
  <2>3. wakeups[t] = 1 /\ t \notin Queued \ BeingWoken
    BY <2>1 DEF IInv, TypeOK
  <2>4. WakeupBalance'
    BY <1>5, <2>1, <2>2, <2>3 DEF IInv, TypeOK
  <2>5. QED
    BY Zenon, <1>1, <1>5, <2>1, <2>4
<1>9. ASSUME NEW t \in Threads, BroadcastWake(t) PROVE WInv'
  <2>1. pc[t] = "up_broadcast" /\ pc' = [pc EXCEPT ![t] = "up_woke"] /\ queue \in Threads
        /\ wakeups' = [wakeups EXCEPT ![queue] = @ + 1] /\ UNCHANGED <<queue, next>>
    BY Zenon, <1>2, <1>9 DEF BroadcastWake
  <2>2. BeingWoken = {} /\ BeingWoken' = {queue}
    BY Zenon, <2>1, OneHolder DEF Holding, BeingWoken, IInv, TypeOK
  <2>3. queue \in Queued
    BY Zenon, <1>4, <2>1, SemaphoreAssumption
  <2>4. WakeupBalance'
    BY <1>5, <2>1, <2>2, <2>3 DEF IInv, TypeOK
  <2>5. QED
    BY Zenon, <1>1, <1>5, <2>1, <2>4
<1>10. ASSUME NEW t \in Threads, BroadcastNext(t) PROVE WInv'
  <2>1. pc[t] = "up_woke" /\ pc' = [pc EXCEPT ![t] = "up_broadcast"]
        /\ queue' = next[queue] /\ UNCHANGED <<next, wakeups>>
    BY Zenon, <1>10 DEF BroadcastNext
  <2>2. queue \in Threads
    BY Zenon, <1>2, <2>1 DEF IInv
  <2>3. BeingWoken = {queue} /\ \A b \in Threads : pc[b] = "up_woke" => b = t
    BY Zenon, <2>1, OneHolder DEF Holding
  <2>4. BeingWoken' = {}
    BY Zenon, <2>1, <2>3 DEF BeingWoken, IInv, TypeOK
  <2>5. Queued' = Queued \ {queue} /\ IsPath(queue', next')
    BY Zenon, <1>2, <1>3, <2>1, <2>2, Pop
  <2>6. WakeupBalance'
    BY Zenon, <2>1, <2>3, <2>4, <2>5 DEF IInv, TypeOK
  <2>7. QED
    BY Zenon, <1>1, <2>5, <2>6 DEF IsPath
<1>11. CASE UNCHANGED vars
  <2>1. UNCHANGED <<queue, next, wakeups, pc>>
    BY Zenon, <1>11 DEF vars
  <2>2. QED
    BY Zenon, <1>1, <1>5, <2>1 DEF BeingWoken
<1>12. QED
  BY Zenon, <1>6, <1>7, <1>8, <1>9, <1>10, <1>11 DEF Next, Step

(* No wakeup of cond_broadcast() is lost, left over, or sent twice: a      *)
(* thread that is to sleep in cond_wait() is in the list or has one wakeup *)
(* pending, for any number of threads.                                     *)
THEOREM Balance == Spec => []WakeupBalance
<1>1. WInv => WakeupBalance
  BY Zenon DEF WInv
<1>2. QED
  BY InitWInv, StepWInv, <1>1, PTL DEF Spec

-----------------------------------------------------------------------------
(* The hand-off of exceptions to user space. *)

(* The handler thread that pm/exception.c is written for: "handling" is    *)
(* one variable, which a second handler would overwrite.                   *)
OneHandler == \A g, h \in Handlers : g = h

(* What is kept besides ReleaseNotLost: a core waits for the exception it  *)
(* took, and exceptions that somebody waits for stay handled.              *)
WaitersKnown ==
    /\ \A c \in Excp!Cores : excpc[c] # "run" => excp[c] \in Excp!Excps
    /\ \A e \in Excp!Excps : \A c \in waiting[e] : excpc[c] # "run" /\ excp[c] = e
    /\ \A e \in Excp!Excps : waiting[e] # {} => action[e] = "HANDLE"

LInv == Excp!ReleaseNotLost /\ WaitersKnown /\ Excp!NotifyNotLost

LEMMA InitLInv ==
    ASSUME Excp!ExceptionsAssumption
    PROVE  Excp!Init => LInv
<1> SUFFICES ASSUME Excp!Init PROVE LInv
  BY Zenon
<1>1. Excp!TypeOK
  BY DEF Excp!ExceptionsAssumption, Excp!Init, Excp!TypeOK, Excp!Excps, Excp!Cores, Excp!Cases,
         Excp!None
<1>2. \A w \in Excp!Cases : /\ w.coreid \in Excp!Cores /\ w.excpnum \in Excp!Excps
                              /\ klock[w] /\ excpc[w.coreid] = "run" /\ waiting[w.excpnum] = {}
  BY Zenon DEF Excp!Init, Excp!Cases
<1>3. WaitersKnown
  BY DEF Excp!Init, WaitersKnown
<1>4. Excp!ReleaseNotLost /\ Excp!NotifyNotLost
  BY Zenon, <1>1, <1>2 DEF Excp!ReleaseNotLost, Excp!NotifyNotLost
<1>5. QED
  BY Zenon, <1>3, <1>4 DEF LInv

LEMMA StepLInv ==
    ASSUME Excp!ExceptionsAssumption
    PROVE  LInv /\ [Excp!Next]_(Excp!vars) => LInv'
<1> SUFFICES ASSUME LInv, [Excp!Next]_(Excp!vars) PROVE LInv'
  BY Zenon
<1> USE DEF Excp!ExceptionsAssumption, LInv, Excp!ReleaseNotLost, Excp!TypeOK, WaitersKnown,
            Excp!NotifyNotLost, Excp!Goto
<1>1. ASSUME NEW e \in Excp!Excps, NEW a \in {"IGNORE", "HANDLE"}, Excp!Control(e, a) PROVE LInv'
  BY <1>1 DEF Excp!Control
<1>2. ASSUME NEW c \in Excp!Cores, Excp!WaitNotify(c) PROVE LInv'
  <2>1. excpc[c] = "notify" /\ excpc' = [excpc EXCEPT ![c] = "blocked"] /\ ulock' = FALSE
        /\ UNCHANGED <<action, waiting, klock, handling, excp, hpc, got, faults>>
    BY Zenon, <1>2 DEF Excp!WaitNotify
  <2>2. Excp!TypeOK' /\ WaitersKnown' /\ Excp!NotifyNotLost'
    <3>1. ~ulock' /\ ulock' \in BOOLEAN
      BY Zenon, <2>1
    <3>2. Excp!TypeOK' /\ WaitersKnown'
      BY <2>1, <3>1
    <3>3. QED
      BY Zenon, <3>1, <3>2
  <2>3. ASSUME NEW d \in Excp!Cores PROVE excpc'[d] # "run" <=> excpc[d] # "run"
    BY Zenon, <2>1
  <2>4. Excp!ReleaseNotLost'
    BY <2>1, <2>2, <2>3 DEF Excp!Cases
  <2>5. QED
    BY Zenon, <2>2, <2>4
<1>3. ASSUME NEW c \in Excp!Cores, Excp!WaitDone(c) PROVE LInv'
  <2>1. excpc[c] = "blocked" /\ excp[c] \in Excp!Excps /\ Excp!Case(c) \in Excp!Cases
        /\ excpc' = [excpc EXCEPT ![c] = "run"] /\ klock' = [klock EXCEPT ![Excp!Case(c)] = TRUE]
        /\ UNCHANGED <<action, waiting, ulock, handling, excp, hpc, got, faults>>
    BY Zenon, <1>3 DEF Excp!WaitDone, Excp!Case, Excp!Cases
  <2>2. c \notin waiting[excp[c]] /\ \A e \in Excp!Excps : c \notin waiting[e]
    BY <1>3, <2>1 DEF Excp!WaitDone, Excp!Case, Excp!Cases
  <2>3. Excp!TypeOK' /\ WaitersKnown'
    BY <2>1, <2>2
  <2>4. Excp!ReleaseNotLost'
    <3>1. ASSUME NEW w \in Excp!Cases
          PROVE ~klock'[w] <=> /\ excpc'[w.coreid] # "run" /\ excp[w.coreid] = w.excpnum
                               /\ w.coreid \notin waiting[w.excpnum]
      <4>1. CASE w = Excp!Case(c)
        BY <2>1, <4>1 DEF Excp!Case
      <4>2. CASE w # Excp!Case(c) /\ w.coreid = c
        <5>1. w.excpnum # excp[c] /\ klock'[w] = klock[w]
          <6>1. w = [excpnum |-> w.excpnum, coreid |-> w.coreid]
            BY Zenon DEF Excp!Cases
          <6>2. w.excpnum # excp[c]
            BY <4>2, <6>1, Zenon DEF Excp!Case
          <6>3. klock'[w] = klock[w]
            BY <2>1, <4>2
          <6>4. QED
            BY Zenon, <6>2, <6>3
        <5>2. QED
          BY Zenon, <2>1, <4>2, <5>1
      <4>3. CASE w.coreid # c
        <5>1. w # Excp!Case(c) /\ w.coreid \in Excp!Cores
          BY <4>3 DEF Excp!Case, Excp!Cases
        <5>2. klock'[w] = klock[w] /\ excpc'[w.coreid] = excpc[w.coreid]
          BY <2>1, <4>3, <5>1
        <5>3. QED
          BY Zenon, <5>2
      <4>4. QED
        BY Zenon, <4>1, <4>2, <4>3
    <3>2. QED
      BY Zenon, <2>1, <2>3, <3>1
  <2>5. Excp!NotifyNotLost'
    BY SMTT(60), <2>1, <2>2 DEF Excp!Cases
  <2>6. QED
    BY Zenon, <2>3, <2>4, <2>5
<1>4. ASSUME NEW c \in Excp!Cores, NEW e \in Excp!Excps, Excp!WaitEnter(c, e) PROVE LInv'
  BY SMTT(60), <1>4 DEF Excp!WaitEnter, Excp!Cases
<1>5. ASSUME NEW h \in Handlers, Excp!Pause(h) PROVE LInv'
  BY <1>5 DEF Excp!Pause, Excp!PauseGrab, Excp!Grabbed, Excp!Grabbable, Excp!Cases
<1>6. ASSUME NEW h \in Handlers, Excp!PauseAgain(h) PROVE LInv'
  BY <1>6 DEF Excp!PauseAgain, Excp!PauseGrab, Excp!Grabbed, Excp!Grabbable, Excp!Cases
<1>7. ASSUME NEW h \in Handlers, Excp!Resume(h) PROVE LInv'
  <2>1. Excp!NotifyNotLost'
    BY <1>7 DEF Excp!Resume
  <2>2. CASE handling \in Excp!Grabbable
    <3>1. handling \in Excp!Cases /\ handling.excpnum \in Excp!Excps
          /\ handling.coreid \in Excp!Cores
          /\ handling.coreid \in waiting[handling.excpnum]
      BY Zenon, <2>2 DEF Excp!Grabbable, Excp!Cases
    <3>2. waiting' = [waiting EXCEPT ![handling.excpnum] = @ \ {handling.coreid}]
          /\ klock' = [klock EXCEPT ![handling] = FALSE]
          /\ UNCHANGED <<action, ulock, excpc, excp, faults>>
      BY Zenon, <1>7, <2>2 DEF Excp!Resume, Excp!ResumeHandled
    <3>3. Excp!TypeOK'
      BY SMTT(60), <1>7, <2>2, <3>1, <3>2 DEF Excp!Resume, Excp!ResumeHandled
    <3>4. WaitersKnown'
      BY <3>1, <3>2
    <3>5. ASSUME NEW w \in Excp!Cases
          PROVE ~klock'[w] <=> /\ excpc[w.coreid] # "run" /\ excp[w.coreid] = w.excpnum
                               /\ w.coreid \notin waiting'[w.excpnum]
      <4>1. CASE w = handling
        BY <3>1, <3>2, <4>1
      <4>2. CASE w # handling
        <5>1. w.excpnum # handling.excpnum \/ w.coreid # handling.coreid
          BY <3>1, <4>2 DEF Excp!Cases
        <5>2. klock'[w] = klock[w]
              /\ (w.coreid \in waiting'[w.excpnum] <=> w.coreid \in waiting[w.excpnum])
          BY SMTT(60), <3>1, <3>2, <4>2, <5>1 DEF Excp!Cases
        <5>3. QED
          BY Zenon, <5>2
      <4>3. QED
        BY Zenon, <4>1, <4>2
    <3>6. QED
      BY Zenon, <2>1, <3>2, <3>3, <3>4, <3>5
  <2>3. CASE handling \notin Excp!Grabbable
    BY <1>7, <2>1, <2>3 DEF Excp!Resume
  <2>4. QED
    BY Zenon, <2>2, <2>3
<1>8. CASE UNCHANGED Excp!vars
  BY Zenon, <1>8 DEF Excp!vars
<1>9. QED
  BY <1>1, <1>2, <1>3, <1>4, <1>5, <1>6, <1>7, <1>8 DEF Excp!Next, Excp!CoreStep, Excp!HandlerStep

(* The release and the notification are never lost, whatever the number of *)
(* handlers: exception_resume() may come before the core tries its lock,   *)
(* and a handler that goes to sleep has seen every core that waits.        *)
THEOREM NothingLost ==
    ASSUME Excp!ExceptionsAssumption
    PROVE  Excp!Spec => [](Excp!ReleaseNotLost /\ Excp!NotifyNotLost)
<1>1. LInv => Excp!ReleaseNotLost /\ Excp!NotifyNotLost
  BY Zenon DEF LInv
<1>2. QED
  BY InitLInv, StepLInv, <1>1, PTL DEF Excp!Spec

-----------------------------------------------------------------------------
(* With one handler, what it was given stays the exception in "handling",  *)
(* and stays one that somebody waits for, until exception_resume().        *)
LEMMA StepResumes ==
    ASSUME Excp!ExceptionsAssumption, OneHandler
    PROVE  LInv /\ Excp!ResumesWhatItHandles
           /\ [Excp!Next]_(Excp!vars) => Excp!ResumesWhatItHandles'
<1> SUFFICES ASSUME LInv, Excp!ResumesWhatItHandles, [Excp!Next]_(Excp!vars)
             PROVE Excp!ResumesWhatItHandles'
  BY Zenon
<1> USE DEF OneHandler, LInv, Excp!ReleaseNotLost, Excp!TypeOK, WaitersKnown,
            Excp!ResumesWhatItHandles,
            Excp!Grabbable, Excp!Cases, Excp!Goto
<1>1. ASSUME NEW e \in Excp!Excps, NEW a \in {"IGNORE", "HANDLE"}, Excp!Control(e, a)
      PROVE Excp!ResumesWhatItHandles'
  BY Zenon, <1>1 DEF Excp!Control
<1>2. ASSUME NEW c \in Excp!Cores, Excp!CoreStep(c) PROVE Excp!ResumesWhatItHandles'
  BY <1>2 DEF Excp!CoreStep, Excp!WaitNotify, Excp!WaitDone
<1>3. ASSUME NEW c \in Excp!Cores, NEW e \in Excp!Excps, Excp!WaitEnter(c, e)
      PROVE Excp!ResumesWhatItHandles'
  BY SMTT(60), <1>3 DEF Excp!WaitEnter
<1>4. ASSUME NEW h \in Handlers, Excp!Pause(h) \/ Excp!PauseAgain(h)
      PROVE Excp!ResumesWhatItHandles'
  BY <1>4 DEF Excp!Pause, Excp!PauseAgain, Excp!PauseGrab, Excp!Grabbed
<1>5. ASSUME NEW h \in Handlers, Excp!Resume(h) PROVE Excp!ResumesWhatItHandles'
  BY <1>5 DEF Excp!Resume
<1>6. CASE UNCHANGED Excp!vars
  BY Zenon, <1>6 DEF Excp!vars
<1> HIDE DEF Excp!ResumesWhatItHandles
<1>7. QED
  BY <1>1, <1>2, <1>3, <1>4, <1>5, <1>6 DEF Excp!Next, Excp!HandlerStep

(* The hand-off of pm/exception.c is sound with one handler thread: no     *)
(* release and no notification is lost, and exception_resume() resumes the *)
(* core whose exception the handler was given.                             *)
THEOREM Handoff ==
    ASSUME Excp!ExceptionsAssumption, OneHandler
    PROVE  Excp!Spec => []HandoffSound
<1>1. Excp!Init => Excp!ResumesWhatItHandles
  BY Zenon DEF Excp!Init, Excp!ResumesWhatItHandles
<1>2. LInv /\ Excp!ResumesWhatItHandles => HandoffSound
  BY Zenon DEF LInv, HandoffSound, Excp!HandoffSound
<1>3. Excp!Init => LInv
  BY Zenon, InitLInv
<1>4. LInv /\ [Excp!Next]_(Excp!vars) => LInv'
  BY Zenon, StepLInv
<1>5. LInv /\ Excp!ResumesWhatItHandles /\ [Excp!Next]_(Excp!vars) => Excp!ResumesWhatItHandles'
  BY Zenon, StepResumes
<1>6. QED
  BY <1>1, <1>2, <1>3, <1>4, <1>5, PTL DEF Excp!Spec

-----------------------------------------------------------------------------
(* The two tables of signal_control(). *)

(* What is kept besides TablesAgree: a call is about a mapped signal, and  *)
(* between the two updates the HAL's table is ahead of signals[].          *)
SInv ==
    /\ Sig!TablesAgree
    /\ ctl.step # "idle" => ctl \in Sig!Steps /\ ctl.signum \in Mapped
    /\ ctl.step = "set" => (registered[ctl.signum] <=> ctl.handler # NULL)

LEMMA InitSInv == ASSUME Sig!SignalsAssumption PROVE Sig!Init => SInv
<1> SUFFICES ASSUME Sig!SignalsAssumption, Sig!Init PROVE SInv
  BY Zenon
<1>1. Sig!TypeOK
  BY Zenon DEF Sig!Init, Sig!TypeOK
<1>2. ctl.step = "idle" /\ \A s \in Sig!Excps : ~registered[s] /\ handler[s] = NULL
  BY Zenon DEF Sig!Init, Sig!Idle
<1>3. QED
  BY Zenon, <1>1, <1>2 DEF SInv, Sig!TablesAgree

LEMMA StepSInv ==
    ASSUME Sig!SignalsAssumption
    PROVE  SInv /\ [Sig!Next]_(Sig!vars) => SInv'
<1> SUFFICES ASSUME SInv, [Sig!Next]_(Sig!vars) PROVE SInv'
  BY Zenon
<1> USE DEF Sig!SignalsAssumption, SInv, Sig!TablesAgree, Sig!TypeOK, Sig!Idle, Sig!Steps,
            Sig!Return
<1>1. ASSUME NEW s \in Sig!Excps, NEW h \in Fns \cup {NULL}, Sig!Call(s, h) PROVE SInv'
  BY Zenon, <1>1 DEF Sig!Call
<1>2. ASSUME Sig!Update PROVE SInv'
  <2> DEFINE s == ctl.signum
  <2>1. ctl.step = "table" /\ ctl \in Sig!Steps /\ s \in Mapped /\ s \in Sig!Excps
        /\ UNCHANGED <<handler, sigpc, upcall, panicked>>
    BY Zenon, <1>2 DEF Sig!Update
  <2>2. CASE UNCHANGED registered /\ ctl' = Sig!Idle
    BY Zenon, <2>1, <2>2
  <2>3. CASE UNCHANGED registered /\ ctl' = [ctl EXCEPT !.step = "set"]
             /\ ctl.handler # NULL /\ handler[s] # NULL
    BY Zenon, <2>1, <2>3
  <2>4. ASSUME NEW r \in BOOLEAN, registered' = [registered EXCEPT ![s] = r],
               ctl' = [ctl EXCEPT !.step = "set"], r <=> ctl.handler # NULL
        PROVE SInv'
    <3>1. Sig!TypeOK'
      BY Zenon, <2>1, <2>4
    <3>2. ctl' \in Sig!Steps /\ ctl'.step = "set" /\ ctl'.signum = s /\ ctl'.handler = ctl.handler
      BY Zenon, <2>1, <2>4
    <3>3. registered'[s] <=> ctl.handler # NULL
      BY Zenon, <2>1, <2>4
    <3>4. \A q \in Sig!Excps : q # s => (registered'[q] <=> handler[q] # NULL)
      BY Zenon, <2>1, <2>4
    <3>5. QED
      BY Zenon, <2>1, <3>1, <3>2, <3>3, <3>4
  <2>5. QED
    BY Zenon, <1>2, <2>2, <2>3, <2>4 DEF Sig!Update, Sig!Register
<1>3. ASSUME Sig!SetHandler PROVE SInv'
  BY Zenon, <1>3 DEF Sig!SetHandler
<1>4. ASSUME NEW c \in SigCores, Sig!Deliver(c) PROVE SInv'
  <2>1. sigpc[c] \in {Sig!Taken(s) : s \in Sig!Excps} /\ sigpc[c].signum \in Sig!Excps
    BY <1>4 DEF Sig!Deliver, Sig!Taken
  <2>2. panicked' \in BOOLEAN /\ sigpc' = [sigpc EXCEPT ![c] = Sig!Idle]
        /\ upcall' \in [SigCores -> Fns \cup {NULL}]
        /\ UNCHANGED <<registered, handler, ctl>>
    BY Zenon, <1>4, <2>1 DEF Sig!Deliver
  <2>3. QED
    BY Zenon, <2>2
<1>5. ASSUME NEW c \in SigCores, NEW s \in Sig!Excps, Sig!Raise(c, s) PROVE SInv'
  BY Zenon, <1>5 DEF Sig!Raise, Sig!Taken
<1>6. CASE UNCHANGED Sig!vars
  BY Zenon, <1>6 DEF Sig!vars
<1>7. QED
  BY Zenon, <1>1, <1>2, <1>3, <1>4, <1>5, <1>6 DEF Sig!Next

(* The HAL's table and signals[] agree for every signal, except for the    *)
(* one that signal_control() is updating.                                  *)
THEOREM Agreement ==
    ASSUME Sig!SignalsAssumption
    PROVE  Sig!Spec => []TablesAgree
<1>1. SInv => TablesAgree
  BY Zenon DEF SInv, TablesAgree
<1>2. QED
  BY InitSInv, StepSInv, <1>1, PTL DEF Sig!Spec
-----------------------------------------------------------------------------
(* Reference counts and hardware points of noc/sync.c, for any number of   *)
(* nodes, entries, hardware points, threads and references, on hardware    *)
(* that does not fail to release a point.                                  *)
INSTANCE FiniteSetTheorems
INSTANCE WellFoundedInduction

CONSTANTS
    SYNC_CREATE_MAX, SYNC_OPEN_MAX, Nodes, LocalNode, Modes, Master, MaxRefs, ReleaseFails

VARIABLES tab, hw, ops, refs

V == INSTANCE VSync

(* Instances count like FiniteSets. *)
LEMMA SameCount ==
    /\ \A S : V!Cardinality(S) = Cardinality(S)
    /\ \A S : V!IsFiniteSet(S) = IsFiniteSet(S)
BY Zenon DEF V!Cardinality, V!IsFiniteSet, Cardinality, IsFiniteSet

Whos == Threads \cup {Master}

(* An entry that is used owns a hardware point that is allocated, and      *)
(* every such point has one owner.                                         *)
OneOwner ==
    /\ \A i \in V!Ids : tab[i].used => tab[i].hwfd \in hw
    /\ \A i, j \in V!Ids : tab[i].used /\ tab[j].used /\ tab[i].hwfd = tab[j].hwfd => i = j
    /\ \A fd \in hw : \E i \in V!Ids : tab[i].used /\ tab[i].hwfd = fd

(* An operation keeps its entry busy, and is the only one on it. *)
OneOperation ==
    /\ \A who \in Whos : ops[who] # NULL =>
         /\ tab[ops[who].id].used /\ tab[ops[who].id].busy
         /\ ops[who].fd \in {NULL, tab[ops[who].id].hwfd}
    /\ \A v, w \in Whos : ops[v] # NULL /\ ops[w] # NULL /\ ops[v].id = ops[w].id => v = w
    /\ \A i \in V!Ids : tab[i].busy => \E who \in Whos : ops[who] # NULL /\ ops[who].id = i

Counted == \A i \in V!Ids : tab[i].refcount = V!Users(i) /\ (tab[i].used <=> V!Users(i) > 0)

VInv == V!TypeOK /\ Counted /\ OneOwner /\ OneOperation

-----------------------------------------------------------------------------
(* The first entry of a search, or the first free one, is an entry. *)
LEMMA FirstOf ==
    ASSUME V!VSyncAssumption, NEW S, S \subseteq V!Ids, S # {}
    PROVE  V!Min(S) \in S
<1> DEFINE R == OpToRel(<, Nat)
<1>1. S \subseteq Nat
  BY DEF V!VSyncAssumption, V!Ids
<1>2. PICK x \in S : \A y \in S : <<y, x>> \notin R
  BY Zenon, <1>1, NatLessThanWellFounded, WFMin
<1>3. \A y \in S : y < x => <<y, x>> \in R
  BY Zenon, <1>1 DEF OpToRel
<1> HIDE DEF R
<1>4. \A y \in S : ~(y < x)
  BY Zenon, <1>2, <1>3
<1>5. \A y \in S : x <= y
  BY <1>1, <1>4
<1>6. QED
  BY Zenon, <1>5 DEF V!Min

(* The references of all threads to one entry are finitely many. *)
LEMMA ReferencesFinite ==
    ASSUME V!VSyncAssumption, NEW i \in V!Ids
    PROVE  /\ IsFiniteSet(V!References(i)) /\ V!Users(i) \in Nat
           /\ V!Users(i) > 0 <=> V!References(i) # {}
<1>1. IsFiniteSet(1 .. MaxRefs) /\ IsFiniteSet(Threads)
  BY FS_Interval, SameCount DEF V!VSyncAssumption
<1>2. IsFiniteSet(Threads \X (1 .. MaxRefs))
  BY Zenon, <1>1, FS_Product
<1>3. IsFiniteSet(V!References(i))
  BY Zenon, <1>2, FS_Subset DEF V!References
<1>4. QED
  BY <1>3, SameCount, FS_CardinalityType, FS_EmptySet DEF V!Users

LEMMA ReferencesFinitePrime ==
    ASSUME V!VSyncAssumption, NEW i \in V!Ids
    PROVE  /\ IsFiniteSet(V!References(i)') /\ V!Users(i)' \in Nat
           /\ V!Users(i)' > 0 <=> V!References(i)' # {}
<1>1. IsFiniteSet(1 .. MaxRefs) /\ IsFiniteSet(Threads)
  BY FS_Interval, SameCount DEF V!VSyncAssumption
<1>2. IsFiniteSet(Threads \X (1 .. MaxRefs))
  BY Zenon, <1>1, FS_Product
<1>3. IsFiniteSet(V!References(i)')
  BY Zenon, <1>2, FS_Subset DEF V!References
<1>4. QED
  BY <1>3, SameCount, FS_CardinalityType, FS_EmptySet DEF V!Users

(* A thread that has a reference is among the users. *)
LEMMA HolderIsUser ==
    ASSUME V!VSyncAssumption, V!TypeOK, NEW i \in V!Ids, NEW t \in Threads, refs[t][i] > 0
    PROVE  <<t, refs[t][i]>> \in V!References(i) /\ V!Users(i) > 0
<1>1. refs[t][i] \in 1 .. MaxRefs
  BY DEF V!TypeOK, V!VSyncAssumption
<1>2. <<t, refs[t][i]>> \in V!References(i)
  BY <1>1 DEF V!References
<1>3. QED
  BY Zenon, <1>2, ReferencesFinite

LEMMA HolderIsUserPrime ==
    ASSUME V!VSyncAssumption, V!TypeOK', NEW i \in V!Ids, NEW t \in Threads, refs'[t][i] > 0
    PROVE  V!Users(i)' > 0
<1>1. refs'[t][i] \in 1 .. MaxRefs
  BY DEF V!TypeOK, V!VSyncAssumption
<1>2. <<t, refs'[t][i]>> \in V!References(i)'
  BY <1>1 DEF V!References
<1>3. QED
  BY Zenon, <1>2, ReferencesFinitePrime

LEMMA RefsType ==
    ASSUME V!VSyncAssumption, V!TypeOK
    PROVE  MaxRefs \in Nat /\ \A u \in Threads, j \in V!Ids : refs[u][j] \in 0 .. MaxRefs
<1>1. MaxRefs \in Nat
  BY Zenon DEF V!VSyncAssumption
<1>2. refs \in [Threads -> [V!Ids -> 0 .. MaxRefs]]
  BY Zenon DEF V!TypeOK
<1>3. QED
  BY Zenon, <1>1, <1>2

(* One more reference of a thread. *)
LEMMA Referred ==
    ASSUME V!VSyncAssumption, V!TypeOK, NEW i \in V!Ids, NEW t \in Threads, refs[t][i] < MaxRefs,
           V!Refer(t, i)
    PROVE  /\ refs' \in [Threads -> [V!Ids -> 0 .. MaxRefs]]
           /\ V!Users(i)' = V!Users(i) + 1
           /\ \A j \in V!Ids : j # i => V!Users(j)' = V!Users(j)
<1> DEFINE n == refs[t][i] + 1
<1>0. MaxRefs \in Nat /\ \A u \in Threads, j \in V!Ids : refs[u][j] \in 0 .. MaxRefs
  BY Zenon, RefsType
<1>1. refs[t][i] \in 0 .. MaxRefs /\ n \in 1 .. MaxRefs
  BY <1>0
<1>2. refs' \in [Threads -> [V!Ids -> 0 .. MaxRefs]]
  BY <1>1 DEF V!Refer, V!TypeOK
<1>3. \A u \in Threads, j \in V!Ids : refs'[u][j] = IF u = t /\ j = i THEN n ELSE refs[u][j]
  BY Zenon DEF V!Refer, V!TypeOK
<1>4. \A j \in V!Ids : j # i => V!References(j)' = V!References(j)
  BY <1>3 DEF V!References
<1>5. V!References(i)' = V!References(i) \cup {<<t, n>>} /\ <<t, n>> \notin V!References(i)
  <2>1. \A u \in Threads, k \in 1 .. MaxRefs :
           (k <= refs'[u][i]) <=> (k <= refs[u][i] \/ (u = t /\ k = n))
    <3> SUFFICES ASSUME NEW u \in Threads, NEW k \in 1 .. MaxRefs
                 PROVE  (k <= refs'[u][i]) <=> (k <= refs[u][i] \/ (u = t /\ k = n))
      BY Zenon
    <3>1. refs'[u][i] = IF u = t THEN n ELSE refs[u][i]
      BY Zenon, <1>3
    <3>2. QED
      BY <1>0, <1>1, <3>1
  <2>2. <<t, n>> \in Threads \X (1 .. MaxRefs) /\ ~(n <= refs[t][i])
    BY <1>1
  <2>3. QED
    BY <2>1, <2>2 DEF V!References
<1>6. V!Users(i)' = V!Users(i) + 1
  BY Zenon, <1>5, ReferencesFinite, SameCount, FS_AddElement DEF V!Users
<1>7. QED
  BY Zenon, <1>2, <1>4, <1>6 DEF V!Users

(* One reference of a thread less; when it was the last, no thread has one. *)
LEMMA Dropped ==
    ASSUME V!VSyncAssumption, V!TypeOK, NEW i \in V!Ids, NEW t \in Threads, refs[t][i] > 0, V!Drop(t, i)
    PROVE  /\ refs' \in [Threads -> [V!Ids -> 0 .. MaxRefs]]
           /\ V!Users(i)' = V!Users(i) - 1
           /\ \A j \in V!Ids : j # i => V!Users(j)' = V!Users(j)
<1> DEFINE n == refs[t][i]
<1>0. MaxRefs \in Nat /\ \A u \in Threads, j \in V!Ids : refs[u][j] \in 0 .. MaxRefs
  BY Zenon, RefsType
<1>1. n \in 1 .. MaxRefs /\ n - 1 \in 0 .. MaxRefs
  BY <1>0
<1>2. refs' \in [Threads -> [V!Ids -> 0 .. MaxRefs]]
  BY Zenon, <1>1 DEF V!Drop, V!TypeOK
<1>3. \A u \in Threads, j \in V!Ids : refs'[u][j] = IF u = t /\ j = i THEN n - 1 ELSE refs[u][j]
  BY Zenon DEF V!Drop, V!TypeOK
<1>4. \A j \in V!Ids : j # i => V!References(j)' = V!References(j)
  BY <1>3 DEF V!References
<1>5. V!References(i)' = V!References(i) \ {<<t, n>>} /\ <<t, n>> \in V!References(i)
  <2>1. \A u \in Threads, k \in 1 .. MaxRefs :
           (k <= refs'[u][i]) <=> (k <= refs[u][i] /\ ~(u = t /\ k = n))
    <3> SUFFICES ASSUME NEW u \in Threads, NEW k \in 1 .. MaxRefs
                 PROVE  (k <= refs'[u][i]) <=> (k <= refs[u][i] /\ ~(u = t /\ k = n))
      BY Zenon
    <3>1. refs'[u][i] = IF u = t THEN n - 1 ELSE refs[u][i]
      BY Zenon, <1>3
    <3>2. QED
      BY <1>0, <1>1, <3>1
  <2>2. <<t, n>> \in Threads \X (1 .. MaxRefs)
    BY Zenon, <1>1
  <2>3. QED
    BY <2>1, <2>2, HolderIsUser DEF V!References
<1>6. V!Users(i)' = V!Users(i) - 1
  <2>1. Cardinality(V!References(i) \ {<<t, n>>}) = Cardinality(V!References(i)) - 1
    <3> HIDE DEF n
    <3>1. IsFiniteSet(V!References(i)) /\ <<t, n>> \in V!References(i)
      BY Zenon, <1>5, ReferencesFinite
    <3>2. QED
      BY Zenon, <3>1, FS_RemoveElement
  <2>2. QED
    BY Zenon, <1>5, <2>1, SameCount DEF V!Users
<1>7. QED
  BY Zenon, <1>2, <1>4, <1>6 DEF V!Users

-----------------------------------------------------------------------------
EntryType == [used : BOOLEAN, busy : BOOLEAN, type : V!Types \cup {NULL},
              mode : Modes \cup {NULL}, master : Nodes \cup {NULL},
              nodeslist : SUBSET Nodes, hwfd : V!Fds \cup {NULL}, refcount : Nat]

(* What a step may not do to an entry that a thread holds (ReferenceStable). *)
GroupsKept ==
    \A t \in Threads, i \in DOMAIN tab :
      refs[t][i] > 0 /\ refs'[t][i] > 0 => V!Group(tab'[i]) = V!Group(tab[i])

(* Counting leaves the rest of an entry alone. *)
LEMMA Recounted ==
    ASSUME tab \in [V!Ids -> EntryType], NEW i \in V!Ids, NEW n \in Nat,
           tab' = [tab EXCEPT ![i].refcount = n]
    PROVE  /\ tab' \in [V!Ids -> EntryType]
           /\ \A j \in V!Ids :
                /\ tab'[j].used = tab[j].used /\ tab'[j].busy = tab[j].busy
                /\ tab'[j].hwfd = tab[j].hwfd /\ V!Group(tab'[j]) = V!Group(tab[j])
                /\ tab'[j].refcount = IF j = i THEN n ELSE tab[j].refcount
<1>1. tab' \in [V!Ids -> EntryType]
  BY DEF EntryType
<1>2. \A j \in V!Ids : tab'[j] = IF j = i THEN [tab[i] EXCEPT !.refcount = n] ELSE tab[j]
  BY Zenon
<1>3. \A j \in V!Ids : tab[j] \in EntryType
  BY Zenon
<1>4. QED
  BY Zenon, <1>1, <1>2, <1>3 DEF EntryType, V!Group

(* Neither does making it busy or idle. *)
LEMMA Marked ==
    ASSUME tab \in [V!Ids -> EntryType], NEW i \in V!Ids, NEW b \in BOOLEAN,
           tab' = [tab EXCEPT ![i].busy = b]
    PROVE  /\ tab' \in [V!Ids -> EntryType]
           /\ \A j \in V!Ids :
                /\ tab'[j].used = tab[j].used /\ tab'[j].busy = (IF j = i THEN b ELSE tab[j].busy)
                /\ tab'[j].hwfd = tab[j].hwfd /\ V!Group(tab'[j]) = V!Group(tab[j])
                /\ tab'[j].refcount = tab[j].refcount
<1>1. tab' \in [V!Ids -> EntryType]
  BY DEF EntryType
<1>2. \A j \in V!Ids : tab'[j] = IF j = i THEN [tab[i] EXCEPT !.busy = b] ELSE tab[j]
  BY Zenon
<1>3. \A j \in V!Ids : tab[j] \in EntryType
  BY Zenon
<1>4. QED
  BY <1>1, <1>2, <1>3 DEF EntryType, V!Group

(* A step that moves no hardware point. *)
LEMMA OwnersKept ==
    ASSUME VInv, hw' = hw,
           \A j \in V!Ids : tab'[j].used = tab[j].used /\ tab'[j].hwfd = tab[j].hwfd
    PROVE  OneOwner'
<1>1. OneOwner
  BY Zenon DEF VInv
<1>2. \A j \in V!Ids : tab'[j].used => tab'[j].hwfd \in hw'
  BY Zenon, <1>1 DEF OneOwner
<1>3. \A j, k \in V!Ids : tab'[j].used /\ tab'[k].used /\ tab'[j].hwfd = tab'[k].hwfd => j = k
  BY Zenon, <1>1 DEF OneOwner
<1>4. ASSUME NEW fd \in hw' PROVE \E j \in V!Ids : tab'[j].used /\ tab'[j].hwfd = fd
  <2>1. PICK j \in V!Ids : tab[j].used /\ tab[j].hwfd = fd
    BY Zenon, <1>1 DEF OneOwner
  <2>2. QED
    BY Zenon, <2>1
<1>5. QED
  BY Zenon, <1>2, <1>3, <1>4 DEF OneOwner

(* A step that changes one entry, which no operation is on. *)
LEMMA OperationsKept ==
    ASSUME VInv, ops' = ops, NEW i \in V!Ids, ~tab'[i].busy,
           \A j \in V!Ids : j # i => tab'[j] = tab[j],
           \A who \in Whos : ops[who] # NULL => ops[who].id \in V!Ids /\ ops[who].id # i
    PROVE  OneOperation'
<1>1. OneOperation
  BY Zenon DEF VInv
<1>2. \A who \in Whos : ops'[who] # NULL => tab'[ops'[who].id] = tab[ops[who].id]
  BY Zenon
<1>3. \A who \in Whos : ops'[who] # NULL =>
        /\ tab'[ops'[who].id].used /\ tab'[ops'[who].id].busy
        /\ ops'[who].fd \in {NULL, tab'[ops'[who].id].hwfd}
  BY Zenon, <1>1, <1>2 DEF OneOperation
<1>4. \A v, w \in Whos : ops'[v] # NULL /\ ops'[w] # NULL /\ ops'[v].id = ops'[w].id => v = w
  BY Zenon, <1>1 DEF OneOperation
<1>5. \A j \in V!Ids : tab'[j].busy => \E who \in Whos : ops'[who] # NULL /\ ops'[who].id = j
  BY Zenon, <1>1 DEF OneOperation
<1>6. QED
  BY Zenon, <1>3, <1>4, <1>5 DEF OneOperation

(* kernel_sync_create(), kernel_sync_open(): one more user of an entry. *)
LEMMA StepShared ==
    ASSUME V!VSyncAssumption, VInv, NEW t \in Threads, NEW nodes, NEW mode, NEW type,
           V!AllocShared(t, nodes, mode, type)
    PROVE  VInv' /\ GroupsKept
<1>1. PICK i \in V!Ids : i = V!Min(V!Search(nodes, mode, type)) /\ tab[i].used
  <2>1. V!Search(nodes, mode, type) \subseteq V!Ids /\ V!Search(nodes, mode, type) # {}
    BY Zenon DEF V!AllocShared, V!Search
  <2>2. V!Min(V!Search(nodes, mode, type)) \in V!Search(nodes, mode, type)
    BY Zenon, <2>1, FirstOf
  <2>3. QED
    BY Zenon, <2>2 DEF V!Search
<1>2. refs[t][i] < MaxRefs /\ V!Refer(t, i) /\ UNCHANGED <<hw, ops>>
  BY Zenon, <1>1 DEF V!AllocShared
<1>3. tab' = [tab EXCEPT ![i].refcount = @ + 1]
  BY Zenon, <1>1 DEF V!AllocShared
<1>4. tab \in [V!Ids -> EntryType]
  BY Zenon DEF VInv, V!TypeOK, EntryType
<1>n. PICK n \in Nat : n = tab[i].refcount + 1
  <2>1. tab[i].refcount \in Nat
    BY Zenon, <1>4 DEF EntryType
  <2>2. QED
    BY <2>1
<1>5. /\ tab' \in [V!Ids -> EntryType]
      /\ \A j \in V!Ids :
           /\ tab'[j].used = tab[j].used /\ tab'[j].busy = tab[j].busy
           /\ tab'[j].hwfd = tab[j].hwfd /\ V!Group(tab'[j]) = V!Group(tab[j])
           /\ tab'[j].refcount = IF j = i THEN n ELSE tab[j].refcount
  <2>1. tab' = [tab EXCEPT ![i].refcount = n]
    BY Zenon, <1>3, <1>n
  <2>2. QED
    BY ZenonT(60), <1>4, <2>1, Recounted
<1>6. /\ refs' \in [Threads -> [V!Ids -> 0 .. MaxRefs]]
      /\ V!Users(i)' = V!Users(i) + 1
      /\ \A j \in V!Ids : j # i => V!Users(j)' = V!Users(j)
  BY Zenon, <1>1, <1>2, Referred DEF VInv
<1>7. V!TypeOK'
  BY Zenon, <1>2, <1>5, <1>6 DEF VInv, V!TypeOK, EntryType
<1>8. Counted'
  <2>1. \A j \in V!Ids : V!Users(j) \in Nat
    BY Zenon, ReferencesFinite
  <2>2. QED
    BY <1>1, <1>n, <1>5, <1>6, <2>1 DEF VInv, Counted
<1>9. OneOwner'
  BY Zenon, <1>2, <1>5, OwnersKept
<1>10. OneOperation'
  BY Zenon, <1>2, <1>5 DEF VInv, OneOperation, V!TypeOK, V!Operations, Whos
<1>11. GroupsKept
  BY Zenon, <1>4, <1>5 DEF GroupsKept
<1>12. QED
  BY Zenon, <1>7, <1>8, <1>9, <1>10, <1>11 DEF VInv

(* kernel_sync_create(), kernel_sync_open(): a new entry, with a hardware  *)
(* point that nobody had.                                                  *)
LEMMA StepNew ==
    ASSUME V!VSyncAssumption, VInv, NEW t \in Threads, NEW nodes \in V!NodesLists,
           NEW mode \in Modes, NEW type \in V!Types, NEW fd \in V!Fds,
           V!AllocNew(t, nodes, mode, type, fd)
    PROVE  VInv' /\ GroupsKept
<1>1. PICK i \in V!Ids : i = V!Min(V!Available) /\ ~tab[i].used
  <2>1. V!Available \subseteq V!Ids /\ V!Available # {}
    BY Zenon DEF V!AllocNew, V!Available
  <2>2. V!Min(V!Available) \in V!Available
    BY Zenon, <2>1, FirstOf
  <2>3. QED
    BY Zenon, <2>2 DEF V!Available
<1> DEFINE e == V!NewEntry(nodes, mode, type, fd)
<1>2. /\ MaxRefs > 0 /\ fd \notin hw
      /\ tab' = [tab EXCEPT ![i] = e] /\ V!Refer(t, i)
      /\ hw' = hw \cup {fd} /\ ops' = ops
  BY Zenon, <1>1 DEF V!AllocNew
<1>3. tab \in [V!Ids -> EntryType]
  BY Zenon DEF VInv, V!TypeOK, EntryType
<1>4. e \in EntryType /\ e.used /\ ~e.busy /\ e.hwfd = fd /\ e.refcount = 1
  <2>1. PICK n \in 2 .. Cardinality(Nodes) : nodes \in [1 .. n -> Nodes]
    BY Zenon, SameCount DEF V!NodesLists
  <2>2. nodes[1] \in Nodes
    BY <2>1
  <2>3. V!Range(nodes) \subseteq Nodes
    BY Zenon, <2>1 DEF V!Range
  <2>4. QED
    BY Zenon, <2>2, <2>3 DEF V!NewEntry, EntryType
<1> HIDE DEF e
<1>5. /\ tab' \in [V!Ids -> EntryType] /\ tab'[i] = e
      /\ \A j \in V!Ids : j # i => tab'[j] = tab[j]
  BY Zenon, <1>2, <1>3, <1>4
<1>6. \A u \in Threads : refs[u][i] = 0 /\ ~(refs[u][i] > 0)
  <2>1. ~(V!Users(i) > 0)
    BY Zenon, <1>1 DEF VInv, Counted
  <2>2. \A u \in Threads : ~(refs[u][i] > 0)
    BY Zenon, <2>1, HolderIsUser DEF VInv
  <2>3. \A u \in Threads : refs[u][i] \in 0 .. MaxRefs
    BY Zenon DEF VInv, V!TypeOK
  <2>4. QED
    BY SMTT(60), <2>2, <2>3 DEF V!VSyncAssumption
<1>7. /\ refs' \in [Threads -> [V!Ids -> 0 .. MaxRefs]]
      /\ V!Users(i)' = V!Users(i) + 1
      /\ \A j \in V!Ids : j # i => V!Users(j)' = V!Users(j)
  <2>1. refs[t][i] < MaxRefs
    BY Zenon, <1>2, <1>6
  <2>2. QED
    BY Zenon, <1>2, <2>1, Referred DEF VInv
<1>8. V!TypeOK'
  BY Zenon, <1>2, <1>5, <1>7 DEF VInv, V!TypeOK, EntryType
<1>9. Counted'
  <2>1. \A j \in V!Ids : V!Users(j) \in Nat
    BY Zenon, ReferencesFinite
  <2>2. V!Users(i) = 0
    BY <1>1, <2>1 DEF VInv, Counted
  <2>3. QED
    BY <1>4, <1>5, <1>7, <2>1, <2>2 DEF VInv, Counted
<1>10. OneOwner'
  <2>1. \A j \in V!Ids : tab'[j].used => tab'[j].hwfd \in hw'
    BY Zenon, <1>2, <1>4, <1>5 DEF VInv, OneOwner
  <2>2. ASSUME NEW j \in V!Ids, j # i, tab'[j].used PROVE tab'[j].hwfd # fd
    <3>1. tab'[j] = tab[j]
      BY Zenon, <1>5, <2>2
    <3>2. tab[j].hwfd \in hw
      BY Zenon, <2>2, <3>1 DEF VInv, OneOwner
    <3>3. QED
      BY Zenon, <1>2, <3>1, <3>2
  <2>3. \A j, k \in V!Ids : tab'[j].used /\ tab'[k].used /\ tab'[j].hwfd = tab'[k].hwfd => j = k
    BY Zenon, <1>4, <1>5, <2>2 DEF VInv, OneOwner
  <2>4. ASSUME NEW g \in hw' PROVE \E j \in V!Ids : tab'[j].used /\ tab'[j].hwfd = g
    <3>1. CASE g = fd
      BY Zenon, <1>4, <1>5, <3>1
    <3>2. CASE g # fd
      <4>1. PICK j \in V!Ids : tab[j].used /\ tab[j].hwfd = g
        BY Zenon, <1>2, <2>4, <3>2 DEF VInv, OneOwner
      <4>2. j # i
        BY Zenon, <1>1, <4>1
      <4>3. QED
        BY Zenon, <1>5, <4>1, <4>2
    <3>3. QED
      BY Zenon, <3>1, <3>2
  <2>5. QED
    BY Zenon, <2>1, <2>3, <2>4 DEF OneOwner
<1>11. OneOperation'
  <2>1. \A who \in Whos : ops[who] # NULL => ops[who].id \in V!Ids /\ ops[who].id # i
    <3>1. ops \in [Whos -> V!Operations \cup {NULL}]
      BY Zenon DEF VInv, V!TypeOK, Whos
    <3>2. ~tab[i].used
      BY Zenon, <1>1
    <3>3. QED
      BY Zenon, <3>1, <3>2 DEF VInv, OneOperation, V!Operations
  <2>2. QED
    BY Zenon, <1>2, <1>4, <1>5, <2>1, OperationsKept
<1>12. GroupsKept
  BY Zenon, <1>3, <1>5, <1>6 DEF GroupsKept
<1>13. QED
  BY Zenon, <1>8, <1>9, <1>10, <1>11, <1>12 DEF VInv

(* kernel_sync_unlink(), kernel_sync_close() by the last user: the entry   *)
(* is idle, so no operation loses the point that is released.              *)
LEMMA StepFree ==
    ASSUME V!VSyncAssumption, VInv, NEW t \in Threads, NEW i \in V!Ids, refs[t][i] > 0,
           tab[i].used, ~tab[i].busy, V!Free(t, i), ops' = ops
    PROVE  VInv' /\ GroupsKept
<1>1. /\ tab[i].refcount = 1 /\ tab' = [tab EXCEPT ![i] = V!Unused]
      /\ hw' = hw \ {tab[i].hwfd} /\ V!Drop(t, i)
  BY Zenon DEF V!Free, V!IsLast
<1>2. tab \in [V!Ids -> EntryType]
  BY Zenon DEF VInv, V!TypeOK, EntryType
<1>3. /\ V!Unused \in EntryType
      /\ ~V!Unused.used /\ ~V!Unused.busy /\ V!Unused.refcount = 0
  BY Zenon DEF V!Unused, EntryType
<1>4. /\ tab' \in [V!Ids -> EntryType] /\ tab'[i] = V!Unused
      /\ \A j \in V!Ids : j # i => tab'[j] = tab[j]
  BY Zenon, <1>1, <1>2, <1>3
<1>5. /\ refs' \in [Threads -> [V!Ids -> 0 .. MaxRefs]]
      /\ V!Users(i)' = V!Users(i) - 1
      /\ \A j \in V!Ids : j # i => V!Users(j)' = V!Users(j)
  BY Zenon, <1>1, Dropped DEF VInv
<1>6. V!Users(i)' = 0
  BY <1>1, <1>5 DEF VInv, Counted
<1>7. V!TypeOK'
  BY Zenon, <1>1, <1>4, <1>5 DEF VInv, V!TypeOK, EntryType
<1>8. Counted'
  BY <1>3, <1>4, <1>5, <1>6 DEF VInv, Counted
<1>9. OneOwner'
  <2>1. \A j \in V!Ids : tab'[j].used => j # i /\ tab'[j] = tab[j]
    BY Zenon, <1>3, <1>4
  <2>2. ASSUME NEW j \in V!Ids, tab'[j].used PROVE tab'[j].hwfd \in hw'
    <3>1. j # i /\ tab'[j] = tab[j]
      BY Zenon, <2>1, <2>2
    <3>2. tab[j].hwfd \in hw /\ tab[j].hwfd # tab[i].hwfd
      BY Zenon, <2>2, <3>1 DEF VInv, OneOwner
    <3>3. hw' = hw \ {tab[i].hwfd}
      BY Zenon, <1>1
    <3>4. tab[j].hwfd \in hw'
      BY Zenon, <3>2, <3>3
    <3>5. QED
      BY Zenon, <3>1, <3>4
  <2>3. \A j, k \in V!Ids : tab'[j].used /\ tab'[k].used /\ tab'[j].hwfd = tab'[k].hwfd => j = k
    BY Zenon, <2>1 DEF VInv, OneOwner
  <2>4. ASSUME NEW fd \in hw' PROVE \E j \in V!Ids : tab'[j].used /\ tab'[j].hwfd = fd
    <3>1. fd \in hw /\ fd # tab[i].hwfd
      BY Zenon, <1>1, <2>4
    <3>2. PICK j \in V!Ids : tab[j].used /\ tab[j].hwfd = fd
      BY Zenon, <3>1 DEF VInv, OneOwner
    <3>3. QED
      BY Zenon, <1>4, <3>1, <3>2
  <2>5. QED
    BY Zenon, <2>2, <2>3, <2>4 DEF OneOwner
<1>10. OneOperation'
  <2>1. \A who \in Whos : ops[who] # NULL => ops[who].id \in V!Ids /\ ops[who].id # i
    <3>1. ops \in [Whos -> V!Operations \cup {NULL}]
      BY Zenon DEF VInv, V!TypeOK, Whos
    <3>2. QED
      BY Zenon, <3>1 DEF VInv, OneOperation, V!Operations
  <2>2. QED
    BY Zenon, <1>3, <1>4, <2>1, OperationsKept
<1>11. GroupsKept
  <2>1. \A u \in Threads : ~(refs'[u][i] > 0)
    BY <1>6, <1>7, HolderIsUserPrime
  <2>2. QED
    BY Zenon, <1>2, <1>4, <2>1 DEF GroupsKept
<1>12. QED
  BY Zenon, <1>7, <1>8, <1>9, <1>10, <1>11 DEF VInv

(* The same by a user that is not the last. *)
LEMMA StepUnref ==
    ASSUME V!VSyncAssumption, VInv, NEW t \in Threads, NEW i \in V!Ids, refs[t][i] > 0,
           tab[i].used, V!Unref(t, i), ops' = ops
    PROVE  VInv' /\ GroupsKept
<1>1. /\ tab[i].refcount # 1 /\ tab' = [tab EXCEPT ![i].refcount = @ - 1]
      /\ hw' = hw /\ V!Drop(t, i)
  BY Zenon DEF V!Unref, V!IsLast
<1>2. tab \in [V!Ids -> EntryType]
  BY Zenon DEF VInv, V!TypeOK, EntryType
<1>3. \A j \in V!Ids : V!Users(j) \in Nat
  BY Zenon, ReferencesFinite
<1>4. V!Users(i) > 1 /\ tab[i].refcount = V!Users(i)
  <2>1. tab[i].refcount = V!Users(i) /\ V!Users(i) > 0
    BY Zenon DEF VInv, Counted
  <2>2. V!Users(i) \in Nat /\ V!Users(i) # 1
    BY Zenon, <1>1, <1>3, <2>1
  <2>3. QED
    BY <2>1, <2>2
<1>5. PICK n \in Nat : n = tab[i].refcount - 1 /\ n > 0
  BY <1>3, <1>4
<1>6. /\ tab' \in [V!Ids -> EntryType]
      /\ \A j \in V!Ids :
           /\ tab'[j].used = tab[j].used /\ tab'[j].busy = tab[j].busy
           /\ tab'[j].hwfd = tab[j].hwfd /\ V!Group(tab'[j]) = V!Group(tab[j])
           /\ tab'[j].refcount = IF j = i THEN n ELSE tab[j].refcount
  <2>1. tab' = [tab EXCEPT ![i].refcount = n]
    BY Zenon, <1>1, <1>5
  <2>2. QED
    BY ZenonT(60), <1>2, <2>1, Recounted
<1>7. /\ refs' \in [Threads -> [V!Ids -> 0 .. MaxRefs]]
      /\ V!Users(i)' = V!Users(i) - 1
      /\ \A j \in V!Ids : j # i => V!Users(j)' = V!Users(j)
  BY Zenon, <1>1, Dropped DEF VInv
<1>8. V!TypeOK'
  BY Zenon, <1>1, <1>6, <1>7 DEF VInv, V!TypeOK, EntryType
<1>9. Counted'
  BY <1>3, <1>4, <1>5, <1>6, <1>7 DEF VInv, Counted
<1>10. OneOwner'
  BY Zenon, <1>1, <1>6, OwnersKept
<1>11. OneOperation'
  BY <1>1, <1>6 DEF VInv, OneOperation, V!TypeOK, V!Operations, Whos
<1>12. GroupsKept
  BY Zenon, <1>2, <1>6 DEF GroupsKept
<1>13. QED
  BY Zenon, <1>8, <1>9, <1>10, <1>11, <1>12 DEF VInv

(* No reference moves: neither do the counters. *)
LEMMA SameUsers ==
    ASSUME refs' = refs
    PROVE  \A j \in V!Ids : V!Users(j)' = V!Users(j)
  BY Zenon DEF V!Users, V!References

(* _do_sync_operate() starts: the entry was idle, so no other operation is *)
(* on it.                                                                  *)
LEMMA StepOperate ==
    ASSUME V!VSyncAssumption, VInv, NEW who \in Whos, NEW i \in V!Ids, NEW type,
           V!Operate(who, i, type)
    PROVE  VInv' /\ GroupsKept
<1>1. /\ ops[who] = NULL /\ tab[i].used /\ ~tab[i].busy
      /\ tab' = [tab EXCEPT ![i].busy = TRUE]
      /\ ops' = [ops EXCEPT ![who] = [id |-> i, fd |-> NULL]]
      /\ hw' = hw /\ refs' = refs
  BY Zenon DEF V!Operate, V!Usable
<1>2. tab \in [V!Ids -> EntryType] /\ ops \in [Whos -> V!Operations \cup {NULL}]
  BY Zenon DEF VInv, V!TypeOK, EntryType, Whos
<1>3. /\ tab' \in [V!Ids -> EntryType]
      /\ \A j \in V!Ids :
           /\ tab'[j].used = tab[j].used /\ tab'[j].busy = (IF j = i THEN TRUE ELSE tab[j].busy)
           /\ tab'[j].hwfd = tab[j].hwfd /\ V!Group(tab'[j]) = V!Group(tab[j])
           /\ tab'[j].refcount = tab[j].refcount
  BY Zenon, <1>1, <1>2, Marked
<1>4. PICK o \in V!Operations : o = [id |-> i, fd |-> NULL] /\ o # NULL /\ o.id = i /\ o.fd = NULL
  <2> DEFINE r == [id |-> i, fd |-> NULL]
  <2>1. r \in V!Operations /\ r.id = i /\ r.fd = NULL
    BY Zenon DEF V!Operations
  <2> HIDE DEF r
  <2>2. r # NULL
    BY Zenon, <2>1 DEF V!VSyncAssumption
  <2>3. QED
    BY Zenon, <2>1, <2>2 DEF r
<1>5. /\ ops' \in [Whos -> V!Operations \cup {NULL}] /\ ops'[who] = o
      /\ \A w \in Whos : w # who => ops'[w] = ops[w]
  BY Zenon, <1>1, <1>2, <1>4
<1>6. V!TypeOK'
  BY Zenon, <1>1, <1>3, <1>5 DEF VInv, V!TypeOK, EntryType, Whos
<1>7. Counted'
  BY <1>1, <1>3, SameUsers DEF VInv, Counted
<1>8. OneOwner'
  BY Zenon, <1>1, <1>3, OwnersKept
<1>9. OneOperation'
  <2>1. \A w \in Whos : ops[w] # NULL => ops[w].id \in V!Ids /\ ops[w].id # i
    BY Zenon, <1>1, <1>2 DEF VInv, OneOperation, V!Operations
  <2>2. QED
    BY <1>1, <1>3, <1>4, <1>5, <2>1 DEF VInv, OneOperation
<1>10. GroupsKept
  BY Zenon, <1>2, <1>3 DEF GroupsKept
<1>11. QED
  BY Zenon, <1>6, <1>7, <1>8, <1>9, <1>10 DEF VInv

(* The hardware is called on the descriptor that the entry holds then. *)
LEMMA StepCall ==
    ASSUME V!VSyncAssumption, VInv, NEW who \in Whos, V!Call(who)
    PROVE  VInv' /\ GroupsKept
<1>1. /\ ops[who] # NULL /\ ops[who].fd = NULL
      /\ ops' = [ops EXCEPT ![who].fd = tab[ops[who].id].hwfd]
      /\ tab' = tab /\ hw' = hw /\ refs' = refs
  BY Zenon DEF V!Call
<1>2. tab \in [V!Ids -> EntryType] /\ ops \in [Whos -> V!Operations \cup {NULL}]
  BY Zenon DEF VInv, V!TypeOK, EntryType, Whos
<1>3. ops[who] \in V!Operations /\ ops[who].id \in V!Ids
  BY Zenon, <1>1, <1>2 DEF V!Operations
<1>4. tab[ops[who].id].hwfd \in V!Fds \cup {NULL}
  BY Zenon, <1>2, <1>3 DEF EntryType
<1>5. PICK o \in V!Operations : o = [ops[who] EXCEPT !.fd = tab[ops[who].id].hwfd] /\ o # NULL
                              /\ o.id = ops[who].id /\ o.fd = tab[ops[who].id].hwfd
  <2> DEFINE r == [ops[who] EXCEPT !.fd = tab[ops[who].id].hwfd]
  <2>1. r \in V!Operations /\ r.id = ops[who].id /\ r.fd = tab[ops[who].id].hwfd
    BY Zenon, <1>3, <1>4 DEF V!Operations
  <2> HIDE DEF r
  <2>2. r # NULL
    BY Zenon, <2>1 DEF V!VSyncAssumption
  <2>3. QED
    BY Zenon, <2>1, <2>2 DEF r
<1>6. /\ ops' \in [Whos -> V!Operations \cup {NULL}] /\ ops'[who] = o
      /\ \A w \in Whos : w # who => ops'[w] = ops[w]
  BY Zenon, <1>1, <1>2, <1>5
<1>7. V!TypeOK'
  BY <1>1, <1>6 DEF VInv, V!TypeOK, Whos
<1>8. Counted' /\ OneOwner'
  <2>1. Counted'
    BY Zenon, <1>1, SameUsers DEF VInv, Counted
  <2>2. OneOwner'
    BY Zenon, <1>1, OwnersKept
  <2>3. QED
    BY Zenon, <2>1, <2>2
<1>9. OneOperation'
  <2>1. \A w \in Whos : ops'[w] # NULL => ops[w] # NULL /\ ops'[w].id = ops[w].id
    BY Zenon, <1>1, <1>5, <1>6
  <2>2. \A w \in Whos : ops[w] # NULL => ops'[w] # NULL
    BY Zenon, <1>5, <1>6
  <2>3. \A w \in Whos : ops'[w] # NULL => ops'[w].fd \in {NULL, tab[ops[w].id].hwfd}
    BY Zenon, <1>5, <1>6, <2>1 DEF VInv, OneOperation
  <2>4. QED
    BY <1>1, <2>1, <2>2, <2>3 DEF VInv, OneOperation
<1>10. GroupsKept
  BY Zenon, <1>1 DEF GroupsKept
<1>11. QED
  BY <1>7, <1>8, <1>9, <1>10 DEF VInv

(* The hardware returns: the entry is idle again. *)
LEMMA StepReturn ==
    ASSUME V!VSyncAssumption, VInv, NEW who \in Whos, V!Return(who)
    PROVE  VInv' /\ GroupsKept
<1>1. /\ ops[who] # NULL
      /\ tab' = [tab EXCEPT ![ops[who].id].busy = FALSE]
      /\ ops' = [ops EXCEPT ![who] = NULL]
      /\ hw' = hw /\ refs' = refs
  BY Zenon DEF V!Return
<1>2. tab \in [V!Ids -> EntryType] /\ ops \in [Whos -> V!Operations \cup {NULL}]
  BY Zenon DEF VInv, V!TypeOK, EntryType, Whos
<1>3. PICK i \in V!Ids : i = ops[who].id
  BY Zenon, <1>1, <1>2 DEF V!Operations
<1>4. /\ tab' \in [V!Ids -> EntryType]
      /\ \A j \in V!Ids :
           /\ tab'[j].used = tab[j].used /\ tab'[j].busy = (IF j = i THEN FALSE ELSE tab[j].busy)
           /\ tab'[j].hwfd = tab[j].hwfd /\ V!Group(tab'[j]) = V!Group(tab[j])
           /\ tab'[j].refcount = tab[j].refcount
  BY Zenon, <1>1, <1>2, <1>3, Marked
<1>5. /\ ops' \in [Whos -> V!Operations \cup {NULL}] /\ ops'[who] = NULL
      /\ \A w \in Whos : w # who => ops'[w] = ops[w]
  BY Zenon, <1>1, <1>2
<1>6. V!TypeOK'
  BY Zenon, <1>1, <1>4, <1>5 DEF VInv, V!TypeOK, EntryType, Whos
<1>7. Counted'
  BY SMTT(60), <1>1, <1>4, SameUsers DEF VInv, Counted
<1>8. OneOwner'
  BY Zenon, <1>1, <1>4, OwnersKept
<1>9. OneOperation'
  <2>1. \A w \in Whos : w # who /\ ops[w] # NULL => ops[w].id \in V!Ids /\ ops[w].id # i
    BY Zenon, <1>1, <1>2, <1>3 DEF VInv, OneOperation, V!Operations
  <2>2. QED
    BY <1>1, <1>3, <1>4, <1>5, <2>1 DEF VInv, OneOperation
<1>10. GroupsKept
  BY Zenon, <1>2, <1>4 DEF GroupsKept
<1>11. QED
  BY Zenon, <1>6, <1>7, <1>8, <1>9, <1>10 DEF VInv

-----------------------------------------------------------------------------
LEMMA InitVInv ==
    ASSUME V!VSyncAssumption, V!Init
    PROVE  VInv
<1>1. V!Unused \in EntryType /\ ~V!Unused.used /\ ~V!Unused.busy /\ V!Unused.refcount = 0
  BY Zenon DEF V!Unused, EntryType
<1>2. tab \in [V!Ids -> EntryType] /\ \A i \in V!Ids : tab[i] = V!Unused
  BY Zenon, <1>1 DEF V!Init
<1>3. V!TypeOK
  BY <1>2 DEF V!Init, V!TypeOK, EntryType, V!VSyncAssumption
<1>4. \A i \in V!Ids : V!References(i) = {}
  BY DEF V!Init, V!References, V!VSyncAssumption
<1>5. \A i \in V!Ids : V!Users(i) = 0
  BY Zenon, <1>4, SameCount, FS_EmptySet DEF V!Users
<1>6. Counted
  BY <1>1, <1>2, <1>5 DEF Counted
<1>7. OneOwner
  BY Zenon, <1>1, <1>2 DEF V!Init, OneOwner
<1>8. OneOperation
  BY Zenon, <1>1, <1>2 DEF V!Init, OneOperation, Whos
<1>9. QED
  BY Zenon, <1>3, <1>6, <1>7, <1>8 DEF VInv

LEMMA StepVInv ==
    ASSUME V!VSyncAssumption, ~ReleaseFails, VInv, [V!Next]_V!vars
    PROVE  VInv' /\ [GroupsKept]_V!vars
<1>1. CASE UNCHANGED V!vars
  <2>1. V!TypeOK' /\ OneOwner' /\ OneOperation'
    BY Zenon, <1>1 DEF VInv, V!vars, V!TypeOK, OneOwner, OneOperation
  <2>2. Counted'
    BY Zenon, <1>1, SameUsers DEF VInv, V!vars, Counted
  <2>3. QED
    BY Zenon, <1>1, <2>1, <2>2 DEF VInv
<1>2. ASSUME NEW t \in Threads, NEW nodes \in V!NodesLists, NEW mode \in Modes,
             NEW type \in V!Types, V!Alloc(t, nodes, mode, type)
      PROVE  VInv' /\ GroupsKept
  BY Zenon, <1>2, StepShared, StepNew DEF V!Alloc
<1>3. ASSUME NEW t \in Threads, NEW i \in V!Ids, V!Release(t, i)
      PROVE  VInv' /\ GroupsKept
  <2>1. refs[t][i] > 0 /\ tab[i].used /\ ~tab[i].busy /\ ops' = ops
    BY Zenon, <1>3 DEF V!Release, V!Usable
  <2>2. V!Free(t, i) \/ V!Unref(t, i)
    BY Zenon, <1>3 DEF V!Release, V!FreeFails
  <2>3. QED
    BY Zenon, <2>1, <2>2, StepFree, StepUnref
<1>4. ASSUME NEW t \in Threads, NEW i \in V!Ids, V!Wait(t, i) \/ V!Signal(t, i)
      PROVE  VInv' /\ GroupsKept
  BY Zenon, <1>4, StepOperate DEF V!Wait, V!Signal, Whos
<1>5. ASSUME NEW who \in Whos, V!Call(who) \/ V!Return(who)
      PROVE  VInv' /\ GroupsKept
  BY Zenon, <1>5, StepCall, StepReturn
<1>6. QED
  BY Zenon, <1>1, <1>2, <1>3, <1>4, <1>5 DEF V!Next, Whos

(* One owner, and one operation, as the cardinalities of EntriesExact. *)
LEMMA VInvExact ==
    ASSUME VInv
    PROVE  V!EntriesExact
<1>1. V!RefcountExact
  BY Zenon DEF VInv, Counted, V!RefcountExact
<1>2. V!HardwareOwned
  <2> SUFFICES ASSUME NEW fd \in V!Fds
               PROVE  Cardinality({i \in V!Ids : tab[i].used /\ tab[i].hwfd = fd})
                        = IF fd \in hw THEN 1 ELSE 0
    BY Zenon, SameCount DEF V!HardwareOwned
  <2> DEFINE Owners == {i \in V!Ids : tab[i].used /\ tab[i].hwfd = fd}
  <2>1. CASE fd \in hw
    <3>1. PICK i \in V!Ids : tab[i].used /\ tab[i].hwfd = fd
      BY Zenon, <2>1 DEF VInv, OneOwner
    <3>2. Owners = {i}
      BY <3>1 DEF VInv, OneOwner
    <3>3. QED
      BY Zenon, <2>1, <3>2, FS_Singleton
  <2>2. CASE fd \notin hw
    <3>1. Owners = {}
      BY <2>2 DEF VInv, OneOwner
    <3>2. QED
      BY Zenon, <2>2, <3>1, FS_EmptySet
  <2>3. QED
    BY Zenon, <2>1, <2>2
<1>3. V!OperatesOnOwn
  <2>1. DOMAIN ops = Whos /\ \A who \in Whos : ops[who] # NULL => ops[who].id \in V!Ids
    BY Zenon DEF VInv, V!TypeOK, V!Operations, Whos
  <2>2. \A who \in DOMAIN ops : ops[who] # NULL =>
           /\ tab[ops[who].id].hwfd \in hw
           /\ ops[who].fd \in {NULL, tab[ops[who].id].hwfd}
    BY Zenon, <2>1 DEF VInv, OneOwner, OneOperation
  <2>3. ASSUME NEW i \in V!Ids
        PROVE  Cardinality({who \in DOMAIN ops : ops[who] # NULL /\ ops[who].id = i})
                 = IF tab[i].busy THEN 1 ELSE 0
    <3> DEFINE Operators == {who \in DOMAIN ops : ops[who] # NULL /\ ops[who].id = i}
    <3>1. CASE tab[i].busy
      <4>1. PICK who \in Whos : ops[who] # NULL /\ ops[who].id = i
        BY Zenon, <3>1 DEF VInv, OneOperation
      <4>2. Operators = {who}
        BY <2>1, <4>1 DEF VInv, OneOperation
      <4>3. QED
        BY Zenon, <3>1, <4>2, FS_Singleton
    <3>2. CASE ~tab[i].busy
      <4>1. Operators = {}
        BY <2>1, <3>2 DEF VInv, OneOperation
      <4>2. QED
        BY Zenon, <3>2, <4>1, FS_EmptySet
    <3>3. QED
      BY Zenon, <3>1, <3>2
  <2>4. QED
    BY Zenon, <2>2, <2>3, SameCount DEF V!OperatesOnOwn
<1>4. QED
  BY Zenon, <1>1, <1>2, <1>3 DEF V!EntriesExact

(* _do_sync_alloc(), _do_sync_release() and _do_sync_operate() count       *)
(* exactly: an entry is used as long as some thread holds a reference to   *)
(* it, each allocated hardware point belongs to one used entry, and an     *)
(* operation that runs without vsync_lock keeps the point it works on.     *)
(* For any tables and any finite set of threads, when the hardware         *)
(* releases what it is asked to release.                                   *)
THEOREM Exact ==
    ASSUME V!VSyncAssumption, ~ReleaseFails
    PROVE  V!Spec => []V!EntriesExact
<1>1. V!Init => VInv
  BY Zenon, InitVInv
<1>2. VInv /\ [V!Next]_V!vars => VInv'
  BY Zenon, StepVInv
<1>3. VInv => V!EntriesExact
  BY Zenon, VInvExact
<1>4. QED
  BY <1>1, <1>2, <1>3, PTL DEF V!Spec

(* The group and the hardware point behind an ID never change under a      *)
(* thread that keeps a reference to it: _do_sync_alloc() writes only       *)
(* entries that nobody holds, and _do_sync_release() clears one only with  *)
(* its last reference.                                                     *)
THEOREM Stable ==
    ASSUME V!VSyncAssumption, ~ReleaseFails
    PROVE  V!Spec => V!ReferenceStable
<1>1. V!Init => VInv
  BY Zenon, InitVInv
<1>2. VInv /\ [V!Next]_V!vars => VInv' /\ [GroupsKept]_V!vars
  BY Zenon, StepVInv
<1>3. QED
  BY <1>1, <1>2, PTL DEF V!Spec, V!ReferenceStable, GroupsKept
=============================================================================
