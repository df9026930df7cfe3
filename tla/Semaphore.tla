------------------------------ MODULE Semaphore ------------------------------
(***************************************************************************)
(* One kernel semaphore as pm/semaphore.c implements it on top of          *)
(* pm/cond.c and pm/sleep.c.  A thread never leaves its core inside these  *)
(* functions, so a thread stands for the core it runs on.                  *)
(*                                                                         *)
(* Spinlocks are owner variables.  The condition variable's own spinlock   *)
(* is kept because the broadcaster holds it over several steps.  The queue *)
(* is the linked list of the code: "queue" is cond->queue and next[t] is   *)
(* t->next.  core_sleep() and core_wakeup() belong to the HAL: a wakeup is *)
(* remembered until the core sleeps, which is what pm/sleep.c relies on    *)
(* when it drops the lock before it sleeps.                                *)
(***************************************************************************)
EXTENDS Naturals, FiniteSets

CONSTANTS
    Downers,    \* threads that call semaphore_down()
    Uppers,     \* threads that call semaphore_up()
    InitCount,  \* SEMAPHORE_INITIALIZER(x)
    MaxCount,   \* bound: no semaphore_up() is called at this count
    NULL        \* null pointer, and "nobody holds the lock"

Threads == Downers \cup Uppers

ASSUME SemaphoreAssumption ==
    /\ NULL \notin Threads
    /\ InitCount \in Nat
    /\ MaxCount \in Nat

VARIABLES
    lock,      \* sem->lock: its owner
    count,     \* sem->count
    condlock,  \* sem->cond.lock: its owner
    queue,     \* sem->cond.queue
    next,      \* thread->next
    wakeups,   \* HAL: wakeups a core has pending
    pc         \* where each thread is

vars == <<lock, count, condlock, queue, next, wakeups, pc>>

Waiting == {"down_locked", "down_take", "down_queued", "down_asleep", "down_awake"}
Raising == {"up_locked", "up_broadcast", "up_woke"}

Init ==
    /\ lock = NULL
    /\ count = InitCount
    /\ condlock = NULL
    /\ queue = NULL
    /\ next = [t \in Threads |-> NULL]
    /\ wakeups = [t \in Threads |-> 0]
    /\ pc = [t \in Threads |-> "idle"]

Goto(t, from, to) ==
    /\ pc[t] = from
    /\ pc' = [pc EXCEPT ![t] = to]

Acquire(t) ==
    /\ lock = NULL
    /\ lock' = t

Release(t) == lock' = NULL

(* semaphore_down(): spinlock_lock(&sem->lock). *)
DownLock(t) ==
    /\ t \in Downers
    /\ Goto(t, "idle", "down_locked")
    /\ Acquire(t)
    /\ UNCHANGED <<count, condlock, queue, next, wakeups>>

(* "if (sem->count > 0) break;" leaves the loop. *)
DownCheck(t) ==
    /\ Goto(t, "down_locked", "down_take")
    /\ count > 0
    /\ UNCHANGED <<lock, count, condlock, queue, next, wakeups>>

(* sem->count--, spinlock_unlock(&sem->lock). *)
DownTake(t) ==
    /\ Goto(t, "down_take", "idle")
    /\ count' = count - 1
    /\ Release(t)
    /\ UNCHANGED <<condlock, queue, next, wakeups>>

(* Mutant: the thread does not link the rest of the queue behind itself. *)
CondWaitNoLink(t) ==
    /\ Goto(t, "down_locked", "down_queued")
    /\ ~(count > 0)
    /\ queue' = t
    /\ UNCHANGED <<lock, count, condlock, next, wakeups>>

(* cond_wait(): the thread pushes itself under cond->lock. *)
CondWait(t) ==
    /\ Goto(t, "down_locked", "down_queued")
    /\ ~(count > 0)
    /\ condlock = NULL
    /\ next' = [next EXCEPT ![t] = queue]
    /\ queue' = t
    /\ UNCHANGED <<lock, count, condlock, wakeups>>

(* thread_asleep(): spinlock_unlock(lock). *)
Asleep(t) ==
    /\ Goto(t, "down_queued", "down_asleep")
    /\ Release(t)
    /\ UNCHANGED <<count, condlock, queue, next, wakeups>>

(* core_sleep() returns once a wakeup is pending, and consumes it. *)
CoreSleep(t) ==
    /\ Goto(t, "down_asleep", "down_awake")
    /\ wakeups[t] > 0
    /\ wakeups' = [wakeups EXCEPT ![t] = @ - 1]
    /\ UNCHANGED <<lock, count, condlock, queue, next>>

(* Mutant: an "if" in place of the loop, count is not tested again. *)
RelockNoRecheck(t) ==
    /\ Goto(t, "down_awake", "down_take")
    /\ Acquire(t)
    /\ UNCHANGED <<count, condlock, queue, next, wakeups>>

(* thread_asleep(): spinlock_lock(lock), then the loop tests count again. *)
Relock(t) ==
    /\ Goto(t, "down_awake", "down_locked")
    /\ Acquire(t)
    /\ UNCHANGED <<count, condlock, queue, next, wakeups>>

(* semaphore_up(): spinlock_lock(&sem->lock). *)
UpLock(t) ==
    /\ t \in Uppers
    /\ count < MaxCount
    /\ Goto(t, "idle", "up_locked")
    /\ Acquire(t)
    /\ UNCHANGED <<count, condlock, queue, next, wakeups>>

(* sem->count++, and cond_broadcast() takes cond->lock. *)
UpCount(t) ==
    /\ Goto(t, "up_locked", "up_broadcast")
    /\ count' = count + 1
    /\ condlock = NULL
    /\ condlock' = t
    /\ UNCHANGED <<lock, queue, next, wakeups>>

(* cond_broadcast(): thread_wakeup(cond->queue). *)
BroadcastWake(t) ==
    /\ Goto(t, "up_broadcast", "up_woke")
    /\ queue # NULL
    /\ wakeups' = [wakeups EXCEPT ![queue] = @ + 1]
    /\ UNCHANGED <<lock, count, condlock, queue, next>>

(* cond_broadcast(): cond->queue = cond->queue->next, read after the wakeup. *)
BroadcastNext(t) ==
    /\ Goto(t, "up_woke", "up_broadcast")
    /\ queue' = next[queue]
    /\ UNCHANGED <<lock, count, condlock, next, wakeups>>

(* Mutant: the broadcast may stop before the queue is empty. *)
BroadcastDoneEarly(t) ==
    /\ Goto(t, "up_broadcast", "idle")
    /\ condlock' = NULL
    /\ Release(t)
    /\ UNCHANGED <<count, queue, next, wakeups>>

(* The queue is empty: both locks are released and semaphore_up() returns. *)
BroadcastDone(t) ==
    /\ Goto(t, "up_broadcast", "idle")
    /\ queue = NULL
    /\ condlock' = NULL
    /\ Release(t)
    /\ UNCHANGED <<count, queue, next, wakeups>>

Step(t) ==
    \/ DownLock(t) \/ DownCheck(t) \/ DownTake(t)
    \/ CondWait(t) \/ Asleep(t) \/ CoreSleep(t) \/ Relock(t)
    \/ UpLock(t) \/ UpCount(t)
    \/ BroadcastWake(t) \/ BroadcastNext(t) \/ BroadcastDone(t)

Next == \E t \in Threads : Step(t)

Spec == Init /\ [][Next]_vars

(* A core that is inside one of the two functions keeps executing; whether *)
(* a thread calls them at all is up to the program.                        *)
Continue(t) == Step(t) /\ pc[t] # "idle"

FairSpec == Spec /\ \A t \in Threads : WF_vars(Continue(t))

-----------------------------------------------------------------------------
(* Types of the semaphore, the list and the program counters. *)
TypeOK ==
    /\ lock \in Threads \cup {NULL}
    /\ count \in Nat
    /\ condlock \in Threads \cup {NULL}
    /\ queue \in Threads \cup {NULL}
    /\ next \in [Threads -> Threads \cup {NULL}]
    /\ wakeups \in [Threads -> Nat]
    /\ pc \in [Threads -> {"idle"} \cup Waiting \cup Raising]

(* The members of the linked list: the least set that holds the head and   *)
(* is closed under next.                                                   *)
Queued ==
    {t \in Threads : \A S \in SUBSET Threads :
        ((queue # NULL => queue \in S)
         /\ (\A u \in S : next[u] # NULL => next[u] \in S)) => t \in S}

(* The head of the list whose wakeup was already sent by a broadcaster     *)
(* that did not read its next pointer yet.                                 *)
BeingWoken == {t \in Threads : t = queue /\ \E b \in Threads : pc[b] = "up_woke"}

(* Every thread that committed itself to sleep in cond_wait() is either on *)
(* the condition's list or has exactly one wakeup pending, never both and  *)
(* never neither; no other thread is on the list or has a wakeup left that *)
(* would cut a later sleep short.                                          *)
WakeupBalance ==
    \A t \in Threads :
        wakeups[t] + (IF t \in Queued \ BeingWoken THEN 1 ELSE 0)
          = (IF pc[t] \in {"down_queued", "down_asleep"} THEN 1
             ELSE 0)

(* A semaphore_up() wakes whoever sleeps: a thread asleep while a token is *)
(* available does not stay asleep.                                         *)
TokenWakesSleepers ==
    \A t \in Threads :
        (pc[t] = "down_asleep" /\ count > 0) ~> (pc[t] # "down_asleep")

(* The implementation implements the abstract counter: tokens are neither  *)
(* lost nor taken twice whatever the interleaving.                         *)
Abs == INSTANCE AbsSemaphore WITH
          value <- count,
          downing <- {t \in Threads : pc[t] \in Waiting}

ImplementsAbs == Abs!Spec
=============================================================================
