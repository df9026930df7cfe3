-------------------------------- MODULE Sleep --------------------------------
(***************************************************************************)
(* kernel_sleep() and kernel_wakeup() of sys/sleep.c.  A thread sleeps on   *)
(* the condition of its core; kernel_wakeup() is a forwarded kernel call,   *)
(* which the master core runs for one caller at a time and which looks for  *)
(* the thread in queues[].                                                  *)
(*                                                                          *)
(* A core runs one thread while it sleeps, so a thread stands for its core. *)
(* Module Semaphore has cond_wait() and cond_broadcast() step by step; here *)
(* every access to a condition is made under "lock", and each is one step.  *)
(***************************************************************************)
EXTENDS Naturals

CONSTANTS
    Sleepers    \* threads that call kernel_sleep()

VARIABLES
    lock,       \* the lock of queues[]: "free", "master" or its owner
    tid,        \* queues[].tid is the ID of the thread of that core
    queue,      \* queues[].cond.queue holds the thread
    wakeups,    \* HAL: wakeups a core has pending
    pc,         \* where each thread is
    master      \* kernel_wakeup(): [step, tid]

vars == <<lock, tid, queue, wakeups, pc, master>>

Idle == [step |-> "idle"]

Init ==
    /\ lock = "free"
    /\ tid = [t \in Sleepers |-> FALSE]
    /\ queue = [t \in Sleepers |-> FALSE]
    /\ wakeups = [t \in Sleepers |-> 0]
    /\ pc = [t \in Sleepers |-> "user"]
    /\ master = Idle

Goto(t, from, to) ==
    /\ pc[t] = from
    /\ pc' = [pc EXCEPT ![t] = to]

(* Mutant: the table names the thread, and the lock is free again, before  *)
(* the thread is on the condition.                                         *)
SleepEnterUnlocks(t) ==
    /\ Goto(t, "user", "locked")
    /\ lock = "free"
    /\ tid' = [tid EXCEPT ![t] = TRUE]
    /\ UNCHANGED <<lock, queue, wakeups, master>>

(* kernel_sleep(): spinlock_lock(&lock), queues[coreid].tid = ... *)
SleepEnter(t) ==
    /\ Goto(t, "user", "locked")
    /\ lock = "free"
    /\ lock' = t
    /\ tid' = [tid EXCEPT ![t] = TRUE]
    /\ UNCHANGED <<queue, wakeups, master>>

(* cond_wait() queues the thread and unlocks. *)
CondWait(t) ==
    /\ Goto(t, "locked", "asleep")
    /\ queue' = [queue EXCEPT ![t] = TRUE]
    /\ lock' = "free"
    /\ UNCHANGED <<tid, wakeups, master>>

(* core_sleep() returns with a wakeup. *)
CoreSleep(t) ==
    /\ Goto(t, "asleep", "awake")
    /\ wakeups[t] > 0
    /\ wakeups' = [wakeups EXCEPT ![t] = @ - 1]
    /\ UNCHANGED <<lock, tid, queue, master>>

(* cond_wait() locks again; queues[coreid].tid = -1 and the unlock follow. *)
SleepReturn(t) ==
    /\ Goto(t, "awake", "user")
    /\ lock = "free"
    /\ tid' = [tid EXCEPT ![t] = FALSE]
    /\ UNCHANGED <<lock, queue, wakeups, master>>

(* kernel_wakeup(): the search under the lock; -EAGAIN unlocks. *)
Wakeup(t) ==
    /\ master = Idle
    /\ lock = "free"
    /\ \/ tid[t] /\ master' = [step |-> "found", tid |-> t] /\ lock' = "master"
       \/ ~tid[t] /\ UNCHANGED <<master, lock>>
    /\ UNCHANGED <<tid, queue, wakeups, pc>>

(* cond_broadcast(), the unlock and the return of 0 *)
Broadcast ==
    /\ master.step = "found"
    /\ LET t == master.tid IN
       /\ wakeups' = [wakeups EXCEPT ![t] = @ + IF queue[t] THEN 1 ELSE 0]
       /\ queue' = [queue EXCEPT ![t] = FALSE]
    /\ lock' = "free"
    /\ master' = Idle
    /\ UNCHANGED <<tid, pc>>

Continue(t) == CondWait(t) \/ CoreSleep(t) \/ SleepReturn(t)

Next ==
    \/ \E t \in Sleepers : SleepEnter(t) \/ Continue(t) \/ Wakeup(t)
    \/ Broadcast

(* A core inside kernel_sleep() and the master core keep executing.  The   *)
(* spinlock is not fair: nothing is assumed about who gets it.             *)
FairSpec ==
    /\ Init /\ [][Next]_vars
    /\ WF_vars(Broadcast)
    /\ \A t \in Sleepers : WF_vars(Continue(t))

-----------------------------------------------------------------------------
(* A wakeup that reports success ends the sleep it found: the thread whose *)
(* ID kernel_wakeup() matched leaves core_sleep().  No wakeup is lost      *)
(* between the moment the table names the thread and the moment its core   *)
(* sleeps.                                                                 *)
WakeupEndsSleep ==
    \A t \in Sleepers :
        (master.step = "found" /\ master.tid = t) ~> (pc[t] \in {"awake", "user"})
=============================================================================
