------------------------------ MODULE Threads ------------------------------
(***************************************************************************)
(* The multithreaded thread system, pm/thread/multithread.c, and its       *)
(* kernel calls, sys/thread.c: the thread table, the run queue that all    *)
(* cores share, thread_yield(), the idle threads, thread creation on the   *)
(* master core, exit, and join.                                            *)
(*                                                                         *)
(* The table is indexed by slot; an execution (a stack and where it is in  *)
(* the code) is named by the ID of the thread it was created for.  core[c] *)
(* is the execution a core really runs, ctx[s] the execution saved in the  *)
(* context of a slot; both may disagree with the table.  A section under   *)
(* lock_tm is one step.  Semaphores are atomic (module Semaphore).         *)
(***************************************************************************)
EXTENDS Integers, Sequences, FiniteSets, ExitValues

CONSTANTS
    CORES_NUM,   \* core 0 is the master, the others run user threads
    THREAD_MAX,  \* user slots
    MaxTid,      \* bound: thread IDs that are handed out
    MaxSem       \* bound: a user thread does not yield above this count

ASSUME ThreadsAssumption ==
    /\ CORES_NUM \in Nat \ {0, 1}
    /\ THREAD_MAX \in Nat \ {0}
    /\ MaxTid \in Nat /\ MaxTid >= CORES_NUM
    /\ MaxSem \in Nat

NULL == -1
Cores == 0 .. CORES_NUM - 1
Workers == 1 .. CORES_NUM - 1
Slots == 0 .. CORES_NUM + THREAD_MAX - 1
Users == CORES_NUM .. CORES_NUM + THREAD_MAX - 1
Tids == 0 .. MaxTid

VARIABLES
    state, tid, coreid, next, ctx,  \* threads[]
    stack,      \* execution on the pages ustacks[] and kstacks[] of a slot
    sched,      \* sched_queue
    nthreads, next_tid,
    joincond,   \* waiters of joincond[], last one first
    exits,      \* exit_values[]
    fence,      \* idle_fence is locked
    wakeups,    \* HAL: pending wake-ups of a core
    core, pc, frame,  \* executions: on which core, where, and their locals
    joined,     \* what the last thread_join() of an execution returned
    panic       \* a KASSERT() failed

table == <<state, tid, coreid, next, ctx, stack, nthreads, next_tid>>
vars == <<table, sched, joincond, exits, fence, wakeups, core, pc, frame, joined, panic>>

(* The state that thread_init() leaves behind. *)
Init ==
    /\ state = [s \in Slots |-> IF s \in Cores THEN "RUNNING" ELSE "NOT_STARTED"]
    /\ tid = [s \in Slots |-> IF s \in Cores THEN s ELSE NULL]
    /\ coreid = [s \in Slots |-> IF s \in Cores THEN s ELSE 0]
    /\ next = [s \in Slots |-> NULL]
    /\ ctx = [s \in Slots |-> NULL]
    /\ stack = [s \in Slots |-> NULL]
    /\ sched = [head |-> NULL, tail |-> NULL, size |-> 0, sem |-> 0]
    /\ nthreads = CORES_NUM
    /\ next_tid = CORES_NUM
    /\ joincond = [s \in Slots |-> <<>>]
    /\ exits = InitExits
    /\ fence = TRUE
    /\ wakeups = [c \in Cores |-> 0]
    /\ core = [c \in Cores |-> c]
    /\ pc = [x \in Tids |-> CASE x = 0 -> "boot" [] x = 1 -> "first"
                              [] x \in Workers \ {1} -> "fence" [] OTHER -> "none"]
    /\ frame = [x \in Tids |-> [curr |-> NULL, next |-> NULL, tid |-> NULL, ret |-> "run"]]
    /\ joined = [x \in Tids |-> [tid |-> NULL, retval |-> NoValue]]
    /\ panic = FALSE

At(c, label) == pc[core[c]] = label
Goto(c, label) == pc' = [pc EXCEPT ![core[c]] = label]

(* The first and the last slot of a set, in the order of a scan. *)
First(S) == CHOOSE s \in S : \A t \in S : s <= t
Last(S) == CHOOSE s \in S : \A t \in S : t <= s

(* thread_get_curr(): the scan of the table. *)
thread_get_curr(c) ==
    LET running == {s \in Slots : coreid[s] = c /\ state[s] = "RUNNING"}
        terminated == {s \in Slots : coreid[s] = c /\ state[s] = "TERMINATED"}
    IN  IF running # {} THEN First(running)
        ELSE IF terminated # {} THEN Last(terminated) ELSE NULL

-----------------------------------------------------------------------------
(* The run queue. *)

(* Mutants: the tail is not moved; nobody is notified. *)
ScheduleNoTail(q, s) ==
    [q EXCEPT !.head = IF q.size = 0 THEN s ELSE @, !.size = @ + 1, !.sem = @ + 1]
(* thread_schedule(): the queue with s at its tail, ... *)
Schedule(q, s) ==
    [head |-> IF q.size = 0 THEN s ELSE q.head, tail |-> s,
     size |-> q.size + 1, sem |-> q.sem + 1]

(* ... and the next pointers. *)
Link(q, n, s) ==
    [t \in Slots |-> IF t = s THEN NULL ELSE IF q.size > 0 /\ t = q.tail THEN s ELSE n[t]]

(* thread_yield(): the next thread of a core whose current one is curr. *)
NextThread(c, curr) ==
    IF sched.size > 0 THEN sched.head
    ELSE IF state[curr] # "TERMINATED" THEN curr
    ELSE c

(* The current thread goes to the queue; IDLE_THREAD(c) is slot c. *)
Requeue(c, curr) == sched.size > 0 /\ state[curr] # "TERMINATED" /\ curr # c

(* thread_yield(), first section: choose, requeue, retire. *)
YieldPick(c) ==
    LET curr == thread_get_curr(c)
        nx == NextThread(c, curr)
        taken == sched.size > 0
        dead == state[curr] = "TERMINATED"
        q == IF taken THEN [sched EXCEPT !.head = next[nx], !.size = @ - 1] ELSE sched
        n == IF taken THEN [next EXCEPT ![nx] = NULL] ELSE next
    IN  /\ At(c, "yield")
        /\ sched' = IF Requeue(c, curr) THEN Schedule(q, curr) ELSE q
        /\ next' = IF Requeue(c, curr) THEN Link(q, n, curr)
                   ELSE IF dead THEN [n EXCEPT ![nx] = curr] ELSE n
        /\ coreid' = [s \in Slots |-> IF taken /\ s = nx THEN c
                                      ELSE IF Requeue(c, curr) /\ s = curr THEN NULL
                                      ELSE coreid[s]]
        /\ state' = [s \in Slots |-> IF s = nx THEN "RUNNING"
                                     ELSE IF s # curr THEN state[s]
                                     ELSE IF dead THEN "ZOMBIE"
                                     ELSE IF taken THEN "STOPPED" ELSE state[s]]
        /\ panic' = \/ dead /\ curr \in {c, nx}
                    \/ Requeue(c, curr) /\ curr \notin Users
        /\ frame' = [frame EXCEPT ![core[c]].curr = curr, ![core[c]].next = nx]
        /\ Goto(c, "switch")
        /\ UNCHANGED <<tid, ctx, stack, nthreads, next_tid, joincond, exits, fence,
                       wakeups, core, joined>>

(* thread_switch_to(): what it refuses, -EINVAL. *)
CanSwitch(prev, nx) == ctx[prev] = NULL /\ ctx[nx] # NULL

(* thread_yield() between its sections: the HAL's context_switch_to()      *)
(* saves this execution in curr and resumes the one saved in next.  When   *)
(* next has no context yet the switch fails, and the code goes on.         *)
Switch(c) ==
    LET f == frame[core[c]]
        switches == f.curr # f.next /\ CanSwitch(f.curr, f.next)
    IN  /\ At(c, "switch")
        /\ panic' = (ctx[f.curr] # NULL)
        /\ \/ /\ switches
              /\ core' = [core EXCEPT ![c] = ctx[f.next]]
              /\ ctx' = [ctx EXCEPT ![f.curr] = core[c], ![f.next] = NULL]
           \/ /\ ~switches
              /\ UNCHANGED <<core, ctx>>
        /\ Goto(c, "back")
        /\ UNCHANGED <<state, tid, coreid, next, stack, nthreads, next_tid, sched,
                       joincond, exits, fence, wakeups, frame, joined>>

(* thread_free() of the zombie that slot s was left with. *)
ReapAfter(s) ==
    LET z == next[s]
    IN  IF z # NULL /\ state[z] = "ZOMBIE"
        THEN /\ stack' = [stack EXCEPT ![z] = NULL]
             /\ coreid' = [coreid EXCEPT ![z] = NULL]
             /\ state' = [state EXCEPT ![z] = "NOT_STARTED"]
             /\ tid' = [tid EXCEPT ![z] = NULL]
             /\ nthreads' = nthreads - 1
             /\ next' = [next EXCEPT ![s] = NULL]
        ELSE UNCHANGED <<stack, coreid, state, tid, nthreads, next>>

(* thread_yield(), last section. *)
YieldReap(c) ==
    /\ At(c, "back")
    /\ panic' = (ctx[frame[core[c]].curr] # NULL)
    /\ ReapAfter(frame[core[c]].curr)
    /\ Goto(c, frame[core[c]].ret)
    /\ UNCHANGED <<ctx, next_tid, sched, joincond, exits, fence, wakeups, core, frame, joined>>

(* thread_start(): the new thread reaps too, then runs its routine. *)
Start(c) ==
    /\ At(c, "start")
    /\ ReapAfter(thread_get_curr(c))
    /\ Goto(c, "run")
    /\ UNCHANGED <<ctx, next_tid, sched, joincond, exits, fence, wakeups, core, frame,
                   joined, panic>>

-----------------------------------------------------------------------------
(* thread_idle() *)

CallYield(c, ret) ==
    /\ pc' = [pc EXCEPT ![core[c]] = "yield"]
    /\ frame' = [frame EXCEPT ![core[c]].ret = ret]

(* The first idle thread takes a token before it releases the fence. *)
IdleFirst(c) ==
    /\ At(c, "first")
    /\ sched.sem > 0
    /\ sched' = [sched EXCEPT !.sem = @ - 1]
    /\ fence' = FALSE
    /\ CallYield(c, "down")
    /\ UNCHANGED <<table, joincond, exits, wakeups, core, joined, panic>>

IdleFence(c) ==
    /\ At(c, "fence")
    /\ ~fence
    /\ Goto(c, "down")
    /\ UNCHANGED <<table, sched, joincond, exits, fence, wakeups, core, frame, joined, panic>>

(* semaphore_down(&sched_queue.sem), then thread_yield() *)
IdleDown(c) ==
    /\ At(c, "down")
    /\ sched.sem > 0
    /\ sched' = [sched EXCEPT !.sem = @ - 1]
    /\ CallYield(c, "down")
    /\ UNCHANGED <<table, joincond, exits, fence, wakeups, core, joined, panic>>

-----------------------------------------------------------------------------
(* Kernel calls of user threads. *)

(* kernel_thread_yield() *)
UserYield(c) ==
    /\ At(c, "run")
    /\ sched.sem <= MaxSem
    /\ CallYield(c, "run")
    /\ UNCHANGED <<table, sched, joincond, exits, fence, wakeups, core, joined, panic>>

(* thread_exit(): save the value, terminate, wake the joiners up, yield. *)
Exit(c, retval) ==
    LET curr == thread_get_curr(c)
        woken == {joincond[curr][k] : k \in DOMAIN joincond[curr]}
    IN  /\ At(c, "run")
        /\ panic' = (curr \notin Users)
        /\ exits' = SaveRetval(exits, tid[curr], retval)
        /\ state' = [state EXCEPT ![curr] = "TERMINATED"]
        /\ wakeups' = [d \in Cores |-> wakeups[d] + Cardinality({s \in woken : coreid[s] = d})]
        /\ joincond' = [joincond EXCEPT ![curr] = <<>>]
        /\ CallYield(c, "lost")
        /\ UNCHANGED <<tid, coreid, next, ctx, stack, nthreads, next_tid, sched, fence,
                       core, joined>>

(* Mutant: a thread that is waiting for a core is not waited for. *)
MustWaitRunning(s) == state[s] = "RUNNING"

MustWait(s) == state[s] \notin {"NOT_STARTED", "TERMINATED", "ZOMBIE"}

(* What thread_join() returns for a valid ID. *)
JoinReturns(c, id) ==
    /\ joined' = [joined EXCEPT ![core[c]] = [tid |-> id, retval |-> SearchRetval(exits, id)]]
    /\ Goto(c, "run")

(* kernel_thread_join(): the caller itself, the master and the idle        *)
(* threads are refused, and so is an ID that was not handed out yet.       *)
Joinable(c, id) == id \in CORES_NUM .. next_tid - 1 /\ id # tid[thread_get_curr(c)]

(* thread_join(): wait once, on the core, or return at once. *)
Join(c, id) ==
    LET curr == thread_get_curr(c)
        targets == {s \in Slots : tid[s] = id}
    IN  /\ At(c, "run")
        /\ Joinable(c, id)
        /\ \/ \E s \in targets :
                /\ MustWait(s)
                /\ next' = [next EXCEPT ![curr] = IF joincond[s] = <<>> THEN NULL
                                                  ELSE Head(joincond[s])]
                /\ joincond' = [joincond EXCEPT ![s] = <<curr>> \o @]
                /\ frame' = [frame EXCEPT ![core[c]].tid = id]
                /\ Goto(c, "asleep")
                /\ UNCHANGED joined
           \/ /\ \A s \in targets : ~MustWait(s)
              /\ JoinReturns(c, id)
              /\ UNCHANGED <<next, joincond, frame>>
        /\ UNCHANGED <<state, tid, coreid, ctx, stack, nthreads, next_tid, sched, exits,
                       fence, wakeups, core, panic>>

(* core_sleep() returns, and thread_join() goes on under lock_tm. *)
JoinWoken(c) ==
    /\ At(c, "asleep")
    /\ wakeups[c] > 0
    /\ wakeups' = [wakeups EXCEPT ![c] = @ - 1]
    /\ JoinReturns(c, frame[core[c]].tid)
    /\ UNCHANGED <<table, sched, joincond, exits, fence, core, frame, panic>>

(* kernel_thread_create() is forwarded: the caller's core waits. *)
CallCreate(c) ==
    /\ At(c, "run")
    /\ next_tid <= MaxTid
    /\ Goto(c, "kcall")
    /\ UNCHANGED <<table, sched, joincond, exits, fence, wakeups, core, frame, joined, panic>>

(* thread_alloc(): the slots it may take. *)
Allocatable == {s \in Slots \ {0} : state[s] \in {"NOT_STARTED", "ZOMBIE"}}

(* thread_create() on the master core, for kmain() or for a caller.  It    *)
(* takes the first free or zombie slot; no_pages: a kpage_get() fails.     *)
Create(x, no_pages) ==
    LET free == Allocatable
        s == First(free)
        zombie == state[s] = "ZOMBIE"
        id == next_tid
        done == [pc EXCEPT ![x] = IF x = 0 THEN "serve" ELSE "run"]
    IN  /\ pc[0] = IF x = 0 THEN "boot" ELSE "serve"
        /\ pc[x] \in {"boot", "kcall"}
        /\ id <= MaxTid
        /\ \/ /\ free = {}
              /\ pc' = done
              /\ UNCHANGED <<table, sched>>
           \/ /\ free # {}
              /\ nthreads' = IF zombie THEN nthreads - 1 ELSE nthreads + 1
              /\ state' = [state EXCEPT ![s] = "STARTED"]
              /\ \/ /\ no_pages
                    /\ tid' = [tid EXCEPT ![s] = NULL]
                    /\ coreid' = [coreid EXCEPT ![s] = IF zombie THEN NULL ELSE @]
                    /\ stack' = [stack EXCEPT ![s] = NULL]
                    /\ pc' = done
                    /\ UNCHANGED <<next, ctx, next_tid, sched>>
                 \/ /\ ~no_pages
                    /\ next_tid' = id + 1
                    /\ tid' = [tid EXCEPT ![s] = id]
                    /\ coreid' = [coreid EXCEPT ![s] = NULL]
                    /\ stack' = [stack EXCEPT ![s] = id]
                    /\ ctx' = [ctx EXCEPT ![s] = id]
                    /\ next' = Link(sched, next, s)
                    /\ sched' = Schedule(sched, s)
                    /\ pc' = [done EXCEPT ![id] = "start"]
        /\ UNCHANGED <<joincond, exits, fence, wakeups, core, frame, joined, panic>>

-----------------------------------------------------------------------------
(* Every core that executes on a user stack executes on allocated pages. *)
StackSafe ==
    \A c \in Workers : core[c] >= CORES_NUM => \E s \in Users : stack[s] = core[c]

(* A failed KASSERT() stops the kernel, and nothing is said about what a   *)
(* core does on pages that were given back.                                *)
Sane == ~panic /\ StackSafe

KernelStep(c) ==
    YieldPick(c) \/ Switch(c) \/ YieldReap(c) \/ Start(c) \/ JoinWoken(c)
    \/ IdleFirst(c) \/ IdleFence(c) \/ IdleDown(c)

UserStep(c) ==
    \/ UserYield(c)
    \/ \E retval \in {NoValue, core[c]} : Exit(c, retval)
    \/ \E id \in Tids : Join(c, id)
    \/ CallCreate(c)

MasterStep == \E x \in Tids, no_pages \in BOOLEAN : Create(x, no_pages)

Next ==
    /\ Sane
    /\ \/ \E c \in Workers : KernelStep(c) \/ UserStep(c)
       \/ MasterStep

Spec == Init /\ [][Next]_vars

(* Each worker core and the master keep executing kernel code; what user   *)
(* threads do is up to them.                                               *)
FairSpec ==
    /\ Spec
    /\ WF_vars(Sane /\ MasterStep)
    /\ \A c \in Workers : WF_vars(Sane /\ KernelStep(c))

-----------------------------------------------------------------------------
States == {"NOT_STARTED", "STARTED", "RUNNING", "STOPPED", "TERMINATED", "ZOMBIE"}
Labels == {"none", "boot", "serve", "first", "fence", "down", "start", "run", "kcall",
           "asleep", "yield", "switch", "back", "lost"}

(* Types of the table, the queue and the executions. *)
TypeOK ==
    /\ state \in [Slots -> States]
    /\ tid \in [Slots -> Tids \cup {NULL}]
    /\ coreid \in [Slots -> Cores \cup {NULL}]
    /\ next \in [Slots -> Slots \cup {NULL}]
    /\ ctx \in [Slots -> Tids \cup {NULL}]
    /\ stack \in [Slots -> Tids \cup {NULL}]
    /\ sched \in [head : Slots \cup {NULL}, tail : Slots \cup {NULL}, size : Nat, sem : Nat]
    /\ nthreads \in Int
    /\ next_tid \in 0 .. MaxTid + 1
    /\ joincond \in [Slots -> Seq(Slots)]
    /\ exits \in [entry : [Ring -> [tid : Tids \cup {NoTid}, retval : Tids \cup {NoValue}]],
                  next : Ring]
    /\ fence \in BOOLEAN
    /\ wakeups \in [Cores -> Nat]
    /\ core \in [Cores -> Tids]
    /\ pc \in [Tids -> Labels]
    /\ frame \in [Tids -> [curr : Slots \cup {NULL}, next : Slots \cup {NULL},
                           tid : Tids \cup {NULL}, ret : Labels]]
    /\ joined \in [Tids -> [tid : Tids \cup {NULL}, retval : Tids \cup {NoValue}]]
    /\ panic \in BOOLEAN

Runnable == {s \in Users : state[s] \in {"STARTED", "STOPPED"} /\ tid[s] # NULL}

(* The k-th thread of the run queue, along the next pointers. *)
Queued[k \in Nat] == IF k = 0 THEN sched.head ELSE next[Queued[k - 1]]

(* In the table every core has exactly one current thread, so that         *)
(* thread_get_curr() never returns NULL, and no ready thread has a core.   *)
OneCurrentThread ==
    /\ \A c \in Cores :
         Cardinality({s \in Slots : coreid[s] = c /\ state[s] \in {"RUNNING", "TERMINATED"}}) = 1
    /\ \A s \in Runnable : coreid[s] = NULL

(* No thread is left in the queue while idle threads sleep: every queued   *)
(* thread is matched by a token of sched_queue.sem or by an idle thread,   *)
(* on whatever core, that is on its way to take one off the queue.         *)
QueueNotified ==
    sched.size <= sched.sem + Cardinality({x \in Workers : pc[x] = "yield"})

(* thread_schedule() and thread_yield() keep the table and the run queue   *)
(* sound whatever the cores do: each core has one current thread; the      *)
(* queue holds each thread that is ready, once and no other, its size is   *)
(* right, its last thread is the tail the next one is linked to, and none  *)
(* waits there while all idle threads sleep.                               *)
QueueSound ==
    /\ OneCurrentThread /\ QueueNotified
    /\ sched.size = Cardinality(Runnable)
    /\ {Queued[k] : k \in 0 .. sched.size - 1} = Runnable
    /\ sched.size > 0 => sched.tail = Queued[sched.size - 1]

(* thread_get_curr() names the thread whose code the core executes,        *)
(* outside the window in which thread_yield() switches.                    *)
CurrIsRunning ==
    \A c \in Cores : ~At(c, "switch") => tid[thread_get_curr(c)] = core[c]

(* The KASSERT()s of thread_yield() and thread_exit() hold: a thread that  *)
(* is about to be switched out has no saved context, and so on.            *)
NoPanic == ~panic

(* thread_join() returns only when the thread it was given has exited:     *)
(* none that the table still holds alive has that ID, and none will.       *)
JoinSound ==
    \A x \in Tids : joined[x].tid # NULL =>
        /\ joined[x].tid < next_tid
        /\ \A s \in Slots : tid[s] = joined[x].tid => ~MustWait(s)

(* thread_join() stores the value of the thread it was given, or NULL, but *)
(* never that of another.  A core whose switch failed goes on as the       *)
(* thread it did not switch to, and exits in its name.                     *)
JoinOwnValue ==
    \A x \in Tids : joined[x].tid # NULL => joined[x].retval \in {NoValue, joined[x].tid}

(* nthreads is the number of slots of the table that are in use. *)
NthreadsExact == nthreads = Cardinality({s \in Slots : state[s] # "NOT_STARTED"})

(* A ready thread does not wait for an idle core: the core's idle thread   *)
(* leaves semaphore_down().                                                *)
IdleTakesWork ==
    \A c \in Workers : (sched.size > 0 /\ pc[c] \in {"first", "down"})
                         ~> (sched.size = 0 \/ pc[c] \notin {"first", "down"})
=============================================================================
