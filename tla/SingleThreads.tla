--------------------------- MODULE SingleThreads ---------------------------
(***************************************************************************)
(* The thread system of targets with one thread per core,                  *)
(* pm/thread/singlethread.c: slot c of the table belongs to core c, a      *)
(* thread is created on the master core by starting its core, and exits by *)
(* resetting it.  A section under lock_tm is one step, and so is each      *)
(* core_start(); the HAL refuses to start a core that is not reset yet.    *)
(***************************************************************************)
EXTENDS Integers, FiniteSets, FiniteSetsExt, ExitValues

CONSTANTS
    CORES_NUM,              \* core 0 is the master
    THREAD_CREATE_NTRIALS,
    MaxTid                  \* bound: thread IDs that are handed out

ASSUME SingleAssumption ==
    /\ CORES_NUM \in Nat \ {0, 1}
    /\ THREAD_CREATE_NTRIALS \in Nat \ {0}
    /\ MaxTid \in Nat \ {0}

Workers == 1 .. CORES_NUM - 1
Tids == 1 .. MaxTid

VARIABLES
    tid,        \* threads[].tid; the slot is NOT_STARTED or RUNNING with it
    nthreads, next_tid,
    joincond,   \* cores whose threads wait on joincond[]
    exits,      \* exit_values[]
    wakeups,    \* HAL: pending wake-ups of a core
    exec,       \* HAL: the thread a core was started with, NoTid when reset
    pc,         \* what a core does
    target,     \* the ID a core waits for in thread_join()
    joined,     \* what the last thread_join() of a core returned
    create,     \* thread_create(): step, caller, slot, trials
    failed      \* IDs for which thread_create() returned an error

vars == <<tid, nthreads, next_tid, joincond, exits, wakeups, exec, pc, target, joined,
          create, failed>>

(* The static initialisers, and kmain() about to create the first thread. *)
Init ==
    /\ tid = [c \in Workers |-> NoTid]
    /\ nthreads = 1
    /\ next_tid = 1
    /\ joincond = [c \in Workers |-> {}]
    /\ exits = InitExits
    /\ wakeups = [c \in Workers |-> 0]
    /\ exec = [c \in Workers |-> NoTid]
    /\ pc = [c \in Workers |-> "off"]
    /\ target = [c \in Workers |-> NoTid]
    /\ joined = [c \in Workers |-> [tid |-> NoTid, retval |-> NoValue]]
    /\ create = [step |-> "alloc", caller |-> 0, slot |-> 0, ntrials |-> 0]
    /\ failed = {}

Goto(c, from, to) ==
    /\ pc[c] = from
    /\ pc' = [pc EXCEPT ![c] = to]

(* thread_create() returns to its caller; kmain() goes on to serve calls. *)
Returned(p) == [c \in Workers |-> IF c = create.caller THEN "run" ELSE p[c]]
Idle == [step |-> "serve", caller |-> 0, slot |-> 0, ntrials |-> 0]

-----------------------------------------------------------------------------
(* kernel_thread_create(), forwarded to the master core *)
CallCreate(c) ==
    /\ Goto(c, "run", "kcall")
    /\ UNCHANGED <<tid, nthreads, next_tid, joincond, exits, wakeups, exec, target, joined,
                   create, failed>>

(* The master core takes a call. *)
Serve(c) ==
    /\ create.step = "serve"
    /\ pc[c] = "kcall"
    /\ create' = [create EXCEPT !.step = "alloc", !.caller = c]
    /\ UNCHANGED <<tid, nthreads, next_tid, joincond, exits, wakeups, exec, pc, target,
                   joined, failed>>

(* thread_create(), first section, with thread_alloc() *)
Alloc ==
    LET free == {c \in Workers : tid[c] = NoTid}
    IN  /\ create.step = "alloc"
        /\ next_tid <= MaxTid
        /\ \/ /\ free = {}
              /\ create' = Idle
              /\ pc' = Returned(pc)
              /\ UNCHANGED <<tid, nthreads, next_tid>>
           \/ /\ free # {}
              /\ tid' = [tid EXCEPT ![Min(free)] = next_tid]
              /\ next_tid' = next_tid + 1
              /\ nthreads' = nthreads + 1
              /\ create' = [create EXCEPT !.step = "start", !.slot = Min(free)]
              /\ UNCHANGED pc
        /\ UNCHANGED <<joincond, exits, wakeups, exec, target, joined, failed>>

(* One core_start(): the core starts, or is busy and the trial counts. *)
StartStep(success, again) ==
    LET s == create.slot
    IN  /\ create.step = "start"
        /\ \/ /\ exec[s] = NoTid
              /\ exec' = [exec EXCEPT ![s] = tid[s]]
              /\ pc' = Returned([pc EXCEPT ![s] = "run"])
              /\ create' = success
           \/ /\ exec[s] # NoTid
              /\ create' = [create EXCEPT !.ntrials = @ + 1,
                                          !.step = IF again THEN "start" ELSE "rollback"]
              /\ UNCHANGED <<exec, pc>>
        /\ UNCHANGED <<tid, nthreads, next_tid, joincond, exits, wakeups, target, joined,
                       failed>>

(* Mutant: the rollback is not skipped. *)
CoreStartRollback ==
    StartStep([create EXCEPT !.step = "rollback"], create.ntrials + 1 < THREAD_CREATE_NTRIALS)

CoreStart == StartStep(Idle, create.ntrials + 1 < THREAD_CREATE_NTRIALS)

(* The rollback gives the slot back; nobody is notified. *)
RollbackTo(n) ==
    /\ create.step = "rollback"
    /\ failed' = failed \cup {tid[create.slot]}
    /\ tid' = [tid EXCEPT ![create.slot] = NoTid]
    /\ nthreads' = n
    /\ create' = Idle
    /\ pc' = Returned(pc)
    /\ UNCHANGED <<next_tid, joincond, exits, wakeups, exec, target, joined>>

Rollback == RollbackTo(nthreads - 1)

-----------------------------------------------------------------------------
(* thread_exit() up to the core's reset, waking the cores in "woken" *)
ExitWaking(c, retval, woken) ==
    /\ Goto(c, "run", "reset")
    /\ exits' = SaveRetval(exits, tid[c], retval)
    /\ tid' = [tid EXCEPT ![c] = NoTid]
    /\ nthreads' = nthreads - 1
    /\ wakeups' = [d \in Workers |-> IF d \in woken THEN wakeups[d] + 1 ELSE wakeups[d]]
    /\ joincond' = [joincond EXCEPT ![c] = @ \ woken]
    /\ UNCHANGED <<next_tid, exec, target, joined, create, failed>>

(* Mutant: the joiners are not notified. *)
ExitSilently(c, retval) == ExitWaking(c, retval, {})

Exit(c, retval) == ExitWaking(c, retval, joincond[c])

(* core_reset() *)
Reset(c) ==
    /\ Goto(c, "reset", "off")
    /\ exec' = [exec EXCEPT ![c] = NoTid]
    /\ UNCHANGED <<tid, nthreads, next_tid, joincond, exits, wakeups, target, joined,
                   create, failed>>

JoinReturns(c, id) ==
    joined' = [joined EXCEPT ![c] = [tid |-> id, retval |-> SearchRetval(exits, id)]]

(* thread_join(): wait on the slot of the target if it has one. *)
JoinStep(c, id, slots) ==
    /\ id < next_tid /\ id # tid[c]
    /\ \/ /\ slots = {}
          /\ Goto(c, "run", "run")
          /\ JoinReturns(c, id)
          /\ UNCHANGED <<joincond, target>>
       \/ \E s \in slots :
            /\ Goto(c, "run", "asleep")
            /\ joincond' = [joincond EXCEPT ![s] = @ \cup {c}]
            /\ target' = [target EXCEPT ![c] = id]
            /\ UNCHANGED joined
    /\ UNCHANGED <<tid, nthreads, next_tid, exits, wakeups, exec, create, failed>>

Join(c, id) == JoinStep(c, id, {s \in Workers : tid[s] = id})

(* core_sleep() returns, and thread_join() does not look again. *)
JoinWoken(c) ==
    /\ Goto(c, "asleep", "run")
    /\ wakeups[c] > 0
    /\ wakeups' = [wakeups EXCEPT ![c] = @ - 1]
    /\ JoinReturns(c, target[c])
    /\ UNCHANGED <<tid, nthreads, next_tid, joincond, exits, exec, target, create, failed>>

-----------------------------------------------------------------------------
Master == Alloc \/ CoreStart \/ Rollback \/ \E c \in Workers : Serve(c)

Next ==
    \/ Master
    \/ \E c \in Workers :
         \/ CallCreate(c) \/ Reset(c) \/ JoinWoken(c)
         \/ \E retval \in {NoValue, tid[c]} : Exit(c, retval)
         \/ \E id \in Tids : Join(c, id)

Spec == Init /\ [][Next]_vars

(* The master core and cores inside the kernel keep executing. *)
FairSpec ==
    /\ Spec
    /\ WF_vars(Master)
    /\ \A c \in Workers : WF_vars(Reset(c) \/ JoinWoken(c))

-----------------------------------------------------------------------------
(* Types of the table, the cores and the call in progress. *)
TypeOK ==
    /\ tid \in [Workers -> Tids \cup {NoTid}]
    /\ nthreads \in 1 .. CORES_NUM
    /\ next_tid \in 1 .. MaxTid + 1
    /\ joincond \in [Workers -> SUBSET Workers]
    /\ exits \in [entry : [Ring -> [tid : Int, retval : Int]], next : Ring]
    /\ wakeups \in [Workers -> 0 .. 1]
    /\ exec \in [Workers -> Tids \cup {NoTid}]
    /\ pc \in [Workers -> {"off", "run", "kcall", "asleep", "reset"}]
    /\ target \in [Workers -> Tids \cup {NoTid}]
    /\ joined \in [Workers -> [tid : Tids \cup {NoTid}, retval : Tids \cup {NoValue}]]
    /\ create \in [step : {"serve", "alloc", "start", "rollback"}, caller : 0 .. CORES_NUM - 1,
                   slot : 0 .. CORES_NUM - 1, ntrials : 0 .. THREAD_CREATE_NTRIALS]
    /\ failed \subseteq Tids

(* A core that executes user code owns its slot: thread_get_curr() finds   *)
(* the thread the core was started with, although slots are given away     *)
(* before the old core is reset.                                           *)
CoreOwnsSlot ==
    TypeOK /\ \A c \in Workers : pc[c] \in {"run", "kcall", "asleep"} => tid[c] = exec[c] /\ tid[c] # NoTid

(* The exit of a thread is not missed: a core that sleeps in thread_join() *)
(* waits in the queue of the slot that still has its target, or has been   *)
(* woken up, unless the creation of its target failed.                     *)
NoMissedExit ==
    \A c \in Workers : pc[c] = "asleep" =>
        \/ wakeups[c] = 1
        \/ \E s \in Workers : tid[s] = target[c] /\ c \in joincond[s]
        \/ target[c] \in failed

(* thread_join() returns only when no slot has the thread any more, with   *)
(* the value of that thread or NULL, and it does not sleep through the     *)
(* exit it waits for.                                                      *)
JoinSound ==
    /\ \A c \in Workers : joined[c].tid # NoTid =>
         /\ \A s \in Workers : tid[s] # joined[c].tid
         /\ joined[c].retval \in {NoValue, joined[c].tid}
    /\ NoMissedExit

(* thread_join() does not block on a thread that does not exist (any more). *)
JoinEnds ==
    \A c \in Workers : (pc[c] = "asleep" /\ \A s \in Workers : tid[s] # target[c])
                         ~> (pc[c] # "asleep")
=============================================================================
