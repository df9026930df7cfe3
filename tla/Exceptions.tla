----------------------------- MODULE Exceptions -----------------------------
(***************************************************************************)
(* Exceptions handled in user space, pm/exception.c and sys/exception.c: a *)
(* core that takes an exception waits for a user-space handler, which      *)
(* pauses until there is one, handles it and resumes the core.             *)
(*                                                                         *)
(* A section under "lock" is one step.  ulock and the lock of a waiting    *)
(* core are used as events: TRUE is locked, unlocking twice is unlocking   *)
(* once.  exception_control() and exception_resume() are forwarded kernel  *)
(* calls, so the master core runs them one at a time.                      *)
(***************************************************************************)
EXTENDS Integers, FiniteSets

CONSTANTS
    EXCEPTIONS_NUM,
    THREAD_MAX,     \* cores with an entry in waiting[]
    Handlers,       \* threads that pause and resume
    MaxFaults       \* bound: exceptions that are raised

ExceptionsAssumption ==
    /\ EXCEPTIONS_NUM \in Nat \ {0}
    /\ THREAD_MAX \in Nat \ {0}
    /\ MaxFaults \in Nat

Excps == 0 .. EXCEPTIONS_NUM - 1
Cores == 0 .. THREAD_MAX - 1
None == [excpnum |-> -1, coreid |-> -1]
Cases == [excpnum : Excps, coreid : Cores]

VARIABLES
    action,    \* kexceptions[].action
    waiting,   \* kexceptions[].waiting[].thread and .excp are set
    klock,     \* kexceptions[].waiting[].lock
    ulock,
    handling,
    pc, excp,  \* cores: where they are, and the exception they took
    hpc, got,  \* handlers: where they are, and what exception_pause() gave them
    faults     \* exceptions raised so far

vars == <<action, waiting, klock, ulock, handling, pc, excp, hpc, got, faults>>
kernel == <<action, waiting, klock, ulock, handling>>

(* exception_init() *)
Init ==
    /\ action = [e \in Excps |-> "IGNORE"]
    /\ waiting = [e \in Excps |-> {}]
    /\ klock = [w \in Cases |-> TRUE]
    /\ ulock = TRUE
    /\ handling = None
    /\ pc = [c \in Cores |-> "run"]
    /\ excp = [c \in Cores |-> -1]
    /\ hpc = [h \in Handlers |-> "user"]
    /\ got = [h \in Handlers |-> None]
    /\ faults = 0

Goto(c, from, to) ==
    /\ pc[c] = from
    /\ pc' = [pc EXCEPT ![c] = to]

-----------------------------------------------------------------------------
(* exception_control(); -EPERM has no effect *)
Control(e, a) ==
    /\ a = "IGNORE" => waiting[e] = {}
    /\ action' = [action EXCEPT ![e] = a]
    /\ UNCHANGED <<waiting, klock, ulock, handling, pc, excp, hpc, got, faults>>

(* exception_wait(): the section; an ignored exception returns at once. *)
WaitEnter(c, e) ==
    /\ faults < MaxFaults
    /\ faults' = faults + 1
    /\ \/ /\ action[e] = "IGNORE"
          /\ Goto(c, "run", "run")
          /\ UNCHANGED <<waiting, excp>>
       \/ /\ action[e] = "HANDLE"
          /\ Goto(c, "run", "notify")
          /\ waiting' = [waiting EXCEPT ![e] = @ \cup {c}]
          /\ excp' = [excp EXCEPT ![c] = e]
    /\ UNCHANGED <<action, klock, ulock, handling, hpc, got>>

(* Mutant: the handler is not notified. *)
WaitNoNotify(c) ==
    /\ Goto(c, "notify", "blocked")
    /\ UNCHANGED <<action, waiting, klock, ulock, handling, excp, hpc, got, faults>>

(* exception_wait(): spinlock_unlock(&ulock) *)
WaitNotify(c) ==
    /\ Goto(c, "notify", "blocked")
    /\ ulock' = FALSE
    /\ UNCHANGED <<action, waiting, klock, handling, excp, hpc, got, faults>>

Case(c) == [excpnum |-> excp[c], coreid |-> c]

(* exception_wait(): the core takes its own lock once it is released. *)
WaitDone(c) ==
    /\ Goto(c, "blocked", "run")
    /\ ~klock[Case(c)]
    /\ klock' = [klock EXCEPT ![Case(c)] = TRUE]
    /\ UNCHANGED <<action, waiting, ulock, handling, excp, hpc, got, faults>>

-----------------------------------------------------------------------------
(* exception_grab(): the first handled exception, then its first core. *)
Grabbable == {w \in Cases : action[w.excpnum] = "HANDLE" /\ w.coreid \in waiting[w.excpnum]}

Grabbed(w) ==
    /\ w \in Grabbable
    /\ \A v \in Grabbable : \/ w.excpnum < v.excpnum
                            \/ w.excpnum = v.excpnum /\ w.coreid <= v.coreid

(* The grab of exception_pause(): it returns, or waits for ulock. *)
PauseGrab(h) ==
    \/ \E w \in Cases :
         /\ Grabbed(w)
         /\ handling' = w
         /\ got' = [got EXCEPT ![h] = w]
         /\ hpc' = [hpc EXCEPT ![h] = "handle"]
    \/ /\ Grabbable = {}
       /\ hpc' = [hpc EXCEPT ![h] = "sleep"]
       /\ UNCHANGED <<handling, got>>

(* exception_pause(); without a handled exception it returns -EPERM. *)
Pause(h) ==
    /\ hpc[h] = "user"
    /\ \E e \in Excps : action[e] = "HANDLE"
    /\ PauseGrab(h)
    /\ UNCHANGED <<action, waiting, klock, ulock, pc, excp, faults>>

(* exception_pause(): spinlock_lock(&ulock), and the next round *)
PauseAgain(h) ==
    /\ hpc[h] = "sleep"
    /\ ~ulock
    /\ ulock' = TRUE
    /\ PauseGrab(h)
    /\ UNCHANGED <<action, waiting, klock, pc, excp, faults>>

(* Mutant: the core that waits is not released. *)
ResumeNoUnlock ==
    /\ waiting' = [waiting EXCEPT ![handling.excpnum] = @ \ {handling.coreid}]
    /\ handling' = None
    /\ UNCHANGED klock

ResumeHandled ==
    /\ waiting' = [waiting EXCEPT ![handling.excpnum] = @ \ {handling.coreid}]
    /\ klock' = [klock EXCEPT ![handling] = FALSE]
    /\ handling' = None

(* exception_resume(), with its two -EINVAL returns *)
Resume(h) ==
    /\ hpc[h] = "handle"
    /\ hpc' = [hpc EXCEPT ![h] = "user"]
    /\ got' = [got EXCEPT ![h] = None]
    /\ IF handling \in Grabbable THEN ResumeHandled
       ELSE UNCHANGED <<waiting, klock, handling>>
    /\ UNCHANGED <<action, ulock, pc, excp, faults>>

-----------------------------------------------------------------------------
CoreStep(c) == WaitNotify(c) \/ WaitDone(c)
HandlerStep(h) == Pause(h) \/ PauseAgain(h) \/ Resume(h)

Next ==
    \/ \E e \in Excps, a \in {"IGNORE", "HANDLE"} : Control(e, a)
    \/ \E c \in Cores : CoreStep(c) \/ \E e \in Excps : WaitEnter(c, e)
    \/ \E h \in Handlers : HandlerStep(h)

Spec == Init /\ [][Next]_vars

(* Cores inside exception_wait() keep executing, and the handler is a loop *)
(* of exception_pause() and exception_resume().                            *)
FairSpec ==
    /\ Spec
    /\ \A c \in Cores : WF_vars(CoreStep(c))
    /\ \A h \in Handlers : WF_vars(HandlerStep(h))

-----------------------------------------------------------------------------
(* Types of the exception table, the locks and the threads. *)
TypeOK ==
    /\ action \in [Excps -> {"IGNORE", "HANDLE"}]
    /\ waiting \in [Excps -> SUBSET Cores]
    /\ klock \in [Cases -> BOOLEAN]
    /\ ulock \in BOOLEAN
    /\ handling \in Cases \cup {None}
    /\ pc \in [Cores -> {"run", "notify", "blocked"}]
    /\ excp \in [Cores -> Excps \cup {-1}]
    /\ hpc \in [Handlers -> {"user", "sleep", "handle"}]
    /\ got \in [Handlers -> Cases \cup {None}]
    /\ faults \in 0 .. MaxFaults

(* The release of a waiting core is never lost, though exception_resume()  *)
(* may come before the core tries its lock, and is never left over: a      *)
(* core's lock is open exactly while that core waits and has been resumed. *)
ReleaseNotLost ==
    TypeOK /\ \A w \in Cases :
        ~klock[w] <=> /\ pc[w.coreid] # "run" /\ excp[w.coreid] = w.excpnum
                      /\ w.coreid \notin waiting[w.excpnum]

(* No exception waits unseen: while every handler sleeps on ulock, either  *)
(* nobody waits, or ulock is open, or the core is about to open it.        *)
NotifyNotLost ==
    (\A h \in Handlers : hpc[h] = "sleep") /\ ulock
      => \A w \in Cases : w.coreid \in waiting[w.excpnum] => pc[w.coreid] = "notify"

(* exception_resume() resumes the exception that the handler was given by  *)
(* exception_pause(), with a single handler thread.                        *)
ResumesWhatItHandles ==
    \A h \in Handlers : hpc[h] = "handle" => handling = got[h] /\ got[h] \in Grabbable

(* The hand-off between cores and handler is sound: no release and no      *)
(* notification is lost, and the handler resumes what it was given.        *)
HandoffSound == ReleaseNotLost /\ NotifyNotLost /\ ResumesWhatItHandles

(* Every core that waits for its handler is eventually resumed, when       *)
(* finitely many exceptions are raised: no core stays in exception_wait(). *)
ExceptionHandled == \A c \in Cores : []<>(pc[c] = "run")
=============================================================================
