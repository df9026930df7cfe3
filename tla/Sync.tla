-------------------------------- MODULE Sync --------------------------------
(***************************************************************************)
(* Where threads wait for each other inside the kernel, side by side: a    *)
(* semaphore, exceptions handled in user space, signals, and               *)
(* kernel_sleep().                                                         *)
(***************************************************************************)
EXTENDS Semaphore

CONSTANTS
    EXCEPTIONS_NUM, THREAD_MAX, Handlers, MaxFaults,    \* of Exceptions
    SigExcps, Mapped, Fns, SigCores,                    \* of Signals
    Sleepers                                            \* of Sleep

VARIABLES
    action, waiting, klock, ulock, handling, excpc, excp, hpc, got, faults,
    registered, handler, ctl, sigpc, upcall, panicked,
    qlock, tid, onqueue, sleepwakeups, sleeppc, master

excpVars == <<action, waiting, klock, ulock, handling, excpc, excp, hpc, got, faults>>
sigVars == <<registered, handler, ctl, sigpc, upcall, panicked>>
sleepVars == <<qlock, tid, onqueue, sleepwakeups, sleeppc, master>>

Excp == INSTANCE Exceptions WITH pc <- excpc

Sig == INSTANCE Signals WITH pc <- sigpc, EXCEPTIONS_NUM <- SigExcps, Cores <- SigCores

Slp == INSTANCE Sleep WITH
        lock <- qlock, queue <- onqueue, wakeups <- sleepwakeups, pc <- sleeppc

-----------------------------------------------------------------------------
(* The property of the same name of Exceptions, about exception_wait(). *)
HandoffSound == Excp!HandoffSound

(* The property of the same name of Exceptions, about exception_resume(). *)
ExceptionHandled == Excp!ExceptionHandled

(* The property of the same name of Signals, about signal_control(). *)
TablesAgree == Sig!TablesAgree

(* The property of the same name of Sleep, about kernel_wakeup(). *)
WakeupEndsSleep == Slp!WakeupEndsSleep
=============================================================================
