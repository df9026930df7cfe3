------------------------------ MODULE Signals ------------------------------
(***************************************************************************)
(* Signals: pm/signal.c and kernel_sigctl() of sys/signal.c.  The HAL      *)
(* keeps its own table of exception handlers, which signal_control()       *)
(* updates outside of sigtab_lock, while any core may take an exception.   *)
(* kernel_sigctl() is a forwarded kernel call: one runs at a time.         *)
(***************************************************************************)
EXTENDS Integers

CONSTANTS
    EXCEPTIONS_NUM,
    Mapped,           \* mapped_signals[]
    Fns,              \* handlers in user space
    Cores,
    NULL

SignalsAssumption ==
    /\ EXCEPTIONS_NUM \in Nat \ {0}
    /\ Mapped \subseteq 0 .. EXCEPTIONS_NUM - 1
    /\ NULL \notin Fns

Excps == 0 .. EXCEPTIONS_NUM - 1
Idle == [step |-> "idle"]
Taken(s) == [step |-> "taken", signum |-> s]
Steps == [step : {"table", "set"}, signum : Excps, handler : Fns \cup {NULL}]

VARIABLES
    registered,  \* HAL: signal_handler() is registered for the exception
    handler,     \* signals[].handler
    ctl,         \* signal_control() in progress on the master core
    pc,          \* cores: inside signal_handler() for an exception, or not
    upcall,      \* cores: the handler that upcall_forge() was given last
    panicked     \* kpanic() was called

vars == <<registered, handler, ctl, pc, upcall, panicked>>

Init ==
    /\ registered = [s \in Excps |-> FALSE]
    /\ handler = [s \in Excps |-> NULL]
    /\ ctl = Idle
    /\ pc = [c \in Cores |-> Idle]
    /\ upcall = [c \in Cores |-> NULL]
    /\ panicked = FALSE

Return == ctl' = Idle

(* kernel_sigctl(); a signal that is not mapped returns -EINVAL, and the   *)
(* addresses are good.                                                     *)
Call(s, h) ==
    /\ ctl = Idle
    /\ s \in Mapped
    /\ ctl' = [step |-> "table", signum |-> s, handler |-> h]
    /\ UNCHANGED <<registered, handler, pc, upcall, panicked>>

(* exception_register() and exception_unregister() fail on an entry that   *)
(* is taken and on one that is free.                                       *)
Register(s, r) ==
    \/ /\ registered[s] = ~r
       /\ registered' = [registered EXCEPT ![s] = r]
       /\ ctl' = [ctl EXCEPT !.step = "set"]
    \/ registered[s] = r /\ Return /\ UNCHANGED registered

(* Mutant: a handler is removed from the kernel's table only. *)
UpdateKeepsEntry ==
    /\ ctl.step = "table"
    /\ \/ ctl.handler # NULL /\ handler[ctl.signum] = NULL /\ Register(ctl.signum, TRUE)
       \/ /\ ctl.handler = NULL \/ handler[ctl.signum] # NULL
          /\ ctl' = [ctl EXCEPT !.step = "set"]
          /\ UNCHANGED registered
    /\ UNCHANGED <<handler, pc, upcall, panicked>>

(* signal_control(): the HAL's table is updated. *)
Update ==
    /\ ctl.step = "table"
    /\ \/ ctl.handler # NULL /\ handler[ctl.signum] = NULL /\ Register(ctl.signum, TRUE)
       \/ /\ ctl.handler # NULL /\ handler[ctl.signum] # NULL
          /\ ctl' = [ctl EXCEPT !.step = "set"]
          /\ UNCHANGED registered
       \/ ctl.handler = NULL /\ Register(ctl.signum, FALSE)
    /\ UNCHANGED <<handler, pc, upcall, panicked>>

(* signal_control(): the handler is set. *)
SetHandler ==
    /\ ctl.step = "set"
    /\ handler' = [handler EXCEPT ![ctl.signum] = ctl.handler]
    /\ Return
    /\ UNCHANGED <<registered, pc, upcall, panicked>>

(* The HAL dispatches an exception to signal_handler(). *)
Raise(c, s) ==
    /\ pc[c] = Idle
    /\ registered[s]
    /\ pc' = [pc EXCEPT ![c] = Taken(s)]
    /\ UNCHANGED <<registered, handler, ctl, upcall, panicked>>

(* signal_handler() *)
Deliver(c) ==
    /\ pc[c] # Idle
    /\ pc' = [pc EXCEPT ![c] = Idle]
    /\ IF handler[pc[c].signum] = NULL
       THEN panicked' = TRUE /\ UNCHANGED upcall
       ELSE upcall' = [upcall EXCEPT ![c] = handler[pc[c].signum]] /\ UNCHANGED panicked
    /\ UNCHANGED <<registered, handler, ctl>>

Next ==
    /\ ~panicked
    /\ \/ \E s \in Excps, h \in Fns \cup {NULL} : Call(s, h)
       \/ Update
       \/ SetHandler
       \/ \E c \in Cores : Deliver(c) \/ \E s \in Excps : Raise(c, s)

Spec == Init /\ [][Next]_vars

-----------------------------------------------------------------------------
(* Types; signal_control() touches no exception that is not a signal. *)
TypeOK ==
    /\ registered \in [Excps -> BOOLEAN]
    /\ handler \in [Excps -> Fns \cup {NULL}]
    /\ ctl \in Steps \cup {Idle}
    /\ pc \in [Cores -> {Taken(s) : s \in Excps} \cup {Idle}]
    /\ upcall \in [Cores -> Fns \cup {NULL}]
    /\ panicked \in BOOLEAN
    /\ \A s \in Excps \ Mapped : ~registered[s] /\ handler[s] = NULL

(* The HAL's table and signals[] agree whenever no signal_control() is     *)
(* between its two updates, whatever sequence of registrations,            *)
(* replacements and failed calls came before.                              *)
TablesAgree ==
    TypeOK /\ \A s \in Excps : (ctl.step = "set" => ctl.signum # s) => (registered[s] <=> handler[s] # NULL)

(* signal_handler() always finds the handler of the exception that the HAL *)
(* passes to it.                                                           *)
SignalHasHandler == ~panicked
=============================================================================
