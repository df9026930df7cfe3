------------------------------- MODULE MCSync -------------------------------
(* Sync for TLC: the first state picks one of its parts, and only that one   *)
(* moves.                                                                    *)
EXTENDS Sync

CONSTANTS d1, d2, u1, b1

MCDowners == {d1, d2, b1}
MCUppers == {u1, b1}

VARIABLE part

ASSUME ExceptionsInstance == Excp!ExceptionsAssumption
ASSUME SignalsInstance == Sig!SignalsAssumption

Parts == {"semaphore", "exceptions", "signals", "sleep"}

-----------------------------------------------------------------------------

MCInit ==
    /\ part \in Parts
    /\ Init /\ Excp!Init /\ Sig!Init /\ Slp!Init

(* kpanic() halts the kernel. *)
Halted == part = "signals" /\ panicked /\ UNCHANGED <<vars, excpVars, sigVars, sleepVars>>

MCNext ==
    /\ UNCHANGED part
    /\ \/ part = "semaphore" /\ Next /\ UNCHANGED <<excpVars, sigVars, sleepVars>>
       \/ part = "exceptions" /\ Excp!Next /\ UNCHANGED <<vars, sigVars, sleepVars>>
       \/ part = "signals" /\ Sig!Next /\ UNCHANGED <<vars, excpVars, sleepVars>>
       \/ part = "sleep" /\ Slp!Next /\ UNCHANGED <<vars, excpVars, sigVars>>
       \/ Halted

(* The fairness of Semaphore, Exceptions and Sleep *)
MCSpec ==
    /\ MCInit
    /\ [][MCNext]_<<part, vars, excpVars, sigVars, sleepVars>>
    /\ \A t \in Threads : WF_vars(part = "semaphore" /\ Continue(t))
    /\ \A c \in Excp!Cores : WF_excpVars(part = "exceptions" /\ Excp!CoreStep(c))
    /\ \A h \in Handlers : WF_excpVars(part = "exceptions" /\ Excp!HandlerStep(h))
    /\ WF_sleepVars(part = "sleep" /\ Slp!Broadcast)
    /\ \A t \in Sleepers : WF_sleepVars(part = "sleep" /\ Slp!Continue(t))
=============================================================================
