---------------------------- MODULE AbsSemaphore ----------------------------
(***************************************************************************)
(* What semaphore_down() and semaphore_up() promise their callers: a       *)
(* counter that is decremented atomically once it is positive, and threads *)
(* that are inside semaphore_down() until their own decrement happens.     *)
(***************************************************************************)
EXTENDS Naturals

CONSTANTS Threads, InitCount

VARIABLES
    value,     \* tokens available
    downing    \* threads that called semaphore_down() and did not return

vars == <<value, downing>>

Init ==
    /\ value = InitCount
    /\ downing = {}

Call(t) ==
    /\ t \notin downing
    /\ downing' = downing \cup {t}
    /\ UNCHANGED value

Take(t) ==
    /\ t \in downing
    /\ value > 0
    /\ value' = value - 1
    /\ downing' = downing \ {t}

Give(t) ==
    /\ t \notin downing
    /\ value' = value + 1
    /\ UNCHANGED downing

Next == \E t \in Threads : Call(t) \/ Take(t) \/ Give(t)

Spec == Init /\ [][Next]_vars
=============================================================================
