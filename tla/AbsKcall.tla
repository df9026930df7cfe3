------------------------------ MODULE AbsKcall ------------------------------
(***************************************************************************)
(* What do_kcall() promises a core that makes a forwarded kernel call: the *)
(* call is executed exactly once, with the arguments of this call, and the *)
(* core gets back what that execution returned.                            *)
(***************************************************************************)
CONSTANTS Callers, Requests, Outcome(_), None

VARIABLES
    phase,     \* "idle", "called" or "executed"
    request,   \* the call a core is in
    result     \* what the last call of a core returned

vars == <<phase, request, result>>

Init ==
    /\ phase = [c \in Callers |-> "idle"]
    /\ request = [c \in Callers |-> None]
    /\ result = [c \in Callers |-> None]

Call(c, r) ==
    /\ phase[c] = "idle"
    /\ phase' = [phase EXCEPT ![c] = "called"]
    /\ request' = [request EXCEPT ![c] = r]
    /\ UNCHANGED result

Execute(c) ==
    /\ phase[c] = "called"
    /\ phase' = [phase EXCEPT ![c] = "executed"]
    /\ UNCHANGED <<request, result>>

Return(c) ==
    /\ phase[c] = "executed"
    /\ phase' = [phase EXCEPT ![c] = "idle"]
    /\ result' = [result EXCEPT ![c] = Outcome(request[c])]
    /\ UNCHANGED request

Next == \E c \in Callers : (\E r \in Requests : Call(c, r)) \/ Execute(c) \/ Return(c)

Spec == Init /\ [][Next]_vars
=============================================================================
