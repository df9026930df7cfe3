-------------------------------- MODULE Kcall --------------------------------
(***************************************************************************)
(* Forwarded kernel calls, sys/syscalls.c: do_kcall() runs on the calling  *)
(* core, do_kcall2() is the loop of the master core (core 0), and they     *)
(* meet on the scoreboard sysboard[] and two kinds of semaphores.          *)
(*                                                                         *)
(* Semaphores are counters with an atomic down and up, the abstraction     *)
(* that module Semaphore is shown to implement.  Stores to the scoreboard  *)
(* take effect in program order.  A request is the call number with its    *)
(* arguments, and Outcome gives what the handler returns for it.           *)
(***************************************************************************)
EXTENDS Naturals, FiniteSets

CONSTANTS
    CORES_NUM,  \* number of cores; core 0 is the master
    Handled,    \* requests whose case assigns ret
    Silent,     \* requests whose case leaves ret alone (_exit, stats)
    Unknown,    \* numbers below NR_SYSCALLS without a case
    Invalid,    \* numbers at or above NR_SYSCALLS
    Handler(_), \* what the handler of a request returns
    ENOSYS, EINVAL,
    None        \* sysboard[].syscall_nr == -1, and no value yet

Cores == 0 .. CORES_NUM - 1
Callers == 1 .. CORES_NUM - 1
Requests == Handled \cup Silent \cup Unknown \cup Invalid

ASSUME KcallAssumption ==
    /\ CORES_NUM \in Nat \ {0}
    /\ None \notin Requests

VARIABLES
    sysboard,         \* syscall_nr and arguments, return value, pending flag
    boardsem,         \* sysboard[].syssem
    syssem,           \* the dispatcher's semaphore
    sys_next_coreid,
    coreid, i, ret,   \* locals of do_kcall2()
    dpc,              \* where the dispatcher is
    got,              \* what do_kcall() returned last on a core
    pc                \* where each calling core is

board == <<sysboard, boardsem, syssem>>
dispatcher == <<sys_next_coreid, coreid, i, ret, dpc>>
callers == <<got, pc>>
vars == <<board, dispatcher, callers>>

(* syscall_init() *)
Init ==
    /\ sysboard = [c \in Cores |-> [req |-> None, ret |-> None, pending |-> FALSE]]
    /\ boardsem = [c \in Cores |-> 0]
    /\ syssem = 0
    /\ sys_next_coreid = 0
    /\ coreid = 0
    /\ i = 0
    /\ ret = None
    /\ dpc = "down"
    /\ got = [c \in Callers |-> None]
    /\ pc = [c \in Callers |-> "idle"]

Goto(c, from, to) ==
    /\ pc[c] = from
    /\ pc' = [pc EXCEPT ![c] = to]

-----------------------------------------------------------------------------
(* do_kcall(), default case: the arguments and the call number. *)
Fill(c, r) ==
    /\ Goto(c, "idle", "filled")
    /\ sysboard' = [sysboard EXCEPT ![c].req = r]
    /\ UNCHANGED <<boardsem, syssem, got, dispatcher>>

(* sysboard[coreid].pending = 1 *)
SetPending(c) ==
    /\ Goto(c, "filled", "posted")
    /\ sysboard' = [sysboard EXCEPT ![c].pending = TRUE]
    /\ UNCHANGED <<boardsem, syssem, got, dispatcher>>

(* semaphore_up(&syssem) *)
UpDispatcher(c) ==
    /\ Goto(c, "posted", "waiting")
    /\ syssem' = syssem + 1
    /\ UNCHANGED <<sysboard, boardsem, got, dispatcher>>

(* semaphore_down(&sysboard[coreid].syssem) *)
DownBoard(c) ==
    /\ Goto(c, "waiting", "served")
    /\ boardsem[c] > 0
    /\ boardsem' = [boardsem EXCEPT ![c] = @ - 1]
    /\ UNCHANGED <<sysboard, syssem, got, dispatcher>>

(* ret = sysboard[coreid].ret; return (ret) *)
Return(c) ==
    /\ Goto(c, "served", "idle")
    /\ got' = [got EXCEPT ![c] = sysboard[c].ret]
    /\ UNCHANGED <<board, dispatcher>>

-----------------------------------------------------------------------------
(* do_kcall2(): semaphore_down(&syssem) *)
DownSyssem ==
    /\ dpc = "down"
    /\ syssem > 0
    /\ syssem' = syssem - 1
    /\ coreid' = 0
    /\ i' = 0
    /\ ret' = ENOSYS
    /\ dpc' = "sweep"
    /\ UNCHANGED <<sysboard, boardsem, sys_next_coreid, callers>>

(* One iteration of a sweep over at most "laps" flags that goes on at hit  *)
(* or at miss.  A sweep that finds no pending core goes on with core 0.    *)
SweepStep(hit, miss, laps) ==
    /\ dpc = "sweep"
    /\ \/ /\ sysboard[sys_next_coreid].pending
          /\ sys_next_coreid' = hit
          /\ coreid' = sys_next_coreid
          /\ dpc' = "execute"
          /\ UNCHANGED i
       \/ /\ ~sysboard[sys_next_coreid].pending
          /\ sys_next_coreid' = miss
          /\ i' = i + 1
          /\ dpc' = IF i + 1 < laps THEN "sweep" ELSE "execute"
          /\ UNCHANGED coreid
    /\ UNCHANGED <<ret, board, callers>>

NextCore == (sys_next_coreid + 1) % CORES_NUM

(* Mutants: the last core is not looked at; every sweep starts at core 0. *)
SweepShort == SweepStep(NextCore, NextCore, CORES_NUM - 1)
SweepFromZero == SweepStep(0, NextCore, CORES_NUM)

(* The circular sweep: it resumes behind the core it served last. *)
Sweep == SweepStep(NextCore, NextCore, CORES_NUM)

Outcome(r) ==
    CASE r \in Handled -> Handler(r)
      [] r \in Invalid \cup {None} -> EINVAL
      [] OTHER -> ENOSYS

(* The range check and the switch over the call number. *)
Execute ==
    /\ dpc = "execute"
    /\ ret' = Outcome(sysboard[coreid].req)
    /\ dpc' = "reply"
    /\ UNCHANGED <<sys_next_coreid, coreid, i, board, callers>>

(* Mutant: the return value is not stored. *)
ReplyNoRet ==
    /\ dpc = "reply"
    /\ sysboard' = [sysboard EXCEPT ![coreid].pending = FALSE]
    /\ dpc' = "signal"
    /\ UNCHANGED <<sys_next_coreid, coreid, i, ret, boardsem, syssem, callers>>

(* out: pending = 0, ret is stored *)
Reply ==
    /\ dpc = "reply"
    /\ sysboard' = [sysboard EXCEPT ![coreid].pending = FALSE, ![coreid].ret = ret]
    /\ dpc' = "signal"
    /\ UNCHANGED <<sys_next_coreid, coreid, i, ret, boardsem, syssem, callers>>

(* semaphore_up(&sysboard[coreid].syssem), and main() calls again *)
Signal ==
    /\ dpc = "signal"
    /\ boardsem' = [boardsem EXCEPT ![coreid] = @ + 1]
    /\ dpc' = "down"
    /\ UNCHANGED <<sys_next_coreid, coreid, i, ret, sysboard, syssem, callers>>

-----------------------------------------------------------------------------
Caller(c) == SetPending(c) \/ UpDispatcher(c) \/ DownBoard(c) \/ Return(c)

Dispatcher == DownSyssem \/ Sweep \/ Execute \/ Reply \/ Signal

Next ==
    \/ \E c \in Callers, r \in Requests : Fill(c, r)
    \/ \E c \in Callers : Caller(c)
    \/ Dispatcher

Spec == Init /\ [][Next]_vars

(* Every core runs on its own: a core inside do_kcall() and the master     *)
(* loop keep executing.  Making a call is up to the program.               *)
FairSpec ==
    /\ Spec
    /\ WF_vars(Dispatcher)
    /\ \A c \in Callers : WF_vars(Caller(c))

-----------------------------------------------------------------------------
Results == {Outcome(r) : r \in Requests} \cup {ENOSYS, EINVAL, None}

(* Types of the scoreboard, the semaphores and both program counters. *)
TypeOK ==
    /\ sysboard \in [Cores -> [req : Requests \cup {None}, ret : Results, pending : BOOLEAN]]
    /\ boardsem \in [Cores -> Nat]
    /\ syssem \in Nat
    /\ sys_next_coreid \in Cores
    /\ coreid \in Cores
    /\ i \in 0 .. CORES_NUM
    /\ ret \in Results
    /\ dpc \in {"down", "sweep", "execute", "reply", "signal"}
    /\ got \in [Callers -> Results]
    /\ pc \in [Callers -> {"idle", "filled", "posted", "waiting", "served"}]

Pending == {c \in Cores : sysboard[c].pending}

(* Cores that raised pending but not yet the dispatcher's semaphore; the   *)
(* sweep may serve such a core with another core's token.                  *)
Posted == {c \in Callers : pc[c] = "posted"}

(* The dispatcher took a token whose request it has not answered yet. *)
InService == dpc \in {"sweep", "execute", "reply"}

(* Every pending request is matched by a token in syssem, by the token the *)
(* dispatcher is working on, or by an up that some core is about to do: a  *)
(* core served before its own up owes the token of the core it overtook.   *)
TokenAccounting ==
    syssem + (IF InService THEN 1 ELSE 0) + Cardinality(Posted)
      = Cardinality(Pending)

(* do_kcall2() never reaches the switch with a core that did not ask: the  *)
(* sweep finds a pending core within CORES_NUM iterations even though      *)
(* cores raise and it reads the flags in any order, and coreid = 0 is      *)
(* never taken by default.                                                 *)
ServesPending ==
    dpc \in {"execute", "reply"} => coreid # 0 /\ sysboard[coreid].pending

(* A core's own semaphore is raised once per call: it is positive only     *)
(* while that core has an answered call to collect.                        *)
OneAnswer ==
    \A c \in Callers :
        boardsem[c] = (IF /\ pc[c] \in {"posted", "waiting"}
                          /\ ~sysboard[c].pending
                          /\ ~(dpc = "signal" /\ coreid = c) THEN 1 ELSE 0)

(* Every forwarded call returns: the circular sweep starves no core. *)
CallsReturn == \A c \in Callers : (pc[c] = "filled") ~> (pc[c] = "idle")

(* The scoreboard implements the synchronous call: executed once, with its *)
(* own arguments, returning its own result.                                *)
Abs == INSTANCE AbsKcall WITH
          phase <- [c \in Callers |->
                      IF pc[c] = "idle" THEN "idle"
                      ELSE IF pc[c] = "filled" \/ sysboard[c].pending THEN "called"
                      ELSE "executed"],
          request <- [c \in Callers |-> sysboard[c].req],
          result <- got

ImplementsAbs == Abs!Spec
=============================================================================
