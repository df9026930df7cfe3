----------------------------- MODULE KcallProofs -----------------------------
(***************************************************************************)
(* The scoreboard of sys/syscalls.c, for any number of cores and requests: *)
(* tokens match requests, the sweep always finds a request, and the        *)
(* scoreboard implements the synchronous call of AbsKcall.                 *)
(***************************************************************************)
EXTENDS Kcall, FiniteSetTheorems, TLAPS

(* How far core c is ahead of the sweep. *)
Ahead(c) == IF c >= sys_next_coreid THEN c - sys_next_coreid
            ELSE c - sys_next_coreid + CORES_NUM

(* A request is pending from the store of the flag to the dispatcher's     *)
(* reply, and only its own core can be in between.                         *)
PendingInv ==
    /\ ~sysboard[0].pending
    /\ \A c \in Callers : sysboard[c].pending => pc[c] \in {"posted", "waiting"}
    /\ \A c \in Callers : pc[c] # "idle" => sysboard[c].req \in Requests

(* While the dispatcher sweeps, a pending core lies in the part of the     *)
(* circle that the sweep has not looked at yet; afterwards it serves one.  *)
ServiceInv ==
    /\ dpc = "sweep" => /\ i < CORES_NUM
                        /\ \E c \in Pending : Ahead(c) < CORES_NUM - i
    /\ dpc \in {"execute", "reply"} => sysboard[coreid].pending
    /\ dpc = "reply" => ret = Outcome(sysboard[coreid].req)
    /\ dpc = "signal" => /\ coreid \in Callers
                         /\ ~sysboard[coreid].pending
                         /\ pc[coreid] \in {"posted", "waiting"}

(* An answered call has its result on the board until its core returns. *)
AnswerInv ==
    \A c \in Callers :
        (pc[c] \in {"posted", "waiting", "served"} /\ ~sysboard[c].pending)
          => sysboard[c].ret = Outcome(sysboard[c].req)

IInv == TypeOK /\ TokenAccounting /\ OneAnswer /\ PendingInv /\ ServiceInv /\ AnswerInv

-----------------------------------------------------------------------------
(* The circular increment of sys_next_coreid. *)
LEMMA NextCoreValue ==
  ASSUME sys_next_coreid \in Cores
  PROVE  NextCore = IF sys_next_coreid = CORES_NUM - 1 THEN 0 ELSE sys_next_coreid + 1
  BY KcallAssumption DEF NextCore, Cores

LEMMA FinitePending == IsFiniteSet(Pending) /\ IsFiniteSet(Posted)
<1>1. IsFiniteSet(0 .. CORES_NUM - 1) /\ IsFiniteSet(1 .. CORES_NUM - 1)
  BY FS_Interval, KcallAssumption
<1>2. QED
  BY Zenon, <1>1, FS_Subset DEF Pending, Posted, Cores, Callers

LEMMA InitIInv == Init => IInv
<1> SUFFICES ASSUME Init PROVE IInv
  BY Zenon
<1>1. TypeOK
  BY KcallAssumption DEF Init, TypeOK, Cores, Callers, Results
<1>2. TokenAccounting
  <2>1. Pending = {} /\ Posted = {}
    BY Zenon DEF Init, Pending, Posted
  <2>2. QED
    BY <2>1, FS_EmptySet DEF Init, TokenAccounting, InService
<1>3. OneAnswer /\ PendingInv /\ ServiceInv /\ AnswerInv
  BY KcallAssumption DEF Init, OneAnswer, PendingInv, ServiceInv, AnswerInv, Cores, Callers
<1>4. QED
  BY Zenon, <1>1, <1>2, <1>3 DEF IInv

-----------------------------------------------------------------------------
(* The steps of do_kcall(). *)
LEMMA CallerStep ==
  ASSUME IInv, NEW c \in Callers,
         (\E r \in Requests : Fill(c, r)) \/ Caller(c)
  PROVE  IInv'
<1> USE KcallAssumption DEF IInv, Cores, Callers, dispatcher
<1>1. ASSUME NEW r \in Requests, Fill(c, r) PROVE IInv'
  <2>1. TypeOK'
    BY Zenon, <1>1 DEF Fill, TypeOK, Goto
  <2>2. Pending' = Pending /\ Posted' = Posted
    BY <1>1 DEF Fill, TypeOK, Goto, Pending, Posted
  <2>3. TokenAccounting'
    BY Zenon, <1>1, <2>2 DEF Fill, TokenAccounting, InService
  <2>4. OneAnswer' /\ PendingInv' /\ AnswerInv'
    <3>1. OneAnswer'
      BY SMTT(60), <1>1 DEF Fill, TypeOK, Goto, OneAnswer, PendingInv, ServiceInv
    <3>2. PendingInv'
      BY SMTT(60), <1>1 DEF Fill, TypeOK, Goto, PendingInv, ServiceInv
    <3>3. AnswerInv'
      BY <1>1 DEF Fill, TypeOK, Goto, AnswerInv
    <3>4. QED
      BY Zenon, <3>1, <3>2, <3>3
  <2>5. ServiceInv'
    BY Zenon, <1>1, <2>2 DEF Fill, TypeOK, Goto, ServiceInv, PendingInv, Ahead
  <2>6. QED
    BY Zenon, <2>1, <2>3, <2>4, <2>5
<1>2. ASSUME SetPending(c) PROVE IInv'
  <2>1. TypeOK'
    BY Zenon, <1>2 DEF SetPending, TypeOK, Goto
  <2>2. /\ Pending' = Pending \cup {c} /\ c \notin Pending
        /\ Posted' = Posted \cup {c} /\ c \notin Posted
    BY SMTT(60), <1>2 DEF SetPending, TypeOK, Goto, Pending, Posted, PendingInv
  <2>3. /\ Cardinality(Pending') = Cardinality(Pending) + 1
        /\ Cardinality(Posted') = Cardinality(Posted) + 1
    BY Zenon, <2>2, FinitePending, FS_AddElement
  <2>4. TokenAccounting'
    <3>1. Cardinality(Pending) \in Nat /\ Cardinality(Posted) \in Nat
      BY Zenon, FinitePending, FS_CardinalityType
    <3>2. InService' <=> InService
      BY Zenon, <1>2 DEF SetPending, InService
    <3>3. syssem \in Nat /\ syssem' = syssem + 0
      BY <1>2 DEF SetPending, TypeOK
    <3>4. QED
      BY  <2>3, <3>1, <3>2, <3>3 DEF TokenAccounting
  <2>5. OneAnswer' /\ PendingInv' /\ AnswerInv'
    <3>1. OneAnswer'
      BY <1>2 DEF SetPending, TypeOK, Goto, OneAnswer, PendingInv, ServiceInv
    <3>2. PendingInv'
      BY SMTT(60), <1>2 DEF SetPending, TypeOK, Goto, PendingInv
    <3>3. AnswerInv'
      BY <1>2 DEF SetPending, TypeOK, Goto, AnswerInv
    <3>4. QED
      BY Zenon, <3>1, <3>2, <3>3
  <2>6. ServiceInv'
    BY Zenon, <1>2, <2>2 DEF SetPending, TypeOK, Goto, ServiceInv, PendingInv, Ahead
  <2>7. QED
    BY Zenon, <2>1, <2>4, <2>5, <2>6
<1>3. ASSUME UpDispatcher(c) PROVE IInv'
  <2>1. TypeOK'
    BY <1>3 DEF UpDispatcher, TypeOK, Goto
  <2>2. Pending' = Pending /\ Posted' = Posted \ {c} /\ c \in Posted
    BY Zenon, <1>3 DEF UpDispatcher, TypeOK, Goto, Pending, Posted
  <2>3. Cardinality(Posted') = Cardinality(Posted) - 1
    BY Zenon, <2>2, FinitePending, FS_RemoveElement
  <2>4. TokenAccounting'
    <3>1. Cardinality(Pending) \in Nat /\ Cardinality(Posted) \in Nat
      BY Zenon, FinitePending, FS_CardinalityType
    <3>2. InService' <=> InService
      BY Zenon, <1>3 DEF UpDispatcher, InService
    <3>3. syssem \in Nat /\ syssem' = syssem + 1
      BY Zenon, <1>3 DEF UpDispatcher, TypeOK
    <3>4. QED
      BY  <2>2, <2>3, <3>1, <3>2, <3>3 DEF TokenAccounting
  <2>5. OneAnswer' /\ PendingInv' /\ AnswerInv'
    BY <1>3 DEF UpDispatcher, TypeOK, Goto, OneAnswer, PendingInv, ServiceInv, AnswerInv
  <2>6. ServiceInv'
    BY Zenon, <1>3, <2>2 DEF UpDispatcher, TypeOK, Goto, ServiceInv, PendingInv, Ahead
  <2>7. QED
    BY Zenon, <2>1, <2>4, <2>5, <2>6
<1>4. ASSUME DownBoard(c) \/ Return(c) PROVE IInv'
  <2>1. TypeOK'
    <3>1. CASE DownBoard(c)
      BY <3>1 DEF DownBoard, TypeOK, Goto
    <3>2. CASE Return(c)
      BY <3>2 DEF Return, TypeOK, Goto, board
    <3>3. QED
      BY Zenon, <1>4, <3>1, <3>2
  <2>2. Pending' = Pending /\ Posted' = Posted
    BY Zenon, <1>4 DEF DownBoard, Return, TypeOK, Goto, board, Pending, Posted
  <2>3. TokenAccounting'
    BY Zenon, <1>4, <2>2 DEF DownBoard, Return, board, TokenAccounting, InService
  <2>4. OneAnswer' /\ PendingInv' /\ AnswerInv'
    <3>1. CASE DownBoard(c)
      <4>1. OneAnswer'
        BY <3>1 DEF DownBoard, TypeOK, Goto, OneAnswer, PendingInv, ServiceInv
      <4>2. PendingInv'
        BY <3>1 DEF DownBoard, TypeOK, Goto, OneAnswer, PendingInv
      <4>3. AnswerInv'
        BY Zenon, <3>1 DEF DownBoard, TypeOK, Goto, AnswerInv
      <4>4. QED
        BY Zenon, <4>1, <4>2, <4>3
    <3>2. CASE Return(c)
      <4>1. OneAnswer'
        BY Zenon, <3>2 DEF Return, board, TypeOK, Goto, OneAnswer, ServiceInv
      <4>2. PendingInv'
        BY Zenon, <3>2 DEF Return, board, TypeOK, Goto, OneAnswer, PendingInv
      <4>3. AnswerInv'
        BY Zenon, <3>2 DEF Return, board, TypeOK, Goto, AnswerInv
      <4>4. QED
        BY Zenon, <4>1, <4>2, <4>3
    <3>3. QED
      BY Zenon, <1>4, <3>1, <3>2
  <2>5. ServiceInv'
    <3>1. CASE DownBoard(c)
      <4>1. UNCHANGED <<sysboard, dispatcher>> /\ boardsem[c] > 0 /\ pc' = [pc EXCEPT ![c] = "served"]
        BY Zenon, <3>1 DEF DownBoard, Goto
      <4>2. dpc = "signal" => coreid # c
        BY <4>1 DEF OneAnswer, ServiceInv, TypeOK
      <4>3. dpc' = "signal" => coreid' \in Callers /\ pc'[coreid'] = pc[coreid]
        BY Zenon, <4>1, <4>2 DEF ServiceInv, TypeOK, dispatcher
      <4>4. \A d : Ahead(d)' = Ahead(d)
        BY Zenon, <4>1 DEF Ahead, dispatcher
      <4>5. QED
        BY Zenon, <2>2, <4>1, <4>3, <4>4 DEF ServiceInv, dispatcher
    <3>2. CASE Return(c)
      BY Zenon, <2>2, <3>2 DEF Return, board, TypeOK, Goto, OneAnswer, ServiceInv, Ahead
    <3>3. QED
      BY Zenon, <1>4, <3>1, <3>2
  <2>6. QED
    BY Zenon, <2>1, <2>3, <2>4, <2>5
<1>5. QED
  BY Zenon, <1>1, <1>2, <1>3, <1>4 DEF Caller

(* The steps of do_kcall2(). *)
LEMMA DispatcherStep ==
  ASSUME IInv, Dispatcher
  PROVE  IInv'
<1> USE KcallAssumption DEF IInv, Cores, Callers, callers
<1>0. Cardinality(Pending) \in Nat /\ Cardinality(Posted) \in Nat
  BY Zenon, FinitePending, FS_CardinalityType
<1>1. ASSUME DownSyssem PROVE IInv'
  <2>1. TypeOK'
    BY <1>1 DEF DownSyssem, TypeOK, Results
  <2>2. Pending' = Pending /\ Posted' = Posted
    BY Zenon, <1>1 DEF DownSyssem, Pending, Posted
  <2>3. TokenAccounting'
    <3>1. ~InService /\ InService'
      BY Zenon, <1>1 DEF DownSyssem, InService
    <3>2. syssem \in Nat /\ syssem > 0 /\ syssem' = syssem - 1
      BY Zenon, <1>1 DEF DownSyssem, TypeOK
    <3>3. QED
      BY <1>0, <2>2, <3>1, <3>2 DEF TokenAccounting
  <2>4. OneAnswer' /\ PendingInv' /\ AnswerInv'
    BY Zenon, <1>1 DEF DownSyssem, OneAnswer, PendingInv, AnswerInv
  <2>5. PICK c \in Pending : TRUE
    <3>1. Cardinality(Pending) > 0
      BY <1>0, <1>1 DEF DownSyssem, TypeOK, TokenAccounting, InService
    <3>2. QED
      BY <3>1, FinitePending, FS_EmptySet
  <2>6. ServiceInv'
    <3>1. c \in 0 .. CORES_NUM - 1
      BY Zenon, <2>5 DEF Pending
    <3>2. Ahead(c)' < CORES_NUM - i'
      BY <1>1, <3>1 DEF DownSyssem, Ahead, TypeOK
    <3>3. QED
      BY <1>1, <2>2, <2>5, <3>2 DEF DownSyssem, ServiceInv
  <2>7. QED
    BY Zenon, <2>1, <2>3, <2>4, <2>6
<1>2. ASSUME Sweep PROVE IInv'
  <2> USE <1>2 DEF Sweep, SweepStep, board
  <2>1. NextCore \in Cores
    BY NextCoreValue DEF TypeOK
  <2>2. i < CORES_NUM /\ \E c \in Pending : Ahead(c) < CORES_NUM - i
    BY Zenon DEF ServiceInv
  <2>3. Pending' = Pending /\ Posted' = Posted
    BY Zenon DEF Pending, Posted
  <2>4. TypeOK'
    <3>1. /\ sys_next_coreid' = NextCore
          /\ coreid' \in {coreid, sys_next_coreid}
          /\ i' \in {i, i + 1}
          /\ dpc' \in {"sweep", "execute"}
      BY Zenon
    <3>2. i' \in 0 .. CORES_NUM
      BY <2>2, <3>1 DEF TypeOK
    <3>3. QED
      BY Zenon, <2>1, <3>1, <3>2 DEF TypeOK
  <2>5. TokenAccounting'
    <3>1. InService /\ InService' /\ syssem' = syssem
      BY Zenon DEF InService
    <3>2. QED
      BY Zenon, <2>3, <3>1 DEF TokenAccounting
  <2>6. OneAnswer' /\ PendingInv' /\ AnswerInv'
    BY Zenon DEF OneAnswer, PendingInv, AnswerInv
  <2>7. CASE sysboard[sys_next_coreid].pending
    BY Zenon, <2>7, <2>4, <2>5, <2>6 DEF ServiceInv, TypeOK
  <2>8. CASE ~sysboard[sys_next_coreid].pending
    <3>1. PICK c \in Pending : Ahead(c) < CORES_NUM - i
      BY Zenon, <2>2
    <3>2. c \in 0 .. CORES_NUM - 1 /\ c # sys_next_coreid
      BY Zenon, <2>8, <3>1 DEF Pending
    <3>3. Ahead(c)' = Ahead(c) - 1 /\ Ahead(c) \in Nat \ {0}
      <4>1. sys_next_coreid \in 0 .. CORES_NUM - 1
        BY Zenon DEF TypeOK
      <4>2. sys_next_coreid' = IF sys_next_coreid = CORES_NUM - 1 THEN 0 ELSE sys_next_coreid + 1
        BY Zenon, <2>8, <4>1, NextCoreValue
      <4>3. QED
        BY <3>2, <4>1, <4>2 DEF Ahead
    <3>4. i' = i + 1 /\ i \in Nat
      BY <2>8 DEF TypeOK
    <3>5. Ahead(c)' < CORES_NUM - i' /\ i' < CORES_NUM
      BY <3>1, <3>3, <3>4
    <3>6. dpc' = "sweep"
      BY Zenon, <2>8, <3>4, <3>5
    <3>7. ServiceInv'
      BY Zenon, <2>3, <3>1, <3>5, <3>6 DEF ServiceInv
    <3>8. QED
      BY Zenon, <2>4, <2>5, <2>6, <3>7
  <2>9. QED
    BY Zenon, <2>7, <2>8
<1>3. ASSUME Execute PROVE IInv'
  <2> USE <1>3 DEF Execute, board
  <2>1. sysboard[coreid].req \in Requests
    <3>1. coreid \in Callers /\ sysboard[coreid].pending
      BY DEF ServiceInv, PendingInv, TypeOK
    <3>2. pc[coreid] # "idle"
      BY Zenon, <3>1 DEF PendingInv
    <3>3. QED
      BY Zenon, <3>1, <3>2 DEF PendingInv
  <2>2. TypeOK'
    BY Zenon, <2>1 DEF TypeOK, Results
  <2>3. TokenAccounting'
    <3>1. Pending' = Pending /\ Posted' = Posted
      BY Zenon DEF Pending, Posted
    <3>2. InService /\ InService' /\ syssem' = syssem
      BY Zenon DEF InService
    <3>3. QED
      BY Zenon, <3>1, <3>2 DEF TokenAccounting
  <2>4. OneAnswer' /\ PendingInv' /\ ServiceInv' /\ AnswerInv'
    BY Zenon DEF OneAnswer, PendingInv, ServiceInv, AnswerInv
  <2>5. QED
    BY Zenon, <2>2, <2>3, <2>4
<1>4. ASSUME Reply PROVE IInv'
  <2> USE <1>4 DEF Reply
  <2>1. coreid \in Callers /\ coreid \in Pending
    BY DEF ServiceInv, PendingInv, TypeOK, Pending
  <2>2. TypeOK'
    <3> DEFINE Entries == [req : Requests \cup {None}, ret : Results, pending : BOOLEAN]
               e == [sysboard[coreid] EXCEPT !.pending = FALSE, !.ret = ret]
    <3>1. e \in Entries
      <4>1. sysboard[coreid] \in Entries /\ ret \in Results
        BY Zenon DEF TypeOK
      <4>2. QED
        BY Zenon, <4>1
    <3>2. sysboard' = [sysboard EXCEPT ![coreid] = e]
      BY Zenon
    <3>3. sysboard' \in [Cores -> Entries]
      <4> HIDE DEF Entries, e
      <4>1. sysboard \in [Cores -> Entries]
        BY Zenon DEF TypeOK, Entries
      <4>2. QED
        BY Zenon, <3>1, <3>2, <4>1
    <3>4. QED
      BY Zenon, <3>3 DEF TypeOK
  <2>3. Pending' = Pending \ {coreid} /\ Posted' = Posted
    BY Zenon DEF TypeOK, Pending, Posted
  <2>4. TokenAccounting'
    <3>1. Cardinality(Pending') = Cardinality(Pending) - 1
      BY Zenon, <2>1, <2>3, FinitePending, FS_RemoveElement
    <3>2. InService /\ ~InService' /\ syssem' = syssem /\ syssem \in Nat
      BY Zenon DEF InService, TypeOK
    <3>3. QED
      BY <1>0, <2>3, <3>1, <3>2 DEF TokenAccounting
  <2>5. OneAnswer' /\ PendingInv'
    <3>1. ASSUME NEW c \in Callers PROVE OneAnswer!(c)'
      <4>1. CASE c = coreid
        BY Zenon, <2>1, <4>1 DEF OneAnswer, TypeOK, Pending
      <4>2. CASE c # coreid
        BY <2>1, <4>2 DEF OneAnswer, TypeOK
      <4>3. QED
        BY Zenon, <4>1, <4>2
    <3>2. OneAnswer'
      BY Zenon, <3>1 DEF OneAnswer
    <3>3. PendingInv'
      <4>1. \A c \in Cores : /\ sysboard'[c].pending => sysboard[c].pending
                            /\ sysboard'[c].req = sysboard[c].req
        BY DEF TypeOK
      <4>2. pc' = pc /\ 0 \in Cores /\ Callers \subseteq Cores
        OBVIOUS
      <4>3. ~sysboard'[0].pending
        BY Zenon, <4>1, <4>2 DEF PendingInv
      <4>4. ASSUME NEW c \in Callers
            PROVE  /\ sysboard'[c].pending => pc'[c] \in {"posted", "waiting"}
                   /\ pc'[c] # "idle" => sysboard'[c].req \in Requests
        BY Zenon, <4>1, <4>2 DEF PendingInv
      <4>5. QED
        BY Zenon, <4>3, <4>4 DEF PendingInv
    <3>4. QED
      BY Zenon, <3>2, <3>3
  <2>6. ServiceInv' /\ AnswerInv'
    BY <2>1 DEF ServiceInv, AnswerInv, PendingInv, TypeOK
  <2>7. QED
    BY Zenon, <2>2, <2>4, <2>5, <2>6
<1>5. ASSUME Signal PROVE IInv'
  <2> USE <1>5 DEF Signal
  <2>1. TypeOK'
    BY DEF TypeOK
  <2>2. TokenAccounting'
    <3>1. Pending' = Pending /\ Posted' = Posted
      BY Zenon DEF Pending, Posted
    <3>2. ~InService /\ ~InService' /\ syssem' = syssem
      BY Zenon DEF InService
    <3>3. QED
      BY Zenon, <3>1, <3>2 DEF TokenAccounting
  <2>3. OneAnswer'
    BY DEF OneAnswer, ServiceInv, TypeOK
  <2>4. PendingInv' /\ ServiceInv' /\ AnswerInv'
    BY Zenon DEF PendingInv, ServiceInv, AnswerInv
  <2>5. QED
    BY Zenon, <2>1, <2>2, <2>3, <2>4
<1>6. QED
  BY Zenon, <1>1, <1>2, <1>3, <1>4, <1>5 DEF Dispatcher

LEMMA StepIInv == IInv /\ [Next]_vars => IInv'
<1> SUFFICES ASSUME IInv, [Next]_vars PROVE IInv'
  BY Zenon
<1>1. CASE Next
  BY Zenon, <1>1, CallerStep, DispatcherStep DEF Next
<1>2. CASE UNCHANGED vars
  <2>1. TypeOK' /\ OneAnswer' /\ PendingInv' /\ AnswerInv'
    BY Zenon, <1>2 DEF vars, board, dispatcher, callers, IInv, TypeOK, OneAnswer,
                PendingInv, AnswerInv
  <2>2. TokenAccounting' /\ ServiceInv'
    BY Zenon, <1>2 DEF vars, board, dispatcher, callers, IInv, TokenAccounting,
                ServiceInv, Pending, Posted, InService, Ahead
  <2>3. QED
    BY Zenon, <2>1, <2>2 DEF IInv
<1>3. QED
  BY Zenon, <1>1, <1>2

-----------------------------------------------------------------------------
(* The scoreboard, the semaphores and both loops keep their types. *)
THEOREM TypeCorrect == Spec => []TypeOK
<1>1. IInv => TypeOK
  BY Zenon DEF IInv
<1>2. QED
  BY InitIInv, StepIInv, <1>1, PTL DEF Spec

(* Whatever the number of cores, the dispatcher's semaphore counts exactly *)
(* the pending requests that no up and no token in hand accounts for: no   *)
(* request is left without a wake-up, and no wake-up without a request.    *)
THEOREM Tokens == Spec => []TokenAccounting
<1>1. IInv => TokenAccounting
  BY Zenon DEF IInv
<1>2. QED
  BY InitIInv, StepIInv, <1>1, PTL DEF Spec

(* do_kcall2() only ever executes the request of a core that made one: its *)
(* sweep of CORES_NUM flags never ends empty-handed on coreid = 0.         *)
THEOREM SweepFindsRequest == Spec => []ServesPending
<1>1. IInv => ServesPending
  BY Zenon DEF IInv, ServiceInv, PendingInv, ServesPending
<1>2. QED
  BY InitIInv, StepIInv, <1>1, PTL DEF Spec

(* A core's semaphore holds one token exactly while it has an answered     *)
(* call to collect, so no call returns with the answer of another.         *)
THEOREM AnswersOnce == Spec => []OneAnswer
<1>1. IInv => OneAnswer
  BY Zenon DEF IInv
<1>2. QED
  BY InitIInv, StepIInv, <1>1, PTL DEF Spec

(* do_kcall() and do_kcall2() implement the synchronous kernel call: every *)
(* step is a call, its one execution, its return, or invisible.            *)
THEOREM Refinement == Spec => ImplementsAbs
<1>1. Init => Abs!Init
  BY KcallAssumption DEF Init, Abs!Init, Cores, Callers
<1>2. IInv /\ [Next]_vars => [Abs!Next]_Abs!vars
  <2> SUFFICES ASSUME IInv, [Next]_vars PROVE [Abs!Next]_Abs!vars
    BY Zenon
  <2> USE KcallAssumption DEF IInv, TypeOK, Cores, Callers, Goto
  <2>1. ASSUME NEW c \in Callers, NEW r \in Requests, Fill(c, r) PROVE Abs!Call(c, r)
    <3>1. \A d \in Callers :
            /\ pc'[d] = IF d = c THEN "filled" ELSE pc[d]
            /\ sysboard'[d].pending = sysboard[d].pending
            /\ sysboard'[d].req = IF d = c THEN r ELSE sysboard[d].req
      BY SMTT(60), <2>1 DEF Fill
    <3>2. pc[c] = "idle" /\ got' = got
      BY Zenon, <2>1 DEF Fill
    <3> DEFINE Phase(d) == IF pc[d] = "idle" THEN "idle"
                           ELSE IF pc[d] = "filled" \/ sysboard[d].pending THEN "called"
                           ELSE "executed"
               phase == [d \in Callers |-> Phase(d)]
               request == [d \in Callers |-> sysboard[d].req]
    <3>3. Phase(c) = "idle" /\ \A d \in Callers : Phase(d)' = IF d = c THEN "called" ELSE Phase(d)
      BY Zenon, <3>1, <3>2
    <3>4. phase' = [phase EXCEPT ![c] = "called"] /\ phase[c] = "idle"
      <4> HIDE DEF Phase
      <4>1. QED
        BY Zenon, <3>3
    <3>5. request' = [request EXCEPT ![c] = r]
      BY Zenon, <3>1
    <3>6. QED
      BY Zenon, <3>2, <3>4, <3>5 DEF Abs!Call
  <2>2. ASSUME NEW c \in Callers, Return(c) PROVE Abs!Return(c)
    BY Zenon, <2>2 DEF Return, board, Abs!Return, PendingInv, AnswerInv
  <2>3. ASSUME NEW c \in Callers, c = coreid, Reply PROVE Abs!Execute(c)
    <3>1. sysboard[c].pending /\ pc[c] \in {"posted", "waiting"}
      BY Zenon, <2>3 DEF Reply, ServiceInv, PendingInv
    <3>2. pc' = pc /\ got' = got
      BY Zenon, <2>3 DEF Reply, callers
    <3>3. sysboard' = [sysboard EXCEPT ![c].pending = FALSE, ![c].ret = ret]
      BY Zenon, <2>3 DEF Reply
    <3>4. ASSUME NEW d \in Callers
          PROVE  /\ d # c => sysboard'[d] = sysboard[d]
                 /\ ~sysboard'[c].pending
                 /\ sysboard'[d].req = sysboard[d].req
      BY SMTT(60), <3>3
    <3>5. QED
      BY Zenon, <3>1, <3>2, <3>4 DEF Abs!Execute
  <2>4. ASSUME NEW c \in Callers, SetPending(c) \/ UpDispatcher(c) \/ DownBoard(c)
        PROVE  UNCHANGED Abs!vars
    <3>1. CASE SetPending(c)
      BY <3>1 DEF SetPending, Abs!vars
    <3>2. CASE UpDispatcher(c)
      BY Zenon, <3>2 DEF UpDispatcher, Abs!vars
    <3>3. CASE DownBoard(c)
      BY Zenon, <3>3 DEF DownBoard, Abs!vars
    <3>4. QED
      BY Zenon, <2>4, <3>1, <3>2, <3>3
  <2>5. ASSUME DownSyssem \/ Sweep \/ Execute \/ Signal PROVE UNCHANGED Abs!vars
    BY Zenon, <2>5 DEF DownSyssem, Sweep, SweepStep, Execute, Signal, board, callers, Abs!vars
  <2>6. CASE UNCHANGED vars
    BY Zenon, <2>6 DEF vars, board, callers, Abs!vars
  <2>7. CASE \E c \in Callers, r \in Requests : Fill(c, r)
    BY Zenon, <2>1, <2>7 DEF Abs!Next
  <2>8. CASE \E c \in Callers : Caller(c)
    BY Zenon, <2>2, <2>4, <2>8 DEF Caller, Abs!Next
  <2>9. CASE Dispatcher
    <3>1. CASE Reply
      <4>1. coreid \in Callers
        BY <3>1 DEF Reply, ServiceInv, PendingInv
      <4>2. PICK c \in Callers : c = coreid
        BY Zenon, <4>1
      <4>3. Abs!Execute(c)
        BY Zenon, <2>3, <3>1, <4>2
      <4>4. QED
        BY Zenon, <4>3 DEF Abs!Next
    <3>2. CASE ~Reply
      BY Zenon, <2>5, <2>9, <3>2 DEF Dispatcher
    <3>3. QED
      BY Zenon, <3>1, <3>2
  <2>10. QED
    BY Zenon, <2>6, <2>7, <2>8, <2>9 DEF Next
<1>3. QED
  BY InitIInv, StepIInv, <1>1, <1>2, PTL DEF Spec, ImplementsAbs, Abs!Spec
=============================================================================
