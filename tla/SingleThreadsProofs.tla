------------------------ MODULE SingleThreadsProofs ------------------------
(***************************************************************************)
(* Slots, cores and thread_join() of the thread system with one thread per *)
(* core, for any number of cores, trials, thread IDs and exit values.      *)
(***************************************************************************)
EXTENDS SingleThreads, FiniteSetTheorems, WellFoundedInduction, TLAPS

-----------------------------------------------------------------------------
(* Every set of numbers that is not empty has a least one. *)
LEMMA Least ==
    ASSUME NEW S, S \subseteq Nat, S # {}
    PROVE  \E x \in S : \A y \in S : x <= y
<1> DEFINE R == OpToRel(<, Nat)
<1>1. PICK x \in S : \A y \in S : ~(<<y, x>> \in R)
  BY Zenon, NatLessThanWellFounded, WFMin
<1>2. ASSUME NEW y \in S PROVE x <= y
  <2>1. x \in Nat /\ y \in Nat
    BY Zenon
  <2>2. y < x => <<y, x>> \in R
    BY Zenon, <2>1 DEF OpToRel
  <2>3. ~(y < x)
    BY <1>1, <2>2, Zenon
  <2>4. QED
    BY <2>1, <2>3
<1>3. QED
  BY Zenon, <1>2

(* thread_alloc() gives a free slot. *)
LEMMA FirstFree ==
    ASSUME NEW S, S \subseteq Workers, S # {}
    PROVE  Min(S) \in S
<1>1. \E x \in S : \A y \in S : x <= y
  <2>1. S \subseteq Nat
    BY SingleAssumption DEF Workers
  <2>2. QED
    BY <2>1, Least, Zenon
<1>2. QED
  BY Zenon, <1>1 DEF Min

(* Whatever is in the ring was returned by the thread it is filed under. *)
OwnValues(e) == \A k \in Ring : e.entry[k].retval = e.entry[k].tid

(* thread_search_retval() finds the value of the thread, or none. *)
LEMMA SearchOwn ==
    ASSUME NEW e, OwnValues(e), NEW id
    PROVE  SearchRetval(e, id) \in {NoValue, id}
<1> DEFINE found == {k \in Ring : e.entry[k].tid = id}
<1>1. CASE found = {}
  BY Zenon, <1>1 DEF SearchRetval
<1>2. CASE found # {}
  <2>1. \E k \in found : \A l \in found : k <= l
    <3>1. found \subseteq Nat
      BY ExitAssumption DEF Ring
    <3>2. QED
      BY <1>2, <3>1, Least, Zenon
  <2>2. (CHOOSE k \in found : \A l \in found : k <= l) \in found
    BY Zenon, <2>1
  <2>3. QED
    BY Zenon, <1>2, <2>2 DEF SearchRetval, OwnValues
<1>3. QED
  BY Zenon, <1>1, <1>2

-----------------------------------------------------------------------------
(* nthreads counts the slots that are taken, and the master core. *)
Used == {c \in Workers : tid[c] # NoTid}
Counted == nthreads = 1 + Cardinality(Used)

(* Thread IDs are not reused: no two slots have the same one, and a thread *)
(* whose creation failed has none.                                         *)
TidsUnique ==
    /\ \A c \in Workers : tid[c] # NoTid => tid[c] < next_tid /\ tid[c] \notin failed
    /\ \A c, d \in Workers : tid[c] = tid[d] /\ tid[c] # NoTid => c = d
    /\ \A id \in failed : id < next_tid

(* A core is reset exactly when it has no thread to execute. *)
CoresReset == \A c \in Workers : exec[c] = NoTid <=> pc[c] = "off"

(* thread_create() keeps its caller waiting and works on a slot that is    *)
(* taken, and whose core does not execute a thread.                        *)
CreateSound ==
    /\ create.step = "serve" => create = Idle
    /\ create.step = "alloc" => create.ntrials = 0
    /\ create.step = "start" => create.ntrials < THREAD_CREATE_NTRIALS
    /\ create.step # "serve" /\ create.caller # 0 => pc[create.caller] = "kcall"
    /\ create.step \in {"start", "rollback"} =>
         /\ create.slot \in Workers
         /\ tid[create.slot] # NoTid
         /\ pc[create.slot] \in {"off", "reset"}

(* A core that waits in thread_join() is in one queue or has been woken    *)
(* up, and it has been woken up only after its target has left its slot.   *)
WaitersSound ==
    /\ \A c, s \in Workers : c \in joincond[s] =>
         /\ pc[c] = "asleep" /\ wakeups[c] = 0
         /\ tid[s] = target[c] \/ target[c] \in failed
    /\ \A c, r, s \in Workers : c \in joincond[r] /\ c \in joincond[s] => r = s
    /\ \A c \in Workers : pc[c] = "asleep" => target[c] \in Tids /\ target[c] < next_tid
    /\ \A c \in Workers : wakeups[c] = 1 =>
         pc[c] = "asleep" /\ \A s \in Workers : tid[s] # target[c]

(* thread_join() has returned the IDs of threads that existed. *)
JoinedOld == \A c \in Workers : joined[c].tid < next_tid

TInv ==
    /\ CoreOwnsSlot /\ JoinSound
    /\ Counted /\ TidsUnique /\ CoresReset /\ CreateSound /\ WaitersSound /\ JoinedOld
    /\ OwnValues(exits)

-----------------------------------------------------------------------------
(* Every set of slots is finite, and the master core is beside them. *)
LEMMA SlotsFinite ==
    /\ \A S \in SUBSET Workers : IsFiniteSet(S) /\ Cardinality(S) \in 0 .. CORES_NUM - 1
    /\ 0 \notin Workers /\ Workers \subseteq 0 .. CORES_NUM - 1
<1>1. IsFiniteSet(Workers) /\ Cardinality(Workers) = CORES_NUM - 1
  BY FS_Interval, SingleAssumption DEF Workers
<1>2. ASSUME NEW S \in SUBSET Workers
      PROVE IsFiniteSet(S) /\ Cardinality(S) \in 0 .. CORES_NUM - 1
  BY <1>1, FS_Subset, FS_CardinalityType, SingleAssumption
<1>3. QED
  BY <1>2, SingleAssumption DEF Workers

LEMMA InitTInv == Init => TInv
<1> SUFFICES ASSUME Init PROVE TInv
  BY Zenon
<1> USE SingleAssumption, ExitAssumption DEF Init, NoTid, NoValue
<1>1. exits \in [entry : [Ring -> [tid : Int, retval : Int]], next : Ring] /\ OwnValues(exits)
  BY DEF InitExits, Ring, OwnValues
<1>2. TypeOK
  BY <1>1, SlotsFinite DEF TypeOK, Tids
<1>3. CoreOwnsSlot /\ JoinSound /\ CoresReset /\ JoinedOld
  BY <1>2 DEF CoreOwnsSlot, JoinSound, NoMissedExit, CoresReset, JoinedOld
<1>4. Counted
  <2>1. Used = {}
    BY Zenon DEF Used
  <2>2. QED
    BY <2>1, FS_EmptySet DEF Counted
<1>5. TidsUnique /\ CreateSound /\ WaitersSound
  BY DEF TidsUnique, CreateSound, WaitersSound
<1>6. QED
  BY Zenon, <1>1, <1>3, <1>4, <1>5 DEF TInv

-----------------------------------------------------------------------------
(* Steps that leave the table alone keep what is about the table. *)
LEMMA SameTable ==
    ASSUME TInv, UNCHANGED <<tid, nthreads, next_tid, failed>>
    PROVE  Counted' /\ TidsUnique'
  BY Zenon DEF TInv, Counted, TidsUnique, Used

LEMMA StepCallCreate ==
    ASSUME TInv, NEW c \in Workers, CallCreate(c) PROVE TInv'
<1> USE SingleAssumption DEF TInv, CallCreate, Goto
<1>1. pc[c] = "run" /\ pc' = [pc EXCEPT ![c] = "kcall"]
  BY Zenon
<1>2. TypeOK'
  BY <1>1 DEF CoreOwnsSlot, TypeOK
<1>3. CoreOwnsSlot' /\ CoresReset'
  BY <1>1, <1>2 DEF CoreOwnsSlot, TypeOK, CoresReset
<1>4. JoinSound' /\ JoinedOld' /\ OwnValues(exits)'
  BY <1>1 DEF CoreOwnsSlot, TypeOK, JoinSound, NoMissedExit, JoinedOld, OwnValues
<1>5. CreateSound'
  BY <1>1 DEF CoreOwnsSlot, TypeOK, CreateSound, Workers
<1>6. WaitersSound'
  BY <1>1 DEF CoreOwnsSlot, TypeOK, WaitersSound
<1>7. QED
  BY Zenon, <1>2, <1>3, <1>4, <1>5, <1>6, SameTable

LEMMA StepServe ==
    ASSUME TInv, NEW c \in Workers, Serve(c) PROVE TInv'
<1> USE SingleAssumption DEF TInv, Serve
<1>1. create = Idle /\ create' = [Idle EXCEPT !.step = "alloc", !.caller = c]
  BY Zenon DEF CreateSound
<1>2. TypeOK'
  BY Zenon, <1>1, SlotsFinite DEF CoreOwnsSlot, TypeOK, Idle
<1>3. CoreOwnsSlot' /\ CoresReset'
  BY Zenon, <1>2 DEF CoreOwnsSlot, CoresReset
<1>4. JoinSound' /\ JoinedOld' /\ OwnValues(exits)' /\ WaitersSound'
  BY Zenon DEF JoinSound, NoMissedExit, JoinedOld, OwnValues, WaitersSound
<1>5. CreateSound'
  BY Zenon, <1>1 DEF CreateSound, Idle
<1>6. QED
  BY Zenon, <1>2, <1>3, <1>4, <1>5, SameTable

(* Only the caller of thread_create() goes on, from its kernel call. *)
LEMMA ReturnedPc ==
    ASSUME TInv, create.step # "serve"
    PROVE  /\ Returned(pc) \in [Workers -> {"off", "run", "kcall", "asleep", "reset"}]
           /\ \A c \in Workers :
                \/ Returned(pc)[c] = pc[c]
                \/ c = create.caller /\ pc[c] = "kcall" /\ Returned(pc)[c] = "run"
<1>1. create.caller \in Workers => pc[create.caller] = "kcall"
  BY Zenon, SlotsFinite DEF TInv, CreateSound
<1>2. \A c \in Workers : Returned(pc)[c] = IF c = create.caller THEN "run" ELSE pc[c]
  BY Zenon DEF Returned
<1>3. pc \in [Workers -> {"off", "run", "kcall", "asleep", "reset"}]
  BY Zenon DEF TInv, CoreOwnsSlot, TypeOK
<1>4. Returned(pc) \in [Workers -> {"off", "run", "kcall", "asleep", "reset"}]
  BY Zenon, <1>3 DEF Returned
<1>5. ASSUME NEW c \in Workers
      PROVE \/ Returned(pc)[c] = pc[c]
            \/ c = create.caller /\ pc[c] = "kcall" /\ Returned(pc)[c] = "run"
  BY Zenon, <1>1, <1>2
<1>6. QED
  BY Zenon, <1>4, <1>5

(* A new thread ID in a free slot. *)
LEMMA StepAlloc ==
    ASSUME TInv, Alloc PROVE TInv'
<1> DEFINE free == {c \in Workers : tid[c] = NoTid}
           m == Min(free)
<1> USE SingleAssumption DEF TInv
<1>0. create.step = "alloc" /\ next_tid <= MaxTid /\ create.ntrials = 0
      /\ UNCHANGED <<joincond, exits, wakeups, exec, target, joined, failed>>
  BY Zenon DEF Alloc, CreateSound
<1>1. CASE free = {}
  <2>1. create' = Idle /\ pc' = Returned(pc) /\ UNCHANGED <<tid, nthreads, next_tid>>
    BY Zenon, <1>1 DEF Alloc
  <2>2. TypeOK' /\ CreateSound'
    BY SMTT(60), <1>0, <2>1, ReturnedPc DEF CoreOwnsSlot, TypeOK, Idle, CreateSound
  <2>3. CoreOwnsSlot' /\ CoresReset' /\ JoinSound' /\ WaitersSound'
    BY <1>0, <2>1, <2>2, ReturnedPc
       DEF CoreOwnsSlot, TypeOK, CoresReset, JoinSound, NoMissedExit, WaitersSound
  <2>4. QED
    BY Zenon, <1>0, <2>1, <2>2, <2>3, SameTable DEF JoinedOld, OwnValues
<1>2. CASE free # {}
  <2>1. /\ tid' = [tid EXCEPT ![m] = next_tid] /\ next_tid' = next_tid + 1
        /\ nthreads' = nthreads + 1 /\ UNCHANGED pc
        /\ create' = [create EXCEPT !.step = "start", !.slot = m]
    BY Zenon, <1>2 DEF Alloc
  <2>2. m \in Workers /\ tid[m] = NoTid
    BY Zenon, <1>2, FirstFree
  <2>3. next_tid \in Tids /\ next_tid # NoTid
        /\ \A c \in Workers : tid[c] # next_tid /\ (pc[c] = "asleep" => target[c] # next_tid)
    BY <1>0 DEF CoreOwnsSlot, TypeOK, Tids, NoTid, TidsUnique, WaitersSound
  <2>4. Used' = Used \cup {m} /\ m \notin Used
    <3>1. \A q \in Workers : tid'[q] = IF q = m THEN next_tid ELSE tid[q]
      BY Zenon, <2>1, <2>2 DEF CoreOwnsSlot, TypeOK
    <3>2. QED
      BY Zenon, <2>2, <2>3, <3>1 DEF Used
  <2>5. Counted' /\ nthreads' \in 1 .. CORES_NUM
    <3>1. IsFiniteSet(Used) /\ Used \cup {m} \subseteq Workers
      BY Zenon, <2>2, SlotsFinite DEF Used
    <3>2. Cardinality(Used') = Cardinality(Used) + 1 /\ Cardinality(Used') \in 0 .. CORES_NUM - 1
          /\ Cardinality(Used) \in Nat
      BY Zenon, <2>4, <3>1, FS_AddElement, SlotsFinite, FS_CardinalityType
    <3>3. QED
      BY <2>1, <3>2 DEF Counted
  <2>6. TypeOK'
    <3>1. m \in 0 .. CORES_NUM - 1
      BY Zenon, <2>2, SlotsFinite
    <3>2. create' \in [step : {"serve", "alloc", "start", "rollback"},
                       caller : 0 .. CORES_NUM - 1, slot : 0 .. CORES_NUM - 1,
                       ntrials : 0 .. THREAD_CREATE_NTRIALS]
      BY Zenon, <2>1, <3>1 DEF CoreOwnsSlot, TypeOK
    <3>3. next_tid' \in 1 .. MaxTid + 1 /\ tid' \in [Workers -> Tids \cup {NoTid}]
      BY <1>0, <2>1, <2>2, <2>3 DEF CoreOwnsSlot, TypeOK
    <3>4. QED
      BY Zenon, <1>0, <2>1, <2>5, <3>2, <3>3 DEF CoreOwnsSlot, TypeOK
  <2>7. TidsUnique' /\ JoinedOld'
    BY SMTT(60), <1>0, <2>1, <2>2, <2>3 DEF TidsUnique, JoinedOld, CoreOwnsSlot, TypeOK, Tids, NoTid
  <2>8. CoreOwnsSlot' /\ CoresReset' /\ pc[m] \in {"off", "reset"}
    BY ZenonT(60), <1>0, <2>1, <2>2, <2>6 DEF CoreOwnsSlot, TypeOK, CoresReset
  <2>9. CreateSound'
    BY <1>0, <2>1, <2>2, <2>3, <2>8 DEF CoreOwnsSlot, TypeOK, CreateSound
  <2>10. WaitersSound' /\ NoMissedExit'
    <3>1. \A c \in Workers : pc[c] = "asleep" =>
             /\ target[c] # NoTid /\ target[c] < next_tid'
             /\ \A q \in Workers : tid'[q] = target[c] <=> tid[q] = target[c]
      <4>1. \A c \in Workers : pc[c] = "asleep" =>
               target[c] # NoTid /\ target[c] < next_tid' /\ target[c] # next_tid
        BY <2>1, <2>3 DEF CoreOwnsSlot, TypeOK, WaitersSound, Tids, NoTid
      <4>2. \A q \in Workers : tid'[q] = IF q = m THEN next_tid ELSE tid[q]
        BY Zenon, <2>1, <2>2 DEF CoreOwnsSlot, TypeOK
      <4>3. QED
        BY Zenon, <2>2, <4>1, <4>2
    <3>2. QED
      BY <1>0, <2>1, <3>1 DEF WaitersSound, JoinSound, NoMissedExit
  <2>11. JoinSound'
    BY <1>0, <2>1, <2>2, <2>3, <2>10
       DEF CoreOwnsSlot, TypeOK, JoinSound, JoinedOld, Tids, NoTid
  <2>12. QED
    BY Zenon, <1>0, <2>5, <2>6, <2>7, <2>8, <2>9, <2>10, <2>11 DEF OwnValues
<1>3. QED
  BY Zenon, <1>1, <1>2

(* The core of the slot starts with the thread of the slot, or is busy. *)
LEMMA StepCoreStart ==
    ASSUME TInv, CoreStart PROVE TInv'
<1> DEFINE s == create.slot
<1> USE SingleAssumption DEF TInv
<1>1. /\ create.step = "start" /\ create.ntrials < THREAD_CREATE_NTRIALS
      /\ s \in Workers /\ tid[s] # NoTid /\ pc[s] \in {"off", "reset"} /\ s # create.caller
      /\ UNCHANGED <<tid, nthreads, next_tid, joincond, exits, wakeups, target, joined, failed>>
  BY Zenon, SlotsFinite DEF CoreStart, StartStep, CreateSound
<1>2. CASE exec[s] = NoTid
  <2>1. /\ exec' = [exec EXCEPT ![s] = tid[s]] /\ create' = Idle
        /\ pc' = Returned([pc EXCEPT ![s] = "run"]) /\ pc[s] = "off"
    BY Zenon, <1>1, <1>2 DEF CoreStart, StartStep, CoresReset
  <2>2. /\ pc' \in [Workers -> {"off", "run", "kcall", "asleep", "reset"}]
        /\ \A c \in Workers :
             \/ c # s /\ pc'[c] = pc[c]
             \/ c = s /\ pc'[c] = "run"
             \/ c # s /\ pc[c] = "kcall" /\ pc'[c] = "run"
    <3>1. create.caller \in Workers => pc[create.caller] = "kcall"
      BY Zenon, <1>1, SlotsFinite DEF CreateSound
    <3>2. QED
      <4>1. pc \in [Workers -> {"off", "run", "kcall", "asleep", "reset"}]
        BY Zenon DEF CoreOwnsSlot, TypeOK
      <4>2. \A c \in Workers : pc'[c] = IF c = create.caller \/ c = s THEN "run" ELSE pc[c]
        BY Zenon, <1>1, <2>1, <4>1 DEF Returned
      <4>3. pc' \in [Workers -> {"off", "run", "kcall", "asleep", "reset"}]
        BY Zenon, <1>1, <2>1, <4>1 DEF Returned
      <4>4. ASSUME NEW c \in Workers
            PROVE \/ c # s /\ pc'[c] = pc[c]
                  \/ c = s /\ pc'[c] = "run"
                  \/ c # s /\ pc[c] = "kcall" /\ pc'[c] = "run"
        BY Zenon, <3>1, <4>2
      <4>5. QED
        BY Zenon, <4>3, <4>4
  <2>3. TypeOK' /\ CreateSound'
    <3>1. exec' \in [Workers -> Tids \cup {NoTid}]
      BY Zenon, <1>1, <2>1 DEF CoreOwnsSlot, TypeOK
    <3>2. create' \in [step : {"serve", "alloc", "start", "rollback"},
                       caller : 0 .. CORES_NUM - 1, slot : 0 .. CORES_NUM - 1,
                       ntrials : 0 .. THREAD_CREATE_NTRIALS]
      BY <2>1 DEF Idle
    <3>3. TypeOK'
      BY Zenon, <1>1, <2>2, <3>1, <3>2 DEF CoreOwnsSlot, TypeOK
    <3>4. CreateSound'
      BY Zenon, <2>1 DEF Idle, CreateSound
    <3>5. QED
      BY Zenon, <3>3, <3>4
  <2>4. CoreOwnsSlot' /\ CoresReset'
    <3>1. \A c \in Workers : exec'[c] = IF c = s THEN tid[s] ELSE exec[c]
      BY Zenon, <1>1, <2>1 DEF CoreOwnsSlot, TypeOK
    <3>2. CoreOwnsSlot'
      <4>1. ASSUME NEW c \in Workers, pc'[c] \in {"run", "kcall", "asleep"}
            PROVE tid[c] = exec'[c] /\ tid[c] # NoTid
        BY <1>1, <2>2, <3>1, <4>1 DEF CoreOwnsSlot
      <4>2. QED
        BY Zenon, <1>1, <2>3, <4>1 DEF CoreOwnsSlot
    <3>3. ASSUME NEW c \in Workers PROVE exec'[c] = NoTid <=> pc'[c] = "off"
      BY SMTT(60), <1>1, <2>2, <3>1 DEF CoresReset
    <3>4. QED
      BY Zenon, <3>2, <3>3 DEF CoresReset
  <2>5. WaitersSound' /\ JoinSound'
    <3>1. \A c \in Workers : pc'[c] = "asleep" <=> pc[c] = "asleep"
      BY Zenon, <1>1, <2>2
    <3>2. QED
      BY <1>1, <3>1 DEF WaitersSound, JoinSound, NoMissedExit
  <2>6. QED
    BY Zenon, <1>1, <2>3, <2>4, <2>5, SameTable DEF JoinedOld, OwnValues
<1>3. CASE exec[s] # NoTid
  <2>1. /\ create' = [create EXCEPT !.ntrials = @ + 1,
                                    !.step = IF create.ntrials + 1 < THREAD_CREATE_NTRIALS
                                             THEN "start" ELSE "rollback"]
        /\ UNCHANGED <<exec, pc>>
    BY Zenon, <1>1, <1>3 DEF CoreStart, StartStep
  <2>2. TypeOK' /\ CreateSound'
    <3>1. \/ /\ create' = [create EXCEPT !.ntrials = @ + 1, !.step = "start"]
             /\ create.ntrials + 1 < THREAD_CREATE_NTRIALS
          \/ create' = [create EXCEPT !.ntrials = @ + 1, !.step = "rollback"]
      BY Zenon, <2>1
    <3>2. TypeOK'
      <4>1. create.ntrials + 1 \in 0 .. THREAD_CREATE_NTRIALS
        BY <1>1 DEF CoreOwnsSlot, TypeOK
      <4>2. create' \in [step : {"serve", "alloc", "start", "rollback"},
                         caller : 0 .. CORES_NUM - 1, slot : 0 .. CORES_NUM - 1,
                         ntrials : 0 .. THREAD_CREATE_NTRIALS]
        BY ZenonT(60), <3>1, <4>1 DEF CoreOwnsSlot, TypeOK
      <4>3. QED
        BY Zenon, <1>1, <2>1, <4>2 DEF CoreOwnsSlot, TypeOK
    <3>3. CreateSound'
      BY Zenon, <1>1, <2>1, <3>1 DEF CoreOwnsSlot, TypeOK, CreateSound
    <3>4. QED
      BY Zenon, <3>2, <3>3
  <2>3. QED
    BY <1>1, <2>1, <2>2, SameTable
       DEF CoreOwnsSlot, CoresReset, WaitersSound, JoinSound, NoMissedExit, JoinedOld, OwnValues
<1>4. QED
  BY Zenon, <1>2, <1>3

(* Giving a slot back: the table without the thread of slot s. *)
LEMMA SlotFreed ==
    ASSUME TInv, NEW s \in Workers, tid[s] # NoTid,
           tid' = [tid EXCEPT ![s] = NoTid], nthreads' = nthreads - 1
    PROVE  Counted' /\ nthreads' \in 1 .. CORES_NUM /\ tid' \in [Workers -> Tids \cup {NoTid}]
<1>1. tid' \in [Workers -> Tids \cup {NoTid}]
      /\ \A q \in Workers : tid'[q] = IF q = s THEN NoTid ELSE tid[q]
  BY Zenon DEF TInv, CoreOwnsSlot, TypeOK
<1>2. Used' = Used \ {s} /\ s \in Used /\ Used \subseteq Workers /\ Used' \subseteq Workers
  BY Zenon, <1>1 DEF Used
<1>3. Cardinality(Used') = Cardinality(Used) - 1 /\ Cardinality(Used') \in 0 .. CORES_NUM - 1
      /\ Cardinality(Used) \in Nat
  BY Zenon, <1>2, FS_RemoveElement, SlotsFinite, FS_CardinalityType
<1>4. QED
  BY <1>1, <1>3, SingleAssumption DEF TInv, Counted

(* thread_create() gives up. *)
LEMMA StepRollback ==
    ASSUME TInv, Rollback PROVE TInv'
<1> DEFINE s == create.slot
<1> USE SingleAssumption DEF TInv
<1>1. /\ create.step = "rollback" /\ s \in Workers /\ tid[s] # NoTid
      /\ pc[s] \in {"off", "reset"}
      /\ failed' = failed \cup {tid[s]} /\ tid' = [tid EXCEPT ![s] = NoTid]
      /\ nthreads' = nthreads - 1 /\ create' = Idle /\ pc' = Returned(pc)
      /\ UNCHANGED <<next_tid, joincond, exits, wakeups, exec, target, joined>>
  BY Zenon DEF Rollback, RollbackTo, CreateSound
<1>2. \A q \in Workers : tid'[q] = IF q = s THEN NoTid ELSE tid[q]
  BY Zenon, <1>1 DEF CoreOwnsSlot, TypeOK
<1>3. TypeOK'
  <2>1. failed' \subseteq Tids
    BY Zenon, <1>1 DEF CoreOwnsSlot, TypeOK
  <2>2. create' \in [step : {"serve", "alloc", "start", "rollback"},
                     caller : 0 .. CORES_NUM - 1, slot : 0 .. CORES_NUM - 1,
                     ntrials : 0 .. THREAD_CREATE_NTRIALS]
    BY <1>1 DEF Idle
  <2>3. QED
    BY Zenon, <1>1, <2>1, <2>2, SlotFreed, ReturnedPc DEF CoreOwnsSlot, TypeOK
<1>4. \A c \in Workers :
         \/ pc'[c] = pc[c]
         \/ c # s /\ pc[c] = "kcall" /\ pc'[c] = "run"
  BY Zenon, <1>1, ReturnedPc
<1>5. CoreOwnsSlot' /\ CoresReset'
  BY <1>1, <1>2, <1>3, <1>4 DEF CoreOwnsSlot, CoresReset
<1>6. CreateSound'
  BY Zenon, <1>1 DEF CreateSound, Idle
<1>7. TidsUnique'
  BY SMTT(60), <1>1, <1>2 DEF TidsUnique
<1>8. WaitersSound'
  BY SMTT(60), <1>1, <1>2, <1>4 DEF WaitersSound, Tids, NoTid
<1>9. JoinSound'
  BY <1>1, <1>2, <1>4 DEF JoinSound, NoMissedExit
<1>10. QED
  BY Zenon, <1>1, <1>5, <1>6, <1>7, <1>8, <1>9, SlotFreed DEF JoinedOld, OwnValues

LEMMA StepReset ==
    ASSUME TInv, NEW c \in Workers, Reset(c) PROVE TInv'
<1> USE DEF TInv
<1>1. pc[c] = "reset" /\ pc' = [pc EXCEPT ![c] = "off"] /\ exec' = [exec EXCEPT ![c] = NoTid]
      /\ UNCHANGED <<tid, nthreads, next_tid, joincond, exits, wakeups, target, joined,
                     create, failed>>
  BY Zenon DEF Reset, Goto
<1>2. TypeOK'
  BY Zenon, <1>1 DEF CoreOwnsSlot, TypeOK
<1>3. CoreOwnsSlot' /\ CoresReset'
  BY <1>1, <1>2 DEF CoreOwnsSlot, TypeOK, CoresReset
<1>4. \A d \in Workers : pc'[d] = "asleep" <=> pc[d] = "asleep"
  BY Zenon, <1>1 DEF CoreOwnsSlot, TypeOK
<1>5. JoinSound' /\ WaitersSound'
  BY Zenon, <1>1, <1>4 DEF JoinSound, NoMissedExit, WaitersSound
<1>6. CreateSound'
  BY <1>1 DEF CoreOwnsSlot, TypeOK, CreateSound, Workers
<1>7. QED
  BY Zenon, <1>1, <1>3, <1>5, <1>6, SameTable DEF JoinedOld, OwnValues

(* thread_exit() empties the queue of its slot, whoever is in it. *)
LEMMA StepExit ==
    ASSUME TInv, NEW c \in Workers, NEW retval \in {NoValue, tid[c]}, Exit(c, retval)
    PROVE  TInv'
<1> USE SingleAssumption, ExitAssumption DEF TInv
<1>1. /\ pc[c] = "run" /\ pc' = [pc EXCEPT ![c] = "reset"]
      /\ exits' = SaveRetval(exits, tid[c], retval)
      /\ tid' = [tid EXCEPT ![c] = NoTid] /\ nthreads' = nthreads - 1
      /\ wakeups' = [d \in Workers |-> IF d \in joincond[c] THEN wakeups[d] + 1 ELSE wakeups[d]]
      /\ joincond' = [joincond EXCEPT ![c] = @ \ joincond[c]]
      /\ UNCHANGED <<next_tid, exec, target, joined, create, failed>>
  BY Zenon DEF Exit, ExitWaking, Goto
<1>2. /\ tid[c] # NoTid /\ tid[c] \in Tids /\ exec[c] # NoTid
      /\ \A q \in Workers : tid'[q] = IF q = c THEN NoTid ELSE tid[q]
      /\ \A q \in Workers : pc'[q] = IF q = c THEN "reset" ELSE pc[q]
      /\ \A q \in Workers : joincond'[q] = IF q = c THEN {} ELSE joincond[q]
  BY Zenon, <1>1 DEF CoreOwnsSlot, TypeOK
<1>3. /\ \A d \in joincond[c] : d \in Workers /\ wakeups[d] = 0 /\ wakeups'[d] = 1
      /\ \A d \in Workers : d \notin joincond[c] => wakeups'[d] = wakeups[d]
  BY <1>1 DEF CoreOwnsSlot, TypeOK, WaitersSound
<1>4. OwnValues(exits)' /\ exits' \in [entry : [Ring -> [tid : Int, retval : Int]], next : Ring]
  <2>1. exits \in [entry : [Ring -> [tid : Int, retval : Int]], next : Ring]
        /\ tid[c] \in Int
    BY <1>2 DEF CoreOwnsSlot, TypeOK, Tids
  <2>2. CASE retval = NoValue
    BY Zenon, <1>1, <2>1, <2>2 DEF SaveRetval, OwnValues
  <2>3. CASE retval # NoValue
    <3>1. exits' = [entry |-> [exits.entry EXCEPT ![exits.next] = [tid |-> tid[c], retval |-> tid[c]]],
                    next |-> (exits.next + 1) % KTHREAD_EXIT_VALUE_NUM]
      BY Zenon, <1>1, <2>3 DEF SaveRetval
    <3>2. (exits.next + 1) % KTHREAD_EXIT_VALUE_NUM \in Ring
      BY SMTT(60), <2>1 DEF Ring
    <3>3. QED
      BY Zenon, <2>1, <3>1, <3>2 DEF OwnValues
  <2>4. QED
    BY Zenon, <2>2, <2>3
<1>5. TypeOK'
  <2>1. wakeups' \in [Workers -> 0 .. 1]
    <3>1. \A d \in Workers : wakeups'[d] \in 0 .. 1
      BY <1>3 DEF CoreOwnsSlot, TypeOK
    <3>2. QED
      BY Zenon, <1>1, <3>1
  <2>2. joincond' \in [Workers -> SUBSET Workers]
        /\ pc' \in [Workers -> {"off", "run", "kcall", "asleep", "reset"}]
    BY Zenon, <1>1 DEF CoreOwnsSlot, TypeOK
  <2>3. QED
    BY Zenon, <1>1, <1>2, <1>4, <2>1, <2>2, SlotFreed DEF CoreOwnsSlot, TypeOK
<1>6. CoreOwnsSlot' /\ CoresReset'
  BY SMTT(60), <1>1, <1>2, <1>5 DEF CoreOwnsSlot, CoresReset
<1>7. CreateSound'
  BY SMTT(60), <1>1, <1>2 DEF CoreOwnsSlot, TypeOK, CreateSound, Workers
<1>8. TidsUnique'
  BY SMTT(60), <1>1, <1>2 DEF TidsUnique
<1>9. \A d \in joincond[c] : pc[d] = "asleep" /\ \A q \in Workers : tid'[q] # target[d]
  BY SMTT(60), <1>2, <1>3 DEF WaitersSound, TidsUnique, Tids, NoTid
<1>10. WaitersSound'
  BY <1>1, <1>2, <1>3, <1>9 DEF WaitersSound, Tids, NoTid
<1>11. JoinSound'
  <2>1. ASSUME NEW d \in Workers, pc'[d] = "asleep"
        PROVE  \/ wakeups'[d] = 1
               \/ \E s \in Workers : tid'[s] = target[d] /\ d \in joincond'[s]
               \/ target[d] \in failed
    <3>1. pc[d] = "asleep"
      BY Zenon, <1>2, <2>1
    <3>2. CASE \E s \in Workers : tid[s] = target[d] /\ d \in joincond[s]
      BY Zenon, <1>2, <1>3, <3>2
    <3>3. CASE wakeups[d] = 1
      BY Zenon, <1>3, <3>3
    <3>4. QED
      BY Zenon, <3>1, <3>2, <3>3 DEF JoinSound, NoMissedExit
  <2>2. \A d \in Workers : joined[d].tid # NoTid => \A s \in Workers : tid'[s] # joined[d].tid
    BY <1>2 DEF JoinSound
  <2>3. QED
    BY Zenon, <1>1, <2>1, <2>2 DEF JoinSound, NoMissedExit
<1>12. QED
  BY Zenon, <1>1, <1>2, <1>4, <1>6, <1>7, <1>8, <1>10, <1>11, SlotFreed DEF JoinedOld

(* thread_join() returns the value of its target, or none. *)
LEMMA Joined ==
    ASSUME TInv, NEW c \in Workers, NEW id \in Tids, id < next_tid, JoinReturns(c, id),
           \A s \in Workers : tid[s] # id, UNCHANGED <<tid, next_tid>>
    PROVE  /\ joined' \in [Workers -> [tid : Tids \cup {NoTid}, retval : Tids \cup {NoValue}]]
           /\ JoinedOld'
           /\ \A d \in Workers : joined'[d].tid # NoTid =>
                /\ \A s \in Workers : tid'[s] # joined'[d].tid
                /\ joined'[d].retval \in {NoValue, joined'[d].tid}
<1> DEFINE v == SearchRetval(exits, id)
<1>1. v \in {NoValue, id}
  BY Zenon, SearchOwn DEF TInv
<1>2. joined' = [joined EXCEPT ![c] = [tid |-> id, retval |-> v]]
  BY Zenon DEF JoinReturns
<1> HIDE DEF v
<1>3. joined \in [Workers -> [tid : Tids \cup {NoTid}, retval : Tids \cup {NoValue}]]
  BY Zenon DEF TInv, CoreOwnsSlot, TypeOK
<1>4. \A d \in Workers : joined'[d] = IF d = c THEN [tid |-> id, retval |-> v] ELSE joined[d]
  BY Zenon, <1>2, <1>3
<1>5. QED
  BY Zenon, <1>1, <1>2, <1>3, <1>4 DEF TInv, JoinSound, JoinedOld

LEMMA StepJoin ==
    ASSUME TInv, NEW c \in Workers, NEW id \in Tids, Join(c, id) PROVE TInv'
<1> DEFINE slots == {s \in Workers : tid[s] = id}
<1> USE DEF TInv
<1>1. /\ id < next_tid /\ id # tid[c] /\ pc[c] = "run"
      /\ UNCHANGED <<tid, nthreads, next_tid, exits, wakeups, exec, create, failed>>
  BY ZenonT(60) DEF Join, JoinStep, Goto
<1>2. CASE slots = {}
  <2>1. JoinReturns(c, id) /\ pc' = pc /\ UNCHANGED <<joincond, target>>
    BY <1>1, <1>2 DEF Join, JoinStep, Goto, CoreOwnsSlot, TypeOK
  <2>2. \A s \in Workers : tid[s] # id
    BY Zenon, <1>2
  <2>3. TypeOK' /\ JoinedOld'
    BY Zenon, <1>1, <2>1, <2>2, Joined DEF CoreOwnsSlot, TypeOK
  <2>4. JoinSound'
    BY Zenon, <1>1, <2>1, <2>2, Joined DEF JoinSound, NoMissedExit
  <2>5. QED
    BY SMTT(60), <1>1, <2>1, <2>3, <2>4, SameTable
       DEF CoreOwnsSlot, CoresReset, CreateSound, WaitersSound, OwnValues
<1>3. ASSUME NEW s \in slots,
             pc' = [pc EXCEPT ![c] = "asleep"],
             joincond' = [joincond EXCEPT ![s] = @ \cup {c}],
             target' = [target EXCEPT ![c] = id],
             UNCHANGED joined
      PROVE TInv'
  <2>1. TypeOK'
    BY Zenon, <1>1, <1>3 DEF CoreOwnsSlot, TypeOK
  <2>2. /\ \A d \in Workers : pc'[d] = IF d = c THEN "asleep" ELSE pc[d]
        /\ \A d \in Workers : target'[d] = IF d = c THEN id ELSE target[d]
        /\ \A q \in Workers : joincond'[q] = IF q = s THEN joincond[s] \cup {c} ELSE joincond[q]
    BY Zenon, <1>3 DEF CoreOwnsSlot, TypeOK
  <2>3. CoreOwnsSlot' /\ CoresReset'
    BY Zenon, <1>1, <2>1, <2>2 DEF CoreOwnsSlot, CoresReset
  <2>4. CreateSound'
    BY SMTT(60), <1>1, <2>2, SlotsFinite DEF CoreOwnsSlot, TypeOK, CreateSound, Workers
  <2>5. wakeups[c] = 0 /\ \A q \in Workers : c \notin joincond[q]
    BY <1>1 DEF CoreOwnsSlot, TypeOK, WaitersSound
  <2>6. WaitersSound'
    <3>1. \A d, q \in Workers : d \in joincond'[q] =>
            /\ pc'[d] = "asleep" /\ wakeups[d] = 0
            /\ tid[q] = target'[d] \/ target'[d] \in failed
      BY SMTT(60), <2>2, <2>5 DEF WaitersSound
    <3>2. \A d, q, r \in Workers : d \in joincond'[q] /\ d \in joincond'[r] => q = r
      BY <2>2, <2>5 DEF WaitersSound
    <3>3. \A d \in Workers : pc'[d] = "asleep" => target'[d] \in Tids /\ target'[d] < next_tid
      BY Zenon, <1>1, <2>2 DEF WaitersSound
    <3>4. \A d \in Workers : wakeups[d] = 1 =>
            pc'[d] = "asleep" /\ \A q \in Workers : tid[q] # target'[d]
      BY <2>2, <2>5 DEF WaitersSound
    <3>5. QED
      BY ZenonT(60), <1>1, <3>1, <3>2, <3>3, <3>4 DEF WaitersSound
  <2>7. JoinSound'
    <3>1. ASSUME NEW d \in Workers, pc'[d] = "asleep"
          PROVE  \/ wakeups[d] = 1
                 \/ \E q \in Workers : tid[q] = target'[d] /\ d \in joincond'[q]
                 \/ target'[d] \in failed
      <4>1. CASE d = c
        BY Zenon, <2>2, <4>1
      <4>2. CASE d # c
        BY Zenon, <2>2, <3>1, <4>2 DEF JoinSound, NoMissedExit
      <4>3. QED
        BY Zenon, <4>1, <4>2
    <3>2. QED
      BY Zenon, <1>1, <1>3, <3>1 DEF JoinSound, NoMissedExit
  <2>8. QED
    BY Zenon, <1>1, <1>3, <2>3, <2>4, <2>6, <2>7, SameTable DEF JoinedOld, OwnValues
<1>4. QED
  BY Zenon, <1>2, <1>3 DEF Join, JoinStep, Goto

LEMMA StepJoinWoken ==
    ASSUME TInv, NEW c \in Workers, JoinWoken(c) PROVE TInv'
<1> USE DEF TInv
<1>1. /\ pc[c] = "asleep" /\ pc' = [pc EXCEPT ![c] = "run"]
      /\ wakeups[c] > 0 /\ wakeups' = [wakeups EXCEPT ![c] = @ - 1]
      /\ JoinReturns(c, target[c])
      /\ UNCHANGED <<tid, nthreads, next_tid, joincond, exits, exec, target, create, failed>>
  BY Zenon DEF JoinWoken, Goto
<1>2. /\ wakeups[c] = 1 /\ target[c] \in Tids /\ target[c] < next_tid
      /\ \A s \in Workers : tid[s] # target[c]
      /\ \A s \in Workers : c \notin joincond[s]
  BY <1>1 DEF CoreOwnsSlot, TypeOK, WaitersSound
<1>3. /\ \A d \in Workers : pc'[d] = IF d = c THEN "run" ELSE pc[d]
      /\ \A d \in Workers : wakeups'[d] = IF d = c THEN 0 ELSE wakeups[d]
      /\ wakeups' \in [Workers -> 0 .. 1]
      /\ pc' \in [Workers -> {"off", "run", "kcall", "asleep", "reset"}]
  BY SMTT(60), <1>1, <1>2 DEF CoreOwnsSlot, TypeOK
<1>4. TypeOK' /\ JoinedOld'
  <2>1. /\ joined' \in [Workers -> [tid : Tids \cup {NoTid}, retval : Tids \cup {NoValue}]]
        /\ JoinedOld'
    BY Zenon, <1>1, <1>2, Joined
  <2>2. TypeOK'
    BY Zenon, <1>1, <1>3, <2>1 DEF CoreOwnsSlot, TypeOK
  <2>3. QED
    BY Zenon, <2>1, <2>2
<1>5. CoreOwnsSlot' /\ CoresReset'
  BY SMTT(60), <1>1, <1>3, <1>4 DEF CoreOwnsSlot, CoresReset
<1>6. CreateSound'
  <2>1. create.caller # 0 => create.caller \in Workers
    BY SingleAssumption DEF CoreOwnsSlot, TypeOK, Workers
  <2>2. \A d \in Workers : pc[d] \in {"kcall", "off", "reset"} => pc'[d] = pc[d]
    BY Zenon, <1>1, <1>3
  <2>3. QED
    BY SMTT(60), <1>1, <1>3, <2>1, <2>2 DEF CreateSound
<1>7. WaitersSound'
  BY SMTT(60), <1>1, <1>2, <1>3 DEF WaitersSound
<1>8. JoinSound'
  BY <1>1, <1>2, <1>3, Joined DEF JoinSound, NoMissedExit
<1>9. QED
  BY Zenon, <1>1, <1>4, <1>5, <1>6, <1>7, <1>8, SameTable DEF OwnValues

-----------------------------------------------------------------------------
LEMMA StepTInv == TInv /\ [Next]_vars => TInv'
<1> SUFFICES ASSUME TInv, [Next]_vars PROVE TInv'
  BY Zenon
<1>1. CASE Master
  BY Zenon, <1>1, StepAlloc, StepCoreStart, StepRollback, StepServe DEF Master
<1>2. ASSUME NEW c \in Workers, CallCreate(c) \/ Reset(c) \/ JoinWoken(c) PROVE TInv'
  BY Zenon, <1>2, StepCallCreate, StepReset, StepJoinWoken
<1>3. ASSUME NEW c \in Workers, NEW retval \in {NoValue, tid[c]}, Exit(c, retval) PROVE TInv'
  BY Zenon, <1>3, StepExit
<1>4. ASSUME NEW c \in Workers, NEW id \in Tids, Join(c, id) PROVE TInv'
  BY ZenonT(60), <1>4, StepJoin
<1>5. CASE UNCHANGED vars
  BY <1>5, SameTable DEF vars, TInv, CoreOwnsSlot, TypeOK, JoinSound, NoMissedExit, CoresReset,
                         CreateSound, WaitersSound, JoinedOld, OwnValues
<1>6. QED
  BY Zenon, <1>1, <1>2, <1>3, <1>4, <1>5 DEF Next

(* A core that executes user code owns its slot, in pm/thread of targets   *)
(* with one thread per core: a slot that is given away before the old core *)
(* is reset never belongs to two threads that run.                         *)
THEOREM SlotOwnership == Spec => []CoreOwnsSlot
<1>1. TInv => CoreOwnsSlot
  BY Zenon DEF TInv
<1>2. QED
  BY InitTInv, StepTInv, <1>1, PTL DEF Spec

(* thread_join() returns only when its target has left its slot, with the  *)
(* value of the target or NULL, and does not sleep through the exit it     *)
(* waits for.                                                              *)
THEOREM JoinCorrect == Spec => []JoinSound
<1>1. TInv => JoinSound
  BY Zenon DEF TInv
<1>2. QED
  BY InitTInv, StepTInv, <1>1, PTL DEF Spec
=============================================================================
