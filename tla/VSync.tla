------------------------------- MODULE VSync -------------------------------
(***************************************************************************)
(* Virtual synchronization points (noc/sync.c) and their kernel calls      *)
(* (sys/sync.c).  Callers that name the same nodes in the same role share  *)
(* one table entry, which counts them, and one hardware synchronization    *)
(* point.                                                                  *)
(*                                                                         *)
(* Waiting is the one call that runs on the core of its thread.  The       *)
(* others are forwarded: the master core runs them one at a time.  What is *)
(* done under vsync_lock is one step.  Statistics are left out.            *)
(***************************************************************************)
EXTENDS Integers, Sequences, FiniteSets, Functions, FiniteSetsExt

CONSTANTS
    SYNC_CREATE_MAX, SYNC_OPEN_MAX, \* hardware synchronization points
    Nodes, LocalNode,               \* nodes of the processor
    Modes,                          \* SYNC_ONE_TO_ALL, SYNC_ALL_TO_ONE
    Threads, Master,                \* user threads, and the master core
    MaxRefs,                        \* bound: references that a thread holds
    ReleaseFails,                   \* the hardware may fail to release
    NULL

Types == {"INPUT", "OUTPUT"}
Ids == 0 .. SYNC_CREATE_MAX + SYNC_OPEN_MAX - 1
Fds == ({"INPUT"} \X (1 .. SYNC_CREATE_MAX)) \cup ({"OUTPUT"} \X (1 .. SYNC_OPEN_MAX))
Operations == [id : Ids, fd : Fds \cup {NULL}]

VSyncAssumption ==
    /\ SYNC_CREATE_MAX \in Nat /\ SYNC_OPEN_MAX \in Nat
    /\ LocalNode \in Nodes
    /\ Modes \subseteq {"ONE_TO_ALL", "ALL_TO_ONE"}
    /\ IsFiniteSet(Threads) /\ Master \notin Threads
    /\ MaxRefs \in Nat
    /\ ReleaseFails \in BOOLEAN
    /\ NULL \notin Operations

VARIABLES
    tab,  \* vsynctab
    hw,   \* hardware synchronization points that are allocated
    ops,  \* sync_wait() and sync_signal() under way, by who runs them
    refs  \* history: the references that each thread holds

vars == <<tab, hw, ops, refs>>

Unused == [used |-> FALSE, busy |-> FALSE, type |-> NULL, mode |-> NULL,
           master |-> NULL, nodeslist |-> {}, hwfd |-> NULL, refcount |-> 0]

Init ==
    /\ tab = [i \in Ids |-> Unused]
    /\ hw = {}
    /\ ops = [t \in Threads \cup {Master} |-> NULL]
    /\ refs = [t \in Threads |-> [i \in Ids |-> 0]]

-----------------------------------------------------------------------------
(* Lists of two or more nodes. *)
NodesLists == UNION {[1 .. n -> Nodes] : n \in 2 .. Cardinality(Nodes)}

(* sync_nodelist_is_valid(), and who has to be the ONE: the creator of an  *)
(* ALL_TO_ONE point, the opener of a ONE_TO_ALL point.                     *)
IsTheOne(mode, type) == (mode = "ALL_TO_ONE") = (type = "INPUT")
NodelistIsValid(nodes, mode, type) ==
    /\ IsTheOne(mode, type) = (nodes[1] = LocalNode)
    /\ IsInjective(nodes)
    /\ LocalNode \in Range(nodes)

(* do_sync_search(); sync_build_nodeslist() forgets the order of nodes. *)
Search(nodes, mode, type) ==
    {i \in Ids : /\ tab[i].used
                 /\ tab[i].type = type
                 /\ tab[i].mode = mode
                 /\ tab[i].master = nodes[1]
                 /\ tab[i].nodeslist = Range(nodes)}

(* resource_alloc() *)
Available == {i \in Ids : ~tab[i].used}

Refer(t, i) == refs' = [refs EXCEPT ![t][i] = @ + 1]

(* A forwarded call: the master core is not in another one. *)
Forwarded == ops[Master] = NULL

-----------------------------------------------------------------------------
(* Mutant: a new user of an entry is not counted. *)
AllocSharedUncounted(t, nodes, mode, type) ==
    /\ Search(nodes, mode, type) # {}
    /\ refs[t][Min(Search(nodes, mode, type))] < MaxRefs
    /\ Refer(t, Min(Search(nodes, mode, type)))
    /\ UNCHANGED <<tab, hw, ops>>

(* kernel_sync_create(), kernel_sync_open(): the entry exists. *)
AllocShared(t, nodes, mode, type) ==
    /\ Search(nodes, mode, type) # {}
    /\ LET i == Min(Search(nodes, mode, type))
       IN  /\ refs[t][i] < MaxRefs
           /\ tab' = [tab EXCEPT ![i].refcount = @ + 1]
           /\ Refer(t, i)
    /\ UNCHANGED <<hw, ops>>

NewEntry(nodes, mode, type, fd) ==
    [used |-> TRUE, busy |-> FALSE, type |-> type, mode |-> mode, master |-> nodes[1],
     nodeslist |-> Range(nodes), hwfd |-> fd, refcount |-> 1]

(* A new entry, for a hardware synchronization point that sync_create() or *)
(* sync_open() has allocated.  When they fail the entry is freed again.    *)
AllocNew(t, nodes, mode, type, fd) ==
    /\ Search(nodes, mode, type) = {}
    /\ Available # {}
    /\ MaxRefs > 0
    /\ fd \in Fds \ hw /\ fd[1] = type
    /\ tab' = [tab EXCEPT ![Min(Available)] = NewEntry(nodes, mode, type, fd)]
    /\ Refer(t, Min(Available))
    /\ hw' = hw \cup {fd}
    /\ UNCHANGED ops

Alloc(t, nodes, mode, type) ==
    /\ Forwarded
    /\ NodelistIsValid(nodes, mode, type)
    /\ \/ AllocShared(t, nodes, mode, type)
       \/ \E fd \in Fds : AllocNew(t, nodes, mode, type, fd)

-----------------------------------------------------------------------------

(* The checks that kernel_sync_unlink(), kernel_sync_close(),              *)
(* kernel_sync_wait() and kernel_sync_signal() start with.                 *)
Usable(i, type) ==
    /\ tab[i].used
    /\ tab[i].type = type
    /\ ~tab[i].busy

Drop(t, i) == refs' = [refs EXCEPT ![t][i] = @ - 1]

(* Mutant: the first user that leaves releases the hardware. *)
IsLastAlways(i) == TRUE
IsLast(i) == tab[i].refcount = 1

(* The last reference: the mode that is left behind is never read. *)
Free(t, i) ==
    /\ IsLast(i)
    /\ tab' = [tab EXCEPT ![i] = Unused]
    /\ hw' = hw \ {tab[i].hwfd}
    /\ Drop(t, i)

(* The hardware fails: the caller keeps the reference, and the count is    *)
(* not restored.                                                           *)
FreeFails(i) ==
    /\ ReleaseFails
    /\ IsLast(i)
    /\ tab' = [tab EXCEPT ![i].refcount = 0]
    /\ UNCHANGED <<hw, refs>>

Unref(t, i) ==
    /\ ~IsLast(i)
    /\ tab' = [tab EXCEPT ![i].refcount = @ - 1]
    /\ Drop(t, i)
    /\ UNCHANGED hw

(* kernel_sync_unlink(), kernel_sync_close(): a thread gives back a        *)
(* reference.                                                              *)
Release(t, i) ==
    /\ Forwarded
    /\ refs[t][i] > 0
    /\ Usable(i, tab[i].type)
    /\ Free(t, i) \/ FreeFails(i) \/ Unref(t, i)
    /\ UNCHANGED ops

-----------------------------------------------------------------------------
(* _do_sync_operate(), by a thread that waits or by the master core that   *)
(* signals for one: the entry is made busy, and the hardware is called     *)
(* without the lock, on the descriptor that is read then.                  *)
Operate(who, i, type) ==
    /\ ops[who] = NULL
    /\ Usable(i, type)
    /\ tab' = [tab EXCEPT ![i].busy = TRUE]
    /\ ops' = [ops EXCEPT ![who] = [id |-> i, fd |-> NULL]]
    /\ UNCHANGED <<hw, refs>>

Wait(t, i) == refs[t][i] > 0 /\ Operate(t, i, "INPUT")
Signal(t, i) == refs[t][i] > 0 /\ Operate(Master, i, "OUTPUT")

Call(who) ==
    /\ ops[who] # NULL /\ ops[who].fd = NULL
    /\ ops' = [ops EXCEPT ![who].fd = tab[ops[who].id].hwfd]
    /\ UNCHANGED <<tab, hw, refs>>

(* sync_wait() or sync_signal() returns, with success or not. *)
Return(who) ==
    /\ ops[who] # NULL /\ ops[who].fd # NULL
    /\ tab' = [tab EXCEPT ![ops[who].id].busy = FALSE]
    /\ ops' = [ops EXCEPT ![who] = NULL]
    /\ UNCHANGED <<hw, refs>>

Next ==
    \/ \E t \in Threads, nodes \in NodesLists, mode \in Modes, type \in Types :
          Alloc(t, nodes, mode, type)
    \/ \E t \in Threads, i \in Ids : Release(t, i) \/ Wait(t, i) \/ Signal(t, i)
    \/ \E who \in Threads \cup {Master} : Call(who) \/ Return(who)

Spec == Init /\ [][Next]_vars

-----------------------------------------------------------------------------
(* Entries, hardware descriptors and operations have their types. *)
TypeOK ==
    /\ tab \in [Ids -> [used : BOOLEAN, busy : BOOLEAN, type : Types \cup {NULL},
                        mode : Modes \cup {NULL}, master : Nodes \cup {NULL},
                        nodeslist : SUBSET Nodes, hwfd : Fds \cup {NULL}, refcount : Nat]]
    /\ hw \subseteq Fds
    /\ ops \in [Threads \cup {Master} -> Operations \cup {NULL}]
    /\ refs \in [Threads -> [Ids -> 0 .. MaxRefs]]

(* The references to an entry: the n-th one that thread t holds is <<t, n>>. *)
References(i) == {r \in Threads \X (1 .. MaxRefs) : r[2] <= refs[r[1]][i]}
Users(i) == Cardinality(References(i))

(* The reference counter is exact: an entry is in use as long as somebody  *)
(* holds a reference to it, and no longer (_do_sync_alloc(),               *)
(* _do_sync_release()).                                                    *)
RefcountExact ==
    /\ TypeOK
    /\ \A i \in Ids : tab[i].refcount = Users(i) /\ (tab[i].used <=> Users(i) > 0)

(* No hardware synchronization point leaks or has two owners: those that   *)
(* are allocated belong to one entry each.                                 *)
HardwareOwned ==
    \A fd \in Fds :
      Cardinality({i \in Ids : tab[i].used /\ tab[i].hwfd = fd}) = IF fd \in hw THEN 1 ELSE 0

(* An operation that runs without the lock works on a hardware point that  *)
(* is still allocated and still belongs to its entry, whatever is released *)
(* meanwhile; an entry is busy for exactly one operation.                  *)
OperatesOnOwn ==
    /\ \A who \in DOMAIN ops : ops[who] # NULL =>
         /\ tab[ops[who].id].hwfd \in hw
         /\ ops[who].fd \in {NULL, tab[ops[who].id].hwfd}
    /\ \A i \in Ids :
         Cardinality({who \in DOMAIN ops : ops[who] # NULL /\ ops[who].id = i})
           = IF tab[i].busy THEN 1 ELSE 0

(* Entries and hardware points are counted exactly: an entry lives as long *)
(* as it has users, the last one to leave gives the point back, and no     *)
(* operation in progress loses the point it works on.                      *)
EntriesExact == RefcountExact /\ HardwareOwned /\ OperatesOnOwn

(* A reference keeps its meaning: the group and the hardware behind an ID  *)
(* do not change for a thread that holds it.                               *)
Group(e) == <<e.type, e.mode, e.master, e.nodeslist, e.hwfd>>
ReferenceStable ==
    [][\A t \in Threads, i \in DOMAIN tab :
         refs[t][i] > 0 /\ refs'[t][i] > 0 => Group(tab'[i]) = Group(tab[i])]_vars
=============================================================================
