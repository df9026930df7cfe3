------------------------------- MODULE Memory -------------------------------
(***************************************************************************)
(* Memory management: the page frame allocator (mm/frame.c), the kernel    *)
(* page pool (mm/kpool.c), user pages and the TLB fault handler            *)
(* (mm/page.c), and their kernel calls (sys/page.c, sys/frame.c).          *)
(*                                                                         *)
(* Kernel calls are forwarded: the master core runs them one at a time,    *)
(* and the core that called invalidates its own TLB when it has the        *)
(* answer.  A call that fails without an effect is left out where its      *)
(* answer is not looked at.  User cores handle TLB faults at any moment,   *)
(* so pgtab_map(), which publishes a page table before it clears it, takes *)
(* two steps.  A virtual address is a page table and a slot in it.  TLBs   *)
(* are managed in software (CORE_HAS_TLB_HW is 0).                         *)
(***************************************************************************)
EXTENDS Integers, FiniteSets

CONSTANTS
    Workers,     \* user cores
    Master,      \* the master core
    NUM_UFRAMES,
    NUM_KPAGES,
    Tabs, Slots, \* page directory entries, page table entries
    Shootdown,   \* CLUSTER_HAS_TLB_SHOOTDOWN
    MaxStacks,   \* bound: kernel pages used as stacks
    NULL

Cores == Workers \cup {Master}
Frames == 0 .. NUM_UFRAMES - 1
KPages == 0 .. NUM_KPAGES - 1
Addrs == [tab : Tabs, slot : Slots]
Ops == [caller : Workers, arg0 : Addrs, addr : Addrs, frame : Frames, clear : BOOLEAN]
Faults == [addr : Addrs, pgtab : KPages]
Tables == [Slots -> Frames \cup {NULL}]
Cleared == [s \in Slots |-> NULL]

ASSUME MemoryAssumption ==
    /\ Master \notin Workers
    /\ NUM_UFRAMES \in Nat \ {0}
    /\ NUM_KPAGES \in Nat \ {0}
    /\ Shootdown \in BOOLEAN
    /\ MaxStacks \in Nat
    /\ NULL \notin Int /\ NULL \notin Addrs /\ NULL \notin Ops /\ NULL \notin Faults

VARIABLES
    frames,  \* allocated frames
    kpages,  \* reference counts
    stacks,  \* kernel pages that hold thread stacks
    pgdir,   \* page directory: the kernel page of each table, or NULL
    ptes,    \* content of kernel pages, read as page tables
    tlb,     \* TLB of each core
    op,      \* upage_map() in progress on the master core, or NULL
    call,    \* cores: the address given to the kernel call they wait for
    fault,   \* cores: a TLB fault in progress
    held,    \* frames whose number user code has from kernel_frame_alloc()
    lapsed   \* user code has freed a frame that was mapped, or lost one

vars == <<frames, kpages, stacks, pgdir, ptes, tlb, op, call, fault, held, lapsed>>

Init ==
    /\ frames = {}
    /\ kpages = [k \in KPages |-> 0]
    /\ stacks = {}
    /\ pgdir = [t \in Tabs |-> NULL]
    /\ ptes = [k \in KPages |-> Cleared]
    /\ tlb = [c \in Cores |-> [v \in Addrs |-> NULL]]
    /\ op = NULL
    /\ call = [c \in Workers |-> NULL]
    /\ fault = [c \in Workers |-> NULL]
    /\ held = {}
    /\ lapsed = FALSE

First(S, x) == x \in S /\ \A y \in S : x <= y

(* The frame that an address is mapped to. *)
Mapping(v) == IF pgdir[v.tab] = NULL THEN NULL ELSE ptes[pgdir[v.tab]][v.slot]

(* upage_inval(); tlb_shootdown() invalidates the other cores' entries. *)
Inval(c, v) ==
    [d \in Cores |-> IF d = c \/ Shootdown THEN [tlb[d] EXCEPT ![v] = NULL] ELSE tlb[d]]

-----------------------------------------------------------------------------
(* frame_alloc() *)
FrameAlloc(f) ==
    /\ First(Frames \ frames, f)
    /\ frames' = frames \cup {f}

(* frame_free(); a frame that is not allocated is an error. *)
FrameFree(f) == frames' = frames \ {f}

(* kpage_get() *)
KpageGet(k) ==
    /\ First({j \in KPages : kpages[j] = 0}, k)
    /\ kpages' = [kpages EXCEPT ![k] = @ + 1]

(* kpage_put() *)
KpagePut(k) == kpages' = [kpages EXCEPT ![k] = IF @ = 0 THEN 0 ELSE @ - 1]

NoKpage == \A k \in KPages : kpages[k] # 0

(* The master core serves a call of core c about address v. *)
Serve(c, v) ==
    /\ op = NULL
    /\ call[c] = NULL /\ fault[c] = NULL
    /\ call' = [call EXCEPT ![c] = v]

-----------------------------------------------------------------------------
(* mmu_page_map(); upage_alloc() then clears the page through the TLB of   *)
(* the master core, which may miss.                                        *)
PageMap(v, f, clear) ==
    tlb' = IF clear /\ tlb[Master][v] = NULL THEN [tlb EXCEPT ![Master][v] = f] ELSE tlb

(* upage_map() that succeeds: in the table there is, or, after pgtab_map() *)
(* has published one, in a new table; "a" is arg0 of the kernel call.      *)
UpageMap(c, a, v, f, clear) ==
    \/ /\ pgdir[v.tab] # NULL /\ Mapping(v) = NULL
       /\ ptes' = [ptes EXCEPT ![pgdir[v.tab]][v.slot] = f]
       /\ PageMap(v, f, clear)
       /\ call' = [call EXCEPT ![c] = a]
       /\ UNCHANGED <<kpages, pgdir, op>>
    \/ /\ pgdir[v.tab] = NULL
       /\ \E k \in KPages : KpageGet(k) /\ pgdir' = [pgdir EXCEPT ![v.tab] = k]
       /\ op' = [caller |-> c, arg0 |-> a, addr |-> v, frame |-> f, clear |-> clear]
       /\ UNCHANGED <<ptes, tlb, call>>

(* -EADDRINUSE, or -EAGAIN without a kernel page *)
UpageMapFails(v) ==
    \/ Mapping(v) # NULL
    \/ pgdir[v.tab] = NULL /\ NoKpage

(* upage_map(): pgtab_map() clears the new table, and the page is mapped. *)
UpageMapClear ==
    /\ op # NULL
    /\ ptes' = [ptes EXCEPT ![pgdir[op.addr.tab]] = [Cleared EXCEPT ![op.addr.slot] = op.frame]]
    /\ PageMap(op.addr, op.frame, op.clear)
    /\ call' = [call EXCEPT ![op.caller] = op.arg0]
    /\ op' = NULL
    /\ UNCHANGED <<frames, kpages, stacks, pgdir, fault, held, lapsed>>

Ready(c) == op = NULL /\ call[c] = NULL /\ fault[c] = NULL

(* Mutant: the frame is not given back. *)
UpageAllocLeaks(c, v) ==
    /\ Ready(c)
    /\ \E f \in Frames :
         /\ FrameAlloc(f)
         /\ IF UpageMapFails(v) THEN Serve(c, v) /\ UNCHANGED <<kpages, pgdir, ptes, tlb, op>>
            ELSE UpageMap(c, v, v, f, TRUE)
    /\ UNCHANGED <<stacks, fault, held, lapsed>>

(* kernel_upage_alloc(), upage_alloc(): the frame is given back when it    *)
(* cannot be mapped.                                                       *)
UpageAlloc(c, v) ==
    /\ Ready(c)
    /\ \/ /\ frames = Frames \/ UpageMapFails(v)
          /\ Serve(c, v)
          /\ UNCHANGED <<frames, kpages, pgdir, ptes, tlb, op>>
       \/ /\ ~UpageMapFails(v)
          /\ \E f \in Frames : FrameAlloc(f) /\ UpageMap(c, v, v, f, TRUE)
    /\ UNCHANGED <<stacks, fault, held, lapsed>>

(* kernel_upage_map(): the frame must be allocated. *)
KernelUpageMap(c, v, f) ==
    /\ Ready(c)
    /\ f \in frames
    /\ UpageMap(c, v, v, f, FALSE)
    /\ UNCHANGED <<frames, stacks, fault, held, lapsed>>

(* kernel_upage_link(), upage_link(): the caller invalidates the first     *)
(* address.                                                                *)
UpageLink(c, v1, v2) ==
    /\ Ready(c)
    /\ Mapping(v1) # NULL
    /\ UpageMap(c, v1, v2, Mapping(v1), FALSE)
    /\ UNCHANGED <<frames, stacks, fault, held, lapsed>>

-----------------------------------------------------------------------------

(* pgtab_unmap(): a table without pages is released. *)
PgtabUnmap(t, pgtab) ==
    IF \A s \in Slots : pgtab[s] = NULL
    THEN pgdir' = [pgdir EXCEPT ![t] = NULL] /\ KpagePut(pgdir[t])
    ELSE UNCHANGED <<pgdir, kpages>>

(* upage_unmap() *)
UpageUnmap(c, v) ==
    LET k == pgdir[v.tab]
        pgtab == [ptes[k] EXCEPT ![v.slot] = NULL]
    IN  /\ Mapping(v) # NULL
        /\ ptes' = [ptes EXCEPT ![k] = pgtab]
        /\ tlb' = Inval(Master, v)
        /\ PgtabUnmap(v.tab, pgtab)
        /\ Serve(c, v)
        /\ UNCHANGED <<stacks, op, fault>>

Mappings(f) == {v \in Addrs : Mapping(v) = f}

(* kernel_upage_unmap(): the frame stays allocated, and the caller is not  *)
(* told its number.                                                        *)
KernelUpageUnmap(c, v) ==
    /\ UpageUnmap(c, v)
    /\ lapsed' = (lapsed \/ (Mapping(v) \notin held /\ Mappings(Mapping(v)) = {v}))
    /\ UNCHANGED <<frames, held>>

(* kernel_upage_free(), upage_free() *)
UpageFree(c, v) ==
    /\ UpageUnmap(c, v)
    /\ lapsed' = (lapsed \/ Mappings(Mapping(v)) # {v})
    /\ FrameFree(Mapping(v))
    /\ held' = held \ {Mapping(v)}

(* kernel_frame_alloc() *)
KernelFrameAlloc(f) ==
    /\ op = NULL
    /\ FrameAlloc(f)
    /\ held' = held \cup {f}
    /\ UNCHANGED <<kpages, stacks, pgdir, ptes, tlb, op, call, fault, lapsed>>

(* kernel_frame_free() *)
KernelFrameFree(f) ==
    /\ op = NULL
    /\ f \in frames
    /\ lapsed' = (lapsed \/ f \notin held \/ Mappings(f) # {})
    /\ FrameFree(f)
    /\ held' = held \ {f}
    /\ UNCHANGED <<kpages, stacks, pgdir, ptes, tlb, op, call, fault>>

-----------------------------------------------------------------------------
(* thread_create(): a stack comes from the kernel page pool. *)
StackGet(k) ==
    /\ op = NULL
    /\ Cardinality(stacks) < MaxStacks
    /\ KpageGet(k)
    /\ stacks' = stacks \cup {k}
    /\ UNCHANGED <<frames, pgdir, ptes, tlb, op, call, fault, held, lapsed>>

(* thread_free(), on any core: the stack leaves its data in the page. *)
StackPut(k, data) ==
    /\ k \in stacks
    /\ KpagePut(k)
    /\ stacks' = stacks \ {k}
    /\ ptes' = [ptes EXCEPT ![k] = data]
    /\ UNCHANGED <<frames, pgdir, tlb, op, call, fault, held, lapsed>>

(* Mutant: the caller's TLB is not invalidated. *)
ReturnNoInval(c) ==
    /\ call[c] # NULL
    /\ call' = [call EXCEPT ![c] = NULL]
    /\ UNCHANGED <<frames, kpages, stacks, pgdir, ptes, tlb, op, fault, held, lapsed>>

(* do_kcall() returns: upage_inval(arg0) on the core that called. *)
Return(c) ==
    /\ call[c] # NULL
    /\ tlb' = Inval(c, call[c])
    /\ call' = [call EXCEPT ![c] = NULL]
    /\ UNCHANGED <<frames, kpages, stacks, pgdir, ptes, op, fault, held, lapsed>>

(* do_tlb_fault(): the page directory entry is read; a missing one is      *)
(* forwarded as a page fault.                                              *)
TlbFault(c, v) ==
    /\ call[c] = NULL /\ fault[c] = NULL
    /\ op # NULL => op.caller # c
    /\ tlb[c][v] = NULL
    /\ pgdir[v.tab] # NULL
    /\ fault' = [fault EXCEPT ![c] = [addr |-> v, pgtab |-> pgdir[v.tab]]]
    /\ UNCHANGED <<frames, kpages, stacks, pgdir, ptes, tlb, op, call, held, lapsed>>

(* do_tlb_fault(): the page table entry is read and written to the TLB; a  *)
(* missing one is forwarded as a page fault.                               *)
TlbWrite(c) ==
    /\ fault[c] # NULL
    /\ tlb' = [tlb EXCEPT ![c][fault[c].addr] = ptes[fault[c].pgtab][fault[c].addr.slot]]
    /\ fault' = [fault EXCEPT ![c] = NULL]
    /\ UNCHANGED <<frames, kpages, stacks, pgdir, ptes, op, call, held, lapsed>>

-----------------------------------------------------------------------------
UserCall(c) ==
    \E v \in Addrs :
        \/ UpageAlloc(c, v)
        \/ UpageFree(c, v)
        \/ KernelUpageUnmap(c, v)
        \/ \E f \in Frames : KernelUpageMap(c, v, f)
        \/ \E w \in Addrs : UpageLink(c, v, w)

Next ==
    \/ \E c \in Workers : UserCall(c) \/ Return(c) \/ TlbWrite(c) \/ \E v \in Addrs : TlbFault(c, v)
    \/ UpageMapClear
    \/ \E f \in Frames : KernelFrameAlloc(f) \/ KernelFrameFree(f)
    \/ \E k \in KPages : StackGet(k) \/ \E data \in Tables : StackPut(k, data)

Spec == Init /\ [][Next]_vars

-----------------------------------------------------------------------------
(* Types of the allocators, the page tables and the TLBs. *)
TypeOK ==
    /\ frames \subseteq Frames
    /\ kpages \in [KPages -> 0 .. 1]
    /\ stacks \subseteq KPages
    /\ pgdir \in [Tabs -> KPages \cup {NULL}]
    /\ ptes \in [KPages -> Tables]
    /\ tlb \in [Cores -> [Addrs -> Frames \cup {NULL}]]
    /\ op \in Ops \cup {NULL}
    /\ call \in [Workers -> Addrs \cup {NULL}]
    /\ fault \in [Workers -> Faults \cup {NULL}]
    /\ held \subseteq Frames
    /\ lapsed \in BOOLEAN

(* A kernel page has one user, and is counted once for it: two page        *)
(* tables, or a table and a stack, never share a page, and none leaks.     *)
KpageHasOneUser ==
    TypeOK /\ \A k \in KPages :
        kpages[k] = Cardinality({t \in Tabs : pgdir[t] = k}) + (IF k \in stacks THEN 1 ELSE 0)

(* A page table that is mapped is in use: upage_map() never leaves behind  *)
(* an empty table when it fails, and upage_unmap() releases the last one.  *)
NoEmptyTable ==
    \A t \in Tabs :
        pgdir[t] # NULL /\ (op # NULL => op.addr.tab # t)
          => \E s \in Slots : ptes[pgdir[t]][s] # NULL

(* No TLB disagrees with the page tables: that of the master core between  *)
(* kernel calls, so that upage_alloc() clears the page it has mapped and   *)
(* no other, and that of the one user core whenever it runs user code,     *)
(* though the tables change on another core.                               *)
TlbCoherent ==
    /\ \A v \in Addrs : op = NULL => tlb[Master][v] \in {NULL, Mapping(v)}
    /\ \A c \in Workers, v \in Addrs : Ready(c) => tlb[c][v] \in {NULL, Mapping(v)}

(* Frames are neither shared nor lost: a mapped page is on an allocated    *)
(* frame, so that no new page gets the same one, and an allocated frame is *)
(* mapped, or being mapped, or user code knows its number.  User code that *)
(* frees a mapped frame, or unmaps one that it has no number of, breaks    *)
(* this on its own.                                                        *)
FrameAccounting ==
    ~lapsed =>
      /\ \A v \in Addrs : op = NULL /\ Mapping(v) # NULL => Mapping(v) \in frames
      /\ \A f \in frames : f \in held \/ Mappings(f) # {} \/ (op # NULL /\ op.frame = f)

(* Nothing of the physical memory is shared or lost by the page calls,     *)
(* whichever of their steps fails: frames, the kernel pages of tables and  *)
(* stacks, and the tables themselves.                                      *)
MemoryAccounted == KpageHasOneUser /\ NoEmptyTable /\ FrameAccounting

(* do_tlb_fault() "checks the current page directory for a                 *)
(* virtual-to-physical address mapping, and if it finds one, it writes     *)
(* this mapping to the TLB".                                               *)
TlbWritesMapping ==
    [][\A c \in Workers, v \in Addrs :
         tlb'[c][v] # NULL /\ tlb'[c][v] # tlb[c][v] => tlb'[c][v] = Mapping(v) /\ (op = NULL \/ op.addr.tab # v.tab)]_vars
=============================================================================
