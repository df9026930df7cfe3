---------------------------- MODULE MemoryProofs ----------------------------
(***************************************************************************)
(* Frames, kernel pages, page tables and TLBs, for any amount of memory,   *)
(* any size of the page directory and its tables, and with or without the  *)
(* shootdown of TLBs.                                                      *)
(***************************************************************************)
EXTENDS Memory, FiniteSetTheorems, TLAPS

(* User code runs on one core, so that no kernel call of another core      *)
(* changes the page tables under it.                                       *)
OneWorker == \A c, d \in Workers : c = d

(* The page table of tab t is published, and not cleared yet. *)
Garbage(t) == op # NULL /\ op.addr.tab = t

(* A kernel page is used by one table or one stack, and counted for it. *)
PagesExact ==
    /\ \A t \in Tabs : pgdir[t] # NULL => kpages[pgdir[t]] = 1 /\ pgdir[t] \notin stacks
    /\ \A t, u \in Tabs : pgdir[t] = pgdir[u] /\ pgdir[t] # NULL => t = u
    /\ \A k \in stacks : kpages[k] = 1
    /\ \A k \in KPages : kpages[k] = 1 => k \in stacks \/ \E t \in Tabs : pgdir[t] = k

(* upage_map() in progress has published its table. *)
OpPublished ==
    op # NULL => /\ pgdir[op.addr.tab] # NULL
                 /\ call[op.caller] = NULL /\ fault[op.caller] = NULL

(* What NoEmptyTable says, in terms of addresses. *)
TablesInUse ==
    \A t \in Tabs : pgdir[t] # NULL /\ ~Garbage(t) => \E v \in Addrs : v.tab = t /\ Mapping(v) # NULL

(* What FrameAccounting becomes while a table holds garbage. *)
FramesExact ==
    ~lapsed =>
      /\ \A v \in Addrs : ~Garbage(v.tab) /\ Mapping(v) # NULL => Mapping(v) \in frames
      /\ op # NULL => op.frame \in frames
      /\ \A f \in frames : \/ f \in held
                           \/ \E v \in Addrs : Mapping(v) = f /\ ~Garbage(v.tab)
                           \/ op # NULL /\ op.frame = f

(* What the TLB of the master core holds at any moment. *)
MasterTlb ==
    \A v \in Addrs : tlb[Master][v] \in {NULL, Mapping(v)} /\ (Garbage(v.tab) => tlb[Master][v] = NULL)

MInv == TypeOK /\ PagesExact /\ OpPublished /\ TablesInUse /\ FramesExact /\ MasterTlb

(* What the TLB of a user core holds at any moment: the address of a       *)
(* kernel call is not to be relied on before the call returns, and a TLB   *)
(* fault in progress reads the table that is mapped.                       *)
WorkerTlb ==
    \A c \in Workers :
      /\ fault[c] # NULL => call[c] = NULL /\ pgdir[fault[c].addr.tab] = fault[c].pgtab
      /\ \A v \in Addrs : v # call[c] =>
           tlb[c][v] \in {NULL, Mapping(v)} /\ (Garbage(v.tab) => tlb[c][v] = NULL)

LEMMA Nulls ==
    /\ NULL \notin Frames /\ NULL \notin KPages /\ NULL \notin Addrs
    /\ NULL \notin Ops /\ NULL \notin Faults
    /\ Master \in Cores /\ Master \notin Workers /\ Workers \subseteq Cores
  BY MemoryAssumption DEF Frames, KPages, Cores

LEMMA AddrEq ==
    ASSUME NEW v \in Addrs, NEW w \in Addrs, v.tab = w.tab, v.slot = w.slot
    PROVE  v = w
<1>1. v = [tab |-> v.tab, slot |-> v.slot] /\ w = [tab |-> w.tab, slot |-> w.slot]
  BY Zenon DEF Addrs
<1>2. QED
  BY <1>1, Zenon

LEMMA AddrType ==
    /\ \A v \in Addrs : v.tab \in Tabs /\ v.slot \in Slots
    /\ \A t \in Tabs, s \in Slots : [tab |-> t, slot |-> s] \in Addrs
  BY Zenon DEF Addrs

(* An address is mapped to a frame or to none. *)
LEMMA MappingType ==
    ASSUME TypeOK, NEW v \in Addrs
    PROVE  Mapping(v) \in Frames \cup {NULL}
  BY AddrType DEF TypeOK, Tables, Mapping

-----------------------------------------------------------------------------
(* An entry of a page table that is written changes one address only,      *)
(* because no other table is in the same kernel page.                      *)
LEMMA EntryWritten ==
    ASSUME TypeOK, PagesExact, NEW v \in Addrs, pgdir[v.tab] # NULL, NEW x \in Frames \cup {NULL},
           ptes' = [ptes EXCEPT ![pgdir[v.tab]] = [ptes[pgdir[v.tab]] EXCEPT ![v.slot] = x]],
           NEW w \in Addrs, pgdir[w.tab] # NULL
    PROVE  ptes'[pgdir[w.tab]][w.slot] = IF w = v THEN x ELSE Mapping(w)
<1> DEFINE k == pgdir[v.tab]
           j == pgdir[w.tab]
<1>1. k \in KPages /\ j \in KPages /\ v.slot \in Slots /\ w.slot \in Slots /\ ptes[k] \in Tables
      /\ v.tab \in Tabs /\ w.tab \in Tabs
  BY Zenon, AddrType DEF TypeOK
<1>2. CASE w = v
  BY Zenon, <1>1, <1>2 DEF TypeOK, Tables
<1>3. CASE w # v /\ j = k
  <2>1. w.tab = v.tab
    BY Zenon, <1>1, <1>3 DEF PagesExact
  <2>2. w.slot # v.slot
    BY Zenon, <1>3, <2>1, AddrEq
  <2>3. QED
    BY Zenon, <1>1, <1>3, <2>2 DEF TypeOK, Tables, Mapping
<1>4. CASE w # v /\ j # k
  BY Zenon, <1>1, <1>4 DEF TypeOK, Mapping
<1>5. QED
  BY Zenon, <1>2, <1>3, <1>4

LEMMA MapEntry ==
    ASSUME TypeOK, PagesExact, NEW v \in Addrs, pgdir[v.tab] # NULL, NEW x \in Frames \cup {NULL},
           ptes' = [ptes EXCEPT ![pgdir[v.tab]][v.slot] = x], UNCHANGED pgdir
    PROVE  /\ ptes' \in [KPages -> Tables]
           /\ \A w \in Addrs : Mapping(w)' = IF w = v THEN x ELSE Mapping(w)
<1>1. ptes' = [ptes EXCEPT ![pgdir[v.tab]] = [ptes[pgdir[v.tab]] EXCEPT ![v.slot] = x]]
  BY Zenon
<1>2. ptes' \in [KPages -> Tables]
  BY <1>1, AddrType DEF TypeOK, Tables
<1>3. ASSUME NEW w \in Addrs PROVE Mapping(w)' = IF w = v THEN x ELSE Mapping(w)
  <2>1. CASE pgdir[w.tab] # NULL
    BY ZenonT(60), <1>1, <2>1, EntryWritten DEF Mapping
  <2>2. CASE pgdir[w.tab] = NULL
    BY Zenon, <2>2 DEF Mapping
  <2>3. QED
    BY Zenon, <2>1, <2>2
<1>4. QED
  BY Zenon, <1>2, <1>3

(* pgtab_map() publishes a table: other tables keep their pages. *)
LEMMA MapPublished ==
    ASSUME TypeOK, NEW t \in Tabs, pgdir[t] = NULL, NEW k \in KPages,
           pgdir' = [pgdir EXCEPT ![t] = k], UNCHANGED ptes
    PROVE  /\ pgdir' \in [Tabs -> KPages \cup {NULL}]
           /\ pgdir'[t] = k /\ \A u \in Tabs : u # t => pgdir'[u] = pgdir[u]
           /\ \A w \in Addrs : IF w.tab = t THEN Mapping(w) = NULL ELSE Mapping(w)' = Mapping(w)
<1>1. pgdir' \in [Tabs -> KPages \cup {NULL}] /\ pgdir'[t] = k
      /\ \A u \in Tabs : u # t => pgdir'[u] = pgdir[u]
  BY Zenon DEF TypeOK
<1>2. ASSUME NEW w \in Addrs PROVE IF w.tab = t THEN Mapping(w) = NULL ELSE Mapping(w)' = Mapping(w)
  BY Zenon, <1>1, AddrType DEF Mapping
<1>3. QED
  BY Zenon, <1>1, <1>2

(* pgtab_map() clears the new table, and upage_map() maps one page in it. *)
LEMMA MapCleared ==
    ASSUME TypeOK, PagesExact, op # NULL, pgdir[op.addr.tab] # NULL, UNCHANGED pgdir,
           ptes' = [ptes EXCEPT ![pgdir[op.addr.tab]] = [Cleared EXCEPT ![op.addr.slot] = op.frame]]
    PROVE  /\ ptes' \in [KPages -> Tables]
           /\ \A w \in Addrs : Mapping(w)' = IF w = op.addr THEN op.frame
                                             ELSE IF w.tab = op.addr.tab THEN NULL ELSE Mapping(w)
<1> DEFINE v == op.addr
           k == pgdir[v.tab]
<1>1. v \in Addrs /\ v.tab \in Tabs /\ v.slot \in Slots /\ op.frame \in Frames /\ k \in KPages
  BY Zenon, AddrType DEF TypeOK, Ops
<1>2. [Cleared EXCEPT ![v.slot] = op.frame] \in Tables
      /\ \A s \in Slots : [Cleared EXCEPT ![v.slot] = op.frame][s] = IF s = v.slot THEN op.frame ELSE NULL
  BY Zenon, <1>1 DEF Cleared, Tables
<1>3. ptes' \in [KPages -> Tables]
  BY Zenon, <1>1, <1>2 DEF TypeOK
<1>4. ASSUME NEW w \in Addrs
      PROVE Mapping(w)' = IF w = v THEN op.frame ELSE IF w.tab = v.tab THEN NULL ELSE Mapping(w)
  <2>1. w.tab \in Tabs /\ w.slot \in Slots
    BY Zenon, AddrType
  <2>2. CASE w.tab = v.tab
    <3>1. Mapping(w)' = [Cleared EXCEPT ![v.slot] = op.frame][w.slot]
      BY Zenon, <1>1, <2>1, <2>2 DEF Mapping, TypeOK
    <3>2. w = v <=> w.slot = v.slot
      BY Zenon, <1>1, <2>2, AddrEq
    <3>3. QED
      BY Zenon, <1>2, <2>1, <2>2, <3>1, <3>2
  <2>3. CASE w.tab # v.tab
    <3>1. pgdir[w.tab] # k
      BY Zenon, <1>1, <2>1, <2>3 DEF PagesExact
    <3>2. QED
      BY Zenon, <1>1, <2>1, <2>3, <3>1 DEF Mapping, TypeOK
  <2>4. QED
    BY Zenon, <2>2, <2>3
<1>5. QED
  BY Zenon, <1>3, <1>4

(* upage_unmap() changes one address only, also when it releases a table. *)
LEMMA MapUnmapped ==
    ASSUME TypeOK, PagesExact, NEW v \in Addrs, Mapping(v) # NULL,
           ptes' = [ptes EXCEPT ![pgdir[v.tab]] = [ptes[pgdir[v.tab]] EXCEPT ![v.slot] = NULL]],
           PgtabUnmap(v.tab, [ptes[pgdir[v.tab]] EXCEPT ![v.slot] = NULL])
    PROVE  /\ ptes' \in [KPages -> Tables]
           /\ \A w \in Addrs : Mapping(w)' = IF w = v THEN NULL ELSE Mapping(w)
           /\ \/ UNCHANGED <<pgdir, kpages>> /\ \E w \in Addrs : w # v /\ w.tab = v.tab /\ Mapping(w) # NULL
              \/ /\ pgdir' = [pgdir EXCEPT ![v.tab] = NULL]
                 /\ kpages' = [kpages EXCEPT ![pgdir[v.tab]] = 0]
<1> DEFINE t == v.tab
           k == pgdir[t]
           pgtab == [ptes[k] EXCEPT ![v.slot] = NULL]
<1>1. t \in Tabs /\ v.slot \in Slots /\ k # NULL /\ k \in KPages
  BY Zenon, AddrType DEF Mapping, TypeOK
<1>2. ptes' \in [KPages -> Tables] /\ pgtab \in Tables
  BY Zenon, <1>1 DEF TypeOK, Tables
<1>3. CASE \A s \in Slots : pgtab[s] = NULL
  <2>1. pgdir' = [pgdir EXCEPT ![t] = NULL] /\ kpages' = [kpages EXCEPT ![k] = 0]
    BY <1>1, <1>3 DEF PgtabUnmap, KpagePut, PagesExact, TypeOK
  <2>2. ASSUME NEW w \in Addrs PROVE Mapping(w)' = IF w = v THEN NULL ELSE Mapping(w)
    <3>1. w.tab \in Tabs /\ w.slot \in Slots
      BY Zenon, AddrType
    <3>2. CASE w.tab = t
      <4>1. Mapping(w)' = NULL
        BY Zenon, <1>1, <2>1, <3>1, <3>2 DEF Mapping, TypeOK
      <4>2. w # v => Mapping(w) = NULL
        <5>1. w # v => w.slot # v.slot
          BY Zenon, <3>2, AddrEq
        <5>2. w # v => pgtab[w.slot] = ptes[k][w.slot]
          BY Zenon, <1>1, <3>1, <5>1 DEF TypeOK, Tables
        <5>3. QED
          BY Zenon, <1>1, <1>3, <3>1, <3>2, <5>2 DEF Mapping
      <4>3. QED
        BY Zenon, <4>1, <4>2
    <3>3. CASE w.tab # t
      <4>1. pgdir'[w.tab] = pgdir[w.tab] /\ w # v
        BY Zenon, <1>1, <2>1, <3>1, <3>3 DEF TypeOK
      <4>2. CASE pgdir[w.tab] # NULL
        <5>1. ptes'[pgdir[w.tab]][w.slot] = IF w = v THEN NULL ELSE Mapping(w)
          BY Zenon, <1>1, <4>2, EntryWritten
        <5>2. QED
          BY Zenon, <4>1, <4>2, <5>1 DEF Mapping
      <4>3. CASE pgdir[w.tab] = NULL
        BY Zenon, <4>1, <4>3 DEF Mapping
      <4>4. QED
        BY Zenon, <4>2, <4>3
    <3>4. QED
      BY Zenon, <3>2, <3>3
  <2>3. QED
    BY Zenon, <1>2, <2>1, <2>2
<1>4. CASE \E s \in Slots : pgtab[s] # NULL
  <2>1. UNCHANGED <<pgdir, kpages>>
    BY Zenon, <1>4 DEF PgtabUnmap
  <2>2. PICK s \in Slots : pgtab[s] # NULL
    BY Zenon, <1>4
  <2>3. s # v.slot /\ ptes[k][s] # NULL
    BY Zenon, <1>1, <2>2 DEF TypeOK, Tables
  <2>4. [tab |-> t, slot |-> s] \in Addrs /\ [tab |-> t, slot |-> s] # v
        /\ Mapping([tab |-> t, slot |-> s]) # NULL
    BY <1>1, <2>3, AddrType DEF Mapping
  <2>5. ASSUME NEW w \in Addrs PROVE Mapping(w)' = IF w = v THEN NULL ELSE Mapping(w)
    <3>1. CASE pgdir[w.tab] # NULL
      <4>1. ptes'[pgdir[w.tab]][w.slot] = IF w = v THEN NULL ELSE Mapping(w)
        BY Zenon, <1>1, <3>1, EntryWritten
      <4>2. QED
        BY Zenon, <2>1, <3>1, <4>1 DEF Mapping
    <3>2. CASE pgdir[w.tab] = NULL
      BY Zenon, <1>1, <2>1, <3>2 DEF Mapping
    <3>3. QED
      BY Zenon, <3>1, <3>2
  <2>6. QED
    BY Zenon, <1>2, <2>1, <2>4, <2>5
<1>5. QED
  BY Zenon, <1>3, <1>4

-----------------------------------------------------------------------------
(* The write of mmu_page_map() and the clearing through the master's TLB. *)
LEMMA PageMapTlb ==
    ASSUME TypeOK, NEW v \in Addrs, NEW f \in Frames, NEW clear, PageMap(v, f, clear)
    PROVE  /\ tlb' \in [Cores -> [Addrs -> Frames \cup {NULL}]]
           /\ \A w \in Addrs : \/ tlb'[Master][w] = tlb[Master][w]
                               \/ w = v /\ tlb'[Master][w] = f
           /\ \A c \in Workers : tlb'[c] = tlb[c]
<1>1. CASE tlb' = tlb
  BY Zenon, <1>1 DEF TypeOK
<1>2. CASE tlb' = [tlb EXCEPT ![Master][v] = f]
  BY Zenon, <1>2, Nulls DEF TypeOK
<1>3. QED
  BY Zenon, <1>1, <1>2 DEF PageMap

(* upage_map() that succeeds, for each of its callers. *)
LEMMA StepUpageMap ==
    ASSUME MInv, NEW c \in Workers, NEW a \in Addrs, NEW v \in Addrs, NEW f \in Frames,
           NEW clear \in BOOLEAN, Ready(c), UpageMap(c, a, v, f, clear),
           frames' \in SUBSET Frames, ~lapsed => frames' = frames \cup {f},
           UNCHANGED <<stacks, fault, held, lapsed>>
    PROVE  MInv'
<1> USE DEF MInv
<1>1. op = NULL /\ call[c] = NULL /\ fault[c] = NULL /\ f # NULL /\ v.tab \in Tabs /\ v.slot \in Slots
  BY Zenon, Nulls, AddrType DEF Ready
<1>2. CASE /\ pgdir[v.tab] # NULL /\ Mapping(v) = NULL
           /\ ptes' = [ptes EXCEPT ![pgdir[v.tab]][v.slot] = f]
           /\ PageMap(v, f, clear)
           /\ call' = [call EXCEPT ![c] = a]
           /\ UNCHANGED <<kpages, pgdir, op>>
  <2>1. ptes' \in [KPages -> Tables]
        /\ \A w \in Addrs : Mapping(w)' = IF w = v THEN f ELSE Mapping(w)
    BY Zenon, <1>2, MapEntry
  <2>2. TypeOK'
    BY Zenon, <1>2, <2>1, PageMapTlb DEF TypeOK
  <2>3. PagesExact' /\ OpPublished'
    BY Zenon, <1>1, <1>2 DEF PagesExact, OpPublished
  <2>4. TablesInUse'
    BY <1>1, <1>2, <2>1 DEF TablesInUse, Garbage
  <2>5. FramesExact'
    <3>1. SUFFICES ASSUME ~lapsed'
          PROVE /\ \A w \in Addrs : Mapping(w)' # NULL => Mapping(w)' \in frames'
                /\ \A g \in frames' : g \in held' \/ \E w \in Addrs : Mapping(w)' = g
      BY Zenon, <1>1, <1>2 DEF FramesExact, Garbage
    <3>2. \A g \in frames : g \in held \/ \E w \in Addrs : Mapping(w) = g
      BY Zenon, <1>1, <3>1 DEF FramesExact
    <3>3. \A w \in Addrs : Mapping(w) # NULL => Mapping(w) \in frames
      BY Zenon, <1>1, <3>1 DEF FramesExact, Garbage
    <3>4. \A w \in Addrs : Mapping(w) # NULL => Mapping(w)' = Mapping(w)
      BY Zenon, <1>2, <2>1
    <3>5. \A g \in frames : g # NULL
      BY Zenon, Nulls DEF TypeOK
    <3>6. frames' = frames \cup {f}
      BY Zenon, <3>1
    <3>7. QED
      BY <2>1, <3>2, <3>3, <3>4, <3>5, <3>6
  <2>6. MasterTlb'
    BY <1>1, <1>2, <2>1, PageMapTlb DEF MasterTlb, Garbage
  <2>7. QED
    BY Zenon, <2>2, <2>3, <2>4, <2>5, <2>6
<1>3. ASSUME pgdir[v.tab] = NULL, NEW k \in KPages, KpageGet(k),
             pgdir' = [pgdir EXCEPT ![v.tab] = k],
             op' = [caller |-> c, arg0 |-> a, addr |-> v, frame |-> f, clear |-> clear],
             UNCHANGED <<ptes, tlb, call>>
      PROVE MInv'
  <2>1. /\ pgdir' \in [Tabs -> KPages \cup {NULL}]
        /\ pgdir'[v.tab] = k /\ \A u \in Tabs : u # v.tab => pgdir'[u] = pgdir[u]
        /\ \A w \in Addrs : IF w.tab = v.tab THEN Mapping(w) = NULL ELSE Mapping(w)' = Mapping(w)
    BY Zenon, <1>1, <1>3, MapPublished
  <2>2. op' \in Ops /\ op' # NULL /\ op'.addr = v /\ op'.frame = f /\ op'.caller = c
    BY <1>3, Nulls DEF Ops
  <2>3. kpages[k] = 0 /\ kpages' = [kpages EXCEPT ![k] = 1]
    BY SMTT(60), <1>3 DEF KpageGet, First, TypeOK
  <2>4. TypeOK'
    BY <1>3, <2>1, <2>2, <2>3 DEF TypeOK
  <2>5. PagesExact'
    <3>1. k \notin stacks /\ k # NULL /\ \A u \in Tabs : pgdir[u] # k
      BY <2>3, Nulls DEF PagesExact
    <3>2. \A j \in KPages : kpages'[j] = IF j = k THEN 1 ELSE kpages[j]
      BY Zenon, <2>3 DEF TypeOK
    <3>3. QED
      <4>1. \A u \in Tabs : pgdir'[u] # NULL => kpages'[pgdir'[u]] = 1 /\ pgdir'[u] \notin stacks
        BY SMTT(60), <2>1, <3>1, <3>2 DEF PagesExact, TypeOK
      <4>2. \A t, u \in Tabs : pgdir'[t] = pgdir'[u] /\ pgdir'[t] # NULL => t = u
        BY <1>1, <2>1, <3>1 DEF PagesExact
      <4>3. \A j \in stacks : kpages'[j] = 1
        BY Zenon, <3>1, <3>2 DEF PagesExact, TypeOK
      <4>4. \A j \in KPages : kpages'[j] = 1 => j \in stacks \/ \E u \in Tabs : pgdir'[u] = j
        <5>1. ASSUME NEW j \in KPages, j # k, kpages[j] = 1, j \notin stacks
              PROVE \E u \in Tabs : pgdir'[u] = j
          <6>1. PICK u \in Tabs : pgdir[u] = j
            BY Zenon, <5>1 DEF PagesExact
          <6>2. u # v.tab
            BY Zenon, <1>3, <6>1, Nulls
          <6>3. QED
            BY Zenon, <2>1, <6>1, <6>2
        <5>2. QED
          BY Zenon, <1>1, <2>1, <3>2, <5>1
      <4>5. QED
        BY Zenon, <4>1, <4>2, <4>3, <4>4 DEF PagesExact
  <2>6. OpPublished'
    BY Zenon, <1>1, <1>3, <2>1, <2>2, Nulls DEF OpPublished
  <2>7. \A t \in Tabs : Garbage(t)' <=> t = v.tab
    BY Zenon, <2>2 DEF Garbage
  <2>8. TablesInUse'
    BY SMTT(60), <1>1, <2>1, <2>7, AddrType DEF TablesInUse, Garbage
  <2>9. FramesExact'
    <3>1. SUFFICES ASSUME ~lapsed'
          PROVE /\ \A w \in Addrs : ~Garbage(w.tab)' /\ Mapping(w)' # NULL => Mapping(w)' \in frames'
                /\ op'.frame \in frames'
                /\ \A g \in frames' : \/ g \in held'
                                      \/ \E w \in Addrs : Mapping(w)' = g /\ ~Garbage(w.tab)'
                                      \/ op' # NULL /\ op'.frame = g
      BY Zenon DEF FramesExact
    <3>2. \A g \in frames : g \in held \/ \E w \in Addrs : Mapping(w) = g
      BY Zenon, <1>1, <3>1 DEF FramesExact
    <3>3. \A w \in Addrs : w.tab # v.tab /\ Mapping(w) # NULL => Mapping(w) \in frames
      BY Zenon, <1>1, <3>1 DEF FramesExact, Garbage
    <3>4. \A w \in Addrs : Mapping(w) # NULL => w.tab # v.tab /\ Mapping(w)' = Mapping(w)
      BY Zenon, <2>1
    <3>5. \A g \in frames : g # NULL
      BY Zenon, Nulls DEF TypeOK
    <3>6. frames' = frames \cup {f}
      BY Zenon, <3>1
    <3>7. QED
      BY SMTT(60), <2>1, <2>2, <2>7, <3>2, <3>3, <3>4, <3>5, <3>6, AddrType
  <2>10. MasterTlb'
    <3>1. \A w \in Addrs : tlb[Master][w] \in {NULL, Mapping(w)}
      BY Zenon DEF MasterTlb
    <3>2. QED
      BY <1>3, <2>1, <2>7, <3>1, AddrType DEF MasterTlb
  <2>11. QED
    BY Zenon, <2>4, <2>5, <2>6, <2>8, <2>9, <2>10
<1>4. QED
  BY Zenon, <1>2, <1>3 DEF UpageMap

(* pgtab_map() ends: what was garbage is one page. *)
LEMMA StepUpageMapClear ==
    ASSUME MInv, UpageMapClear PROVE MInv'
<1> USE DEF MInv
<1> DEFINE v == op.addr
           f == op.frame
<1>1. /\ op \in Ops /\ op # NULL /\ v \in Addrs /\ v.tab \in Tabs /\ f \in Frames
      /\ op.caller \in Workers /\ op.arg0 \in Addrs /\ pgdir[v.tab] # NULL
  BY Zenon, AddrType DEF UpageMapClear, TypeOK, Ops, OpPublished
<1>2. /\ ptes' \in [KPages -> Tables]
      /\ \A w \in Addrs : Mapping(w)' = IF w = v THEN f ELSE IF w.tab = v.tab THEN NULL ELSE Mapping(w)
  BY Zenon, <1>1, MapCleared DEF UpageMapClear
<1>3. /\ PageMap(v, f, op.clear) /\ call' = [call EXCEPT ![op.caller] = op.arg0] /\ op' = NULL
      /\ UNCHANGED <<frames, kpages, stacks, pgdir, fault, held, lapsed>>
  BY Zenon DEF UpageMapClear
<1>4. TypeOK'
  BY Zenon, <1>1, <1>2, <1>3, PageMapTlb DEF TypeOK
<1>5. PagesExact' /\ OpPublished'
  BY Zenon, <1>3 DEF PagesExact, OpPublished
<1>6. \A t \in Tabs : ~Garbage(t)' /\ (Garbage(t) <=> t = v.tab)
  BY Zenon, <1>1, <1>3 DEF Garbage
<1>7. TablesInUse'
  <2>1. ASSUME NEW t \in Tabs, pgdir[t] # NULL
        PROVE \E w \in Addrs : w.tab = t /\ Mapping(w)' # NULL
    <3>1. CASE t = v.tab
      BY <1>1, <1>2, <3>1, Nulls
    <3>2. CASE t # v.tab
      BY Zenon, <1>1, <1>2, <1>6, <2>1, <3>2 DEF TablesInUse
    <3>3. QED
      BY Zenon, <3>1, <3>2
  <2>2. QED
    BY Zenon, <1>3, <2>1 DEF TablesInUse
<1>8. FramesExact'
  <2>1. SUFFICES ASSUME ~lapsed
        PROVE /\ \A w \in Addrs : Mapping(w)' # NULL => Mapping(w)' \in frames
              /\ \A g \in frames : g \in held \/ \E w \in Addrs : Mapping(w)' = g
    BY Zenon, <1>3 DEF FramesExact, Garbage
  <2>2. f \in frames /\ \A w \in Addrs : w.tab # v.tab /\ Mapping(w) # NULL => Mapping(w) \in frames
    BY Zenon, <1>1, <1>6, <2>1, AddrType DEF FramesExact
  <2>3. \A g \in frames : \/ g \in held
                          \/ g = f
                          \/ \E w \in Addrs : w.tab # v.tab /\ Mapping(w) = g
    BY Zenon, <1>1, <1>6, <2>1, AddrType DEF FramesExact
  <2>4. ASSUME NEW g \in frames, g \notin held PROVE \E w \in Addrs : Mapping(w)' = g
    <3>1. CASE g = f
      BY Zenon, <1>1, <1>2, <3>1
    <3>2. CASE \E w \in Addrs : w.tab # v.tab /\ Mapping(w) = g
      BY Zenon, <1>2, <3>2
    <3>3. QED
      BY Zenon, <2>3, <2>4, <3>1, <3>2
  <2>5. QED
    BY Zenon, <1>2, <2>2, <2>4
<1>9. MasterTlb'
  <2>1. \A w \in Addrs : tlb[Master][w] \in {NULL, Mapping(w)} /\ (w.tab = v.tab => tlb[Master][w] = NULL)
    BY Zenon, <1>6, AddrType DEF MasterTlb
  <2>2. \A w \in Addrs : tlb'[Master][w] = tlb[Master][w] \/ (w = v /\ tlb'[Master][w] = f)
    BY <1>1, <1>3, PageMapTlb
  <2>3. QED
    BY Zenon, <1>2, <1>6, <2>1, <2>2, AddrType DEF MasterTlb
<1>10. QED
  BY Zenon, <1>4, <1>5, <1>7, <1>8, <1>9

(* upage_inval() takes entries out of TLBs and puts none in. *)
LEMMA InvalTlb ==
    ASSUME TypeOK, NEW c \in Cores, NEW v \in Addrs, tlb' = Inval(c, v)
    PROVE  /\ tlb' \in [Cores -> [Addrs -> Frames \cup {NULL}]]
           /\ tlb'[c][v] = NULL
           /\ \A d \in Cores, w \in Addrs : tlb'[d][w] = tlb[d][w] \/ (w = v /\ tlb'[d][w] = NULL)
<1>1. \A d \in Cores : tlb[d] \in [Addrs -> Frames \cup {NULL}]
  BY Zenon DEF TypeOK
<1>2. \A d \in Cores : tlb'[d] = IF d = c \/ Shootdown THEN [tlb[d] EXCEPT ![v] = NULL] ELSE tlb[d]
  BY Zenon DEF Inval
<1>3. \A d \in Cores : tlb'[d] \in [Addrs -> Frames \cup {NULL}]
  BY Zenon, <1>1, <1>2
<1>4. tlb' \in [Cores -> [Addrs -> Frames \cup {NULL}]]
  BY Zenon, <1>3 DEF Inval
<1>5. QED
  BY <1>1, <1>2, <1>4

(* upage_unmap(), with what its callers do about the frame: "lost" is what *)
(* they add to lapsed.                                                     *)
LEMMA StepUpageUnmap ==
    ASSUME MInv, NEW c \in Workers, NEW v \in Addrs, UpageUnmap(c, v),
           NEW lost \in BOOLEAN, lapsed' = (lapsed \/ lost),
           frames' \in SUBSET frames, held' \in SUBSET held,
           ~lost => \/ /\ frames' = frames /\ held' = held
                       /\ Mapping(v) \in held \/ Mappings(Mapping(v)) # {v}
                    \/ /\ frames' = frames \ {Mapping(v)} /\ held' = held \ {Mapping(v)}
                       /\ Mappings(Mapping(v)) = {v}
    PROVE  MInv'
<1> USE DEF MInv
<1> DEFINE f == Mapping(v)
           t == v.tab
<1>1. /\ f # NULL /\ t \in Tabs /\ pgdir[t] # NULL /\ pgdir[t] \in KPages
      /\ op = NULL /\ call' = [call EXCEPT ![c] = v] /\ tlb' = Inval(Master, v)
      /\ UNCHANGED <<stacks, op, fault>>
  BY Zenon, AddrType DEF UpageUnmap, Serve, Mapping, TypeOK
<1>2. /\ ptes' \in [KPages -> Tables]
      /\ \A w \in Addrs : Mapping(w)' = IF w = v THEN NULL ELSE Mapping(w)
      /\ \/ UNCHANGED <<pgdir, kpages>> /\ \E w \in Addrs : w # v /\ w.tab = t /\ Mapping(w) # NULL
         \/ /\ pgdir' = [pgdir EXCEPT ![t] = NULL]
            /\ kpages' = [kpages EXCEPT ![pgdir[t]] = 0]
  BY Zenon, <1>1, MapUnmapped DEF UpageUnmap
<1>3. TypeOK'
  <2>1. pgdir' \in [Tabs -> KPages \cup {NULL}] /\ kpages' \in [KPages -> 0 .. 1]
    BY SMTT(60), <1>1, <1>2 DEF TypeOK
  <2>2. tlb' \in [Cores -> [Addrs -> Frames \cup {NULL}]]
    BY Zenon, <1>1, InvalTlb, Nulls
  <2>3. QED
    BY Zenon, <1>1, <1>2, <2>1, <2>2 DEF TypeOK
<1>4. PagesExact'
  <2>1. CASE UNCHANGED <<pgdir, kpages>>
    BY Zenon, <1>1, <2>1 DEF PagesExact
  <2>2. CASE pgdir' = [pgdir EXCEPT ![t] = NULL] /\ kpages' = [kpages EXCEPT ![pgdir[t]] = 0]
    <3>1. /\ \A u \in Tabs : pgdir'[u] = IF u = t THEN NULL ELSE pgdir[u]
          /\ \A k \in KPages : kpages'[k] = IF k = pgdir[t] THEN 0 ELSE kpages[k]
      BY Zenon, <1>1, <2>2 DEF TypeOK
    <3>2. \A u \in Tabs : u # t /\ pgdir[u] # NULL => pgdir[u] # pgdir[t] /\ pgdir[u] \in KPages
      BY <1>1 DEF PagesExact, TypeOK
    <3>3. pgdir[t] \notin stacks /\ stacks \subseteq KPages
      BY Zenon, <1>1 DEF PagesExact, TypeOK
    <3>4. \A k \in KPages : k # pgdir[t] /\ kpages[k] = 1 => k \in stacks \/ \E u \in Tabs : pgdir'[u] = k
      BY <3>1 DEF PagesExact
    <3>5. QED
      BY <1>1, <3>1, <3>2, <3>3, <3>4 DEF PagesExact
  <2>3. QED
    BY Zenon, <1>2, <2>1, <2>2
<1>5. TablesInUse'
  <2>1. ASSUME NEW u \in Tabs, pgdir'[u] # NULL
        PROVE \E w \in Addrs : w.tab = u /\ Mapping(w)' # NULL
    <3>1. CASE u = t
      BY Zenon, <1>1, <1>2, <2>1, <3>1 DEF TypeOK
    <3>2. CASE u # t
      <4>1. pgdir[u] # NULL
        BY Zenon, <1>1, <1>2, <2>1, <3>2 DEF TypeOK
      <4>2. QED
        BY Zenon, <1>1, <1>2, <3>2, <4>1 DEF TablesInUse, Garbage
    <3>3. QED
      BY Zenon, <3>1, <3>2
  <2>2. QED
    BY Zenon, <2>1 DEF TablesInUse
<1>6. FramesExact'
  <2>1. SUFFICES ASSUME ~lapsed, ~lost
        PROVE /\ \A w \in Addrs : Mapping(w)' # NULL => Mapping(w)' \in frames'
              /\ \A g \in frames' : g \in held' \/ \E w \in Addrs : Mapping(w)' = g
    BY Zenon, <1>1 DEF FramesExact, Garbage
  <2>2. \A w \in Addrs : Mapping(w) # NULL => Mapping(w) \in frames
    BY Zenon, <1>1, <2>1 DEF FramesExact, Garbage
  <2>3. \A g \in frames : g \in held \/ \E w \in Addrs : Mapping(w) = g
    BY Zenon, <1>1, <2>1 DEF FramesExact
  <2>4. CASE frames' = frames /\ held' = held /\ (f \in held \/ Mappings(f) # {v})
    <3>1. f \in held \/ \E w \in Addrs : w # v /\ Mapping(w) = f
      BY Zenon, <2>4 DEF Mappings
    <3>2. QED
      BY <1>2, <2>2, <2>3, <2>4, <3>1
  <2>5. CASE frames' = frames \ {f} /\ held' = held \ {f} /\ Mappings(f) = {v}
    <3>1. \A w \in Addrs : w # v => Mapping(w) # f
      BY Zenon, <2>5 DEF Mappings
    <3>2. QED
      BY <1>2, <2>2, <2>3, <2>5, <3>1
  <2>6. QED
    BY Zenon, <2>1, <2>4, <2>5
<1>7. MasterTlb'
  <2>1. \A w \in Addrs : tlb'[Master][w] = tlb[Master][w] \/ (w = v /\ tlb'[Master][w] = NULL)
    BY <1>1, InvalTlb, Nulls
  <2>2. tlb'[Master][v] = NULL
    BY Zenon, <1>1, InvalTlb, Nulls
  <2>3. QED
    BY Zenon, <1>1, <1>2, <2>1, <2>2 DEF MasterTlb, Garbage
<1>8. OpPublished'
  BY Zenon, <1>1 DEF OpPublished
<1>9. QED
  BY Zenon, <1>3, <1>4, <1>5, <1>6, <1>7, <1>8

-----------------------------------------------------------------------------
(* frame_alloc() and frame_free(), called from user code. *)
LEMMA StepKernelFrame ==
    ASSUME MInv, NEW f \in Frames, KernelFrameAlloc(f) \/ KernelFrameFree(f)
    PROVE  MInv'
<1> USE DEF MInv
<1>1. op = NULL /\ UNCHANGED <<kpages, stacks, pgdir, ptes, tlb, op, call, fault>>
  BY Zenon DEF KernelFrameAlloc, KernelFrameFree
<1>2. TypeOK' /\ PagesExact' /\ OpPublished' /\ TablesInUse' /\ MasterTlb'
  BY ZenonT(60), <1>1
     DEF KernelFrameAlloc, KernelFrameFree, FrameAlloc, FrameFree, TypeOK, PagesExact,
              OpPublished, TablesInUse, MasterTlb, Mapping, Garbage
<1>3. SUFFICES FramesExact'
  BY Zenon, <1>2
<1>4. \A w \in Addrs : Mapping(w)' = Mapping(w)
  BY Zenon, <1>1 DEF Mapping
<1>5. CASE KernelFrameAlloc(f)
  BY Zenon, <1>1, <1>4, <1>5 DEF KernelFrameAlloc, FrameAlloc, FramesExact, Garbage
<1>6. CASE KernelFrameFree(f)
  <2>1. frames' = frames \ {f} /\ held' = held \ {f} /\ lapsed' = (lapsed \/ f \notin held \/ Mappings(f) # {})
    BY Zenon, <1>6 DEF KernelFrameFree, FrameFree
  <2>2. SUFFICES ASSUME ~lapsed, Mappings(f) = {}
        PROVE /\ \A w \in Addrs : Mapping(w) # NULL => Mapping(w) \in frames'
              /\ \A g \in frames' : g \in held' \/ \E w \in Addrs : Mapping(w) = g
    BY ZenonT(60), <1>1, <1>4, <2>1 DEF FramesExact, Garbage
  <2>3. QED
    BY Zenon, <1>1, <2>1, <2>2 DEF FramesExact, Garbage, Mappings
<1>7. QED
  BY Zenon, <1>5, <1>6

(* Thread stacks in the kernel page pool. *)
LEMMA StepStack ==
    ASSUME MInv, NEW k \in KPages,
           StackGet(k) \/ \E data \in Tables : StackPut(k, data)
    PROVE  MInv'
<1> USE DEF MInv
<1>1. UNCHANGED <<frames, pgdir, tlb, op, call, fault, held, lapsed>>
  BY Zenon DEF StackGet, StackPut
<1>2. ptes' \in [KPages -> Tables] /\ kpages' \in [KPages -> 0 .. 1] /\ stacks' \in SUBSET KPages
  BY DEF StackGet, StackPut, KpageGet, First, KpagePut, TypeOK
<1>3. PagesExact'
  <2>1. CASE StackGet(k)
    BY <2>1 DEF StackGet, KpageGet, First, PagesExact, TypeOK
  <2>2. CASE \E data \in Tables : StackPut(k, data)
    <3>1. k \in stacks /\ kpages[k] = 1 /\ stacks' = stacks \ {k} /\ UNCHANGED pgdir
          /\ kpages' = [kpages EXCEPT ![k] = 0]
      <4>1. PICK data \in Tables : StackPut(k, data)
        BY Zenon, <2>2
      <4>2. k \in stacks /\ kpages[k] = 1
        BY Zenon, <4>1 DEF StackPut, PagesExact
      <4>3. QED
        BY <4>1, <4>2 DEF StackPut, KpagePut
    <3>2. \A t \in Tabs : pgdir[t] # k
      BY <3>1, Nulls DEF PagesExact, TypeOK
    <3>3. \A j \in KPages : kpages'[j] = IF j = k THEN 0 ELSE kpages[j]
      BY Zenon, <3>1 DEF TypeOK
    <3>4. QED
      BY <3>1, <3>2, <3>3 DEF PagesExact, TypeOK
  <2>3. QED
    BY Zenon, <2>1, <2>2
<1>4. \A w \in Addrs : Mapping(w)' = Mapping(w)
  <2>1. CASE UNCHANGED ptes
    BY Zenon, <1>1, <2>1 DEF Mapping
  <2>2. ASSUME NEW data, k \in stacks, ptes' = [ptes EXCEPT ![k] = data]
        PROVE \A w \in Addrs : Mapping(w)' = Mapping(w)
    <3>1. \A t \in Tabs : pgdir[t] # NULL => pgdir[t] # k /\ pgdir[t] \in KPages
      BY <2>2 DEF PagesExact, TypeOK
    <3>2. QED
      BY Zenon, <1>1, <2>2, <3>1, AddrType DEF Mapping, TypeOK
  <2>3. QED
    BY Zenon, <2>1, <2>2 DEF StackGet, StackPut
<1>5. TypeOK'
  BY Zenon, <1>1, <1>2 DEF TypeOK
<1>6. \A t \in Tabs : Garbage(t)' <=> Garbage(t)
  BY Zenon, <1>1 DEF Garbage
<1>7. OpPublished' /\ TablesInUse' /\ FramesExact' /\ MasterTlb'
  BY <1>1, <1>4, <1>6, AddrType DEF OpPublished, TablesInUse, FramesExact, MasterTlb
<1>8. QED
  BY Zenon, <1>3, <1>5, <1>7

(* The steps of a user core on its own TLB. *)
LEMMA StepCore ==
    ASSUME MInv, NEW c \in Workers,
           Return(c) \/ TlbWrite(c) \/ \E v \in Addrs : TlbFault(c, v)
    PROVE  MInv'
<1> USE DEF MInv
<1>1. UNCHANGED <<frames, kpages, stacks, pgdir, ptes, op, held, lapsed>>
  BY Zenon DEF Return, TlbWrite, TlbFault
<1>2. PagesExact' /\ TablesInUse' /\ FramesExact'
  BY <1>1 DEF PagesExact, TablesInUse, FramesExact, Mapping, Garbage
<1>3. (\A w \in Addrs : Mapping(w)' = Mapping(w)) /\ \A t \in Tabs : Garbage(t)' <=> Garbage(t)
  BY Zenon, <1>1 DEF Mapping, Garbage
<1>4. CASE Return(c)
  <2>1. call[c] \in Addrs /\ c \in Cores /\ tlb' = Inval(c, call[c]) /\ UNCHANGED fault
        /\ call' = [call EXCEPT ![c] = NULL]
    BY Zenon, <1>4, Nulls DEF Return, TypeOK
  <2>2. TypeOK'
    BY Zenon, <1>1, <2>1, InvalTlb DEF TypeOK
  <2>3. OpPublished'
    BY Zenon, <1>1, <2>1 DEF OpPublished, TypeOK, Ops
  <2>4. MasterTlb'
    <3>1. \A w \in Addrs : tlb'[Master][w] \in {tlb[Master][w], NULL}
      BY <2>1, InvalTlb, Nulls
    <3>2. QED
      BY Zenon, <1>3, <3>1, AddrType DEF MasterTlb
  <2>5. QED
    BY Zenon, <1>2, <2>2, <2>3, <2>4
<1>5. CASE TlbWrite(c)
  <2>1. fault[c] \in Faults /\ fault[c].addr \in Addrs /\ fault[c].pgtab \in KPages
        /\ fault[c].addr.slot \in Slots /\ UNCHANGED call
        /\ fault' = [fault EXCEPT ![c] = NULL]
    BY Zenon, <1>5, AddrType DEF TlbWrite, TypeOK, Faults
  <2>2. PICK x \in Frames \cup {NULL} : tlb' = [tlb EXCEPT ![c][fault[c].addr] = x]
    <3>1. ptes[fault[c].pgtab][fault[c].addr.slot] \in Frames \cup {NULL}
      BY <2>1 DEF TypeOK, Tables
    <3>2. QED
      BY Zenon, <1>5, <3>1 DEF TlbWrite
  <2>3. TypeOK' /\ tlb'[Master] = tlb[Master]
    BY Zenon, <1>1, <2>1, <2>2, Nulls DEF TypeOK
  <2>4. OpPublished'
    BY Zenon, <1>1, <2>1 DEF OpPublished, TypeOK, Ops
  <2>5. MasterTlb'
    BY Zenon, <1>3, <2>3, AddrType DEF MasterTlb
  <2>6. QED
    BY Zenon, <1>2, <2>3, <2>4, <2>5
<1>6. ASSUME NEW v \in Addrs, TlbFault(c, v) PROVE MInv'
  <2>1. /\ fault' = [fault EXCEPT ![c] = [addr |-> v, pgtab |-> pgdir[v.tab]]]
        /\ pgdir[v.tab] \in KPages /\ (op # NULL => op.caller # c)
        /\ UNCHANGED <<tlb, call>>
    BY Zenon, <1>6, AddrType DEF TlbFault, TypeOK
  <2>2. [addr |-> v, pgtab |-> pgdir[v.tab]] \in Faults
    BY Zenon, <2>1 DEF Faults
  <2>3. TypeOK'
    BY Zenon, <1>1, <2>1, <2>2 DEF TypeOK
  <2>4. OpPublished'
    BY Zenon, <1>1, <2>1 DEF OpPublished, TypeOK, Ops
  <2>5. MasterTlb'
    BY Zenon, <1>3, <2>1, AddrType DEF MasterTlb
  <2>6. QED
    BY Zenon, <1>2, <2>3, <2>4, <2>5
<1>7. QED
  BY Zenon, <1>4, <1>5, <1>6

-----------------------------------------------------------------------------
LEMMA InitMInv == Init => MInv
<1> SUFFICES ASSUME Init PROVE MInv
  BY Zenon
<1> USE MemoryAssumption, Nulls DEF Init
<1>1. TypeOK
  <2>1. Cleared \in Tables
    BY Zenon DEF Tables, Cleared
  <2>2. tlb \in [Cores -> [Addrs -> Frames \cup {NULL}]]
    BY Zenon
  <2>3. ptes \in [KPages -> Tables] /\ kpages \in [KPages -> 0 .. 1]
    <3>1. ptes = [k \in KPages |-> Cleared] /\ kpages = [k \in KPages |-> 0]
      BY Zenon
    <3>2. QED
      BY <2>1, <3>1
  <2>4. QED
    BY Zenon, <2>2, <2>3 DEF TypeOK
<1>2. PagesExact /\ OpPublished /\ TablesInUse /\ FramesExact
  BY AddrType DEF PagesExact, OpPublished, TablesInUse, FramesExact, Mapping, Garbage
<1>3. MasterTlb
  BY Zenon DEF MasterTlb, Garbage
<1>4. QED
  BY Zenon, <1>1, <1>2, <1>3 DEF MInv

(* Kernel calls about pages. *)
LEMMA StepUserCall ==
    ASSUME MInv, NEW c \in Workers, UserCall(c) PROVE MInv'
<1>1. ASSUME NEW v \in Addrs, UpageAlloc(c, v) PROVE MInv'
  <2>1. CASE Serve(c, v) /\ UNCHANGED <<frames, kpages, pgdir, ptes, tlb, op>>
    <3>1. UNCHANGED <<stacks, fault, held, lapsed>> /\ op = NULL /\ call' = [call EXCEPT ![c] = v]
      BY Zenon, <1>1, <2>1 DEF UpageAlloc, Serve
    <3>2. TypeOK'
      BY Zenon, <2>1, <3>1 DEF MInv, TypeOK
    <3>3. QED
      BY <2>1, <3>1, <3>2 DEF MInv, PagesExact, OpPublished, TablesInUse, FramesExact,
                              MasterTlb, Mapping, Garbage
  <2>2. ASSUME NEW f \in Frames, FrameAlloc(f), UpageMap(c, v, v, f, TRUE) PROVE MInv'
    <3>1. Ready(c) /\ UNCHANGED <<stacks, fault, held, lapsed>>
      BY Zenon, <1>1 DEF UpageAlloc
    <3>2. frames' = frames \cup {f} /\ frames' \in SUBSET Frames
      BY Zenon, <2>2 DEF FrameAlloc, MInv, TypeOK
    <3>3. QED
      BY Zenon, <2>2, <3>1, <3>2, StepUpageMap
  <2>3. QED
    BY ZenonT(60), <1>1, <2>1, <2>2 DEF UpageAlloc
<1>2. ASSUME NEW v \in Addrs, NEW f \in Frames, KernelUpageMap(c, v, f) PROVE MInv'
  <2>1. /\ Ready(c) /\ UpageMap(c, v, v, f, FALSE) /\ frames' = frames \cup {f}
        /\ frames' \in SUBSET Frames /\ UNCHANGED <<stacks, fault, held, lapsed>>
    BY Zenon, <1>2 DEF KernelUpageMap, MInv, TypeOK
  <2>2. QED
    BY Zenon, <2>1, StepUpageMap
<1>3. ASSUME NEW v \in Addrs, NEW w \in Addrs, UpageLink(c, v, w) PROVE MInv'
  <2>1. Ready(c) /\ Mapping(v) \in Frames /\ UpageMap(c, v, w, Mapping(v), FALSE)
        /\ UNCHANGED <<frames, stacks, fault, held, lapsed>>
    BY Zenon, <1>3, MappingType DEF UpageLink, MInv
  <2>2. ~lapsed => frames' = frames \cup {Mapping(v)}
    BY Zenon, <2>1, Nulls DEF Ready, MInv, FramesExact, Garbage
  <2>3. frames' \in SUBSET Frames
    BY Zenon, <2>1 DEF MInv, TypeOK
  <2>4. QED
    BY Zenon, <2>1, <2>2, <2>3, StepUpageMap
<1>4. ASSUME NEW v \in Addrs, KernelUpageUnmap(c, v) PROVE MInv'
  <2> DEFINE lost == Mapping(v) \notin held /\ Mappings(Mapping(v)) = {v}
  <2>1. /\ UpageUnmap(c, v) /\ lapsed' = (lapsed \/ lost) /\ lost \in BOOLEAN
        /\ UNCHANGED <<frames, held>>
    BY Zenon, <1>4 DEF KernelUpageUnmap
  <2>2. QED
    BY Zenon, <2>1, StepUpageUnmap
<1>5. ASSUME NEW v \in Addrs, UpageFree(c, v) PROVE MInv'
  <2> DEFINE lost == Mappings(Mapping(v)) # {v}
  <2>1. /\ UpageUnmap(c, v) /\ lapsed' = (lapsed \/ lost) /\ lost \in BOOLEAN
        /\ frames' = frames \ {Mapping(v)} /\ held' = held \ {Mapping(v)}
    BY Zenon, <1>5 DEF UpageFree, FrameFree
  <2>2. QED
    BY Zenon, <2>1, StepUpageUnmap
<1>6. QED
  BY <1>1, <1>2, <1>3, <1>4, <1>5 DEF UserCall

LEMMA StepMInv == MInv /\ [Next]_vars => MInv'
<1> SUFFICES ASSUME MInv, [Next]_vars PROVE MInv'
  BY ZenonT(60)
<1>1. CASE UNCHANGED vars
  BY <1>1 DEF vars, MInv, TypeOK, PagesExact, OpPublished, TablesInUse, FramesExact, MasterTlb,
              Mapping, Garbage
<1>2. QED
  BY Zenon, <1>1, StepUserCall, StepCore, StepUpageMapClear, StepKernelFrame, StepStack DEF Next

(* The bookkeeping of the invariant is that of the properties. *)
LEMMA MInvAccounts ==
    ASSUME MInv PROVE MemoryAccounted
<1> USE DEF MInv
<1>1. KpageHasOneUser
  <2>1. ASSUME NEW k \in KPages
        PROVE kpages[k] = Cardinality({t \in Tabs : pgdir[t] = k}) + (IF k \in stacks THEN 1 ELSE 0)
    <3> DEFINE T == {t \in Tabs : pgdir[t] = k}
    <3>1. kpages[k] \in {0, 1} /\ k # NULL
      BY Nulls DEF TypeOK
    <3>2. CASE T = {}
      <4>1. kpages[k] = IF k \in stacks THEN 1 ELSE 0
        BY Zenon, <3>1, <3>2 DEF PagesExact
      <4>2. QED
        BY <3>2, <4>1, FS_EmptySet
    <3>3. ASSUME NEW t \in T PROVE kpages[k] = Cardinality(T) + (IF k \in stacks THEN 1 ELSE 0)
      <4>1. T = {t}
        BY <3>1 DEF PagesExact
      <4>2. kpages[k] = 1 /\ k \notin stacks
        BY Zenon, <3>1 DEF PagesExact
      <4>3. Cardinality(T) = 1
        BY Zenon, <4>1, FS_Singleton
      <4>4. QED
        BY <4>2, <4>3
    <3>4. QED
      BY Zenon, <3>2, <3>3
  <2>2. QED
    BY Zenon, <2>1 DEF KpageHasOneUser
<1>2. NoEmptyTable
  BY AddrType DEF TablesInUse, NoEmptyTable, Garbage, Mapping
<1>3. FrameAccounting
  BY Zenon DEF FramesExact, FrameAccounting, Garbage, Mappings
<1>4. QED
  BY Zenon, <1>1, <1>2, <1>3 DEF MemoryAccounted

(* Physical memory is neither shared nor lost by the calls of mm/ and      *)
(* sys/page.c, whichever of their steps fails: frames, the kernel pages of *)
(* tables and stacks, and the tables.                                      *)
THEOREM Accounting == Spec => []MemoryAccounted
<1>1. MInv => MemoryAccounted
  BY Zenon, MInvAccounts
<1>2. QED
  BY InitMInv, StepMInv, <1>1, PTL DEF Spec

-----------------------------------------------------------------------------
(* With one user core, that core's TLB is what WorkerTlb says: its own     *)
(* kernel calls are the only steps that change the page tables.            *)
LEMMA StepWorkerTlb ==
    ASSUME OneWorker, MInv, WorkerTlb, [Next]_vars
    PROVE  WorkerTlb'
<1> USE DEF MInv
<1> SUFFICES ASSUME NEW c \in Workers
             PROVE  /\ fault'[c] # NULL => call'[c] = NULL /\ pgdir'[fault'[c].addr.tab] = fault'[c].pgtab
                    /\ \A w \in Addrs : w # call'[c] =>
                         /\ tlb'[c][w] \in {NULL, Mapping(w)'}
                         /\ Garbage(w.tab)' => tlb'[c][w] = NULL
  BY Zenon DEF WorkerTlb
<1> DEFINE Kept == \A w \in Addrs : Mapping(w)' = Mapping(w)
           Goal == /\ fault'[c] # NULL => call'[c] = NULL /\ pgdir'[fault'[c].addr.tab] = fault'[c].pgtab
                   /\ \A w \in Addrs : w # call'[c] =>
                        /\ tlb'[c][w] \in {NULL, Mapping(w)'}
                        /\ Garbage(w.tab)' => tlb'[c][w] = NULL
<1>1. /\ fault[c] # NULL => call[c] = NULL /\ pgdir[fault[c].addr.tab] = fault[c].pgtab
      /\ \A w \in Addrs : w # call[c] =>
           tlb[c][w] \in {NULL, Mapping(w)} /\ (Garbage(w.tab) => tlb[c][w] = NULL)
      /\ c \in Cores /\ NULL \notin Addrs
      /\ \A d \in Workers : d = c
  BY Zenon, Nulls DEF WorkerTlb, OneWorker
<1>2. ASSUME NEW a \in Addrs, NEW v \in Addrs, NEW f \in Frames, NEW clear \in BOOLEAN, Ready(c),
             UpageMap(c, a, v, f, clear), UNCHANGED fault
      PROVE Goal
  <2>0. op = NULL /\ call[c] = NULL /\ fault[c] = NULL /\ v.tab \in Tabs
    BY Zenon, <1>2, AddrType DEF Ready
  <2>1. CASE /\ pgdir[v.tab] # NULL /\ Mapping(v) = NULL
             /\ ptes' = [ptes EXCEPT ![pgdir[v.tab]][v.slot] = f]
             /\ PageMap(v, f, clear)
             /\ call' = [call EXCEPT ![c] = a]
             /\ UNCHANGED <<kpages, pgdir, op>>
    <3>1. \A w \in Addrs : Mapping(w)' = IF w = v THEN f ELSE Mapping(w)
      BY Zenon, <2>1, MapEntry
    <3>2. tlb'[c] = tlb[c]
      BY Zenon, <2>1, PageMapTlb
    <3>3. QED
      BY <1>1, <1>2, <2>0, <2>1, <3>1, <3>2 DEF Garbage
  <2>2. ASSUME pgdir[v.tab] = NULL, NEW k \in KPages,
               pgdir' = [pgdir EXCEPT ![v.tab] = k],
               op' = [caller |-> c, arg0 |-> a, addr |-> v, frame |-> f, clear |-> clear],
               UNCHANGED <<ptes, tlb, call>>
        PROVE Goal
    <3>1. \A w \in Addrs : IF w.tab = v.tab THEN Mapping(w) = NULL ELSE Mapping(w)' = Mapping(w)
      BY Zenon, <2>0, <2>2, MapPublished
    <3>2. \A t \in Tabs : Garbage(t)' => t = v.tab
      BY Zenon, <2>2 DEF Garbage
    <3>3. QED
      BY Zenon, <1>1, <1>2, <2>0, <2>2, <3>1, <3>2, AddrType
  <2>3. QED
    BY <1>2, <2>1, <2>2 DEF UpageMap
<1>3. ASSUME NEW v \in Addrs, UpageUnmap(c, v) PROVE Goal
  <2>1. op = NULL /\ call[c] = NULL /\ fault[c] = NULL /\ UNCHANGED <<op, fault>>
        /\ call' = [call EXCEPT ![c] = v] /\ tlb' = Inval(Master, v) /\ pgdir[v.tab] # NULL
    BY Zenon, <1>3 DEF UpageUnmap, Serve, Mapping
  <2>2. \A w \in Addrs : Mapping(w)' = IF w = v THEN NULL ELSE Mapping(w)
    BY Zenon, <1>3, MapUnmapped DEF UpageUnmap
  <2>3. \A w \in Addrs : tlb'[c][w] = tlb[c][w] \/ tlb'[c][w] = NULL
    BY <1>1, <2>1, InvalTlb, Nulls
  <2>4. call'[c] = v
    BY Zenon, <2>1 DEF TypeOK
  <2>5. QED
    BY <1>1, <2>1, <2>2, <2>3, <2>4 DEF Garbage
<1>4. ASSUME UserCall(c) PROVE Goal
  <2>1. ASSUME NEW v \in Addrs, UpageAlloc(c, v) PROVE Goal
    <3>1. CASE Serve(c, v) /\ UNCHANGED <<pgdir, ptes, tlb, op>>
      BY <1>1, <2>1, <3>1 DEF UpageAlloc, Serve, Mapping, Garbage
    <3>2. QED
      BY ZenonT(60), <1>2, <2>1, <3>1 DEF UpageAlloc
  <2>2. ASSUME NEW v \in Addrs, NEW w \in Addrs, UpageLink(c, v, w) PROVE Goal
    BY Zenon, <1>2, <2>2, MappingType DEF UpageLink
  <2>3. QED
    BY Zenon, <1>2, <1>3, <1>4, <2>1, <2>2 DEF UserCall, UpageFree, KernelUpageUnmap, KernelUpageMap
<1>5. ASSUME UpageMapClear PROVE Goal
  <2>1. op \in Ops /\ op # NULL /\ op.caller = c /\ op.addr \in Addrs /\ op.frame \in Frames
        /\ call[c] = NULL /\ fault[c] = NULL /\ pgdir[op.addr.tab] # NULL
    BY Zenon, <1>1, <1>5 DEF UpageMapClear, TypeOK, Ops, OpPublished
  <2>2. \A w \in Addrs : Mapping(w)' = IF w = op.addr THEN op.frame
                                       ELSE IF w.tab = op.addr.tab THEN NULL ELSE Mapping(w)
    BY Zenon, <1>5, <2>1, MapCleared DEF UpageMapClear
  <2>3. tlb'[c] = tlb[c] /\ UNCHANGED fault /\ op' = NULL
    BY Zenon, <1>5, <2>1, PageMapTlb DEF UpageMapClear
  <2>4. \A w \in Addrs : tlb[c][w] \in {NULL, Mapping(w)} /\ (w.tab = op.addr.tab => tlb[c][w] = NULL)
    BY Zenon, <1>1, <2>1 DEF Garbage
  <2>5. QED
    BY Zenon, <2>1, <2>2, <2>3, <2>4 DEF Garbage
<1>6. ASSUME Return(c) PROVE Goal
  <2>1. call[c] \in Addrs /\ tlb' = Inval(c, call[c]) /\ call'[c] = NULL /\ UNCHANGED <<pgdir, ptes, op, fault>>
    BY ZenonT(60), <1>6 DEF Return, TypeOK
  <2>2. tlb'[c][call[c]] = NULL /\ \A w \in Addrs : tlb'[c][w] = tlb[c][w] \/ tlb'[c][w] = NULL
    BY <1>1, <2>1, InvalTlb
  <2>3. Kept /\ (\A t \in Tabs : Garbage(t)' <=> Garbage(t))
    BY ZenonT(60), <2>1 DEF Mapping, Garbage
  <2>4. QED
    BY Zenon, <1>1, <2>1, <2>2, <2>3, AddrType
<1>7. ASSUME TlbWrite(c) PROVE Goal
  <2> DEFINE v == fault[c].addr
  <2>1. /\ fault[c] # NULL /\ v \in Addrs /\ pgdir[v.tab] = fault[c].pgtab /\ fault[c].pgtab \in KPages
        /\ tlb' = [tlb EXCEPT ![c][v] = ptes[fault[c].pgtab][v.slot]]
        /\ fault'[c] = NULL /\ UNCHANGED <<pgdir, ptes, op, call>> /\ call[c] = NULL
    BY Zenon, <1>1, <1>7 DEF TlbWrite, TypeOK, Faults
  <2>2. op = NULL
    BY Zenon, <1>1, <2>1 DEF OpPublished, TypeOK, Ops
  <2>3. ptes[fault[c].pgtab][v.slot] = Mapping(v)
    BY Zenon, <2>1, Nulls DEF Mapping
  <2>4. \A w \in Addrs : tlb'[c][w] = IF w = v THEN Mapping(v) ELSE tlb[c][w]
    BY Zenon, <1>1, <2>1, <2>3 DEF TypeOK
  <2>5. Kept
    BY Zenon, <2>1 DEF Mapping
  <2>6. QED
    BY <1>1, <2>1, <2>2, <2>4, <2>5 DEF Garbage
<1>8. ASSUME NEW v \in Addrs, TlbFault(c, v) PROVE Goal
  <2>1. /\ call[c] = NULL /\ fault'[c] = [addr |-> v, pgtab |-> pgdir[v.tab]]
        /\ UNCHANGED <<pgdir, ptes, tlb, op, call>>
    BY Zenon, <1>8 DEF TlbFault, TypeOK
  <2>2. Kept /\ (\A t \in Tabs : Garbage(t)' <=> Garbage(t))
    BY Zenon, <2>1 DEF Mapping, Garbage
  <2>3. QED
    BY <1>1, <2>1, <2>2, AddrType
<1>9. ASSUME NEW f \in Frames, KernelFrameAlloc(f) \/ KernelFrameFree(f) PROVE Goal
  BY Zenon, <1>1, <1>9 DEF KernelFrameAlloc, KernelFrameFree, Mapping, Garbage
<1>10. ASSUME NEW k \in KPages, StackGet(k) PROVE Goal
  BY Zenon, <1>1, <1>10 DEF StackGet, Mapping, Garbage
<1>11. ASSUME NEW k \in KPages, NEW data \in Tables, StackPut(k, data) PROVE Goal
  <2>1. k \in stacks /\ ptes' = [ptes EXCEPT ![k] = data] /\ UNCHANGED <<pgdir, tlb, op, call, fault>>
    BY Zenon, <1>11 DEF StackPut
  <2>2. \A t \in Tabs : pgdir[t] # NULL => pgdir[t] # k /\ pgdir[t] \in KPages
    BY <2>1 DEF PagesExact, TypeOK
  <2>3. Kept
    BY Zenon, <2>1, <2>2, AddrType DEF Mapping, TypeOK
  <2>4. QED
    BY Zenon, <1>1, <2>1, <2>3 DEF Garbage
<1>12. CASE UNCHANGED vars
  BY Zenon, <1>1, <1>12 DEF vars, Mapping, Garbage
<1>13. QED
  BY Zenon, <1>1, <1>4, <1>5, <1>6, <1>7, <1>8, <1>9, <1>10, <1>11, <1>12 DEF Next

(* No TLB disagrees with the page tables: that of the master core between  *)
(* kernel calls, and that of the user core whenever it runs user code, by  *)
(* upage_inval() on the cores that unmap and that called.                  *)
THEOREM Coherence ==
    ASSUME OneWorker
    PROVE  Spec => []TlbCoherent
<1>1. Init => WorkerTlb
  BY Nulls DEF Init, WorkerTlb, Garbage
<1>2. MInv /\ WorkerTlb /\ [Next]_vars => WorkerTlb'
  BY Zenon, StepWorkerTlb
<1>3. MInv /\ WorkerTlb => TlbCoherent
  BY Zenon, Nulls DEF MInv, MasterTlb, WorkerTlb, TlbCoherent, Ready
<1>4. QED
  BY InitMInv, StepMInv, <1>1, <1>2, <1>3, PTL DEF Spec
=============================================================================
