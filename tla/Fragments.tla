------------------------------ MODULE Fragments ------------------------------
(* Fragmentation and reassembly of IPv4 datagrams: ip4_frag, ip4_reass and     *)
(* ip_reass_tmr of lwip/src/core/ipv4/ip4_frag.c, with the network between     *)
(* the host that fragments and the host that reassembles.                      *)
(*                                                                             *)
(* Lengths and offsets count the 8-byte blocks of the fragment offset field.   *)
(* A datagram or a fragment of it is [id, off, len, mf]; its payload is the    *)
(* run of blocks off .. off+len-1 of the datagram with that identification, so *)
(* bytes are told apart by where they belong.  The pair of addresses is one,   *)
(* the identification alone tells datagrams apart.                             *)
EXTENDS Integers, Sequences, FiniteSets, SequencesExt, FiniteSetsExt

CONSTANTS
    Datagrams,              \* identifications in use, all distinct
    Blocks,                 \* Blocks[d]: the length of datagram d
    Mtu,                    \* (netif->mtu - IP_HLEN) / 8 of the sending interface
    PathMtu,                \* the same at a router further on
    PoolBlocks,             \* blocks that fit in one PBUF_POOL buffer
    IP_REASS_MAX_PBUFS,
    IP_REASS_MAXAGE,
    MEMP_NUM_REASSDATA,
    MaxDups                 \* bound: fragments duplicated or split in flight

FragmentsAssumption ==
    /\ Blocks \in [Datagrams -> Nat \ {0}]
    /\ {Mtu, PathMtu, PoolBlocks, IP_REASS_MAX_PBUFS, MEMP_NUM_REASSDATA} \subseteq Nat \ {0}
    /\ {IP_REASS_MAXAGE, MaxDups} \subseteq Nat

VARIABLES
    unsent,                 \* datagrams the sender has still to send
    wire,                   \* fragments in flight
    reass,                  \* [list: reassdatagrams, first to last, count: ip_reass_pbufcount]
    delivered,              \* what ip4_reass has returned to ip4_input
    dups                    \* duplications so far

vars == <<unsent, wire, reass, delivered, dups>>

-----------------------------------------------------------------------------
(* ip4_frag: cut the packet p for an interface whose frames carry nfb blocks.  *)
(* Offset and MF of p are kept, since p may be a fragment itself.              *)

FragmentsOf(p, nfb) ==
    [i \in 1..((p.len + nfb - 1) \div nfb) |->
        LET left == p.len - (i - 1) * nfb IN
        [id |-> p.id, off |-> p.off + (i - 1) * nfb, len |-> Min({left, nfb}),
         mf |-> left > nfb \/ p.mf]]

\* The sender: ip4_output_if calls ip4_frag when the datagram exceeds the MTU.
\* rambuf or the custom pbuf can fail to be allocated at any fragment (memerr):
\* the ones sent before stay sent.
ip4_frag(d, sent) ==
    LET frags == FragmentsOf([id |-> d, off |-> 0, len |-> Blocks[d], mf |-> FALSE], Mtu) IN
    /\ d \in unsent
    /\ sent \in 0..Len(frags)
    /\ unsent' = unsent \ {d}
    /\ wire' = wire \cup Range(SubSeq(frags, 1, sent))
    /\ UNCHANGED <<reass, delivered, dups>>

-----------------------------------------------------------------------------
(* Reassembly.                                                                 *)

EndOf(f) == f.off + f.len

\* pbuf_clen of a received fragment: its chain of pool buffers.
pbuf_clen(f) == (f.len + PoolBlocks - 1) \div PoolBlocks

Pbufs(frags) == FoldSeq(LAMBDA f, n: pbuf_clen(f) + n, 0, frags)

\* The list entry of identification id; none when the list has no such entry.
IndexOf(list, id) == {i \in DOMAIN list: list[i].id = id}

\* Mutant: the pbufs of a freed datagram stay counted.
FreeUncounted(s, i) == [list |-> RemoveAt(s.list, i), count |-> s.count]

\* ip_reass_free_complete_datagram: entry i goes with all its pbufs.
ip_reass_free_complete_datagram(s, i) ==
    [list |-> RemoveAt(s.list, i), count |-> s.count - Pbufs(s.list[i].frags)]

Others(list, id) == DOMAIN list \ IndexOf(list, id)

\* The scan for the oldest takes the last of the entries with the least timer.
Oldest(list, id) ==
    Max({i \in Others(list, id):
            \A j \in Others(list, id): list[i].timer <= list[j].timer})

\* ip_reass_remove_oldest_datagram: free other datagrams, oldest first, until
\* "needed" pbufs are free or one other datagram at most was found.
RECURSIVE ip_reass_remove_oldest_datagram(_, _, _, _)
ip_reass_remove_oldest_datagram(s, id, needed, freed) ==
    LET others == Others(s.list, id)
        i == Oldest(s.list, id)
        now == freed + Pbufs(s.list[i].frags)
        t == ip_reass_free_complete_datagram(s, i)
    IN CASE others = {} -> [s |-> s, freed |-> freed]
         [] others # {} /\ now < needed /\ Cardinality(others) > 1 ->
                ip_reass_remove_oldest_datagram(t, id, needed, now)
         [] OTHER -> [s |-> t, freed |-> now]

\* ip_reass_enqueue_new_datagram: a new entry at the front, made by freeing old
\* datagrams when the pool is empty; the list is unchanged on failure.
EnqueueNew(s, f) ==
    LET full == Len(s.list) = MEMP_NUM_REASSDATA
        entry == [id |-> f.id, timer |-> IP_REASS_MAXAGE, frags |-> <<>>,
                  last |-> FALSE, hdr |-> f.off]
        Put(r) ==
            IF r.freed >= pbuf_clen(f) /\ Len(r.s.list) < MEMP_NUM_REASSDATA
            THEN [s |-> [r.s EXCEPT !.list = <<entry>> \o @], ok |-> TRUE]
            ELSE [s |-> r.s, ok |-> FALSE]
    IN Put(IF full THEN ip_reass_remove_oldest_datagram(s, f.id, pbuf_clen(f), 0)
                   ELSE [s |-> s, freed |-> pbuf_clen(f)])

\* ip_reass_chain_frag_into_datagram_and_validate: a fragment that starts where
\* another does or overlaps one is dropped, any other is linked in order.
Dropped(frags, f) ==
    \E q \in Range(frags):
        \/ q.off = f.off
        \/ q.off < f.off /\ f.off < EndOf(q)
        \/ f.off < q.off /\ q.off < EndOf(f)

Chained(frags, f) == SortSeq(Append(frags, f), LAMBDA p, q: p.off < q.off)

\* The datagram is whole: no hole from 0 to the fragment without MF.
Complete(ipr) ==
    /\ ipr.last
    /\ ipr.frags[1].off = 0
    /\ \A i \in 1..(Len(ipr.frags) - 1): EndOf(ipr.frags[i]) = ipr.frags[i + 1].off

\* What is handed up: the stored header over the chained payloads.
Datagram(ipr) ==
    [id |-> ipr.id, hdr |-> ipr.hdr,
     data |-> FlattenSeq([i \in DOMAIN ipr.frags |->
                 [k \in 1..ipr.frags[i].len |-> ipr.frags[i].off + k - 1]])]

Dequeued(s, i) == [s EXCEPT !.list = RemoveAt(@, i)]

\* Fragment f joins entry i of the list, unless it is dropped.  A datagram that
\* it completes leaves the list and is returned.
JoinDatagram(s, i, f) ==
    LET hdr == IF f.off = 0 /\ s.list[i].hdr # 0 THEN f.off ELSE s.list[i].hdr
        ipr == [s.list[i] EXCEPT !.hdr = hdr]
        kept == [s EXCEPT !.list[i] = ipr]
        joined == [ipr EXCEPT !.frags = Chained(@, f), !.last = @ \/ ~f.mf]
    IN CASE Dropped(ipr.frags, f) ->
                [s |-> IF ipr.frags = <<>> THEN Dequeued(kept, i) ELSE kept, up |-> {}]
         [] ~Dropped(ipr.frags, f) /\ Complete(joined) ->
                [s |-> [list |-> RemoveAt(s.list, i), count |-> s.count - Pbufs(ipr.frags)],
                 up |-> {Datagram(joined)}]
         [] OTHER ->
                [s |-> [list |-> [s.list EXCEPT ![i] = joined],
                        count |-> s.count + pbuf_clen(f)], up |-> {}]

\* ip4_reass before the datagram is looked up: make room below the limit on
\* queued pbufs.
MakeRoom(s, f) ==
    LET full == s.count + pbuf_clen(f) > IP_REASS_MAX_PBUFS
        Made(r) == [s |-> r.s,
                    ok |-> r.freed > 0 /\ r.s.count + pbuf_clen(f) <= IP_REASS_MAX_PBUFS]
    IN Made(IF full THEN ip_reass_remove_oldest_datagram(s, f.id, pbuf_clen(f), 0)
                    ELSE [s |-> s, freed |-> 1])

Reassemble(s, f) ==
    LET Join(entry, i) == IF entry.ok THEN JoinDatagram(entry.s, i, f)
                                      ELSE [s |-> entry.s, up |-> {}]
        LookUp(room, known) ==
            CASE ~room.ok -> [s |-> room.s, up |-> {}]
              [] room.ok /\ known = {} -> Join(EnqueueNew(room.s, f), 1)
              [] OTHER -> JoinDatagram(room.s, Min(known), f)
        Made(room) == LookUp(room, IndexOf(room.s.list, f.id))
    IN Made(MakeRoom(s, f))

Becomes(r) == reass' = r.s /\ delivered' = delivered \cup r.up

ip4_reass(f) ==
    /\ f \in wire
    /\ wire' = wire \ {f}
    /\ Becomes(Reassemble(reass, f))
    /\ UNCHANGED <<unsent, dups>>

\* Mutant: an entry whose timer has run out is kept.
TmrNeverFrees ==
    /\ reass.list # <<>>
    /\ reass' = [reass EXCEPT !.list = [i \in DOMAIN @ |->
                    [@[i] EXCEPT !.timer = IF @ = 0 THEN 0 ELSE @ - 1]]]
    /\ UNCHANGED <<unsent, wire, delivered, dups>>

\* ip_reass_tmr: every entry ages; one whose timer had run out is freed.
ip_reass_tmr ==
    LET Old(ipr) == ipr.timer = 0
        freed == FoldSeq(LAMBDA ipr, n: n + IF Old(ipr) THEN Pbufs(ipr.frags) ELSE 0, 0, reass.list)
        Aged(ipr) == [ipr EXCEPT !.timer = @ - 1]
        young == SelectSeq(reass.list, LAMBDA ipr: ~Old(ipr))
    IN /\ reass.list # <<>>
       /\ reass' = [list |-> [i \in DOMAIN young |-> Aged(young[i])],
                    count |-> reass.count - freed]
       /\ UNCHANGED <<unsent, wire, delivered, dups>>

-----------------------------------------------------------------------------
(* The network: it loses, reorders and duplicates fragments, and a router with *)
(* a smaller MTU may have cut the duplicate again (external).                  *)

Lose(f) ==
    /\ f \in wire
    /\ wire' = wire \ {f}
    /\ UNCHANGED <<unsent, reass, delivered, dups>>

\* f arrives and a copy of it, split for nfb blocks, is still under way.
Duplicate(f, nfb) ==
    /\ dups < MaxDups
    /\ f \in wire
    /\ wire' = (wire \ {f}) \cup Range(FragmentsOf(f, nfb))
    /\ Becomes(Reassemble(reass, f))
    /\ dups' = dups + 1
    /\ UNCHANGED unsent

-----------------------------------------------------------------------------

Init ==
    /\ unsent = Datagrams
    /\ wire = {}
    /\ reass = [list |-> <<>>, count |-> 0]
    /\ delivered = {}
    /\ dups = 0

Next ==
    \/ \E d \in Datagrams: \E n \in 0..Blocks[d]: ip4_frag(d, n)
    \/ \E f \in wire: ip4_reass(f) \/ Lose(f)
    \/ \E f \in wire, nfb \in {Mtu, PathMtu}: Duplicate(f, nfb)
    \/ ip_reass_tmr

\* sys_check_timeouts runs ip_reass_tmr every IP_TMR_INTERVAL.
Fairness == WF_vars(ip_reass_tmr)

Spec == Init /\ [][Next]_vars /\ Fairness

-----------------------------------------------------------------------------

\* A datagram that ip4_reass hands to ip4_input is the one that was sent: every
\* block once and in its place, under the header of the fragment with offset 0,
\* whatever was lost, repeated, reordered or cut again on the way.
ReassembledExactly ==
    \A p \in delivered:
        /\ p.hdr = 0
        /\ p.data = [k \in 1..Blocks[p.id] |-> k - 1]

\* ip_reass_pbufcount is the number of pbufs the queued fragments hold, within
\* IP_REASS_MAX_PBUFS, and no two entries of reassdatagrams collect the same
\* datagram, none is empty, and the fragments of each are in order and disjoint.
ReassemblyAccounting ==
    /\ reass.count = FoldSeq(LAMBDA ipr, n: Pbufs(ipr.frags) + n, 0, reass.list)
    /\ reass.count <= IP_REASS_MAX_PBUFS
    /\ Len(reass.list) <= MEMP_NUM_REASSDATA
    /\ \A i, j \in DOMAIN reass.list: reass.list[i].id = reass.list[j].id => i = j
    /\ \A ipr \in Range(reass.list):
        /\ ipr.frags # <<>>
        /\ \A k \in 1..(Len(ipr.frags) - 1): EndOf(ipr.frags[k]) <= ipr.frags[k + 1].off

\* Reassembly is sound: what it hands up was sent, what it keeps is counted.
ReassemblySound == ReassembledExactly /\ ReassemblyAccounting

Collects(d) == \E ipr \in Range(reass.list): ipr.id = d

\* Every collection of fragments ends: the timer of an entry is never restarted
\* by a fragment that arrives, so each entry is completed or freed.
ReassemblyEnds == \A d \in Datagrams: []<>~Collects(d)
=============================================================================
