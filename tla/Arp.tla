-------------------------------- MODULE Arp --------------------------------
(* Address resolution of lwip/src/core/ipv4/etharp.c: the table of hardware    *)
(* addresses, the packet that waits in a pending entry (ARP_QUEUEING is 0), the *)
(* ageing timer, and the recycling of entries when the table is full.          *)
(*                                                                             *)
(* ARP packets that leave are not kept: the network answers, repeats an answer *)
(* or stays silent as it likes, so that any announcement may arrive at any     *)
(* time.  A pbuf handed to etharp_output is a member of Packets; the caller's   *)
(* own reference is gone when the call returns.                                *)
EXTENDS Integers, FiniteSets, FiniteSetsExt

CONSTANTS
    Packets, Dest,          \* Dest[p]: the IP address packet p is sent to
    OnLink,                 \* addresses under the netmask of the interface
    Gateway,                \* netif_ip4_gw; "any" when none is set
    Broadcast,              \* the broadcast address of the interface
    Claims,                 \* Claims[ip]: hardware addresses that ip announces over time
    Statics,                \* Statics[ip]: the address etharp_add_static_entry gives ip
    ARP_TABLE_SIZE, ARP_MAXAGE, ARP_MAXPENDING,
    RerequestUnicast,       \* ARP_AGE_REREQUEST_USED_UNICAST
    RerequestBroadcast      \* ARP_AGE_REREQUEST_USED_BROADCAST

ArpAssumption ==
    /\ ARP_TABLE_SIZE \in Nat \ {0}
    /\ ARP_MAXPENDING \in 1..ARP_MAXAGE
    /\ RerequestUnicast <= RerequestBroadcast /\ RerequestBroadcast < ARP_MAXAGE

VARIABLES
    arp_table,              \* arp_table[i]: [state, ip, eth, ctime, q]
    etharp_cached_entry,
    fate                    \* fate[p]: "new", "queued", "dropped" or the address it was sent to

vars == <<arp_table, etharp_cached_entry, fate>>

NoPacket == "none"
Entries == 0..(ARP_TABLE_SIZE - 1)
Stable == {"STABLE", "STABLE_REREQUESTING_1", "STABLE_REREQUESTING_2"}
Resolved == Stable \cup {"STATIC"}
Empty == [state |-> "EMPTY", ip |-> "any", eth |-> "zero", ctime |-> 0, q |-> NoPacket]

-----------------------------------------------------------------------------
(* Every operation maps a pair [t: arp_table, f: fate] to the next one.        *)

With(i, e, s) == [s EXCEPT !.t[i] = e]
Gone(p, what, s) == [s EXCEPT !.f = [x \in Packets |-> IF x = p THEN what ELSE @[x]]]

\* etharp_free_entry: the waiting packet is freed.  The fields other than state
\* keep their values in the code; nothing reads them in an empty entry.
etharp_free_entry(i, s) == With(i, Empty, Gone(s.t[i].q, "dropped", s))

\* The entry of etharp_find_entry that is recycled: the oldest stable one, else
\* the oldest pending one without a packet, else the oldest with one; static
\* entries stay, and -1 is ERR_MEM when there are no others.  The scan keeps the
\* last of several of the same age.
OldestOf(t, C) == Max({i \in C: \A j \in C: t[j].ctime <= t[i].ctime})

Recycled(t) ==
    LET stable == {i \in Entries: t[i].state \in Stable}
        pending == {i \in Entries: t[i].state = "PENDING" /\ t[i].q = NoPacket}
        queueing == {i \in Entries: t[i].state = "PENDING" /\ t[i].q # NoPacket}
    IN CASE stable # {} -> OldestOf(t, stable)
         [] stable = {} /\ pending # {} -> OldestOf(t, pending)
         [] stable \cup pending = {} /\ queueing # {} -> OldestOf(t, queueing)
         [] OTHER -> -1

Matching(t, ip) == {i \in Entries: t[i].state # "EMPTY" /\ t[i].ip = ip}

\* etharp_find_entry: [i, s]; i = -1 is ERR_MEM.
etharp_find_entry(ip, find_only, s) ==
    LET match == Matching(s.t, ip)
        empty == {i \in Entries: s.t[i].state = "EMPTY"}
        Taken(i, free) == [i |-> i, s |-> With(i, [free.t[i] EXCEPT !.ip = ip, !.ctime = 0], free)]
        Retaken(i) == IF i = -1 THEN [i |-> -1, s |-> s] ELSE Taken(i, etharp_free_entry(i, s))
    IN CASE match # {} -> [i |-> Min(match), s |-> s]
         [] match = {} /\ find_only -> [i |-> -1, s |-> s]
         [] match = {} /\ ~find_only /\ empty # {} -> Taken(Min(empty), s)
         [] OTHER -> Retaken(Recycled(s.t))

\* etharp_update_arp_entry: the entry becomes stable or static, and the packet
\* that waited for the address is sent; an announcement leaves a static entry.
etharp_update_arp_entry(ip, eth, find_only, state, s) ==
    LET Known(e) == [e EXCEPT !.state = state, !.eth = eth, !.ctime = 0, !.q = NoPacket]
        Update(r, e) ==
            IF r.i = -1 THEN s
            ELSE IF e.state = "STATIC" /\ state # "STATIC" THEN r.s
            ELSE With(r.i, Known(e), Gone(e.q, eth, r.s))
        Found(r) == Update(r, r.s.t[r.i])
    IN Found(etharp_find_entry(ip, find_only, s))

\* etharp_output_to_arp_index: a used entry that grows old is asked for again,
\* if the request can be allocated.
etharp_output_to_arp_index(p, i, memory, s) ==
    LET e == s.t[i]
        again == e.state = "STABLE" /\ memory /\ e.ctime >= RerequestUnicast
    IN With(i, IF again THEN [e EXCEPT !.state = "STABLE_REREQUESTING_1"] ELSE e,
            Gone(p, e.eth, s))

\* etharp_query with a packet: refused without an entry, sent when the address is
\* known, else left in the pending entry in place of the packet that waited there.
\* copied is FALSE when pbuf_clone finds no memory.
etharp_query(p, ip, copied, s) ==
    LET Pending(e) == IF e.state = "EMPTY" THEN [e EXCEPT !.state = "PENDING"] ELSE e
        Query(r, e) ==
            CASE r.i = -1 -> [s |-> Gone(p, "dropped", s), hint |-> {}]
              [] r.i # -1 /\ e.state \in Resolved -> [s |-> Gone(p, e.eth, r.s), hint |-> {r.i}]
              [] r.i # -1 /\ e.state \notin Resolved /\ copied ->
                    [s |-> With(r.i, [Pending(e) EXCEPT !.q = p],
                                Gone(p, "queued", Gone(e.q, "dropped", r.s))), hint |-> {}]
              [] OTHER -> [s |-> With(r.i, Pending(e), Gone(p, "dropped", r.s)), hint |-> {}]
        Found(r) == Query(r, r.s.t[r.i])
    IN Found(etharp_find_entry(ip, FALSE, s))

-----------------------------------------------------------------------------
(* The operations the rest of the stack calls.                                 *)

State == [t |-> arp_table, f |-> fate]

Becomes(s) == arp_table' = s.t /\ fate' = s.f

\* An entry with the hardware address of dst.
Usable(i, dst) == arp_table[i].state \in Resolved /\ arp_table[i].ip = dst

\* Mutant: the cached index is used for whatever address.
CacheHitsAnyAddress(dst) == arp_table[etharp_cached_entry].state \in Resolved
\* etharp_output tries the index that the last packet used.
CacheHits(dst) == Usable(etharp_cached_entry, dst)

\* etharp_output: broadcasts go out at once; a unicast goes to the address
\* itself or to the gateway, through the cached entry, the first stable entry
\* for it, or a query.
etharp_output(p, memory) ==
    LET ip == Dest[p]
        dst == IF ip \in OnLink THEN ip ELSE Gateway
        known == {i \in Entries: Usable(i, dst)}
        i == IF CacheHits(dst) THEN etharp_cached_entry ELSE Min(known)
    IN /\ fate[p] = "new"
       /\ \/ /\ ip = Broadcast
             /\ Becomes(Gone(p, Broadcast, State))
             /\ UNCHANGED etharp_cached_entry
          \/ /\ ip # Broadcast /\ dst = "any"
             /\ Becomes(Gone(p, "dropped", State))
             /\ UNCHANGED etharp_cached_entry
          \/ /\ ip # Broadcast /\ dst # "any" /\ known # {}
             /\ Becomes(etharp_output_to_arp_index(p, i, memory, State))
             /\ etharp_cached_entry' = i
          \/ /\ ip # Broadcast /\ dst # "any" /\ known = {}
             /\ \E query \in {etharp_query(p, dst, memory, State)}:
                    /\ Becomes(query.s)
                    /\ etharp_cached_entry' = CHOOSE c \in query.hint \cup {etharp_cached_entry}:
                                                  query.hint = {} \/ c \in query.hint

\* etharp_input of a request or reply sent by ip: only one addressed to this
\* host may create an entry.
etharp_input(ip, eth, for_us) ==
    /\ Becomes(etharp_update_arp_entry(ip, eth, ~for_us, "STABLE", State))
    /\ UNCHANGED etharp_cached_entry

\* etharp_add_static_entry and etharp_remove_static_entry.
etharp_add_static_entry(ip) ==
    /\ Becomes(etharp_update_arp_entry(ip, Statics[ip], FALSE, "STATIC", State))
    /\ UNCHANGED etharp_cached_entry

etharp_remove_static_entry(ip) ==
    \E i \in Matching(arp_table, ip):
        /\ arp_table[i].state = "STATIC"
        /\ Becomes(etharp_free_entry(i, State))
        /\ UNCHANGED etharp_cached_entry

\* Mutant: an entry that waits for its answer does not age.
AgedUnlessPending(e) == IF e.state = "PENDING" THEN e ELSE [e EXCEPT !.ctime = @ + 1]

\* One entry a tick older: Empty when it expires.
Aged(e) ==
    LET old == [e EXCEPT !.ctime = @ + 1] IN
    CASE old.ctime >= ARP_MAXAGE \/ (e.state = "PENDING" /\ old.ctime >= ARP_MAXPENDING) -> Empty
      [] e.state = "STABLE_REREQUESTING_1" /\ old.ctime < ARP_MAXAGE ->
            [old EXCEPT !.state = "STABLE_REREQUESTING_2"]
      [] e.state = "STABLE_REREQUESTING_2" /\ old.ctime < ARP_MAXAGE ->
            [old EXCEPT !.state = "STABLE"]
      [] OTHER -> old

\* etharp_tmr: every entry ages; the packet of an entry that expires is freed.
etharp_tmr ==
    LET aged == [i \in Entries |-> IF arp_table[i].state \in {"EMPTY", "STATIC"}
                                 THEN arp_table[i] ELSE Aged(arp_table[i])]
        freed == {arp_table[i].q: i \in {j \in Entries: aged[j] = Empty}}
    IN /\ \E i \in Entries: arp_table[i].state \notin {"EMPTY", "STATIC"}
       /\ arp_table' = aged
       /\ fate' = [p \in Packets |-> IF p \in freed THEN "dropped" ELSE fate[p]]
       /\ UNCHANGED etharp_cached_entry

\* etharp_cleanup_netif, when the interface goes down or is removed.
etharp_cleanup_netif ==
    /\ \E i \in Entries: arp_table[i].state # "EMPTY"
    /\ arp_table' = [i \in Entries |-> Empty]
    /\ fate' = [p \in Packets |-> IF fate[p] = "queued" THEN "dropped" ELSE fate[p]]
    /\ UNCHANGED etharp_cached_entry

-----------------------------------------------------------------------------

Init ==
    /\ arp_table = [i \in Entries |-> Empty]
    /\ etharp_cached_entry = 0
    /\ fate = [p \in Packets |-> "new"]

Next ==
    \/ \E p \in Packets, memory \in BOOLEAN: etharp_output(p, memory)
    \/ \E ip \in DOMAIN Claims, for_us \in BOOLEAN:
           \E eth \in Claims[ip]: etharp_input(ip, eth, for_us)
    \/ \E ip \in DOMAIN Statics: etharp_add_static_entry(ip) \/ etharp_remove_static_entry(ip)
    \/ etharp_tmr
    \/ etharp_cleanup_netif

\* sys_check_timeouts runs etharp_tmr every ARP_TMR_INTERVAL.
Fairness == WF_vars(etharp_tmr)

Spec == Init /\ [][Next]_vars /\ Fairness

-----------------------------------------------------------------------------

\* A packet waits in exactly one entry, and only a pending entry holds one: the
\* assertion of etharp_find_entry ("arp_table[i].q == NULL") on a recycled stable
\* entry holds, and no packet is leaked or sent twice by recycling, by an answer
\* or by the timer.
QueuedOnce ==
    /\ \A p \in Packets:
        Cardinality({i \in Entries: arp_table[i].q = p}) = IF fate[p] = "queued" THEN 1 ELSE 0
    /\ \A i \in Entries: arp_table[i].q # NoPacket => arp_table[i].state = "PENDING"
    /\ \A i, j \in Entries:
        (arp_table[i].state # "EMPTY" /\ arp_table[i].ip = arp_table[j].ip
            /\ arp_table[j].state # "EMPTY") => i = j

NextHop(p) == IF Dest[p] \in OnLink THEN Dest[p] ELSE Gateway

\* A unicast packet goes only to a hardware address that its next hop itself
\* announces or that it was given statically, also through the cached index, which
\* outlives the entry it was taken from, and through an entry that was recycled
\* for another address.
SentToOwner ==
    \A p \in Packets:
        fate[p] \notin {"new", "queued", "dropped", Broadcast} => fate[p] \in Claims[NextHop(p)]

\* What the table of etharp.c owes its callers whatever is sent, announced and
\* recycled: QueuedOnce and SentToOwner.
ArpSound == QueuedOnce /\ SentToOwner

\* A packet that waits for an address is sent or freed in the end: ARP_MAXPENDING
\* ticks free it, and a packet that takes its place cannot keep the entry.
WaitEnds == \A p \in Packets: []<>(fate[p] # "queued")
=============================================================================
