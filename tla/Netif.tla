------------------------------- MODULE Netif --------------------------------
(* The interfaces of the network stack (netif.c), the choice between them      *)
(* (ip4.c), and the control blocks of the raw API (raw.c), which may be bound  *)
(* to one of them.                                                             *)
(*                                                                             *)
(* An address stands for itself, its netmask and its gateway, which            *)
(* netif_set_addr() sets together.  Interfaces are those of the Ethernet       *)
(* driver; broadcast and multicast are left out.  Of the ARP table there is    *)
(* only which interfaces its entries refer to; Arp has the rest.               *)
EXTENDS Integers, Sequences, FiniteSetsExt, SequencesExt

CONSTANTS
    Netifs,
    Addrs,                  \* addresses that interfaces are given, perhaps ANY
    Hosts, NetOf,           \* other hosts, and the network of each address
    RawBlocks,              \* the pool MEMP_RAW_PCB
    Protocols,
    BindAddrs, Remotes,     \* what blocks are bound and connected to
    RemovesSelf,            \* a callback that keeps a packet may remove its block
    Lifts,                  \* blocks are not bound to an interface that is removed
    UpOnly                  \* an interface is used only while it is up

ANY == "any"
NULL == "NULL"

NetifAssumption ==
    /\ NetOf \in [Addrs \cup Hosts -> STRING]
    /\ BindAddrs \subseteq Addrs \cup {ANY} /\ Remotes \subseteq Hosts
    /\ {ANY, NULL} \cap (Hosts \cup Netifs \cup RawBlocks) = {}

VARIABLES
    netif,                  \* number, address and flags of each interface
    netif_list, netif_default,
    arp,                    \* the interfaces that entries of the ARP table name
    raw,                    \* the blocks
    raw_pcbs,
    moved                   \* ghost: the packet that was sent or received last

netifVars == <<netif, netif_list, netif_default, arp>>
rawVars == <<raw, raw_pcbs>>
vars == <<netifVars, rawVars, moved>>

Listed == ToSet(netif_list)
InUse == {b \in RawBlocks : raw[b].used}
Index(n) == netif[n].num + 1
NoIndex == 0

Absent == [num |-> 0, addr |-> ANY, up |-> FALSE, link |-> FALSE]

\* memset() of raw_new(); "bound" is a ghost, the interface that raw_bind_netif()
\* was given.
NewRaw(proto) == [used |-> TRUE, protocol |-> proto, local_ip |-> ANY, remote_ip |-> ANY,
                  connected |-> FALSE, netif_idx |-> NoIndex, bound |-> NULL]
Free == [NewRaw(NULL) EXCEPT !.used = FALSE]
Still == [via |-> NULL, out |-> FALSE, blocks |-> {}]

Init ==
    /\ netif = [n \in Netifs |-> Absent] /\ netif_list = <<>> /\ netif_default = NULL
    /\ arp = {}
    /\ raw = [b \in RawBlocks |-> Free] /\ raw_pcbs = <<>>
    /\ moved = Still

-----------------------------------------------------------------------------
(* Interfaces *)

\* The loop of netif_add() that makes the number unique.  It starts at 0, since
\* nic_driver_if_init() has overwritten the number that netif_num gave.
UniqueNum == Min((0..Len(netif_list)) \ {netif[m].num : m \in Listed})

\* What netif_add() and nic_driver_if_init() leave in the interface
NewNetif(addr) == [num |-> UniqueNum, addr |-> addr, up |-> FALSE, link |-> TRUE]

\* An interface whose initialization fails is not listed; the next netif_add()
\* resets what it has changed in it.
netif_add(n, addr) ==
    /\ n \notin Listed
    /\ netif' = [netif EXCEPT ![n] = NewNetif(addr)]
    /\ netif_list' = <<n>> \o netif_list
    /\ moved' = Still
    /\ UNCHANGED <<netif_default, arp, rawVars>>

\* raw_netif_ip_addr_changed()
Rebound(old, new) ==
    [b \in RawBlocks |-> IF b \in ToSet(raw_pcbs) /\ ANY \notin {old, new} /\ raw[b].local_ip = old
                         THEN [raw[b] EXCEPT !.local_ip = new] ELSE raw[b]]

netif_set_addr(n, addr) ==
    /\ n \in Listed /\ netif[n].addr # addr
    /\ raw' = Rebound(netif[n].addr, addr)
    /\ netif' = [netif EXCEPT ![n].addr = addr]
    /\ moved' = Still
    /\ UNCHANGED <<netif_list, netif_default, arp, raw_pcbs>>

\* The blocks of TCP, which netif_do_ip_addr_changed() aborts, are in Pcbs.  What
\* is left in the interface is reset when it is added again.
netif_remove(n) ==
    /\ n \in Listed
    /\ Lifts => \A b \in InUse : raw[b].netif_idx # Index(n)
    /\ arp' = IF netif[n].up THEN arp \ {n} ELSE arp
    /\ netif' = [netif EXCEPT ![n] = Absent]
    /\ netif_default' = IF netif_default = n THEN NULL ELSE netif_default
    /\ netif_list' = SelectSeq(netif_list, LAMBDA m : m # n)
    /\ moved' = Still
    /\ UNCHANGED rawVars

netif_set_default(n) ==
    /\ n \in Listed \cup {NULL}
    /\ netif_default' = n
    /\ moved' = Still
    /\ UNCHANGED <<netif, netif_list, arp, rawVars>>

netif_set_up(n) ==
    /\ n \in Listed /\ ~netif[n].up
    /\ netif' = [netif EXCEPT ![n].up = TRUE]
    /\ moved' = Still
    /\ UNCHANGED <<netif_list, netif_default, arp, rawVars>>

\* With etharp_cleanup_netif()
netif_set_down(n) ==
    /\ n \in Listed /\ netif[n].up
    /\ netif' = [netif EXCEPT ![n].up = FALSE]
    /\ arp' = arp \ {n}
    /\ moved' = Still
    /\ UNCHANGED <<netif_list, netif_default, rawVars>>

netif_set_link(n) ==
    /\ n \in Listed
    /\ netif' = [netif EXCEPT ![n].link = ~@]
    /\ moved' = Still
    /\ UNCHANGED <<netif_list, netif_default, arp, rawVars>>

netif_get_by_index(idx) ==
    LET found == SelectSeq(netif_list, LAMBDA m : Index(m) = idx)
    IN IF found = <<>> THEN NULL ELSE Head(found)

-----------------------------------------------------------------------------
(* Routing *)

Usable(n) == netif[n].up /\ netif[n].link /\ netif[n].addr # ANY

ip4_route(dest) ==
    LET near == SelectSeq(netif_list, LAMBDA m : Usable(m) /\ NetOf[netif[m].addr] = NetOf[dest])
    IN IF near # <<>> THEN Head(near)
       ELSE IF netif_default # NULL /\ Usable(netif_default) THEN netif_default
       ELSE NULL

\* An ARP packet for this host
etharp_input(n) ==
    /\ n \in Listed /\ netif[n].addr # ANY
    /\ UpOnly => netif[n].up
    /\ arp' = arp \cup {n}
    /\ moved' = Still
    /\ UNCHANGED <<netif, netif_list, netif_default, rawVars>>

\* The last entry for an interface expires.
etharp_tmr(n) ==
    /\ n \in arp
    /\ arp' = arp \ {n}
    /\ moved' = Still
    /\ UNCHANGED <<netif, netif_list, netif_default, rawVars>>

-----------------------------------------------------------------------------
(* Raw blocks.  Their users set the callback as soon as they have a block. *)

Without(b) == SelectSeq(raw_pcbs, LAMBDA c : c # b)

raw_new(b, proto) ==
    /\ b \notin InUse
    /\ raw' = [raw EXCEPT ![b] = NewRaw(proto)]
    /\ raw_pcbs' = <<b>> \o raw_pcbs
    /\ moved' = Still
    /\ UNCHANGED netifVars

raw_remove(b) ==
    /\ b \in InUse
    /\ raw' = [raw EXCEPT ![b] = Free]
    /\ raw_pcbs' = Without(b)
    /\ moved' = Still
    /\ UNCHANGED netifVars

Change(b, block) ==
    /\ b \in InUse
    /\ raw' = [raw EXCEPT ![b] = block]
    /\ moved' = Still
    /\ UNCHANGED <<raw_pcbs, netifVars>>

raw_bind(b, addr) == Change(b, [raw[b] EXCEPT !.local_ip = addr])

raw_bind_netif(b, n) ==
    /\ n \in Listed \cup {NULL}
    /\ Change(b, [raw[b] EXCEPT !.netif_idx = IF n = NULL THEN NoIndex ELSE Index(n), !.bound = n])

raw_connect(b, host) == Change(b, [raw[b] EXCEPT !.remote_ip = host, !.connected = TRUE])

raw_disconnect(b) ==
    Change(b, [raw[b] EXCEPT !.remote_ip = ANY, !.connected = FALSE,
                             !.netif_idx = NoIndex, !.bound = NULL])

\* raw_sendto() down to etharp_output(), which makes an entry for the next hop.
raw_sendto(b, host) ==
    LET n == IF raw[b].netif_idx # NoIndex THEN netif_get_by_index(raw[b].netif_idx)
             ELSE ip4_route(host)
    IN /\ b \in InUse /\ n # NULL
       /\ UpOnly => netif[n].up
       /\ arp' = arp \cup {n}
       /\ moved' = [via |-> n, out |-> TRUE, blocks |-> {b}]
       /\ UNCHANGED <<netif, netif_list, netif_default, rawVars>>

raw_input_local_match(b, inp, dest) ==
    /\ raw[b].netif_idx \in {NoIndex, Index(inp)}
    /\ raw[b].local_ip \in {ANY, dest}

\* The blocks that get the packet, in the order of the list
Matching(inp, dest, src, proto) ==
    SelectSeq(raw_pcbs, LAMBDA b : /\ raw[b].protocol = proto
                                   /\ raw_input_local_match(b, inp, dest)
                                   /\ raw[b].connected => raw[b].remote_ip = src)

\* The block "eater" keeps the packet and moves to the front of the list, even
\* when its callback has removed it; with NULL the packet goes on to TCP or UDP.
raw_input(inp, blocks, eater, removed) ==
    LET eaten == SelectInSeq(blocks, LAMBDA c : c = eater)
    IN /\ eater \in ToSet(blocks) \cup {NULL}
       /\ removed => RemovesSelf /\ eater # NULL
       /\ raw' = IF removed THEN [raw EXCEPT ![eater] = Free] ELSE raw
       /\ raw_pcbs' = IF eater = NULL THEN raw_pcbs
                      ELSE IF removed /\ eater = Head(raw_pcbs) THEN Tail(raw_pcbs)
                      ELSE <<eater>> \o Without(eater)
       /\ moved' = [via |-> inp, out |-> FALSE,
                    blocks |-> IF eater = NULL THEN ToSet(blocks)
                               ELSE {blocks[i] : i \in 1..eaten}]

ip4_input_accept(n, dest) == netif[n].up /\ netif[n].addr = dest

\* The packet may come in through another interface than the one it is for.
ip4_input(inp, dest, src, proto, eater, removed) ==
    /\ inp \in Listed /\ \E n \in Listed : ip4_input_accept(n, dest)
    /\ raw_input(inp, Matching(inp, dest, src, proto), eater, removed)
    /\ UNCHANGED netifVars

Next ==
    \/ \E n \in Netifs :
        \/ \E addr \in Addrs : netif_add(n, addr) \/ netif_set_addr(n, addr)
        \/ netif_remove(n) \/ netif_set_up(n) \/ netif_set_down(n) \/ netif_set_link(n)
        \/ etharp_input(n) \/ etharp_tmr(n)
    \/ \E n \in Netifs \cup {NULL} :
        netif_set_default(n) \/ \E b \in RawBlocks : raw_bind_netif(b, n)
    \/ \E b \in RawBlocks :
        \/ \E proto \in Protocols : raw_new(b, proto)
        \/ raw_remove(b) \/ raw_disconnect(b)
        \/ \E addr \in BindAddrs : raw_bind(b, addr)
        \/ \E host \in Remotes : raw_connect(b, host)
        \/ \E host \in Hosts : raw_sendto(b, host)
    \/ \E inp \in Netifs, dest \in Addrs \ {ANY}, src \in Hosts, proto \in Protocols,
          eater \in RawBlocks \cup {NULL}, removed \in BOOLEAN :
        ip4_input(inp, dest, src, proto, eater, removed)

Spec == Init /\ [][Next]_vars

-----------------------------------------------------------------------------

\* No two interfaces share an index, though the driver restarts every search for
\* one, and neither the default route nor, while interfaces are used only when
\* they are up, the ARP table refers to one that was removed: etharp_tmr() and
\* ip4_route() follow these pointers.
InterfacesSound ==
    /\ \A n, m \in Listed : n # m => Index(n) # Index(m)
    /\ netif_default \in Listed \cup {NULL}
    /\ arp \subseteq Listed

\* What the comment on raw_bind_netif() promises: packets of a block come in and
\* go out through the interface that it was bound to.
BindingHolds ==
    \A b \in moved.blocks \cap InUse : raw[b].bound \in {NULL, moved.via}

\* A packet that no binding directs goes out through an interface that is up, has
\* a link and an address.
RouteUsable ==
    moved.out /\ (\A b \in moved.blocks : raw[b].bound = NULL) => Usable(moved.via)

\* The list holds exactly the blocks in use, once each, though a packet that is
\* kept changes its order.
RawListed == IsInjective(raw_pcbs) /\ ToSet(raw_pcbs) = InUse

\* What netif.c, ip4.c and raw.c owe each other: the four properties above.
NetifSound == InterfacesSound /\ BindingHolds /\ RouteUsable /\ RawListed
=============================================================================
