-------------------------------- MODULE Udp ---------------------------------
(* The control blocks of UDP: their list, their ports and the search for the  *)
(* receiver of a datagram (udp.c).  There is one interface, so the binding to *)
(* an interface is left out, and no broadcast.                                *)
EXTENDS Integers, Sequences, FiniteSetsExt, SequencesExt

CONSTANTS
    Blocks,                 \* the pool MEMP_UDP_PCB
    BindPorts,              \* ports applications name
    RangeStart, RangeEnd,   \* UDP_LOCAL_PORT_RANGE_START and _END
    Addrs,                  \* addresses the interface may have
    Remotes                 \* a remote address and port

UdpAssumption ==
    /\ RangeStart \in Nat /\ RangeEnd \in Nat /\ 0 < RangeStart /\ RangeStart =< RangeEnd
    /\ 0 \notin BindPorts

VARIABLES
    upcb,           \* the blocks
    udp_pcbs,       \* their list
    udp_port,       \* the last port that was chosen
    netif_ip,       \* address of the interface
    received        \* ghost: the datagram of the last step and who got it

vars == <<upcb, udp_pcbs, udp_port, netif_ip, received>>

NULL == "null"
ANY == "any"

Free == [used |-> FALSE, ip |-> ANY, port |-> 0, remote |-> NULL]
NewPcb == [Free EXCEPT !.used = TRUE]
NoDatagram == [port |-> 0, from |-> NULL, to |-> NULL]

Overlap(ip1, ip2) == ip1 = ANY \/ ip2 = ANY \/ ip1 = ip2

udp_new ==
    /\ \E b \in Blocks : ~upcb[b].used /\ upcb' = [upcb EXCEPT ![b] = NewPcb]
    /\ received' = NoDatagram
    /\ UNCHANGED <<udp_pcbs, udp_port, netif_ip>>

udp_remove(b) ==
    /\ upcb[b].used
    /\ upcb' = [upcb EXCEPT ![b] = Free]
    /\ udp_pcbs' = Remove(udp_pcbs, b)
    /\ received' = NoDatagram
    /\ UNCHANGED <<udp_port, netif_ip>>

\* The search starts after the last port chosen and tries every port of the
\* range.  Port 0 means that there is none.
udp_new_port ==
    LET n == RangeEnd - RangeStart + 1
        Try(k) == RangeStart + ((udp_port - RangeStart + k) % n)
        unused == {k \in 1..n : \A c \in Range(udp_pcbs) : upcb[c].port # Try(k)}
    IN IF unused = {} THEN [port |-> 0, last |-> Try(n)]
       ELSE [port |-> Try(Min(unused)), last |-> Try(Min(unused))]

BindTwice(b, ip, port) ==
    LET new == IF port = 0 THEN udp_new_port ELSE [port |-> port, last |-> udp_port]
        used == \E c \in Range(udp_pcbs) : upcb[c].port = port /\ Overlap(upcb[c].ip, ip)
    IN [ok |-> new.port # 0 /\ (port = 0 \/ ~used), last |-> new.last,
        pcb |-> [upcb EXCEPT ![b].ip = ip, ![b].port = new.port],
        list |-> <<b>> \o udp_pcbs]

\* What udp_bind() makes of the blocks and the list, if it succeeds.  A block
\* may be bound again.
Bind(b, ip, port) ==
    LET new == IF port = 0 THEN udp_new_port ELSE [port |-> port, last |-> udp_port]
        used == \E c \in Range(udp_pcbs) \ {b} :
                    upcb[c].port = port /\ Overlap(upcb[c].ip, ip)
    IN [ok |-> new.port # 0 /\ (port = 0 \/ ~used), last |-> new.last,
        pcb |-> [upcb EXCEPT ![b].ip = ip, ![b].port = new.port],
        list |-> IF b \in Range(udp_pcbs) THEN udp_pcbs ELSE <<b>> \o udp_pcbs]

udp_bind(b, ip, port) ==
    LET r == Bind(b, ip, port) IN
    /\ upcb[b].used
    /\ upcb' = IF r.ok THEN r.pcb ELSE upcb
    /\ udp_pcbs' = IF r.ok THEN r.list ELSE udp_pcbs
    /\ udp_port' = r.last
    /\ received' = NoDatagram /\ UNCHANGED netif_ip

\* A block without a port is given one, to connect and to send.
Bound(b) == IF upcb[b].port = 0 THEN Bind(b, upcb[b].ip, 0)
            ELSE [ok |-> TRUE, last |-> udp_port, pcb |-> upcb, list |-> udp_pcbs]

udp_connect(b, remote) ==
    LET r == Bound(b) IN
    /\ upcb[b].used
    /\ upcb' = IF r.ok THEN [r.pcb EXCEPT ![b].remote = remote] ELSE upcb
    /\ udp_pcbs' = IF r.ok THEN r.list ELSE udp_pcbs
    /\ udp_port' = r.last
    /\ received' = NoDatagram /\ UNCHANGED netif_ip

udp_disconnect(b) ==
    /\ upcb[b].remote # NULL
    /\ upcb' = [upcb EXCEPT ![b].remote = NULL]
    /\ received' = NoDatagram /\ UNCHANGED <<udp_pcbs, udp_port, netif_ip>>

\* Of udp_sendto(), what happens to the block: nothing when there is no route or
\* its address is no longer that of the interface.
udp_sendto(b) ==
    LET r == Bound(b) IN
    /\ upcb[b].used /\ upcb[b].port = 0
    /\ netif_ip # ANY /\ Overlap(upcb[b].ip, netif_ip)
    /\ upcb' = IF r.ok THEN r.pcb ELSE upcb
    /\ udp_pcbs' = IF r.ok THEN r.list ELSE udp_pcbs
    /\ udp_port' = r.last
    /\ received' = NoDatagram /\ UNCHANGED netif_ip

\* An interface without an address leaves the blocks alone.
udp_netif_ip_addr_changed(new) ==
    /\ new # netif_ip
    /\ netif_ip' = new
    /\ upcb' = IF ANY \in {netif_ip, new} THEN upcb
               ELSE [b \in Blocks |-> IF b \in Range(udp_pcbs) /\ upcb[b].ip = netif_ip
                                      THEN [upcb[b] EXCEPT !.ip = new] ELSE upcb[b]]
    /\ received' = NoDatagram /\ UNCHANGED <<udp_pcbs, udp_port>>

-----------------------------------------------------------------------------

udp_input_local_match(b, port) == upcb[b].port = port /\ Overlap(upcb[b].ip, netif_ip)

\* Index in the list of the block that is connected to the sender, which is moved
\* to the front, and of the first one that is not connected; 0 for none.
Connected(port, from) ==
    SelectInSeq(udp_pcbs, LAMBDA b : udp_input_local_match(b, port) /\ upcb[b].remote = from)
Unconnected(port, from) ==
    SelectInSeq(udp_pcbs, LAMBDA b : udp_input_local_match(b, port) /\ upcb[b].remote = NULL)

\* A datagram to the interface's address; nobody gets one that matches nothing.
udp_input(port, from) ==
    LET i == Connected(port, from)
        j == Unconnected(port, from)
    IN
    /\ netif_ip # ANY
    /\ udp_pcbs' = IF i = 0 THEN udp_pcbs ELSE <<udp_pcbs[i]>> \o RemoveAt(udp_pcbs, i)
    /\ received' = [port |-> port, from |-> from,
                    to |-> IF i # 0 THEN udp_pcbs[i] ELSE IF j # 0 THEN udp_pcbs[j] ELSE NULL]
    /\ UNCHANGED <<upcb, udp_port, netif_ip>>

Init ==
    /\ upcb = [b \in Blocks |-> Free]
    /\ udp_pcbs = <<>>
    /\ udp_port = RangeStart
    /\ netif_ip \in Addrs
    /\ received = NoDatagram

\* Applications bind to any address or to that of the interface.
Next ==
    \/ udp_new
    \/ \E b \in Blocks : udp_remove(b) \/ udp_disconnect(b) \/ udp_sendto(b)
    \/ \E b \in Blocks, ip \in {ANY, netif_ip}, port \in BindPorts \cup {0} : udp_bind(b, ip, port)
    \/ \E b \in Blocks, remote \in Remotes : udp_connect(b, remote)
    \/ \E new \in Addrs : udp_netif_ip_addr_changed(new)
    \/ \E port \in BindPorts \cup (RangeStart..RangeEnd), from \in Remotes : udp_input(port, from)

Spec == Init /\ [][Next]_vars

-----------------------------------------------------------------------------

\* After any sequence of binding, binding again, connecting, sending and changes
\* of address, the list holds exactly the blocks that have a port, once each, and
\* no two of them may claim the same datagram, as udp_bind() promises (ERR_USE).
PortsExclusive ==
    /\ IsInjective(udp_pcbs)
    /\ Range(udp_pcbs) = {b \in Blocks : upcb[b].port # 0}
    /\ \A b, c \in Range(udp_pcbs) :
          b # c /\ upcb[b].port = upcb[c].port => ~Overlap(upcb[b].ip, upcb[c].ip)

\* The block that holds the port of a datagram gets it, wherever it is on the
\* list, unless it is connected to somebody else.
DeliveredToHolder ==
    received.port # 0 =>
        received.to = LET holders == {b \in Blocks : /\ udp_input_local_match(b, received.port)
                                                     /\ upcb[b].remote \in {NULL, received.from}}
                      IN IF holders = {} THEN NULL ELSE CHOOSE b \in holders : TRUE

\* What udp.c owes applications: PortsExclusive and DeliveredToHolder.
UdpSound == PortsExclusive /\ DeliveredToHolder
=============================================================================
