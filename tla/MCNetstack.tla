----------------------------- MODULE MCNetstack -----------------------------
(* The parts of the network stack that hand out and find resources, on small   *)
(* instances.  The first state picks one part, and only that part moves: the   *)
(* heap, packet buffers, the reception of packets by the driver, the control   *)
(* blocks of TCP and of UDP, and interfaces with the blocks of the raw API.    *)
EXTENDS Heap, Sequences, TLC

VARIABLES
    part,
    pbuf, holders,
    rx, arrived, rok, unmasked, handler, packets, read_pos, write_pos, reader, packet,
    stored, got, raced,
    pcb, lpcb, tcp_bound_pcbs, tcp_active_pcbs, tcp_tw_pcbs, tcp_listen_pcbs, tcp_port,
    netif_addr, allocated,
    upcb, udp_pcbs, udp_port, netif_ip, received,
    netif, netif_list, netif_default, arp, raw, raw_pcbs, moved

pbufVars == <<pbuf, holders>>
nicVars == <<rx, arrived, rok, unmasked, handler, packets, read_pos, write_pos, reader, packet,
             stored, got, raced>>
pcbVars == <<pcb, lpcb, tcp_bound_pcbs, tcp_active_pcbs, tcp_tw_pcbs, tcp_listen_pcbs, tcp_port,
             netif_addr, allocated>>
udpVars == <<upcb, udp_pcbs, udp_port, netif_ip, received>>
netifVars == <<netif, netif_list, netif_default, arp, raw, raw_pcbs, moved>>

P == INSTANCE Pbuf WITH
        held <- holders, Bufs <- 1 .. 3, BUFSIZE <- 1, Lengths <- {1, 2}, Headroom <- 0,
        MaxHeld <- 2

N == INSTANCE Nic WITH PACKET_ARRAY_LENGTH <- 2, RxRoom <- 3, MaxPackets <- 6, Bad <- {4}

\* One port and one peer, so that connections meet.
C == INSTANCE Pcbs WITH
        Blocks <- {"b1", "b2"}, Slots <- {"l1", "l2"}, Prios <- {1, 2}, BindPorts <- {1},
        RangeStart <- 1, RangeEnd <- 2, Addrs <- {"a1", "a2"}, Remotes <- {"r1"},
        Old <- 1, Retry <- FALSE

U == INSTANCE Udp WITH
        Blocks <- {"b1", "b2"}, BindPorts <- {2}, RangeStart <- 1, RangeEnd <- 2,
        Addrs <- {"a1", "a2"}, Remotes <- {"r1", "r2"}

\* Two interfaces on one network, and a host beyond it.
I == INSTANCE Netif WITH
        Netifs <- {"n1", "n2"}, Addrs <- {"a1", "any"}, Hosts <- {"far"},
        NetOf <- [a1 |-> "here", any |-> "none", far |-> "there"], RawBlocks <- {"b1"},
        Protocols <- {"icmp"}, BindAddrs <- {}, Remotes <- {}, RemovesSelf <- FALSE, Lifts <- TRUE, UpOnly <- TRUE

\* Two blocks on one interface.
R == INSTANCE Netif WITH
        Netifs <- {"n1"}, Addrs <- {"a1", "a2"}, Hosts <- {"near"},
        NetOf <- [a1 |-> "here", a2 |-> "here", near |-> "here"], RawBlocks <- {"b1", "b2"},
        Protocols <- {"icmp"}, BindAddrs <- {"a1"}, Remotes <- {"near"},
        RemovesSelf <- FALSE, Lifts <- TRUE, UpOnly <- TRUE

ASSUME PbufInstance == P!PbufAssumption
ASSUME PcbsInstance == C!PcbsAssumption
ASSUME UdpInstance == U!UdpAssumption
ASSUME NetifInstances == I!NetifAssumption /\ R!NetifAssumption

Parts == {"heap", "pbuf", "nic", "pcbs", "udp", "netif", "raw"}

-----------------------------------------------------------------------------

MCInit ==
    /\ part \in Parts
    /\ Init /\ P!Init /\ N!Init /\ C!Init /\ U!Init
    /\ part # "pcbs" => netif_addr = "a1"
    /\ part # "udp" => netif_ip = "a1"
    /\ IF part = "raw" THEN R!Init ELSE I!Init

MCNext ==
    /\ UNCHANGED part
    /\ \/ part = "heap" /\ Next
          /\ UNCHANGED <<pbufVars, nicVars, pcbVars, udpVars, netifVars>>
       \/ part = "pbuf" /\ P!Next
          /\ UNCHANGED <<vars, nicVars, pcbVars, udpVars, netifVars>>
       \/ part = "nic" /\ N!Next
          /\ UNCHANGED <<vars, pbufVars, pcbVars, udpVars, netifVars>>
       \/ part = "pcbs" /\ C!Next
          /\ UNCHANGED <<vars, pbufVars, nicVars, udpVars, netifVars>>
       \/ part = "udp" /\ U!Next
          /\ UNCHANGED <<vars, pbufVars, nicVars, pcbVars, netifVars>>
       \/ part = "netif" /\ I!Next
          /\ UNCHANGED <<vars, pbufVars, nicVars, pcbVars, udpVars>>
       \/ part = "raw" /\ R!Next
          /\ UNCHANGED <<vars, pbufVars, nicVars, pcbVars, udpVars>>

MCSpec == MCInit /\ [][MCNext]_<<part, vars, pbufVars, nicVars, pcbVars, udpVars, netifVars>>

-----------------------------------------------------------------------------
(* The properties of the parts, each for the behaviours in which its part      *)
(* moves.                                                                      *)

\* The property of the same name of Pbuf, about chains of buffers.
ChainsSound == part = "pbuf" => P!ChainsSound
\* The property of the same name of Nic, about recv_packet_array.
ReadsInOrder == part = "nic" => N!ReadsInOrder
\* The property of the same name of Pcbs, about the lists of control blocks.
PcbsSound == part = "pcbs" => C!PcbsSound
\* The property of the same name of Pcbs, about tcp_alloc.
ReclaimsLeast == C!ReclaimsLeast
\* UdpSound of Udp, about udp_bind and udp_input, and NetifSound of Netif, about
\* netif_add, netif_remove, ip4_route, raw_bind_netif and raw_input: packets reach
\* the blocks and leave through the interfaces that were asked for.
EndpointsSound ==
    /\ part = "udp" => U!UdpSound
    /\ part = "netif" => I!NetifSound
    /\ part = "raw" => R!NetifSound
=============================================================================
