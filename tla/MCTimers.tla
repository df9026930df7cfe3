------------------------------ MODULE MCTimers ------------------------------
(* The parts of the network stack that timers drive, on small instances.  The  *)
(* first state picks one part, and only that part moves: IP fragments, address *)
(* resolution with and without a gateway, and the timers themselves.           *)
EXTENDS Integers, FiniteSets, Sequences, TLC

VARIABLES
    part,
    unsent, wire, reass, delivered, dups,
    arp_table, etharp_cached_entry, fate,
    now, timeouts, check, pcbs, tcpip_tcp_timer_active, panic

fragmentVars == <<unsent, wire, reass, delivered, dups>>
arpVars == <<arp_table, etharp_cached_entry, fate>>
timeoutVars == <<now, timeouts, check, pcbs, tcpip_tcp_timer_active, panic>>

F == INSTANCE Fragments WITH
        Datagrams <- {"a", "b", "c"}, Blocks <- [a |-> 3, b |-> 2, c |-> 2],
        Mtu <- 2, PathMtu <- 1, PoolBlocks <- 1, IP_REASS_MAX_PBUFS <- 3,
        IP_REASS_MAXAGE <- 1, MEMP_NUM_REASSDATA <- 2, MaxDups <- 1

Claims == [A |-> {"eA"}, B |-> {"eB"}, G |-> {"eG"}]
Statics == [A |-> "eA", B |-> "eB"]

A == INSTANCE Arp WITH
        Packets <- {"p", "q", "r"}, Dest <- [p |-> "A", q |-> "B", r |-> "far"],
        OnLink <- {"A", "B", "G"}, Gateway <- "G", Broadcast <- "bcast",
        ARP_TABLE_SIZE <- 2, ARP_MAXAGE <- 3, ARP_MAXPENDING <- 2,
        RerequestUnicast <- 1, RerequestBroadcast <- 2

ANoGateway == INSTANCE Arp WITH
        Packets <- {"p", "q", "r"}, Dest <- [p |-> "A", q |-> "bcast", r |-> "far"],
        OnLink <- {"A", "B", "G"}, Gateway <- "any", Broadcast <- "bcast",
        ARP_TABLE_SIZE <- 2, ARP_MAXAGE <- 3, ARP_MAXPENDING <- 2,
        RerequestUnicast <- 1, RerequestBroadcast <- 2

T == INSTANCE Timeouts WITH
        TimeSpace <- 10, Cyclic <- {"arp", "reass"}, Interval <- [arp |-> 3, reass |-> 2],
        TCP_TMR_INTERVAL <- 1, Apps <- {"app"}, AppMsecs <- {2}, MEMP_NUM_SYS_TIMEOUT <- 4,
        MaxPcbs <- 1, MaxLate <- 1

ASSUME FragmentsInstance == F!FragmentsAssumption
ASSUME ArpInstances == A!ArpAssumption /\ ANoGateway!ArpAssumption
ASSUME TimeoutsInstance == T!TimeoutsAssumption

-----------------------------------------------------------------------------

MCInit ==
    /\ part \in {"fragments", "arp", "arp_no_gateway", "timeouts"}
    /\ F!Init /\ A!Init /\ T!Init
    /\ part # "timeouts" => now = 0

MCNext ==
    /\ UNCHANGED part
    /\ \/ part = "fragments" /\ F!Next /\ UNCHANGED <<arpVars, timeoutVars>>
       \/ part = "arp" /\ A!Next /\ UNCHANGED <<fragmentVars, timeoutVars>>
       \/ part = "arp_no_gateway" /\ ANoGateway!Next /\ UNCHANGED <<fragmentVars, timeoutVars>>
       \/ part = "timeouts" /\ T!Next /\ UNCHANGED <<fragmentVars, arpVars>>

MCSpec ==
    /\ MCInit
    /\ [][MCNext]_<<part, fragmentVars, arpVars, timeoutVars>>
    /\ WF_fragmentVars(part = "fragments" /\ F!ip_reass_tmr)
    /\ WF_arpVars(part = "arp" /\ A!etharp_tmr)
    /\ WF_arpVars(part = "arp_no_gateway" /\ ANoGateway!etharp_tmr)
    /\ WF_timeoutVars(part = "timeouts" /\ T!Tick)
    /\ WF_timeoutVars(part = "timeouts" /\ T!BeginCheck)
    /\ WF_timeoutVars(part = "timeouts" /\ T!EndCheck)
    /\ \A h \in T!Handlers: WF_timeoutVars(part = "timeouts" /\ T!RunTimeout(h))

-----------------------------------------------------------------------------
(* The properties of the parts, each for the behaviours in which its part      *)
(* moves.                                                                      *)

\* The property of the same name of Fragments, about ip4_reass.
ReassemblySound == part = "fragments" => F!ReassemblySound
\* The property of the same name of Fragments, about ip_reass_tmr.
ReassemblyEnds == F!ReassemblyEnds
\* The property of the same name of Arp, about etharp_query and etharp_output.
ArpSound == part \in {"arp", "arp_no_gateway"} => A!ArpSound
\* The property of the same name of Arp, about etharp_tmr.
WaitEnds == A!WaitEnds
\* The property of the same name of Timeouts, about sys_timeout_abs.
TimeoutsSound == part = "timeouts" => T!TimeoutsSound
\* The property of the same name of Timeouts, about sys_check_timeouts.
CyclicTimersRun == part = "timeouts" => T!CyclicTimersRun
=============================================================================
