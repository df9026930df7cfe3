-------------------------------- MODULE Pcbs --------------------------------
(* The control blocks of TCP: the pool they come from, the lists they are on *)
(* and the ports they hold (tcp.c, and the search of tcp_input() in          *)
(* tcp_in.c).  What a connection does with its bytes is the subject of Tcp;  *)
(* here a segment for a connection is a step along its state diagram.        *)
EXTENDS Integers, Sequences, FiniteSetsExt, SequencesExt

CONSTANTS
    Blocks,                 \* the pool MEMP_TCP_PCB
    Slots,                  \* the pool MEMP_TCP_PCB_LISTEN
    Prios,                  \* priorities applications ask for
    BindPorts,              \* ports applications name
    RangeStart, RangeEnd,   \* TCP_LOCAL_PORT_RANGE_START and _END
    Addrs,                  \* addresses the interface may have
    Remotes,                \* a remote address and port
    Old,                    \* age at which TIME_WAIT ends; ages stop there
    Retry                   \* a block whose tcp_connect() failed is used again

PcbsAssumption ==
    /\ RangeStart \in Nat /\ RangeEnd \in Nat /\ 0 < RangeStart /\ RangeStart < RangeEnd
    /\ 0 \notin BindPorts /\ 0 \notin Prios /\ Old \in Nat

VARIABLES
    pcb,            \* the blocks; age stands for tcp_ticks - tmr
    lpcb,           \* the listening blocks
    tcp_bound_pcbs, tcp_active_pcbs, tcp_tw_pcbs,   \* lists of blocks
    tcp_listen_pcbs,                                \* list of slots
    tcp_port,       \* the last port that was chosen
    netif_addr,     \* address of the interface
    allocated       \* ghost: the last step's tcp_alloc(): its priority and block

lists == <<tcp_bound_pcbs, tcp_active_pcbs, tcp_tw_pcbs>>
vars == <<pcb, lpcb, lists, tcp_listen_pcbs, tcp_port, netif_addr, allocated>>

NULL == "null"
ANY == "any"

Free == [state |-> "FREE", prio |-> 0, ip |-> ANY, port |-> 0, remote |-> NULL,
         age |-> 0, closepend |-> FALSE, listener |-> NULL]
NewPcb(prio) == [Free EXCEPT !.state = "CLOSED", !.prio = prio]
FreeSlot == [prio |-> 0, ip |-> ANY, port |-> 0]

Now == [pcb |-> pcb, bound |-> tcp_bound_pcbs, active |-> tcp_active_pcbs, tw |-> tcp_tw_pcbs]

Become(s) ==
    /\ pcb' = s.pcb
    /\ tcp_bound_pcbs' = s.bound
    /\ tcp_active_pcbs' = s.active
    /\ tcp_tw_pcbs' = s.tw

Nothing == [block |-> NULL, prio |-> 0]
NoAllocation == allocated' = Nothing

\* A block whose tcp_connect() failed; when it was not bound before, it has a
\* port then and is on no list.
Failed(b) == pcb[b].state = "CLOSED" /\ pcb[b].remote # NULL

\* What an application still holds: tcp_close() ends its use of the block, and
\* an incoming connection is not its own until it is accepted.
Held(b) == /\ pcb[b].state \in {"CLOSED", "SYN_SENT", "ESTABLISHED", "CLOSE_WAIT"}
           /\ ~pcb[b].closepend

-----------------------------------------------------------------------------
(* Allocation *)

\* TCP_RMV() from the list the state tells, and tcp_free()
Release(s, b) ==
    LET u == [s EXCEPT !.pcb[b] = Free] IN
    CASE s.pcb[b].state = "TIME_WAIT" -> [u EXCEPT !.tw = Remove(@, b)]
      [] s.pcb[b].state = "CLOSED" ->
           IF s.pcb[b].port = 0 THEN u ELSE [u EXCEPT !.bound = Remove(@, b)]
      [] OTHER -> [u EXCEPT !.active = Remove(@, b)]

\* fin tells whether there is memory for the segment.
tcp_close_shutdown_fin(p, fin) ==
    CASE p.state \in {"SYN_RCVD", "ESTABLISHED"} /\ fin -> [p EXCEPT !.state = "FIN_WAIT_1"]
      [] p.state = "CLOSE_WAIT" /\ fin -> [p EXCEPT !.state = "LAST_ACK"]
      [] p.state \in {"SYN_RCVD", "ESTABLISHED", "CLOSE_WAIT"} /\ ~fin ->
           [p EXCEPT !.closepend = TRUE]
      [] OTHER -> p

tcp_handle_closepend(s, fin) ==
    [s EXCEPT !.pcb = [b \in Blocks |->
        IF @[b].closepend THEN tcp_close_shutdown_fin([@[b] EXCEPT !.closepend = FALSE], fin)
        ELSE @[b]]]

\* The scans keep the last of the oldest candidates on the list.
OldestOf(s, list, candidates) ==
    LET oldest == {i \in DOMAIN list : /\ list[i] \in candidates
                                       /\ \A c \in candidates : s.pcb[c].age =< s.pcb[list[i]].age}
    IN list[Max(oldest)]

InState(s, state) == {b \in Range(s.active) : s.pcb[b].state = state}

LowestOrEqual(s, prio) ==
    {b \in Range(s.active) : /\ s.pcb[b].prio =< prio
                             /\ \A c \in Range(s.active) : s.pcb[b].prio =< s.pcb[c].prio}

\* The candidates of tcp_kill_prio(): those of the lowest priority, if it is
\* lower than the one asked for.
Lowest(s, prio) ==
    {b \in Range(s.active) : /\ s.pcb[b].prio < prio
                             /\ \A c \in Range(s.active) : s.pcb[b].prio =< s.pcb[c].prio}

\* tcp_kill_timewait(), tcp_kill_state() and tcp_kill_prio(), in this order: the
\* first that finds a victim makes the next memp_malloc() succeed.
Kill(s, prio) ==
    CASE s.tw # <<>> -> Release(s, OldestOf(s, s.tw, Range(s.tw)))
      [] s.tw = <<>> /\ InState(s, "LAST_ACK") # {} ->
           Release(s, OldestOf(s, s.active, InState(s, "LAST_ACK")))
      [] s.tw = <<>> /\ InState(s, "LAST_ACK") = {} /\ InState(s, "CLOSING") # {} ->
           Release(s, OldestOf(s, s.active, InState(s, "CLOSING")))
      [] s.tw = <<>> /\ InState(s, "LAST_ACK") \cup InState(s, "CLOSING") = {}
           /\ Lowest(s, prio) # {} -> Release(s, OldestOf(s, s.active, Lowest(s, prio)))
      [] OTHER -> s

FreeBlocks(s) == {b \in Blocks : s.pcb[b].state = "FREE"}

\* The new block, NULL when there is none, and what remains of the others.
tcp_alloc(prio, fin) ==
    LET s == IF FreeBlocks(Now) # {} THEN Now ELSE Kill(tcp_handle_closepend(Now, fin), prio)
        b == IF FreeBlocks(s) = {} THEN NULL ELSE CHOOSE x \in FreeBlocks(s) : TRUE
    IN [block |-> b, s |-> IF b = NULL THEN s ELSE [s EXCEPT !.pcb[b] = NewPcb(prio)]]

tcp_new(prio, fin) ==
    LET a == tcp_alloc(prio, fin) IN
    /\ Become(a.s)
    /\ allocated' = [block |-> a.block, prio |-> prio]
    /\ UNCHANGED <<lpcb, tcp_listen_pcbs, tcp_port, netif_addr>>

-----------------------------------------------------------------------------
(* Ports *)

Registered == Range(tcp_bound_pcbs) \cup Range(tcp_active_pcbs) \cup Range(tcp_tw_pcbs)

\* Local address and port of everything on the four lists
PortsHeld == {[ip |-> pcb[b].ip, port |-> pcb[b].port] : b \in Registered}
    \cup {[ip |-> lpcb[l].ip, port |-> lpcb[l].port] : l \in Range(tcp_listen_pcbs)}

Overlap(ip1, ip2) == ip1 = ANY \/ ip2 = ANY \/ ip1 = ip2

\* The search starts after the last port chosen and tries every port; RangeEnd
\* itself is never used.  Port 0 means that there is none.
tcp_new_port ==
    LET n == RangeEnd - RangeStart
        Try(k) == RangeStart + ((tcp_port - RangeStart + k) % n)
        unused == {k \in 1..n : \A h \in PortsHeld : h.port # Try(k)}
    IN IF unused = {} THEN [port |-> 0, last |-> Try(n + 1)]
       ELSE [port |-> Try(Min(unused)), last |-> Try(Min(unused))]

\* The caller binds a block once.
tcp_bind(b, ip, port) ==
    LET new == IF port = 0 THEN tcp_new_port ELSE [port |-> port, last |-> tcp_port]
        used == \/ new.port = 0
                \/ port # 0 /\ \E h \in PortsHeld : h.port = port /\ Overlap(h.ip, ip)
    IN
    /\ pcb[b].state = "CLOSED" /\ pcb[b].port = 0 /\ (Retry \/ ~Failed(b))
    /\ tcp_port' = new.last
    /\ IF used THEN UNCHANGED <<pcb, lists>>
       ELSE Become([Now EXCEPT !.pcb[b].ip = IF ip = ANY THEN @ ELSE ip,
                               !.pcb[b].port = new.port, !.bound = <<b>> \o @])
    /\ NoAllocation /\ UNCHANGED <<lpcb, tcp_listen_pcbs, netif_addr>>

\* As its comment asks, of a block that is bound.  Without a free slot the
\* block stays as it is.
tcp_listen(b) ==
    LET l == CHOOSE x \in Slots \ Range(tcp_listen_pcbs) : TRUE IN
    /\ b \in Range(tcp_bound_pcbs)
    /\ Slots \ Range(tcp_listen_pcbs) # {}
    /\ lpcb' = [lpcb EXCEPT ![l] = [prio |-> pcb[b].prio, ip |-> pcb[b].ip, port |-> pcb[b].port]]
    /\ tcp_listen_pcbs' = <<l>> \o tcp_listen_pcbs
    /\ Become(Release(Now, b))
    /\ NoAllocation /\ UNCHANGED <<tcp_port, netif_addr>>

\* Without memory for the SYN the block keeps what was filled in.
tcp_connect(b, remote, memory) ==
    LET old == pcb[b].port
        new == IF old = 0 THEN tcp_new_port ELSE [port |-> old, last |-> tcp_port]
        s == [Now EXCEPT !.pcb[b].remote = remote,
                         !.pcb[b].ip = IF @ = ANY THEN netif_addr ELSE @,
                         !.pcb[b].port = new.port]
    IN
    /\ pcb[b].state = "CLOSED" /\ (Retry \/ ~Failed(b))
    /\ tcp_port' = new.last
    /\ IF new.port # 0 /\ memory
       THEN Become([s EXCEPT !.pcb[b].state = "SYN_SENT",
                             !.bound = IF old = 0 THEN @ ELSE Remove(@, b),
                             !.active = <<b>> \o @])
       ELSE Become(s)
    /\ NoAllocation /\ UNCHANGED <<lpcb, tcp_listen_pcbs, netif_addr>>

-----------------------------------------------------------------------------
(* The end of a block's use *)

\* unread: the application has not taken all data, so the connection is reset.
tcp_close(b, unread, fin) ==
    /\ Held(b)
    /\ IF \/ pcb[b].state \in {"CLOSED", "SYN_SENT"}
          \/ unread /\ pcb[b].state \in {"ESTABLISHED", "CLOSE_WAIT"}
       THEN Become(Release(Now, b))
       ELSE Become([Now EXCEPT !.pcb[b] = tcp_close_shutdown_fin(@, fin)])
    /\ NoAllocation /\ UNCHANGED <<lpcb, tcp_listen_pcbs, tcp_port, netif_addr>>

tcp_close_listen_kept(l) ==
    /\ l \in Range(tcp_listen_pcbs)
    /\ tcp_listen_pcbs' = Remove(tcp_listen_pcbs, l)
    /\ lpcb' = [lpcb EXCEPT ![l] = FreeSlot]
    /\ NoAllocation /\ UNCHANGED <<pcb, lists, tcp_port, netif_addr>>

\* tcp_listen_closed() makes the connections forget the listener.
tcp_close_listen(l) ==
    /\ l \in Range(tcp_listen_pcbs)
    /\ tcp_listen_pcbs' = Remove(tcp_listen_pcbs, l)
    /\ lpcb' = [lpcb EXCEPT ![l] = FreeSlot]
    /\ pcb' = [b \in Blocks |-> IF b \in Registered /\ pcb[b].listener = l
                                THEN [pcb[b] EXCEPT !.listener = NULL] ELSE pcb[b]]
    /\ NoAllocation /\ UNCHANGED <<lists, tcp_port, netif_addr>>

tcp_abort(b) ==
    /\ Held(b)
    /\ Become(Release(Now, b))
    /\ NoAllocation /\ UNCHANGED <<lpcb, tcp_listen_pcbs, tcp_port, netif_addr>>

\* Connections and bound blocks of the old address go, those in TIME_WAIT stay,
\* and listeners follow the interface.
tcp_netif_ip_addr_changed(new) ==
    LET gone == SelectSeq(tcp_active_pcbs \o tcp_bound_pcbs,
                          LAMBDA b : pcb[b].ip = netif_addr)
    IN
    /\ new # netif_addr
    /\ netif_addr' = new
    /\ Become(FoldLeft(Release, Now, gone))
    /\ lpcb' = [l \in Slots |-> IF l \in Range(tcp_listen_pcbs) /\ lpcb[l].ip = netif_addr
                                THEN [lpcb[l] EXCEPT !.ip = new] ELSE lpcb[l]]
    /\ NoAllocation /\ UNCHANGED <<tcp_listen_pcbs, tcp_port>>
-----------------------------------------------------------------------------
(* Segments.  All of them are addressed to the interface. *)

Match(list, port, remote) ==
    {i \in DOMAIN list : /\ pcb[list[i]].ip = netif_addr
                         /\ pcb[list[i]].port = port
                         /\ pcb[list[i]].remote = remote}

MoveToFront(list, i) == <<list[i]>> \o RemoveAt(list, i)

\* Where a segment may take a connection; FREE stands for a reset, for a listener
\* that has gone, and for the last acknowledgement.
After == [SYN_SENT    |-> {"SYN_SENT", "ESTABLISHED", "FREE"},
          SYN_RCVD    |-> {"SYN_RCVD", "ESTABLISHED", "CLOSE_WAIT", "FREE"},
          ESTABLISHED |-> {"ESTABLISHED", "CLOSE_WAIT", "FREE"},
          FIN_WAIT_1  |-> {"FIN_WAIT_1", "FIN_WAIT_2", "CLOSING", "TIME_WAIT", "FREE"},
          FIN_WAIT_2  |-> {"FIN_WAIT_2", "TIME_WAIT", "FREE"},
          CLOSING     |-> {"CLOSING", "TIME_WAIT", "FREE"},
          CLOSE_WAIT  |-> {"CLOSE_WAIT", "FREE"},
          LAST_ACK    |-> {"LAST_ACK", "FREE"}]

\* A segment that is processed shows that the peer is there, unless the
\* application has closed.  An unexpected SYN is not processed.
Open == {"SYN_SENT", "SYN_RCVD", "ESTABLISHED", "CLOSE_WAIT"}
Seen(b) == {pcb[b].age} \cup (IF pcb[b].state \in Open /\ ~pcb[b].closepend THEN {0} ELSE {})

tcp_process(port, remote) ==
    LET i == Min(Match(tcp_active_pcbs, port, remote))
        b == tcp_active_pcbs[i]
        s == [Now EXCEPT !.active = MoveToFront(@, i)]
    IN
    /\ Match(tcp_active_pcbs, port, remote) # {}
    /\ \E next \in After[pcb[b].state], age \in Seen(b) :
          Become(CASE next = "FREE" -> Release(s, b)
                   [] next = "TIME_WAIT" -> [s EXCEPT !.pcb[b].state = next, !.active = Remove(@, b),
                                                      !.tw = <<b>> \o @]
                   [] OTHER -> [s EXCEPT !.pcb[b].state = next, !.pcb[b].age = age])
    /\ NoAllocation /\ UNCHANGED <<lpcb, tcp_listen_pcbs>>

\* A FIN that is repeated starts the wait again.
tcp_timewait_input(port, remote) ==
    /\ Match(tcp_active_pcbs, port, remote) = {}
    /\ Match(tcp_tw_pcbs, port, remote) # {}
    /\ pcb' = [pcb EXCEPT ![tcp_tw_pcbs[Min(Match(tcp_tw_pcbs, port, remote))]].age = 0]
    /\ NoAllocation /\ UNCHANGED <<lpcb, lists, tcp_listen_pcbs>>

Listening(port) ==
    {i \in DOMAIN tcp_listen_pcbs : LET l == lpcb[tcp_listen_pcbs[i]] IN
                                      l.port = port /\ Overlap(l.ip, netif_addr)}

\* A SYN: memory is for the answer, without which the new block is given up.
tcp_listen_input(port, remote, fin, memory) ==
    LET i == Min(Listening(port))
        l == tcp_listen_pcbs[i]
        a == tcp_alloc(lpcb[l].prio, fin)
        s == [a.s EXCEPT !.pcb[a.block] = [@ EXCEPT !.state = "SYN_RCVD", !.ip = netif_addr,
                            !.port = lpcb[l].port, !.remote = remote, !.listener = l],
                         !.active = <<a.block>> \o @]
    IN
    /\ Match(tcp_active_pcbs, port, remote) = {}
    /\ Match(tcp_tw_pcbs, port, remote) = {}
    /\ Listening(port) # {}
    /\ tcp_listen_pcbs' = MoveToFront(tcp_listen_pcbs, i)
    /\ Become(IF a.block = NULL THEN a.s ELSE IF memory THEN s ELSE Release(s, a.block))
    /\ allocated' = [block |-> a.block, prio |-> lpcb[l].prio]
    /\ UNCHANGED lpcb

\* A segment that matches nothing is answered with a reset.
tcp_input(port, remote) ==
    /\ \/ tcp_process(port, remote)
       \/ tcp_timewait_input(port, remote)
       \/ \E fin, memory \in BOOLEAN : tcp_listen_input(port, remote, fin, memory)
    /\ UNCHANGED <<tcp_port, netif_addr>>

-----------------------------------------------------------------------------
(* Timers *)

\* Any connection may run into a deadline or into its last retransmission; the
\* time that TIME_WAIT lasts is Old.
tcp_slowtmr(expired) ==
    LET tick == [Now EXCEPT !.pcb = [b \in Blocks |->
                    IF @[b].state # "FREE" /\ @[b].age < Old THEN [@[b] EXCEPT !.age = @ + 1]
                    ELSE @[b]]]
        over == {b \in Range(tcp_tw_pcbs) : pcb[b].age = Old}
    IN
    /\ Registered \ Range(tcp_bound_pcbs) # {}
    /\ expired \subseteq Range(tcp_active_pcbs)
    /\ Become(FoldSet(LAMBDA b, s : Release(s, b), tick, expired \cup over))
    /\ NoAllocation /\ UNCHANGED <<lpcb, tcp_listen_pcbs, tcp_port, netif_addr>>

\* Of tcp_fasttmr(), the part that sends a FIN for which there was no memory.
tcp_fasttmr(fin) ==
    /\ \E b \in Range(tcp_active_pcbs) : pcb[b].closepend
    /\ Become(tcp_handle_closepend(Now, fin))
    /\ NoAllocation /\ UNCHANGED <<lpcb, tcp_listen_pcbs, tcp_port, netif_addr>>

-----------------------------------------------------------------------------

Init ==
    /\ pcb = [b \in Blocks |-> Free]
    /\ lpcb = [l \in Slots |-> FreeSlot]
    /\ tcp_bound_pcbs = <<>> /\ tcp_active_pcbs = <<>> /\ tcp_tw_pcbs = <<>>
    /\ tcp_listen_pcbs = <<>>
    /\ tcp_port = RangeStart
    /\ netif_addr \in Addrs
    /\ allocated = Nothing

\* Applications bind to any address or to that of the interface.
Next ==
    \/ \E prio \in Prios, fin \in BOOLEAN : tcp_new(prio, fin)
    \/ \E b \in Blocks, ip \in {ANY, netif_addr}, port \in BindPorts \cup {0} : tcp_bind(b, ip, port)
    \/ \E b \in Blocks : tcp_listen(b) \/ tcp_abort(b)
    \/ \E b \in Blocks, remote \in Remotes, memory \in BOOLEAN : tcp_connect(b, remote, memory)
    \/ \E b \in Blocks, unread, fin \in BOOLEAN : tcp_close(b, unread, fin)
    \/ \E l \in Slots : tcp_close_listen(l)
    \/ \E new \in Addrs : tcp_netif_ip_addr_changed(new)
    \/ \E port \in BindPorts \cup (RangeStart..(RangeEnd - 1)), remote \in Remotes : tcp_input(port, remote)
    \/ \E expired \in SUBSET Blocks : tcp_slowtmr(expired)
    \/ \E fin \in BOOLEAN : tcp_fasttmr(fin)

Spec == Init /\ [][Next]_vars

-----------------------------------------------------------------------------

Active == DOMAIN After

\* Every block is on the one list that its state calls for, once (the axioms
\* stated beside the lists in tcp_priv.h), so that the timers, tcp_input() and
\* tcp_alloc() see all of them.
ListsMatchStates ==
    /\ \A list \in {tcp_bound_pcbs, tcp_active_pcbs, tcp_tw_pcbs, tcp_listen_pcbs} : IsInjective(list)
    /\ Range(tcp_active_pcbs) = {b \in Blocks : pcb[b].state \in Active}
    /\ Range(tcp_tw_pcbs) = {b \in Blocks : pcb[b].state = "TIME_WAIT"}
    /\ \A b \in Blocks : LET bound == pcb[b].state = "CLOSED" /\ pcb[b].port # 0 IN
          (bound /\ ~Failed(b) => b \in Range(tcp_bound_pcbs)) /\ (b \in Range(tcp_bound_pcbs) => bound)

\* A segment has one receiver: no two connections, TIME_WAIT included, have the
\* same addresses and ports, and no two listeners take the same SYN.
OneReceiver ==
    /\ \A b, c \in {x \in Blocks : pcb[x].state \in Active \cup {"TIME_WAIT"}} :
          b # c => <<pcb[b].ip, pcb[b].port, pcb[b].remote>> # <<pcb[c].ip, pcb[c].port, pcb[c].remote>>
    /\ \A l, m \in Range(tcp_listen_pcbs) :
          l # m /\ lpcb[l].port = lpcb[m].port => ~Overlap(lpcb[l].ip, lpcb[m].ip)

\* A connection never refers to a listener that has been closed, even when its
\* slot is used again: tcp_listen_closed() finds all that do.
ListenerLives ==
    \A b \in Blocks : pcb[b].listener # NULL =>
        /\ pcb[b].listener \in Range(tcp_listen_pcbs)
        /\ lpcb[pcb[b].listener].port = pcb[b].port

\* Whatever applications, peers, timers and a change of address do to the pool
\* and the lists of tcp.c: ListsMatchStates, OneReceiver and ListenerLives.
PcbsSound == ListsMatchStates /\ OneReceiver /\ ListenerLives

Rank(p) == CASE p.state = "TIME_WAIT" -> 0
             [] p.state = "LAST_ACK" -> 1
             [] p.state = "CLOSING" -> 2
             [] OTHER -> 3 + p.prio

Killable(p, prio) == \/ p.state \in {"TIME_WAIT", "LAST_ACK", "CLOSING"}
                     \/ p.state \in Active /\ p.prio < prio

\* tcp_alloc() harms nobody while a block is free; else it takes the block of
\* the connection that is worth least (finished ones before live ones, then by
\* priority, then by silence), and fails only when all are worth more than the
\* new one.  A close that was put off is tried first, and may make one worth
\* less.
ReclaimsLeast ==
    [][allocated'.prio # 0 =>
        LET b == allocated'.block
            prio == allocated'.prio
            victims == {pcb[b], tcp_close_shutdown_fin([pcb[b] EXCEPT !.closepend = FALSE], TRUE)}
        IN \/ \A c \in Blocks \ {b} : pcb'[c] = pcb[c] /\ FreeBlocks(Now) # {}
           \/ /\ FreeBlocks(Now) = {} /\ b # NULL
              /\ \E v \in IF pcb[b].closepend THEN victims ELSE {pcb[b]} :
                    /\ Killable(v, prio)
                    /\ \A c \in Blocks \ {b} : Killable(pcb'[c], prio) =>
                          \/ Rank(v) < Rank(pcb'[c])
                          \/ Rank(v) = Rank(pcb'[c]) /\ pcb'[c].age =< v.age
           \/ b = NULL /\ \A c \in Blocks : pcb[c].state # "FREE" /\ ~Killable(pcb'[c], prio)
      ]_vars
=============================================================================
