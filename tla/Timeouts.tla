------------------------------ MODULE Timeouts ------------------------------
(* The timers of the network stack: the list of timeouts of                    *)
(* lwip/src/core/timeouts.c over the millisecond counter sys_now, the cyclic    *)
(* timers of IP reassembly and ARP, and the TCP timer, which runs only while    *)
(* there are connections.                                                      *)
(*                                                                             *)
(* sys_now and the times in the list are counters that wrap at TimeSpace (2^32 *)
(* in the code).  A timeout also carries "left", the time that really remains, *)
(* which no program variable holds: it says what the comparison of wrapped     *)
(* times should decide.  A handler runs in one step; the clock, which a timer  *)
(* interrupt advances (dev.c), moves between any two steps.                    *)
EXTENDS Integers, Sequences, FiniteSets, SequencesExt

CONSTANTS
    TimeSpace,
    Cyclic, Interval,       \* lwip_cyclic_timers other than TCP, and their intervals
    TCP_TMR_INTERVAL,
    Apps, AppMsecs,         \* one-shot timers of other users, and the delays they ask for
    MEMP_NUM_SYS_TIMEOUT,
    MaxPcbs,                \* bound: connections at a time
    MaxLate                 \* bound: how late sys_check_timeouts may be called

TimeoutsAssumption ==
    /\ TimeSpace \in Nat /\ Interval \in [Cyclic -> Nat \ {0}]
    /\ \A d \in {Interval[c]: c \in Cyclic} \cup {TCP_TMR_INTERVAL} \cup AppMsecs:
        d \in Nat /\ d + MaxLate < TimeSpace \div 2
    /\ MaxLate \in Nat /\ MaxPcbs \in Nat
    /\ MEMP_NUM_SYS_TIMEOUT \in Nat

VARIABLES
    now,                    \* sys_now()
    timeouts,               \* next_timeout and its successors: [h, time, left]
    check,                  \* the time sys_check_timeouts took, or Idle
    pcbs,                   \* connections on tcp_active_pcbs and tcp_tw_pcbs
    tcpip_tcp_timer_active,
    panic                   \* the assertion that the pool is not empty failed

vars == <<now, timeouts, check, pcbs, tcpip_tcp_timer_active, panic>>

Tcp == "tcp"
Idle == -1
Handlers == Cyclic \cup Apps \cup {Tcp}

-----------------------------------------------------------------------------

LWIP_MAX_TIMEOUT == TimeSpace \div 2 - 1

\* Mutant: the comparison ignores that the counter wraps.
TIME_LESS_THAN_plain(t, u) == t < u

TIME_LESS_THAN(t, u) == (t - u) % TimeSpace > LWIP_MAX_TIMEOUT

\* sys_timeout_abs: before the first timeout that is later.
sys_timeout_abs(list, h, time, left) ==
    LET later == {i \in DOMAIN list: TIME_LESS_THAN(time, list[i].time)}
        first == IF later = {} THEN Len(list) + 1
                 ELSE CHOOSE i \in later: \A j \in later: i <= j
    IN InsertAt(list, first, [h |-> h, time |-> time, left |-> left])

sys_timeout(list, msecs, h) == sys_timeout_abs(list, h, (now + msecs) % TimeSpace, msecs)

\* memp_malloc(MEMP_SYS_TIMEOUT) fails: LWIP_ASSERT stops the kernel.
PoolEmpty(list) == Len(list) = MEMP_NUM_SYS_TIMEOUT

Arms(list, msecs, h) ==
    /\ panic' = PoolEmpty(list)
    /\ timeouts' = IF PoolEmpty(list) THEN list ELSE sys_timeout(list, msecs, h)

-----------------------------------------------------------------------------
(* The handlers, which run after their timeout t left the list.                *)

\* lwip_cyclic_timer: armed again from the time it was due, from now when that
\* has passed already.
lwip_cyclic_timer(list, t) ==
    LET next == (t.time + Interval[t.h]) % TimeSpace IN
    /\ panic' = PoolEmpty(list)
    /\ timeouts' = IF PoolEmpty(list) THEN list
                   ELSE IF TIME_LESS_THAN(next, now)
                        THEN sys_timeout(list, Interval[t.h], t.h)
                        ELSE sys_timeout_abs(list, t.h, next, t.left + Interval[t.h])
    /\ UNCHANGED <<pcbs, tcpip_tcp_timer_active>>

\* tcpip_tcp_timer: tcp_tmr may end connections, or let a callback open some.
tcpip_tcp_timer(list, remaining) ==
    /\ pcbs' = remaining
    /\ IF remaining > 0
         THEN Arms(list, TCP_TMR_INTERVAL, Tcp) /\ UNCHANGED tcpip_tcp_timer_active
         ELSE /\ tcpip_tcp_timer_active' = FALSE
              /\ timeouts' = list
              /\ UNCHANGED panic

AppHandler(list) ==
    /\ timeouts' = list
    /\ UNCHANGED <<pcbs, tcpip_tcp_timer_active, panic>>

\* One round of the loop of sys_check_timeouts: the first timeout, if it is due.
RunTimeout(h) ==
    /\ check # Idle /\ timeouts # <<>>
    /\ ~TIME_LESS_THAN(check, Head(timeouts).time)
    /\ Head(timeouts).h = h
    /\ \/ h \in Cyclic /\ lwip_cyclic_timer(Tail(timeouts), Head(timeouts))
       \/ h = Tcp /\ \E n \in 0..MaxPcbs: tcpip_tcp_timer(Tail(timeouts), n)
       \/ h \in Apps /\ AppHandler(Tail(timeouts))
    /\ UNCHANGED <<now, check>>

\* sys_check_timeouts takes the time once, and returns when nothing is due.
BeginCheck ==
    /\ check = Idle
    /\ check' = now
    /\ UNCHANGED <<now, timeouts, pcbs, tcpip_tcp_timer_active, panic>>

\* Mutant: sys_check_timeouts returns at the first timeout, due or not.
EndCheckEarly ==
    /\ check # Idle
    /\ check' = Idle
    /\ UNCHANGED <<now, timeouts, pcbs, tcpip_tcp_timer_active, panic>>

EndCheck ==
    /\ check # Idle
    /\ timeouts = <<>> \/ TIME_LESS_THAN(check, Head(timeouts).time)
    /\ check' = Idle
    /\ UNCHANGED <<now, timeouts, pcbs, tcpip_tcp_timer_active, panic>>

-----------------------------------------------------------------------------
(* Calls made outside sys_check_timeouts.                                      *)

\* A connection is registered (TCP_REG_ACTIVE, TCP_REG of tcp_tw_pcbs):
\* tcp_timer_needed starts the timer when it does not run.
tcp_timer_needed ==
    /\ check = Idle /\ pcbs < MaxPcbs
    /\ pcbs' = pcbs + 1
    /\ tcpip_tcp_timer_active' = TRUE
    /\ IF tcpip_tcp_timer_active THEN UNCHANGED <<timeouts, panic>>
                                 ELSE Arms(timeouts, TCP_TMR_INTERVAL, Tcp)
    /\ UNCHANGED <<now, check>>

\* A connection ends outside tcp_tmr; the timer finds out later.
ConnectionEnds ==
    /\ check = Idle /\ pcbs > 0
    /\ pcbs' = pcbs - 1
    /\ UNCHANGED <<now, timeouts, check, tcpip_tcp_timer_active, panic>>

Armed(h) == {i \in DOMAIN timeouts: timeouts[i].h = h}

\* Another user of the list; it asks for its timer once at a time.
AppTimeout(a, msecs) ==
    /\ check = Idle /\ Armed(a) = {}
    /\ Arms(timeouts, msecs, a)
    /\ UNCHANGED <<now, check, pcbs, tcpip_tcp_timer_active>>

sys_untimeout(a) ==
    /\ check = Idle
    /\ \E i \in Armed(a): timeouts' = RemoveAt(timeouts, i)
    /\ UNCHANGED <<now, check, pcbs, tcpip_tcp_timer_active, panic>>

\* sys_restart_timeouts, after the list was not looked at for long: the first
\* timeout is due now, the others as long after it as before.
sys_restart_timeouts ==
    /\ check = Idle /\ timeouts # <<>>
    /\ timeouts' = [i \in DOMAIN timeouts |->
            [timeouts[i] EXCEPT !.time = (@ - Head(timeouts).time + now) % TimeSpace,
                                !.left = @ - Head(timeouts).left]]
    /\ UNCHANGED <<now, check, pcbs, tcpip_tcp_timer_active, panic>>

\* sys_timeouts_sleeptime: how long the caller may wait.
sys_timeouts_sleeptime ==
    IF TIME_LESS_THAN(Head(timeouts).time, now) THEN 0
    ELSE (Head(timeouts).time - now) % TimeSpace

\* The timer interrupt; sys_check_timeouts is called before a timeout is MaxLate
\* overdue.
Tick ==
    /\ \A i \in DOMAIN timeouts: timeouts[i].left > -MaxLate
    /\ now' = (now + 1) % TimeSpace
    /\ timeouts' = [i \in DOMAIN timeouts |-> [timeouts[i] EXCEPT !.left = @ - 1]]
    /\ UNCHANGED <<check, pcbs, tcpip_tcp_timer_active, panic>>

-----------------------------------------------------------------------------

\* sys_timeouts_init arms every cyclic timer but that of TCP, at any time.
Init ==
    /\ now \in 0..(TimeSpace - 1)
    /\ timeouts = FoldSeq(LAMBDA c, list: sys_timeout(list, Interval[c], c), <<>>,
                          SetToSeq(Cyclic))
    /\ check = Idle
    /\ pcbs = 0
    /\ tcpip_tcp_timer_active = FALSE
    /\ panic = FALSE

Next ==
    /\ ~panic
    /\ \/ \E h \in Handlers: RunTimeout(h)
       \/ BeginCheck
       \/ EndCheck
       \/ tcp_timer_needed
       \/ ConnectionEnds
       \/ \E a \in Apps: sys_untimeout(a) \/ \E msecs \in AppMsecs: AppTimeout(a, msecs)
       \/ sys_restart_timeouts
       \/ Tick

\* The clock runs, and the main loop keeps calling sys_check_timeouts.
Fairness ==
    /\ WF_vars(Tick)
    /\ WF_vars(BeginCheck)
    /\ WF_vars(EndCheck)
    /\ \A h \in Handlers: WF_vars(RunTimeout(h))

Spec == Init /\ [][Next]_vars /\ Fairness

-----------------------------------------------------------------------------

\* The list is in the order in which the timeouts really fall due, also across
\* the wrap of sys_now; the first one is found due exactly when it is; and
\* sys_timeouts_sleeptime is the time that remains.
TimeoutsInOrder ==
    /\ \A i \in 1..(Len(timeouts) - 1): timeouts[i].left <= timeouts[i + 1].left
    /\ timeouts # <<>> =>
        /\ TIME_LESS_THAN(now, Head(timeouts).time) <=> Head(timeouts).left > 0
        /\ sys_timeouts_sleeptime = IF Head(timeouts).left < 0 THEN 0 ELSE Head(timeouts).left

\* Every cyclic timer is armed once and the TCP timer exactly while it is marked
\* active, which it is whenever there are connections; so the pool of timeouts,
\* sized for one of each, never runs out (the assertion of sys_timeout_abs).
EachTimerArmedOnce ==
    /\ \A c \in Cyclic: Cardinality(Armed(c)) = 1
    /\ Cardinality(Armed(Tcp)) = IF tcpip_tcp_timer_active THEN 1 ELSE 0
    /\ pcbs > 0 => tcpip_tcp_timer_active
    /\ ~panic

\* The list of timeouts is sound: in order, and with each timer once.
TimeoutsSound == TimeoutsInOrder /\ EachTimerArmedOnce

\* Reassembly and ARP keep being aged: no other timer, no late call and no wrap
\* of the clock keeps a cyclic timer from running again and again.
CyclicTimersRun == \A c \in Cyclic: []<><<RunTimeout(c)>>_vars
=============================================================================
