------------------------------ MODULE Channels ------------------------------
(***************************************************************************)
(* Mailboxes and portals of one node: communicators (noc/communicator.c,   *)
(* vmailbox.c, vportal.c), the hardware channels that they share           *)
(* (noc/active.c, port.c, mailbox.c, portal.c) and the message buffers     *)
(* (noc/mbuffer.c).                                                        *)
(*                                                                         *)
(* There are three hardware channels: "in" receives, "net" sends to        *)
(* another node and "fwd" forwards to the node itself.  Every kernel call  *)
(* but the wait is forwarded, so the master core runs them one at a time   *)
(* and each is a step; waits run on the cores of their threads, and drop   *)
(* the locks while the hardware works.  The age of a stored message is its *)
(* position in "kept".  A message is its source, its destination and a     *)
(* number.  Calls that fail before they change anything, and statistics,   *)
(* are left out.                                                           *)
(***************************************************************************)
EXTENDS Requests, Sequences, FiniteSets

CONSTANTS
    Portal,      \* portals (TRUE) or mailboxes (FALSE)
    COMM_MAX,    \* communicators
    BUFFERS_MAX, \* message buffers
    AUX_MAX,     \* the last ones, which forwarded messages use
    Threads,     \* threads that wait
    Sources,     \* remote addresses that messages come from
    Targets,     \* addresses that channels are opened to
    Filters,     \* addresses that a read may be restricted to
    Buffers,     \* user buffers for reads
    MaxMsgs,     \* bound: messages written or received
    HwErrors,    \* hardware operations may fail
    OneUser,     \* user code: a communicator is used by one thread at a time
    Patient,     \* user code: no close before a write that failed is retried
    Room,        \* user code: no forward that fills the auxiliary pool or the
                 \* FIFO, and no create without a free communicator
    NULL

ASSUME ChannelsAssumption ==
    /\ COMM_MAX \in Nat \ {0}
    /\ BUFFERS_MAX \in Nat \ {0}
    /\ AUX_MAX \in 1 .. BUFFERS_MAX
    /\ MaxMsgs \in Nat
    /\ {Portal, HwErrors, OneUser, Patient, Room} \subseteq BOOLEAN

Comms == 0 .. COMM_MAX - 1
Bufs == 0 .. BUFFERS_MAX - 1
Aux == BUFFERS_MAX - AUX_MAX .. BUFFERS_MAX - 1
Addr == [node : {"local", "remote"}, port : Ports]
Local(p) == [node |-> "local", port |-> p]
Remote(p) == [node |-> "remote", port |-> p]
Out(dest) == IF dest.node = "local" THEN "fwd" ELSE "net"
Msgs == [src : Addr, dest : Addr, n : 1 .. MaxMsgs]
Waits == [pc : {"active", "hw", "comm", "reset"}, comm : Comms, mbuf : Bufs \cup {NULL}, ok : BOOLEAN]

ASSUME AddressAssumption ==
    /\ Sources \subseteq Addr
    /\ Targets \subseteq Addr
    /\ Filters \subseteq Addr

(* NULL is none of the values that it may stand for. *)
ASSUME NullAssumption ==
    /\ NULL \notin {"in", "net", "fwd"}
    /\ NULL \notin Ports
    /\ NULL \notin Bufs
    /\ NULL \notin Addr
    /\ NULL \notin Msgs
    /\ NULL \notin Waits

VARIABLES
    port,      \* ports of each channel: used, requested, mbuffer
    requests,  \* FIFO of each sending channel
    busy,      \* channels that are busy
    remote,    \* node set on the input channel, and its allowed flag
    mbuf,      \* message buffers: used, message, sending port of a forward
    kept,      \* buffers that store a message (KEEP), oldest first
    comm,      \* communicators
    waits,     \* threads in a wait: point, communicator, mbuffer, success
    hw,        \* buffer of the operation in the hardware of a channel
    rx,        \* messages on their way from the network
    sent,      \* messages numbered so far
    done,      \* messages handed to a reader or to the network
    dropped,   \* messages discarded
    panicked

world == <<hw, rx, sent, done, dropped>>
vars == <<port, requests, busy, remote, mbuf, kept, comm, waits, hw, rx, sent, done, dropped, panicked>>

Unused == [used |-> FALSE, requested |-> FALSE, mbuf |-> NULL]
Free == [used |-> FALSE, msg |-> NULL, from |-> NULL]
NoComm == [used |-> FALSE, chan |-> NULL, port |-> NULL, remote |-> NULL, busy |-> FALSE,
           finished |-> FALSE, allowed |-> FALSE, buffer |-> NULL, asked |-> NULL]
NotAllowed == [allowed |-> FALSE, node |-> NULL]

(* do_mailbox_table_init(), do_vmailbox_init() and those of portals *)
Init ==
    /\ port = [a \in {"in", "net", "fwd"} |-> [p \in Ports |-> Unused]]
    /\ requests = [a \in {"net", "fwd"} |-> EmptyFifo]
    /\ busy = {}
    /\ remote = NotAllowed
    /\ mbuf = [b \in Bufs |-> Free]
    /\ kept = <<>>
    /\ comm = [c \in Comms |-> NoComm]
    /\ waits = [t \in Threads |-> NULL]
    /\ hw = [a \in {"in", "net"} |-> NULL]
    /\ rx = <<>>
    /\ sent = 0
    /\ done = {}
    /\ dropped = {}
    /\ panicked = FALSE

-----------------------------------------------------------------------------
(* mbuffer_alloc() takes the first free buffer of a pool. *)
FirstFree(pool, b) == b \in pool /\ ~mbuf[b].used /\ \A x \in pool : x < b => mbuf[x].used
PoolFull(pool) == \A b \in pool : mbuf[b].used
Taken(m, from) == [used |-> TRUE, msg |-> m, from |-> from]

(* mailbox_source_check(), portal_source_check() *)
SourceCheck(m, src) == src = NULL \/ m.src = src

(* mailbox_header_check(), portal_header_check() *)
HeaderCheck(m, k) == m.dest = Local(k.port) /\ SourceCheck(m, k.remote)

(* mbuffer_search(): the stored messages of a pool that match, and the     *)
(* oldest of them, as positions in "kept".                                 *)
Stored(pool, dest, src) ==
    {i \in DOMAIN kept : kept[i] \in pool /\ mbuf[kept[i]].msg.dest = dest /\ SourceCheck(mbuf[kept[i]].msg, src)}

Oldest(S, i) == i \in S /\ \A j \in S : i <= j
Without(s, i) == SubSeq(s, 1, i - 1) \o SubSeq(s, i + 1, Len(s))

(* communicator_alloc() takes the first free communicator for a port that  *)
(* active_alloc() took; when there is none the port is released, and the   *)
(* kernel panics if that fails.                                            *)
CommAlloc(a, p, r, stays) ==
    \/ \E c \in Comms :
         /\ ~comm[c].used /\ \A d \in Comms : d < c => comm[d].used
         /\ comm' = [comm EXCEPT ![c] = [NoComm EXCEPT !.used = TRUE, !.chan = a, !.port = p, !.remote = r]]
         /\ port' = [port EXCEPT ![a][p].used = TRUE, ![a][p].requested = FALSE]
         /\ UNCHANGED panicked
    \/ /\ \A c \in Comms : comm[c].used
       /\ panicked' = stays
       /\ UNCHANGED comm
       /\ port' = [port EXCEPT ![a][p].used = stays, ![a][p].requested = FALSE]

(* do_vmailbox_create(), do_vportal_create(): active_search() wants the    *)
(* input channel with no remote node.                                      *)
Create(p) ==
    /\ remote.node = NULL
    /\ ~port["in"][p].used
    /\ Room => \E c \in Comms : ~comm[c].used
    /\ CommAlloc("in", p, NULL, Stored(Bufs, Local(p), NULL) # {})
    /\ UNCHANGED <<requests, busy, remote, mbuf, kept, waits, world>>

(* do_vmailbox_open(), do_vportal_open(), portpool_choose_port() *)
Open(dest) ==
    /\ LET a == Out(dest) IN \E p \in Ports :
         /\ ~port[a][p].used /\ \A q \in Ports : q < p => port[a][q].used
         /\ CommAlloc(a, p, dest, FALSE)
    /\ UNCHANGED <<requests, busy, remote, mbuf, kept, waits, world>>

(* With OneUser no call is made while a thread waits. *)
Alone(c) == OneUser => \A t \in Threads : waits[t] # NULL => waits[t].comm # c

(* communicator_free(), active_release() *)
Release(c) ==
    LET k == comm[c] IN
    /\ k.used /\ ~k.busy /\ Alone(c)
    /\ k.chan = "in" => Stored(Bufs, Local(k.port), NULL) = {}
    /\ Patient => ~(k.chan = "net" /\ port[k.chan][k.port].requested)
    /\ comm' = [comm EXCEPT ![c] = NoComm]
    /\ port' = [port EXCEPT ![k.chan][k.port].used = FALSE]
    /\ UNCHANGED <<requests, busy, remote, mbuf, kept, waits, world, panicked>>

(* do_vportal_allow() *)
Allow(c, r) ==
    /\ Portal
    /\ comm[c].used /\ comm[c].chan = "in" /\ ~comm[c].allowed /\ Alone(c)
    /\ comm' = [comm EXCEPT ![c].allowed = TRUE, ![c].remote = r]
    /\ UNCHANGED <<port, requests, busy, remote, mbuf, kept, waits, world, panicked>>

(* communicator_ioctl(), COMM_IOCTL_SET_REMOTE, which user code applies to *)
(* communicators that read                                                 *)
SetRemote(c, r) ==
    /\ comm[c].used /\ comm[c].chan = "in" /\ ~comm[c].busy /\ Alone(c)
    /\ comm' = [comm EXCEPT ![c].remote = r]
    /\ UNCHANGED <<port, requests, busy, remote, mbuf, kept, waits, world, panicked>>

-----------------------------------------------------------------------------
(* do_vmailbox_aread(), do_vportal_aread(): the user buffer is stored, and *)
(* a mailbox is allowed, whatever comes of the call.                       *)
Asked(c, u) == [comm[c] EXCEPT !.buffer = u, !.allowed = @ \/ ~Portal]
Reads(c) == comm[c].used /\ comm[c].chan = "in" /\ (OneUser => ~comm[c].busy) /\ Alone(c)
MayRead(c) == Reads(c) /\ ~comm[c].busy /\ (comm[c].allowed \/ ~Portal)

(* The stored messages that active_aread() may take: from the auxiliary    *)
(* pool only when the source is local.                                     *)
FromLocal(k) == k.remote # NULL /\ k.remote.node = "local"
Readable(k) == Stored(IF FromLocal(k) THEN Aux ELSE Bufs, Local(k.port), k.remote)

(* Mutant: the hardware is started although a message is stored. *)
MayStartUnsearched(c) == MayRead(c) /\ ~FromLocal(comm[c]) /\ "in" \notin busy

MayStart(c) == MayRead(c) /\ Readable(comm[c]) = {} /\ ~FromLocal(comm[c]) /\ "in" \notin busy
NodeOf(k) == IF k.remote = NULL THEN NULL ELSE k.remote.node

(* -EACCES, -EBUSY or -ENOMSG *)
AreadRefused(c, u) ==
    /\ Reads(c)
    /\ ~MayStart(c) /\ ~(MayRead(c) /\ Readable(comm[c]) # {})
    /\ comm' = [comm EXCEPT ![c] = Asked(c, u)]
    /\ UNCHANGED <<port, requests, busy, remote, mbuf, kept, waits, world, panicked>>

(* do_request_clear() of the sender of a forward *)
ClearSender(from) ==
    /\ requests' = IF from = NULL THEN requests ELSE [requests EXCEPT !["fwd"] = Clear(@, from)]
    /\ port' = IF from = NULL \/ ~Clears(requests["fwd"], from) THEN port
               ELSE [port EXCEPT !["fwd"][from].requested = FALSE]

(* active_aread() finds a stored message. *)
AreadStored(c, u) ==
    /\ MayRead(c)
    /\ \E i \in DOMAIN kept :
         LET b == kept[i] IN
         /\ Oldest(Readable(comm[c]), i)
         /\ ClearSender(mbuf[b].from)
         /\ mbuf' = [mbuf EXCEPT ![b] = Free]
         /\ kept' = Without(kept, i)
         /\ done' = done \cup {mbuf[b].msg}
    /\ comm' = [comm EXCEPT ![c] = [Asked(c, u) EXCEPT !.asked = u, !.busy = TRUE, !.finished = TRUE, !.allowed = FALSE]]
    /\ UNCHANGED <<busy, remote, waits, hw, rx, sent, dropped, panicked>>

(* active_aread() starts the hardware ... *)
AreadStart(c, u) ==
    /\ MayStart(c)
    /\ remote.allowed => ~Portal \/ remote.node = NodeOf(comm[c])
    /\ \E b \in Bufs :
         /\ FirstFree(Bufs, b)
         /\ mbuf' = [mbuf EXCEPT ![b] = Taken(NULL, NULL)]
         /\ port' = [port EXCEPT !["in"][comm[c].port].mbuf = b]
         /\ hw' = [hw EXCEPT !["in"] = b]
    /\ remote' = NotAllowed
    /\ busy' = busy \cup {"in"}
    /\ comm' = [comm EXCEPT ![c] = [Asked(c, u) EXCEPT !.asked = u, !.busy = TRUE]]
    /\ UNCHANGED <<requests, kept, waits, rx, sent, done, dropped, panicked>>

(* ... or fails, with the channel allowed for the node: there is no buffer *)
(* or the hardware refuses.                                                *)
AreadFails(c, u) ==
    /\ MayStart(c)
    /\ PoolFull(Bufs) \/ HwErrors \/ (Portal /\ remote.allowed /\ remote.node # NodeOf(comm[c]))
    /\ remote' = IF remote.allowed /\ Portal THEN remote ELSE [allowed |-> TRUE, node |-> NodeOf(comm[c])]
    /\ comm' = [comm EXCEPT ![c] = Asked(c, u)]
    /\ UNCHANGED <<port, requests, busy, mbuf, kept, waits, world, panicked>>

Aread(c, u) ==
    \/ AreadRefused(c, u)
    \/ AreadStored(c, u)
    \/ AreadStart(c, u)
    \/ AreadFails(c, u)

-----------------------------------------------------------------------------
(* do_vmailbox_awrite(), do_vportal_awrite() *)
Writes(c, a) == comm[c].used /\ comm[c].chan = a /\ ~comm[c].busy /\ Alone(c)
Msg(k) == [src |-> Local(k.port), dest |-> k.remote, n |-> sent + 1]

(* A forward: the request is registered and the message is stored, or the  *)
(* request is registered and there is no buffer.                           *)
AwriteForward(c) ==
    LET k == comm[c] IN
    /\ Writes(c, "fwd") /\ sent < MaxMsgs
    /\ ~port["fwd"][k.port].requested /\ ~IsFull(requests["fwd"])
    /\ Room => ~PoolFull(Aux) /\ requests["fwd"].nelements < PORT_NR - 1
    /\ requests' = [requests EXCEPT !["fwd"] = Register(@, k.port)]
    /\ port' = [port EXCEPT !["fwd"][k.port].requested = TRUE]
    /\ \/ \E b \in Aux :
            /\ FirstFree(Aux, b)
            /\ mbuf' = [mbuf EXCEPT ![b] = Taken(Msg(k), k.port)]
            /\ kept' = Append(kept, b)
            /\ sent' = sent + 1
            /\ comm' = [comm EXCEPT ![c].busy = TRUE, ![c].finished = TRUE, ![c].allowed = FALSE]
       \/ PoolFull(Aux) /\ UNCHANGED <<mbuf, kept, sent, comm>>
    /\ UNCHANGED <<busy, remote, waits, hw, rx, done, dropped, panicked>>

(* Mutant: the buffer of an earlier attempt is not used again. *)
SendBufferOnce(k, b) ==
    /\ port["net"][k.port].mbuf = NULL /\ sent < MaxMsgs
    /\ FirstFree(Bufs, b)
    /\ mbuf' = [mbuf EXCEPT ![b] = Taken(Msg(k), NULL)]
    /\ sent' = sent + 1

(* The buffer that a send uses: the one of an earlier attempt, or a new    *)
(* one with the message.                                                   *)
SendBuffer(k, b) ==
    \/ port["net"][k.port].mbuf = b /\ UNCHANGED <<mbuf, sent>>
    \/ /\ port["net"][k.port].mbuf = NULL /\ sent < MaxMsgs
       /\ FirstFree(Bufs, b)
       /\ mbuf' = [mbuf EXCEPT ![b] = Taken(Msg(k), NULL)]
       /\ sent' = sent + 1

(* A send: the request is registered, and the hardware is started when it  *)
(* is the port's turn and the channel is not busy; else the call fails and *)
(* keeps the buffer and the place in the FIFO for the retry.               *)
AwriteSend(c) ==
    LET k == comm[c]
        p == port["net"][k.port]
        q == requests["net"]
        req == p.requested \/ ~IsFull(q)
        fifo == IF p.requested \/ IsFull(q) THEN q ELSE Register(q, k.port)
        may == req /\ Turn(fifo, k.port) /\ "net" \notin busy
    IN
    /\ Writes(c, "net")
    /\ \E b \in Bufs :
         /\ SendBuffer(k, b)
         /\ port' = [port EXCEPT !["net"][k.port].mbuf = b, !["net"][k.port].requested = req]
         /\ requests' = [requests EXCEPT !["net"] = fifo]
         /\ \/ /\ may
               /\ hw' = [hw EXCEPT !["net"] = b]
               /\ busy' = busy \cup {"net"}
               /\ comm' = [comm EXCEPT ![c].busy = TRUE]
            \/ (~may \/ HwErrors) /\ UNCHANGED <<hw, busy, comm>>
    /\ UNCHANGED <<remote, kept, waits, rx, done, dropped, panicked>>

-----------------------------------------------------------------------------
(* communicator_wait(): leaves the communicator ready for the next call *)
At(pc, c, b, ok) == [pc |-> pc, comm |-> c, mbuf |-> b, ok |-> ok]
Idle(k) == [k EXCEPT !.buffer = NULL, !.asked = NULL, !.busy = FALSE]

(* After a wait that succeeds do_vmailbox_wait() forgets the source of the *)
(* next read.                                                              *)
Leave(t, c, ok) ==
    waits' = [waits EXCEPT ![t] = IF ok /\ ~Portal /\ comm[c].chan = "in" THEN At("reset", c, NULL, ok) ELSE NULL]

WaitEnter(t, c) ==
    /\ waits[t] = NULL
    /\ comm[c].used /\ comm[c].busy /\ Alone(c)
    /\ IF comm[c].finished
       THEN comm' = [comm EXCEPT ![c] = [Idle(@) EXCEPT !.finished = FALSE]] /\ Leave(t, c, TRUE)
       ELSE UNCHANGED comm /\ waits' = [waits EXCEPT ![t] = At("active", c, NULL, FALSE)]
    /\ UNCHANGED <<port, requests, busy, remote, mbuf, kept, world, panicked>>

(* active_wait(), up to the wait for the hardware *)
WaitActive(t) ==
    LET w == waits[t]
        k == comm[w.comm]
        p == port[k.chan][k.port]
        ok == p.used /\ k.chan \in busy /\ p.mbuf # NULL /\ (k.chan = "in" \/ Turn(requests[k.chan], k.port))
    IN
    /\ w # NULL /\ w.pc = "active"
    /\ waits' = [waits EXCEPT ![t] = IF ok THEN At("hw", w.comm, p.mbuf, FALSE) ELSE At("comm", w.comm, NULL, FALSE)]
    /\ UNCHANGED <<port, requests, busy, remote, mbuf, kept, comm, world, panicked>>

(* Mutant: a message that is for the reader is stored too. *)
KeepsAll(k, m) == k.chan = "in" /\ port["in"][m.dest.port].used

(* active_wait(), once the hardware is done: a message for another port is *)
(* stored when that port is used, and discarded when not.                  *)
Keeps(k, m) == k.chan = "in" /\ ~HeaderCheck(m, k) /\ port["in"][m.dest.port].used

WaitHw(t) ==
    LET w == waits[t]
        k == comm[w.comm]
        b == w.mbuf
        m == mbuf[b].msg
    IN
    /\ w # NULL /\ w.pc = "hw"
    /\ hw[k.chan] = NULL
    /\ IF port[k.chan][k.port].mbuf = NULL
       THEN panicked' = TRUE /\ UNCHANGED <<port, requests, busy, mbuf, kept, waits, done, dropped>>
       ELSE /\ IF Keeps(k, m)
               THEN kept' = Append(kept, b) /\ UNCHANGED mbuf
               ELSE mbuf' = [mbuf EXCEPT ![b] = Free] /\ UNCHANGED kept
            /\ done' = IF k.chan # "in" \/ HeaderCheck(m, k) THEN done \cup {m} ELSE done
            /\ dropped' = IF k.chan = "in" /\ ~HeaderCheck(m, k) /\ ~Keeps(k, m) THEN dropped \cup {m} ELSE dropped
            /\ requests' = IF k.chan = "in" THEN requests ELSE [requests EXCEPT ![k.chan] = Complete(@)]
            /\ port' = [port EXCEPT ![k.chan][k.port].mbuf = NULL,
                                    ![k.chan][k.port].requested = @ /\ k.chan = "in"]
            /\ busy' = busy \ {k.chan}
            /\ waits' = [waits EXCEPT ![t] = At("comm", w.comm, NULL, k.chan # "in" \/ HeaderCheck(m, k))]
            /\ UNCHANGED panicked
    /\ UNCHANGED <<remote, comm, hw, rx, sent>>

(* Mutant: the buffer is not released. *)
WaitHwFailsLeaks(t) ==
    LET w == waits[t]
        k == comm[w.comm]
    IN
    /\ HwErrors
    /\ w # NULL /\ w.pc = "hw"
    /\ hw[k.chan] = w.mbuf
    /\ hw' = [hw EXCEPT ![k.chan] = NULL]
    /\ port' = [port EXCEPT ![k.chan][k.port].mbuf = NULL]
    /\ busy' = busy \ {k.chan}
    /\ waits' = [waits EXCEPT ![t] = At("comm", w.comm, NULL, FALSE)]
    /\ UNCHANGED <<requests, remote, mbuf, kept, comm, rx, sent, done, dropped, panicked>>

(* active_wait(), when the hardware reports an error: the buffer is        *)
(* released and a request stays registered.                                *)
WaitHwFails(t) ==
    LET w == waits[t]
        k == comm[w.comm]
    IN
    /\ HwErrors
    /\ w # NULL /\ w.pc = "hw"
    /\ hw[k.chan] = w.mbuf
    /\ hw' = [hw EXCEPT ![k.chan] = NULL]
    /\ mbuf' = [mbuf EXCEPT ![w.mbuf] = Free]
    /\ dropped' = IF k.chan = "in" THEN dropped ELSE dropped \cup {mbuf[w.mbuf].msg}
    /\ port' = [port EXCEPT ![k.chan][k.port].mbuf = NULL]
    /\ busy' = busy \ {k.chan}
    /\ waits' = [waits EXCEPT ![t] = At("comm", w.comm, NULL, FALSE)]
    /\ UNCHANGED <<requests, remote, kept, comm, rx, sent, done, panicked>>

(* communicator_wait(), with its lock taken again *)
WaitComm(t) ==
    LET w == waits[t]
        k == comm[w.comm]
    IN
    /\ w # NULL /\ w.pc = "comm"
    /\ comm' = [comm EXCEPT ![w.comm] =
                  IF w.ok THEN [Idle(k) EXCEPT !.allowed = FALSE, !.remote = IF k.chan = "in" THEN NULL ELSE k.remote]
                  ELSE Idle(k)]
    /\ Leave(t, w.comm, w.ok)
    /\ UNCHANGED <<port, requests, busy, remote, mbuf, kept, world, panicked>>

(* do_vmailbox_wait(), after communicator_wait() *)
WaitReset(t) ==
    LET w == waits[t] IN
    /\ w # NULL /\ w.pc = "reset"
    /\ comm' = [comm EXCEPT ![w.comm].remote = IF comm[w.comm].chan = "in" THEN NULL ELSE @]
    /\ waits' = [waits EXCEPT ![t] = NULL]
    /\ UNCHANGED <<port, requests, busy, remote, mbuf, kept, world, panicked>>

-----------------------------------------------------------------------------
(* The network: messages arrive, and the hardware receives or sends.       *)
Arrive(src, p) ==
    /\ sent < MaxMsgs
    /\ sent' = sent + 1
    /\ rx' = Append(rx, [src |-> src, dest |-> Local(p), n |-> sent + 1])
    /\ UNCHANGED <<port, requests, busy, remote, mbuf, kept, comm, waits, hw, done, dropped, panicked>>

HwReceive ==
    /\ hw["in"] # NULL /\ rx # <<>>
    /\ mbuf' = [mbuf EXCEPT ![hw["in"]].msg = Head(rx)]
    /\ rx' = Tail(rx)
    /\ hw' = [hw EXCEPT !["in"] = NULL]
    /\ UNCHANGED <<port, requests, busy, remote, kept, comm, waits, sent, done, dropped, panicked>>

HwSend ==
    /\ hw["net"] # NULL
    /\ hw' = [hw EXCEPT !["net"] = NULL]
    /\ UNCHANGED <<port, requests, busy, remote, mbuf, kept, comm, waits, rx, sent, done, dropped, panicked>>

Next ==
    /\ ~panicked
    /\ \/ \E p \in Ports : Create(p)
       \/ \E a \in Targets : Open(a)
       \/ \E c \in Comms : Release(c) \/ AwriteForward(c) \/ AwriteSend(c)
       \/ \E c \in Comms, r \in Filters : Allow(c, r) \/ SetRemote(c, r)
       \/ \E c \in Comms, u \in Buffers : Aread(c, u)
       \/ \E t \in Threads, c \in Comms : WaitEnter(t, c)
       \/ \E t \in Threads : WaitActive(t) \/ WaitHw(t) \/ WaitHwFails(t) \/ WaitComm(t) \/ WaitReset(t)
       \/ \E src \in Sources, p \in Ports : Arrive(src, p)
       \/ HwReceive
       \/ HwSend

Spec == Init /\ [][Next]_vars

(* User code retries a write that fails with -EBUSY and waits for one that *)
(* does not; the cores run, and the hardware sends.                        *)
FairSpec ==
    /\ Spec
    /\ \A c \in Comms : WF_vars(AwriteSend(c)) /\ WF_vars(\E t \in Threads : WaitEnter(t, c))
    /\ \A t \in Threads : WF_vars(WaitActive(t) \/ WaitHw(t) \/ WaitComm(t) \/ WaitReset(t))
    /\ WF_vars(HwSend)

-----------------------------------------------------------------------------
Buf == Bufs \cup {NULL}

(* Ports, FIFOs, buffers and communicators hold values of their types. *)
TypeOK ==
    /\ port \in [{"in", "net", "fwd"} -> [Ports -> [used : BOOLEAN, requested : BOOLEAN, mbuf : Buf]]]
    /\ requests \in [{"net", "fwd"} -> Fifo]
    /\ busy \subseteq {"in", "net"}
    /\ remote \in [allowed : BOOLEAN, node : {"local", "remote", NULL}]
    /\ mbuf \in [Bufs -> [used : BOOLEAN, msg : Msgs \cup {NULL}, from : Ports \cup {NULL}]]
    /\ DOMAIN kept = 1 .. Len(kept) /\ \A i \in DOMAIN kept : kept[i] \in Bufs
    /\ \A c \in Comms : comm[c].used =>
         comm[c] \in [used : {TRUE}, chan : {"in", "net", "fwd"}, port : Ports, remote : Addr \cup {NULL}, busy : BOOLEAN,
                      finished : BOOLEAN, allowed : BOOLEAN, buffer : Buffers \cup {NULL}, asked : Buffers \cup {NULL}]
    /\ waits \in [Threads -> Waits \cup {NULL}]
    /\ hw \in [{"in", "net"} -> Buf]
    /\ sent \in 0 .. MaxMsgs
    /\ panicked \in BOOLEAN

(* No buffer leaks and none is shared: one that is in use either stores a  *)
(* message or belongs to exactly one port (mbuffer_alloc(),                *)
(* mbuffer_release()).                                                     *)
Owners(b) ==
    {o \in {"in", "net", "fwd"} \X Ports : port[o[1]][o[2]].mbuf = b}
    \cup {<<"kept", i>> : i \in {j \in DOMAIN kept : kept[j] = b}}
BufferHasOneOwner ==
    \A b \in Bufs : Cardinality(Owners(b)) = IF mbuf[b].used THEN 1 ELSE 0

(* A message is never lost and never duplicated on its way: it is in the   *)
(* network, in one buffer, delivered or discarded, and in one of these     *)
(* only (active_aread(), active_awrite(), active_wait()).                  *)
Places(n) ==
    {<<"rx", i>> : i \in {j \in DOMAIN rx : rx[j].n = n}}
    \cup {<<"mbuf", b>> : b \in {x \in Bufs : mbuf[x].msg # NULL /\ mbuf[x].msg.n = n}}
    \cup {<<"done", m>> : m \in {x \in done : x.n = n}}
    \cup {<<"dropped", m>> : m \in {x \in dropped : x.n = n}}
MessageInOnePlace == \A n \in 1 .. sent : Cardinality(Places(n)) = 1

(* The messages from one address to another are delivered in the order in  *)
(* which they were sent, whichever reads stored them on the way, and one   *)
(* that arrives while its port is in use is not discarded by whoever reads *)
(* it from the hardware (active_wait()).                                   *)
InOrder ==
    [][/\ \A m \in done' \ done, x \in done : x.src = m.src /\ x.dest = m.dest => x.n < m.n
       /\ \A m \in dropped' \ dropped : m.src.node = "remote" => ~port["in"][m.dest.port].used]_vars

(* The FIFO of forwards lists, port by port, the forwarded messages that   *)
(* nobody has read: reading one releases its sender.                       *)
Entries(a, p) == {i \in Ports : requests[a].fifo[i] = p /\ (i \in Span(requests[a]) \/ IsFull(requests[a]))}
RequestHasMessage ==
    \A p \in Ports : Cardinality(Entries("fwd", p)) = Cardinality({i \in DOMAIN kept : mbuf[kept[i]].from = p})

(* A message that a read stored for another port is neither lost, nor      *)
(* duplicated, nor left without the request that releases its sender.      *)
MessagesSound == MessageInOnePlace /\ RequestHasMessage

(* The FIFO of sends lists the ports that asked to send, once each, and    *)
(* they are open, so that the channel is not blocked by a port that nobody *)
(* will retry.                                                             *)
RequestIsOpen ==
    \A p \in Ports : Cardinality(Entries("net", p)) = IF port["net"][p].used /\ port["net"][p].requested THEN 1 ELSE 0

(* A channel is busy for exactly one communicator, the one whose wait will *)
(* find it so: no wait for an operation under way fails with -EBADF.       *)
InFlight(c) ==
    /\ comm[c].busy /\ ~comm[c].finished
    /\ \A t \in Threads : waits[t] # NULL /\ waits[t].comm = c => waits[t].pc # "comm"
OneOperation ==
    \A a \in {"in", "net"} :
      /\ Cardinality({c \in Comms : InFlight(c) /\ comm[c].chan = a}) = IF a \in busy THEN 1 ELSE 0
      /\ \A c \in Comms : InFlight(c) /\ comm[c].chan = a =>
           port[a][comm[c].port].mbuf # NULL /\ (a = "net" => Turn(requests[a], comm[c].port))

(* Operations and buffers belong together: every operation under way has   *)
(* its channel and its buffer to itself, also after the hardware failed.   *)
OperationsSound == OneOperation /\ BufferHasOneOwner

(* A message that a write has taken leaves the node, however the writers   *)
(* of the channel interleave: the FIFO lets each have its turn.            *)
WriteSent ==
    \A n \in 1 .. MaxMsgs :
      (\E p \in Ports : port["net"][p].mbuf # NULL /\ mbuf[port["net"][p].mbuf].msg.n = n) ~> (\E m \in done : m.n = n)

(* The kernel does not panic. *)
NoPanic == ~panicked

(* A message goes to the buffer of the read that was accepted. *)
ReadBufferStable ==
    \A c \in Comms : InFlight(c) /\ comm[c].chan = "in" => comm[c].buffer = comm[c].asked

=============================================================================
