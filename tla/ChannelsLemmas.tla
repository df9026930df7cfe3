--------------------------- MODULE ChannelsLemmas ---------------------------
(***************************************************************************)
(* Mailboxes and portals, for any number of ports, communicators, message  *)
(* buffers, threads and messages: the inductive invariant, and the steps   *)
(* that open, close, ask, wait and read what is stored.                    *)
(***************************************************************************)
EXTENDS Channels, TLAPS

Chans == {"in", "net", "fwd"}
PortType == [used : BOOLEAN, requested : BOOLEAN, mbuf : Bufs \cup {NULL}]
BufType == [used : BOOLEAN, msg : Msgs \cup {NULL}, from : Ports \cup {NULL}]
CommType == [used : BOOLEAN, chan : Chans \cup {NULL}, port : Ports \cup {NULL},
             remote : Addr \cup {NULL}, busy : BOOLEAN, finished : BOOLEAN, allowed : BOOLEAN,
             buffer : Buffers \cup {NULL}, asked : Buffers \cup {NULL}]

CType ==
    /\ port \in [Chans -> [Ports -> PortType]]
    /\ requests \in [{"net", "fwd"} -> Fifo]
    /\ busy \in SUBSET {"in", "net"}
    /\ mbuf \in [Bufs -> BufType]
    /\ kept \in Seq(Bufs)
    /\ comm \in [Comms -> CommType]
    /\ waits \in [Threads -> Waits \cup {NULL}]
    /\ hw \in [{"in", "net"} -> Bufs \cup {NULL}]
    /\ rx \in Seq(Msgs)
    /\ sent \in 0 .. MaxMsgs

(* A communicator that is in use has a port of its own, and one that is    *)
(* busy is in use; forwards finish at once.                                *)
CommsOk ==
    /\ \A c \in Comms : comm[c].used =>
         /\ comm[c].chan \in Chans /\ comm[c].port \in Ports
         /\ port[comm[c].chan][comm[c].port].used
    /\ \A c, d \in Comms :
         /\ comm[c].used /\ comm[d].used
         /\ comm[c].chan = comm[d].chan /\ comm[c].port = comm[d].port
         => c = d
    /\ \A c \in Comms :
         /\ comm[c].busy => comm[c].used
         /\ comm[c].finished => comm[c].busy
         /\ comm[c].busy /\ comm[c].chan = "fwd" => comm[c].finished

(* A communicator is waited for by one thread, while its operation lasts.  *)
WaitOk(t) ==
    LET k == comm[waits[t].comm] IN
    /\ k.used
    /\ waits[t].pc # "reset" => k.busy /\ ~k.finished
    /\ waits[t].pc = "reset" => ~k.busy
    /\ waits[t].pc = "hw" => waits[t].mbuf = port[k.chan][k.port].mbuf
WaitsOk ==
    /\ \A t \in Threads : waits[t] # NULL => WaitOk(t)
    /\ \A t, u \in Threads :
         waits[t] # NULL /\ waits[u] # NULL /\ waits[t].comm = waits[u].comm => t = u

(* A channel is busy for one communicator, whose buffer its hardware uses. *)
OpsOk ==
    /\ \A c \in Comms : InFlight(c) =>
         /\ comm[c].chan \in busy
         /\ port[comm[c].chan][comm[c].port].mbuf # NULL
         /\ comm[c].chan = "net" => Turn(requests["net"], comm[c].port)
    /\ \A a \in busy : \E c \in Comms : InFlight(c) /\ comm[c].chan = a
    /\ \A c, d \in Comms : InFlight(c) /\ InFlight(d) /\ comm[c].chan = comm[d].chan => c = d
    /\ \A a \in {"in", "net"} : hw[a] # NULL =>
         \E c \in Comms : InFlight(c) /\ comm[c].chan = a /\ port[a][comm[c].port].mbuf = hw[a]

(* A buffer in use stores a message or belongs to one port: one that       *)
(* receives, or one that sends or will retry to.                           *)
BufsOk ==
    /\ \A p \in Ports : port["fwd"][p].mbuf = NULL
    /\ \A p \in Ports : port["in"][p].mbuf # NULL =>
         \E c \in Comms : InFlight(c) /\ comm[c].chan = "in" /\ comm[c].port = p
    /\ \A a, x \in Chans : \A p, y \in Ports :
         port[a][p].mbuf # NULL /\ port[a][p].mbuf = port[x][y].mbuf => a = x /\ p = y
    /\ \A i, j \in DOMAIN kept : kept[i] = kept[j] => i = j
    /\ \A a \in Chans : \A p \in Ports : \A i \in DOMAIN kept : port[a][p].mbuf # kept[i]
    /\ \A b \in Bufs : mbuf[b].used <=>
         \/ \E a \in Chans : \E p \in Ports : port[a][p].mbuf = b
         \/ \E i \in DOMAIN kept : kept[i] = b

(* The FIFO of requests has its elements from its tail to its head. *)
RingOk(q) ==
    /\ q.nelements \in 0 .. PORT_NR
    /\ q.head = q.tail + q.nelements \/ q.head = q.tail + q.nelements - PORT_NR

(* A communicator that writes knows where to. *)
RemotesOk ==
    \A c \in Comms : comm[c].used /\ comm[c].chan # "in" =>
      comm[c].remote \in Addr /\ comm[c].chan = Out(comm[c].remote)

RingsOk == \A a \in {"net", "fwd"} : RingOk(requests[a])

CInv == CType /\ CommsOk /\ WaitsOk /\ OpsOk /\ BufsOk /\ RingsOk

-----------------------------------------------------------------------------
(* The sets of the model. *)
LEMMA Consts ==
    /\ PORT_NR \in Nat \ {0} /\ COMM_MAX \in Nat \ {0} /\ BUFFERS_MAX \in Nat \ {0}
    /\ Ports = 0 .. PORT_NR - 1 /\ Comms = 0 .. COMM_MAX - 1 /\ Bufs = 0 .. BUFFERS_MAX - 1
    /\ Aux \subseteq Bufs
BY RequestsAssumption, ChannelsAssumption DEF Ports, Comms, Bufs, Aux

(* The next position of a ring. *)
LEMMA SuccIs ==
    \A i \in Ports : Succ(i) \in Ports /\ Succ(i) = IF i = PORT_NR - 1 THEN 0 ELSE i + 1
BY RequestsAssumption DEF Ports, Succ

(* The position before. *)
LEMMA PredIs ==
    \A i \in Ports : (i - 1) % PORT_NR \in Ports
                     /\ (i - 1) % PORT_NR = IF i = 0 THEN PORT_NR - 1 ELSE i - 1
BY RequestsAssumption DEF Ports

(* A port that is registered, completed or cleared leaves a FIFO. *)
LEMMA FifoSteps ==
    ASSUME NEW q \in Fifo, NEW p \in Ports
    PROVE  /\ Register(q, p).head = Succ(q.head) /\ Register(q, p).tail = q.tail
           /\ Register(q, p).nelements = q.nelements + 1
           /\ Register(q, p).fifo = [q.fifo EXCEPT ![q.head] = p]
           /\ Complete(q).head = q.head /\ Complete(q).tail = Succ(q.tail)
           /\ Complete(q).nelements = q.nelements - 1
           /\ Complete(q).fifo = [q.fifo EXCEPT ![q.tail] = -1]
           /\ q.nelements < PORT_NR => Register(q, p) \in Fifo
           /\ q.nelements > -1 => Complete(q) \in Fifo
<1>1. Succ(q.head) \in Ports /\ Succ(q.tail) \in Ports BY Zenon, SuccIs DEF Fifo
<1>2. -1 .. PORT_NR \in SUBSET Int /\ PORT_NR \in Nat BY RequestsAssumption
<1>3. [q.fifo EXCEPT ![q.head] = p] \in [Ports -> Ports \cup {-1}]
  BY Zenon DEF Fifo
<1>4. [q.fifo EXCEPT ![q.tail] = -1] \in [Ports -> Ports \cup {-1}]
  BY Zenon DEF Fifo
<1>5. q.nelements < PORT_NR => q.nelements + 1 \in -1 .. PORT_NR BY <1>2 DEF Fifo
<1>6. q.nelements > -1 => q.nelements - 1 \in -1 .. PORT_NR BY <1>2 DEF Fifo
<1>7. /\ Register(q, p).head = Succ(q.head) /\ Register(q, p).tail = q.tail
      /\ Register(q, p).nelements = q.nelements + 1
      /\ Register(q, p).fifo = [q.fifo EXCEPT ![q.head] = p]
  BY Zenon DEF Fifo, Register
<1>8. /\ Complete(q).head = q.head /\ Complete(q).tail = Succ(q.tail)
      /\ Complete(q).nelements = q.nelements - 1
      /\ Complete(q).fifo = [q.fifo EXCEPT ![q.tail] = -1]
  BY Zenon DEF Fifo, Complete
<1>9. q.nelements < PORT_NR => Register(q, p) \in Fifo
  BY Zenon, <1>1, <1>3, <1>5 DEF Fifo, Register
<1>10. q.nelements > -1 => Complete(q) \in Fifo
  BY Zenon, <1>1, <1>4, <1>6 DEF Fifo, Complete
<1> QED BY Zenon, <1>7, <1>8, <1>9, <1>10

(* Clearing an entry of a ring. *)
LEMMA ClearSteps ==
    ASSUME NEW q \in Fifo, NEW p \in Ports, RingOk(q)
    PROVE  Clear(q, p) \in Fifo /\ RingOk(Clear(q, p))
<1>1. CASE ~Clears(q, p) BY Zenon, <1>1 DEF Clear
<1>2. CASE Clears(q, p)
  <2> DEFINE f == [i \in Ports |-> IF i \in Span(q) /\ \E j \in Found(q, p) : Dist(q, j) <= Dist(q, i)
                                   THEN q.fifo[Succ(i)] ELSE q.fifo[i]]
  <2>1. Clear(q, p) = [q EXCEPT !.fifo = f, !.head = (@ - 1) % PORT_NR, !.nelements = @ - 1]
    BY Zenon, <1>2 DEF Clear
  <2>2. f \in [Ports -> Ports \cup {-1}] BY Zenon, SuccIs DEF Fifo
  <2> HIDE DEF f
  <2>3. /\ Clear(q, p).tail = q.tail /\ Clear(q, p).head = (q.head - 1) % PORT_NR
        /\ Clear(q, p).nelements = q.nelements - 1
    BY Zenon, <2>1 DEF Fifo
  <2>4. (q.head - 1) % PORT_NR \in Ports BY Zenon, PredIs DEF Fifo
  <2>5. q.nelements \in 1 .. PORT_NR /\ q.nelements - 1 \in 0 .. PORT_NR
    BY <1>2, RequestsAssumption DEF RingOk, Clears
  <2>6. q.nelements - 1 \in -1 .. PORT_NR BY <2>5, RequestsAssumption
  <2>7. Clear(q, p) \in Fifo BY Zenon, <2>1, <2>2, <2>4, <2>6 DEF Fifo
  <2>8. q.head \in Ports /\ q.tail \in Ports BY Zenon DEF Fifo
  <2>9. (q.head - 1) % PORT_NR = IF q.head = 0 THEN PORT_NR - 1 ELSE q.head - 1 BY Zenon, <2>8, PredIs
  <2>10. \/ (q.head - 1) % PORT_NR = q.tail + (q.nelements - 1)
         \/ (q.head - 1) % PORT_NR = q.tail + (q.nelements - 1) - PORT_NR
    BY <2>5, <2>8, <2>9, RequestsAssumption DEF RingOk, Ports
  <2> QED BY Zenon, <2>3, <2>5, <2>7, <2>10 DEF RingOk
<1> QED BY Zenon, <1>1, <1>2

(* Registering in a ring that has room, and completing in one that is not  *)
(* empty.                                                                  *)
LEMMA RingSteps ==
    ASSUME NEW q \in Fifo, NEW p \in Ports, RingOk(q)
    PROVE  /\ ~IsFull(q) => Register(q, p) \in Fifo /\ RingOk(Register(q, p))
           /\ q.nelements # 0 => Complete(q) \in Fifo /\ RingOk(Complete(q))
<1>1. q.head \in Ports /\ q.tail \in Ports /\ q.nelements \in 0 .. PORT_NR /\ PORT_NR \in Nat
  BY Zenon, RequestsAssumption DEF Fifo, RingOk
<1>2. /\ Succ(q.head) = IF q.head = PORT_NR - 1 THEN 0 ELSE q.head + 1
      /\ Succ(q.tail) = IF q.tail = PORT_NR - 1 THEN 0 ELSE q.tail + 1
  BY Zenon, <1>1, SuccIs
<1>3. ASSUME ~IsFull(q) PROVE Register(q, p) \in Fifo /\ RingOk(Register(q, p))
  <2>1. q.nelements < PORT_NR /\ q.nelements + 1 \in 0 .. PORT_NR BY <1>1, <1>3 DEF IsFull
  <2>2. \/ Succ(q.head) = q.tail + (q.nelements + 1)
        \/ Succ(q.head) = q.tail + (q.nelements + 1) - PORT_NR
    BY <1>1, <1>2, <2>1 DEF RingOk, Ports
  <2> QED BY Zenon, <2>1, <2>2, FifoSteps DEF RingOk
<1>4. ASSUME q.nelements # 0 PROVE Complete(q) \in Fifo /\ RingOk(Complete(q))
  <2>1. q.nelements > -1 /\ q.nelements - 1 \in 0 .. PORT_NR BY <1>1, <1>4
  <2>2. \/ q.head = Succ(q.tail) + (q.nelements - 1)
        \/ q.head = Succ(q.tail) + (q.nelements - 1) - PORT_NR
    BY <1>1, <1>2, <1>4, <2>1 DEF RingOk, Ports
  <2> QED BY Zenon, <2>1, <2>2, FifoSteps DEF RingOk
<1> QED BY Zenon, <1>3, <1>4

-----------------------------------------------------------------------------
SameOp(c) ==
    /\ comm'[c].used = comm[c].used /\ comm'[c].chan = comm[c].chan
    /\ comm'[c].port = comm[c].port /\ comm'[c].busy = comm[c].busy
    /\ comm'[c].finished = comm[c].finished

(* An update of one communicator. *)
LEMMA PutComm ==
    ASSUME CType, NEW c \in Comms, NEW k \in CommType, comm' = [comm EXCEPT ![c] = k]
    PROVE  /\ comm' \in [Comms -> CommType]
           /\ \A d \in Comms : comm'[d] = IF d = c THEN k ELSE comm[d]
BY Zenon DEF CType

LEMMA PutSame ==
    ASSUME CType, NEW c \in Comms, NEW k \in CommType, comm' = [comm EXCEPT ![c] = k],
           k.used = comm[c].used, k.chan = comm[c].chan, k.port = comm[c].port,
           k.busy = comm[c].busy, k.finished = comm[c].finished
    PROVE  comm' \in [Comms -> CommType] /\ \A d \in Comms : SameOp(d)
BY Zenon, PutComm DEF SameOp

(* A step that changes no port, buffer or operation. *)
LEMMA Quiet ==
    ASSUME CInv, CType',
           port' = port, requests' = requests, busy' = busy, kept' = kept,
           \A b \in Bufs : mbuf'[b].used = mbuf[b].used,
           \A c \in Comms : SameOp(c),
           \A t \in Threads : waits'[t] = waits[t] \/ (waits'[t] = NULL /\ waits[t].pc = "reset"),
           \A a \in {"in", "net"} : hw'[a] = hw[a] \/ hw'[a] = NULL
    PROVE  CInv'
<1>1. \A c \in Comms : /\ comm'[c].used = comm[c].used /\ comm'[c].chan = comm[c].chan
                       /\ comm'[c].port = comm[c].port /\ comm'[c].busy = comm[c].busy
                       /\ comm'[c].finished = comm[c].finished
  BY Zenon DEF SameOp
<1>2. CommsOk' BY <1>1 DEF CInv, CommsOk
<1>3. \A t \in Threads : waits[t] = NULL \/ waits[t].comm \in Comms
  BY Zenon DEF CInv, CType, Waits
<1>4. WaitsOk'
  <2>1. \A t \in Threads : waits'[t] # NULL => waits'[t] = waits[t] BY Zenon
  <2>2. \A t \in Threads : waits'[t] # NULL => waits[t] # NULL /\ waits[t].comm \in Comms
    BY Zenon, <1>3, <2>1
  <2>3. ASSUME NEW t \in Threads, waits'[t] # NULL PROVE WaitOk(t)'
    <3>1. waits'[t] = waits[t] /\ waits[t].comm \in Comms /\ WaitOk(t)
      BY Zenon, <2>1, <2>2, <2>3 DEF CInv, WaitsOk
    <3> QED BY ZenonT(60), <1>1, <3>1 DEF WaitOk
  <2>4. ASSUME NEW t \in Threads, NEW u \in Threads, waits'[t] # NULL, waits'[u] # NULL,
               waits'[t].comm = waits'[u].comm
        PROVE  t = u
    BY Zenon, <2>1, <2>4 DEF CInv, WaitsOk
  <2> QED BY Zenon, <2>3, <2>4 DEF WaitsOk
<1>5. \A c \in Comms : InFlight(c)' <=> InFlight(c)
  <2>1. \A t \in Threads : waits[t] # NULL /\ waits'[t] = NULL => waits[t].pc # "comm" BY Zenon
  <2>2. \A t \in Threads : waits'[t] # NULL => waits'[t] = waits[t] BY Zenon
  <2> QED BY <1>1, <2>1, <2>2 DEF InFlight
<1>6. OpsOk' BY <1>1, <1>5 DEF CInv, OpsOk
<1>7. BufsOk' BY <1>1, <1>5 DEF CInv, BufsOk
<1>8. RingsOk' BY Zenon DEF CInv, RingsOk
<1> QED BY Zenon, <1>2, <1>4, <1>6, <1>7, <1>8 DEF CInv

LEMMA AllowSteps ==
    ASSUME CInv, NEW c \in Comms, NEW r \in Filters, Allow(c, r) \/ SetRemote(c, r)
    PROVE  CInv'
<1>1. r \in Addr BY Zenon, AddressAssumption
<1>2. CType /\ comm[c] \in CommType BY Zenon DEF CInv, CType
<1>3. comm' \in [Comms -> CommType] /\ \A d \in Comms : SameOp(d)
  <2>1. CASE Allow(c, r)
    <3> DEFINE k == [comm[c] EXCEPT !.allowed = TRUE, !.remote = r]
    <3>1. comm' = [comm EXCEPT ![c] = k] BY Zenon, <1>2, <2>1 DEF Allow, CType
    <3>2. k \in CommType BY Zenon, <1>1, <1>2 DEF CommType
    <3> QED BY Zenon, <1>2, <3>1, <3>2, PutSame DEF CommType
  <2>2. CASE SetRemote(c, r)
    <3> DEFINE k == [comm[c] EXCEPT !.remote = r]
    <3>1. comm' = [comm EXCEPT ![c] = k] BY Zenon, <1>2, <2>2 DEF SetRemote, CType
    <3>2. k \in CommType BY Zenon, <1>1, <1>2 DEF CommType
    <3> QED BY Zenon, <1>2, <3>1, <3>2, PutSame DEF CommType
  <2> QED BY Zenon, <2>1, <2>2
<1>4. UNCHANGED <<port, requests, busy, mbuf, kept, waits, hw, rx, sent, done, dropped>>
  BY Zenon DEF Allow, SetRemote, world
<1>5. CType' BY Zenon, <1>3, <1>4 DEF CInv, CType
<1> QED BY Zenon, <1>3, <1>4, <1>5, Quiet

LEMMA AskSteps ==
    ASSUME CInv, NEW c \in Comms, NEW u \in Buffers, AreadRefused(c, u) \/ AreadFails(c, u)
    PROVE  CInv'
<1>1. comm' = [comm EXCEPT ![c] = Asked(c, u)] BY Zenon DEF AreadRefused, AreadFails
<1>2. comm' \in [Comms -> CommType] /\ \A d \in Comms : SameOp(d)
  <2>1. CType /\ comm[c] \in CommType BY Zenon DEF CInv, CType
  <2>2. Asked(c, u) \in CommType BY Zenon, <2>1 DEF CommType, Asked
  <2> QED BY ZenonT(60), <1>1, <2>1, <2>2, PutSame DEF CommType, Asked
<1>3. UNCHANGED <<port, requests, busy, mbuf, kept, waits, hw, rx, sent, done, dropped>>
  BY Zenon DEF AreadRefused, AreadFails, world
<1>4. CType' BY Zenon, <1>2, <1>3 DEF CInv, CType
<1> QED BY Zenon, <1>2, <1>3, <1>4, Quiet

LEMMA ResetSteps ==
    ASSUME CInv, NEW t \in Threads, WaitReset(t)
    PROVE  CInv'
<1>1. waits[t].comm \in Comms /\ waits[t].pc = "reset" BY Zenon DEF WaitReset, CInv, CType, Waits
<1>2. comm' \in [Comms -> CommType] /\ \A d \in Comms : SameOp(d)
  <2> DEFINE c == waits[t].comm
             k == [comm[c] EXCEPT !.remote = IF comm[c].chan = "in" THEN NULL ELSE @]
  <2>1. CType /\ comm[c] \in CommType BY Zenon, <1>1 DEF CInv, CType
  <2>2. k \in CommType BY Zenon, <2>1 DEF CommType
  <2>3. comm' = [comm EXCEPT ![c] = k] BY Zenon, <1>1, <2>1 DEF WaitReset, CType
  <2> QED BY ZenonT(60), <1>1, <2>1, <2>2, <2>3, PutSame DEF CommType
<1>3. UNCHANGED <<port, requests, busy, mbuf, kept, hw, rx, sent, done, dropped>>
  BY Zenon DEF WaitReset, world
<1>4. waits' \in [Threads -> Waits \cup {NULL}] BY Zenon DEF WaitReset, CInv, CType
<1>5. CType' BY Zenon, <1>2, <1>3, <1>4 DEF CInv, CType
<1>6. \A u \in Threads : waits'[u] = waits[u] \/ (waits'[u] = NULL /\ waits[u].pc = "reset")
  BY Zenon, <1>1 DEF WaitReset, CInv, CType
<1> QED BY Zenon, <1>2, <1>3, <1>5, <1>6, Quiet

LEMMA NetSteps ==
    ASSUME CInv, \/ \E src \in Sources, p \in Ports : Arrive(src, p)
                 \/ HwReceive
                 \/ HwSend
    PROVE  CInv'
<1>1. UNCHANGED <<port, requests, busy, kept, comm, waits, done, dropped>>
  BY Zenon DEF Arrive, HwReceive, HwSend
<1>2. \A d \in Comms : SameOp(d) BY Zenon, <1>1 DEF SameOp
<1>3. /\ hw' \in [{"in", "net"} -> Bufs \cup {NULL}]
      /\ \A a \in {"in", "net"} : hw'[a] = hw[a] \/ hw'[a] = NULL
  BY Zenon DEF Arrive, HwReceive, HwSend, CInv, CType
<1>4. /\ mbuf' \in [Bufs -> BufType]
      /\ \A b \in Bufs : mbuf'[b].used = mbuf[b].used
  <2>1. CASE mbuf' = mbuf BY Zenon, <2>1 DEF CInv, CType
  <2>2. CASE HwReceive
    <3>1. Head(rx) \in Msgs /\ hw["in"] \in Bufs BY <2>2 DEF HwReceive, CInv, CType
    <3>2. mbuf' = [mbuf EXCEPT ![hw["in"]].msg = Head(rx)] BY Zenon, <2>2 DEF HwReceive
    <3>3. mbuf[hw["in"]] \in BufType BY Zenon, <3>1 DEF CInv, CType
    <3>4. [mbuf[hw["in"]] EXCEPT !.msg = Head(rx)] \in BufType BY Zenon, <3>1, <3>3 DEF BufType
    <3>5. mbuf' = [mbuf EXCEPT ![hw["in"]] = [mbuf[hw["in"]] EXCEPT !.msg = Head(rx)]]
      BY Zenon, <3>1, <3>2 DEF CInv, CType
    <3> QED BY Zenon, <3>1, <3>3, <3>4, <3>5 DEF CInv, CType, BufType
  <2> QED BY Zenon, <2>1, <2>2 DEF Arrive, HwSend
<1>5. rx' \in Seq(Msgs) /\ sent' \in 0 .. MaxMsgs
  <2>1. CASE \E src \in Sources, p \in Ports : Arrive(src, p)
    <3>1. PICK src \in Sources, p \in Ports : Arrive(src, p) BY Zenon, <2>1
    <3>2. sent + 1 \in 1 .. MaxMsgs BY <3>1, ChannelsAssumption DEF Arrive, CInv, CType
    <3>3. src \in Addr /\ Local(p) \in Addr BY Zenon, AddressAssumption DEF Local, Addr
    <3>4. [src |-> src, dest |-> Local(p), n |-> sent + 1] \in Msgs BY Zenon, <3>2, <3>3 DEF Msgs
    <3>5. rx' \in Seq(Msgs) BY <3>1, <3>4 DEF Arrive, CInv, CType
    <3> QED BY <3>1, <3>2, <3>5 DEF Arrive
  <2>2. CASE HwReceive BY <2>2 DEF HwReceive, CInv, CType
  <2>3. CASE HwSend BY Zenon, <2>3 DEF HwSend, CInv, CType
  <2> QED BY Zenon, <2>1, <2>2, <2>3
<1>6. CType' BY Zenon, <1>1, <1>3, <1>4, <1>5 DEF CInv, CType
<1> QED BY Zenon, <1>1, <1>2, <1>3, <1>4, <1>6, Quiet

-----------------------------------------------------------------------------
(* An update of one port. *)
LEMMA PutPort ==
    ASSUME CType, NEW a \in Chans, NEW p \in Ports, NEW v \in PortType,
           port' = [port EXCEPT ![a][p] = v]
    PROVE  /\ port' \in [Chans -> [Ports -> PortType]]
           /\ \A x \in Chans, y \in Ports : port'[x][y] = IF x = a /\ y = p THEN v ELSE port[x][y]
<1>1. port[a] \in [Ports -> PortType] BY Zenon DEF CType
<1>2. [port[a] EXCEPT ![p] = v] \in [Ports -> PortType] BY Zenon, <1>1
<1>3. \A x \in Chans : port'[x] = IF x = a THEN [port[a] EXCEPT ![p] = v] ELSE port[x]
  BY Zenon DEF CType
<1>4. port' \in [Chans -> [Ports -> PortType]] BY Zenon, <1>2 DEF CType
<1> QED BY Zenon, <1>1, <1>3, <1>4

(* A communicator under way is in use. *)
LEMMA FlightUsed ==
    ASSUME CInv, NEW c \in Comms, InFlight(c)
    PROVE  /\ comm[c].used /\ comm[c].chan \in {"in", "net"} /\ comm[c].port \in Ports
           /\ comm[c].chan \in busy
           /\ port[comm[c].chan][comm[c].port].mbuf \in Bufs
<1>1. comm[c].used /\ comm[c].chan \in busy BY Zenon DEF CInv, CommsOk, OpsOk, InFlight
<1>2. comm[c].chan \in {"in", "net"} BY Zenon, <1>1 DEF CInv, CType
<1>3. comm[c].port \in Ports BY Zenon, <1>1 DEF CInv, CommsOk
<1>4. port[comm[c].chan][comm[c].port].mbuf # NULL BY Zenon DEF CInv, OpsOk
<1>5. port[comm[c].chan][comm[c].port].mbuf \in Bufs
  BY SMTT(60), <1>2, <1>3, <1>4 DEF CInv, CType, PortType, Chans
<1> QED BY Zenon, <1>1, <1>2, <1>3, <1>5

(* A step that opens or closes communicators that are not busy. *)
LEMMA OpenClose ==
    ASSUME CInv, CType', CommsOk',
           UNCHANGED <<requests, busy, mbuf, kept, waits, hw>>,
           \A x \in Chans, y \in Ports : port'[x][y].mbuf = port[x][y].mbuf,
           \A c \in Comms : comm'[c].busy = comm[c].busy /\ comm'[c].finished = comm[c].finished,
           \A c \in Comms : comm[c].busy => comm'[c] = comm[c],
           \A t \in Threads : waits[t] # NULL => comm'[waits[t].comm] = comm[waits[t].comm]
    PROVE  CInv'
<1>1. \A c \in Comms : InFlight(c)' <=> InFlight(c) BY Zenon DEF InFlight
<1>2. \A c \in Comms : InFlight(c) => /\ comm'[c] = comm[c]
                                      /\ comm[c].chan \in Chans /\ comm[c].port \in Ports
  BY Zenon, FlightUsed DEF InFlight, Chans
<1>3. WaitsOk'
  <2>1. ASSUME NEW t \in Threads, waits'[t] # NULL PROVE WaitOk(t)'
    <3>1. waits'[t] = waits[t] /\ WaitOk(t) /\ waits[t].comm \in Comms
      BY Zenon, <2>1 DEF CInv, WaitsOk, CType, Waits
    <3>2. comm'[waits[t].comm] = comm[waits[t].comm] BY Zenon, <2>1
    <3>3. comm[waits[t].comm].chan \in Chans /\ comm[waits[t].comm].port \in Ports
      BY Zenon, <3>1 DEF WaitOk, CInv, CommsOk
    <3> DEFINE k == comm[waits[t].comm]
    <3>4. port'[k.chan][k.port].mbuf = port[k.chan][k.port].mbuf BY ZenonT(60), <3>3
    <3> QED BY Zenon, <3>1, <3>2, <3>4 DEF WaitOk
  <2> QED BY Zenon, <2>1 DEF CInv, WaitsOk
<1>4. OpsOk'
  <2>1. ASSUME NEW c \in Comms, InFlight(c)'
        PROVE  /\ (comm[c].chan \in busy)'
               /\ (port[comm[c].chan][comm[c].port].mbuf # NULL)'
               /\ (comm[c].chan = "net" => Turn(requests["net"], comm[c].port))'
    BY SMTT(60), <1>1, <1>2, <2>1 DEF CInv, OpsOk
  <2>2. ASSUME NEW a \in busy' PROVE \E c \in Comms : InFlight(c)' /\ comm'[c].chan = a
    BY <1>1, <1>2 DEF CInv, OpsOk
  <2>3. ASSUME NEW c \in Comms, NEW d \in Comms, InFlight(c)', InFlight(d)',
               comm'[c].chan = comm'[d].chan
        PROVE  c = d
    BY SMTT(60), <1>1, <1>2, <2>3 DEF CInv, OpsOk
  <2>4. ASSUME NEW a \in {"in", "net"}, hw'[a] # NULL
        PROVE  \E c \in Comms : /\ InFlight(c)' /\ comm'[c].chan = a
                                /\ port'[a][comm'[c].port].mbuf = hw'[a]
    <3>1. PICK c \in Comms : InFlight(c) /\ comm[c].chan = a /\ port[a][comm[c].port].mbuf = hw[a]
      BY ZenonT(60), <2>4 DEF CInv, OpsOk
    <3> QED BY <1>1, <1>2, <3>1
  <2> QED BY Zenon, <2>1, <2>2, <2>3, <2>4 DEF OpsOk
<1>5. BufsOk'
  <2>1. "in" \in Chans /\ "fwd" \in Chans BY Zenon DEF Chans
  <2>2. ASSUME NEW p \in Ports, port'["in"][p].mbuf # NULL
        PROVE  \E c \in Comms : InFlight(c)' /\ comm'[c].chan = "in" /\ comm'[c].port = p
    BY SMTT(60), <1>1, <1>2, <2>1, <2>2 DEF CInv, BufsOk
  <2> QED BY SMTT(60), <2>1, <2>2 DEF CInv, BufsOk
<1>6. RingsOk' BY Zenon DEF CInv, RingsOk
<1> QED BY Zenon, <1>3, <1>4, <1>5, <1>6 DEF CInv

LEMMA AllocSteps ==
    ASSUME CInv, NEW a \in Chans, NEW p \in Ports, NEW r \in Addr \cup {NULL}, NEW stays \in BOOLEAN,
           ~port[a][p].used, CommAlloc(a, p, r, stays),
           UNCHANGED <<requests, busy, remote, mbuf, kept, waits, world>>
    PROVE  CInv'
<1>1. CType /\ port[a][p] \in PortType BY Zenon DEF CInv, CType
<1>2. PICK s \in BOOLEAN : port' = [port EXCEPT ![a][p].used = s, ![a][p].requested = FALSE]
  BY Zenon DEF CommAlloc
<1> DEFINE v == [port[a][p] EXCEPT !.used = s, !.requested = FALSE]
<1>3. v \in PortType /\ v.mbuf = port[a][p].mbuf /\ v.used = s BY Zenon, <1>1 DEF PortType
<1>4. port' = [port EXCEPT ![a][p] = v] BY Zenon, <1>1, <1>2 DEF CType
<1> HIDE DEF v
<1>5. /\ port' \in [Chans -> [Ports -> PortType]]
      /\ \A x \in Chans, y \in Ports : port'[x][y] = IF x = a /\ y = p THEN v ELSE port[x][y]
  <2>1. port' = [port EXCEPT ![a][p] = v] BY Zenon, <1>4
  <2>2. v \in PortType BY Zenon, <1>3
  <2>3. CType BY Zenon, <1>1
  <2> QED BY ZenonT(60), <2>1, <2>2, <2>3, PutPort
<1>6. \A x \in Chans, y \in Ports : port'[x][y].mbuf = port[x][y].mbuf
  BY Zenon, <1>3, <1>5
<1>7. \A d \in Comms : comm[d].used => comm[d].chan # a \/ comm[d].port # p
  BY Zenon DEF CInv, CommsOk
<1>8. UNCHANGED <<requests, busy, mbuf, kept, waits, hw, rx, sent, done, dropped>> BY Zenon DEF world
<1>9. \A t \in Threads : waits[t] # NULL =>
        waits[t].comm \in Comms /\ comm[waits[t].comm].used
  BY Zenon DEF CInv, CType, Waits, WaitsOk, WaitOk
<1>10. CASE comm' = comm
  <2>1. CType' BY Zenon, <1>5, <1>8, <1>10 DEF CInv, CType
  <2>2. CommsOk'
    <3>1. ASSUME NEW c \in Comms, comm[c].used
          PROVE  /\ comm[c].chan \in Chans /\ comm[c].port \in Ports
                 /\ port'[comm[c].chan][comm[c].port].used
      BY SMTT(60), <1>5, <1>7, <3>1 DEF CInv, CommsOk
    <3> QED BY ZenonT(60), <1>10, <3>1 DEF CInv, CommsOk
  <2> QED BY Zenon, <1>6, <1>8, <1>10, <2>1, <2>2, OpenClose
<1>11. CASE comm' # comm
  <2> DEFINE k == [NoComm EXCEPT !.used = TRUE, !.chan = a, !.port = p, !.remote = r]
  <2>1. PICK c \in Comms : /\ ~comm[c].used /\ comm' = [comm EXCEPT ![c] = k]
                           /\ port' = [port EXCEPT ![a][p].used = TRUE, ![a][p].requested = FALSE]
    BY Zenon, <1>11 DEF CommAlloc
  <2>2. k \in CommType BY Zenon DEF CommType, NoComm
  <2>3. k.used /\ k.chan = a /\ k.port = p /\ ~k.busy /\ ~k.finished BY Zenon DEF NoComm
  <2>4. /\ comm' \in [Comms -> CommType]
        /\ \A d \in Comms : comm'[d] = IF d = c THEN k ELSE comm[d]
    BY Zenon, <1>1, <2>1, <2>2, PutComm
  <2> HIDE DEF k
  <2>5. port'[a][p].used BY Zenon, <1>1, <2>1 DEF CType, PortType
  <2>6. CType' BY Zenon, <1>5, <1>8, <2>4 DEF CInv, CType
  <2>7. CommsOk'
    <3>1. ASSUME NEW d \in Comms, comm'[d].used
          PROVE  /\ comm'[d].chan \in Chans /\ comm'[d].port \in Ports
                 /\ port'[comm'[d].chan][comm'[d].port].used
      <4>1. CASE d = c BY Zenon, <2>3, <2>4, <2>5, <4>1
      <4>2. CASE d # c BY SMTT(60), <1>5, <1>7, <2>4, <3>1, <4>2 DEF CInv, CommsOk
      <4> QED BY ZenonT(60), <4>1, <4>2
    <3>2. ASSUME NEW d \in Comms, NEW e \in Comms, comm'[d].used, comm'[e].used,
                 comm'[d].chan = comm'[e].chan, comm'[d].port = comm'[e].port
          PROVE  d = e
      BY <1>7, <2>3, <2>4, <3>2 DEF CInv, CommsOk
    <3>3. ASSUME NEW d \in Comms
          PROVE  /\ comm'[d].busy => comm'[d].used
                 /\ comm'[d].finished => comm'[d].busy
                 /\ comm'[d].busy /\ comm'[d].chan = "fwd" => comm'[d].finished
      BY ZenonT(60), <2>3, <2>4 DEF CInv, CommsOk
    <3> QED BY Zenon, <3>1, <3>2, <3>3 DEF CommsOk
  <2>8. ~comm[c].busy /\ ~comm[c].finished BY Zenon, <2>1 DEF CInv, CommsOk
  <2>9. \A d \in Comms : comm'[d].busy = comm[d].busy /\ comm'[d].finished = comm[d].finished
    <3>1. comm[c].busy \in BOOLEAN /\ comm[c].finished \in BOOLEAN
          /\ k.busy \in BOOLEAN /\ k.finished \in BOOLEAN
      BY Zenon, <1>1, <2>2 DEF CType, CommType
    <3> QED BY Zenon, <2>3, <2>4, <2>8, <3>1
  <2>10. \A d \in Comms : comm[d].busy => comm'[d] = comm[d] BY Zenon, <2>4, <2>8
  <2>11. \A t \in Threads : waits[t] # NULL => comm'[waits[t].comm] = comm[waits[t].comm]
    BY Zenon, <1>9, <2>1, <2>4
  <2> QED BY Zenon, <1>6, <1>8, <2>6, <2>7, <2>9, <2>10, <2>11, OpenClose
<1> QED BY Zenon, <1>10, <1>11

LEMMA CreateSteps ==
    ASSUME CInv, NEW p \in Ports, Create(p)
    PROVE  CInv'
<1>1. "in" \in Chans /\ (Stored(Bufs, Local(p), NULL) # {}) \in BOOLEAN BY Zenon DEF Chans
<1>2. /\ ~port["in"][p].used /\ CommAlloc("in", p, NULL, Stored(Bufs, Local(p), NULL) # {})
      /\ UNCHANGED <<requests, busy, remote, mbuf, kept, waits, world>>
  BY Zenon DEF Create
<1> QED BY Zenon, <1>1, <1>2, AllocSteps

LEMMA OpenSteps ==
    ASSUME CInv, NEW dest \in Targets, Open(dest)
    PROVE  CInv'
<1>1. Out(dest) \in Chans /\ dest \in Addr \cup {NULL} BY Zenon, AddressAssumption DEF Chans, Out
<1>2. UNCHANGED <<requests, busy, remote, mbuf, kept, waits, world>> BY Zenon DEF Open
<1>3. PICK p \in Ports : ~port[Out(dest)][p].used /\ CommAlloc(Out(dest), p, dest, FALSE)
  BY Zenon DEF Open
<1> QED BY Zenon, <1>1, <1>2, <1>3, AllocSteps

LEMMA ReleaseSteps ==
    ASSUME CInv, OneUser, NEW c \in Comms, Release(c)
    PROVE  CInv'
<1> DEFINE a == comm[c].chan
           p == comm[c].port
<1>1. /\ a \in Chans /\ p \in Ports /\ comm[c].used /\ ~comm[c].busy /\ ~comm[c].finished
      /\ \A t \in Threads : waits[t] # NULL => waits[t].comm # c
  BY Zenon DEF Release, Alone, CInv, CommsOk
<1> HIDE DEF a, p
<1>2. CType /\ port[a][p] \in PortType BY Zenon, <1>1 DEF CInv, CType
<1> DEFINE v == [port[a][p] EXCEPT !.used = FALSE]
<1>3. v \in PortType /\ v.mbuf = port[a][p].mbuf BY Zenon, <1>2 DEF PortType
<1>4. port' = [port EXCEPT ![a][p] = v] BY Zenon, <1>1, <1>2 DEF CType, Release, a, p
<1> HIDE DEF v
<1>5. /\ port' \in [Chans -> [Ports -> PortType]]
      /\ \A x \in Chans, y \in Ports : port'[x][y] = IF x = a /\ y = p THEN v ELSE port[x][y]
  BY ZenonT(60), <1>1, <1>2, <1>3, <1>4, PutPort
<1>6. \A x \in Chans, y \in Ports : port'[x][y].mbuf = port[x][y].mbuf
  BY Zenon, <1>3, <1>5
<1>7. UNCHANGED <<requests, busy, mbuf, kept, waits, hw, rx, sent, done, dropped>>
  BY Zenon DEF Release, world
<1>8. NoComm \in CommType /\ ~NoComm.used /\ NoComm.busy = FALSE /\ NoComm.finished = FALSE
  BY Zenon DEF CommType, NoComm
<1>9. comm' = [comm EXCEPT ![c] = NoComm] BY Zenon DEF Release
<1>10. /\ comm' \in [Comms -> CommType]
       /\ \A d \in Comms : comm'[d] = IF d = c THEN NoComm ELSE comm[d]
  BY Zenon, <1>2, <1>8, <1>9, PutComm
<1>11. CType' BY Zenon, <1>5, <1>7, <1>10 DEF CInv, CType
<1>12. CommsOk'
  <2>1. ASSUME NEW d \in Comms, comm'[d].used
        PROVE  /\ comm'[d].chan \in Chans /\ comm'[d].port \in Ports
               /\ port'[comm'[d].chan][comm'[d].port].used
    <3>1. d # c /\ comm'[d] = comm[d] BY Zenon, <1>8, <1>10, <2>1
    <3>2. comm[d].chan # a \/ comm[d].port # p BY Zenon, <1>1, <2>1, <3>1 DEF CInv, CommsOk, a, p
    <3> QED BY <1>5, <2>1, <3>1, <3>2 DEF CInv, CommsOk
  <2>2. ASSUME NEW d \in Comms, NEW e \in Comms, comm'[d].used, comm'[e].used,
               comm'[d].chan = comm'[e].chan, comm'[d].port = comm'[e].port
        PROVE  d = e
    BY Zenon, <1>8, <1>10, <2>2 DEF CInv, CommsOk
  <2>3. ASSUME NEW d \in Comms
        PROVE  /\ comm'[d].busy => comm'[d].used
               /\ comm'[d].finished => comm'[d].busy
               /\ comm'[d].busy /\ comm'[d].chan = "fwd" => comm'[d].finished
    BY Zenon, <1>8, <1>10 DEF CInv, CommsOk
  <2> QED BY ZenonT(60), <2>1, <2>2, <2>3 DEF CommsOk
<1>13. \A d \in Comms : comm'[d].busy = comm[d].busy /\ comm'[d].finished = comm[d].finished
  <2>1. comm[c].busy \in BOOLEAN /\ comm[c].finished \in BOOLEAN BY Zenon, <1>2 DEF CType, CommType
  <2> QED BY Zenon, <1>1, <1>8, <1>10, <2>1
<1>14. \A d \in Comms : comm[d].busy => comm'[d] = comm[d] BY Zenon, <1>1, <1>10
<1>15. \A t \in Threads : waits[t] # NULL => comm'[waits[t].comm] = comm[waits[t].comm]
  BY Zenon, <1>1, <1>10 DEF CInv, CType, Waits
<1> QED BY Zenon, <1>6, <1>7, <1>11, <1>12, <1>13, <1>14, <1>15, OpenClose

-----------------------------------------------------------------------------
(* A step of a wait that leaves the operations under way as they are. *)
LEMMA SameOps ==
    ASSUME CInv, UNCHANGED <<port, requests, busy, mbuf, kept, hw>>,
           \A d \in Comms : comm'[d].chan = comm[d].chan /\ comm'[d].port = comm[d].port,
           \A d \in Comms : InFlight(d)' <=> InFlight(d)
    PROVE  OpsOk' /\ BufsOk' /\ RingsOk'
<1>1. OpsOk' BY SMTT(60) DEF CInv, OpsOk
<1>2. BufsOk' BY SMTT(60) DEF CInv, BufsOk
<1>3. RingsOk' BY Zenon DEF CInv, RingsOk
<1> QED BY Zenon, <1>1, <1>2, <1>3

(* The end of an operation leaves its communicator idle. *)
LEMMA IdleIs ==
    ASSUME NEW k \in CommType
    PROVE  /\ Idle(k) \in CommType /\ Idle(k).used = k.used /\ Idle(k).chan = k.chan
           /\ Idle(k).port = k.port /\ Idle(k).busy = FALSE /\ Idle(k).finished = k.finished
           /\ [Idle(k) EXCEPT !.finished = FALSE] \in CommType
BY ZenonT(60) DEF Idle, CommType

(* A communicator that is idle again. *)
LEMMA IdleComms ==
    ASSUME CInv, port' = port, NEW c \in Comms, NEW k \in CommType, comm[c].used,
           comm' = [comm EXCEPT ![c] = k],
           k.used = comm[c].used, k.chan = comm[c].chan, k.port = comm[c].port,
           k.busy = FALSE, k.finished = FALSE
    PROVE  CommsOk'
<1>1. \A d \in Comms : comm'[d] = IF d = c THEN k ELSE comm[d] BY Zenon, PutComm DEF CInv
<1>2. \A d \in Comms : /\ comm'[d].used = comm[d].used /\ comm'[d].chan = comm[d].chan
                       /\ comm'[d].port = comm[d].port
  BY Zenon, <1>1
<1>3. \A d \in Comms : /\ comm'[d].busy => comm'[d].used
                       /\ comm'[d].finished => comm'[d].busy
                       /\ comm'[d].busy /\ comm'[d].chan = "fwd" => comm'[d].finished
  BY SMTT(60), <1>1 DEF CInv, CommsOk
<1> QED BY <1>2, <1>3 DEF CInv, CommsOk

(* The thread that leaves a wait for a communicator, or enters one, while  *)
(* the others wait for others.                                             *)
LEMMA OneWaits ==
    ASSUME CInv, port' = port, NEW t \in Threads, NEW c \in Comms, NEW w \in Waits \cup {NULL},
           waits' = [waits EXCEPT ![t] = w],
           \A u \in Threads : waits[u] # NULL /\ u # t => waits[u].comm # c,
           w # NULL => w.comm = c,
           \A d \in Comms : d # c => comm'[d] = comm[d],
           w # NULL => WaitOk(t)'
    PROVE  WaitsOk' /\ waits' \in [Threads -> Waits \cup {NULL}]
<1>1. \A u \in Threads : waits'[u] = IF u = t THEN w ELSE waits[u] BY Zenon DEF CInv, CType
<1>2. ASSUME NEW u \in Threads, waits'[u] # NULL PROVE WaitOk(u)'
  <2>1. CASE u = t BY Zenon, <1>1, <1>2, <2>1
  <2>2. CASE u # t
    <3>1. waits'[u] = waits[u] /\ waits[u].comm # c /\ waits[u].comm \in Comms /\ WaitOk(u)
      BY Zenon, <1>1, <1>2, <2>2 DEF CInv, CType, WaitsOk, Waits
    <3>2. comm'[waits[u].comm] = comm[waits[u].comm] BY Zenon, <3>1
    <3> QED BY ZenonT(60), <3>1, <3>2 DEF WaitOk
  <2> QED BY Zenon, <2>1, <2>2
<1>3. ASSUME NEW u \in Threads, NEW x \in Threads, waits'[u] # NULL, waits'[x] # NULL,
             waits'[u].comm = waits'[x].comm
      PROVE  u = x
  BY SMTT(60), <1>1, <1>3 DEF CInv, WaitsOk
<1>4. waits' \in [Threads -> Waits \cup {NULL}] BY Zenon DEF CInv, CType
<1> QED BY Zenon, <1>2, <1>3, <1>4 DEF WaitsOk

LEMMA EnterSteps ==
    ASSUME CInv, OneUser, NEW t \in Threads, NEW c \in Comms, WaitEnter(t, c)
    PROVE  CInv'
<1>1. /\ waits[t] = NULL /\ comm[c].used /\ comm[c].busy /\ comm[c] \in CommType
      /\ \A u \in Threads : waits[u] # NULL => waits[u].comm # c
  BY Zenon DEF WaitEnter, Alone, CInv, CType
<1>2. UNCHANGED <<port, requests, busy, mbuf, kept, hw, rx, sent, done, dropped>>
  BY Zenon DEF WaitEnter, world
<1>4. CASE comm[c].finished
  <2> DEFINE k == [Idle(comm[c]) EXCEPT !.finished = FALSE]
  <2>1. k \in CommType /\ k.used = comm[c].used /\ k.chan = comm[c].chan /\ k.port = comm[c].port
        /\ k.busy = FALSE /\ k.finished = FALSE
    BY ZenonT(60), <1>1 DEF Idle, CommType
  <2>2. comm' = [comm EXCEPT ![c] = k] BY Zenon, <1>4 DEF WaitEnter
  <2> HIDE DEF k
  <2>3. comm' \in [Comms -> CommType] /\ \A d \in Comms : comm'[d] = IF d = c THEN k ELSE comm[d]
    BY Zenon, <2>1, <2>2, PutComm DEF CInv
  <2>4. CommsOk' BY Zenon, <1>1, <1>2, <2>1, <2>2, IdleComms
  <2>5. PICK w \in Waits \cup {NULL} : /\ waits' = [waits EXCEPT ![t] = w]
                                       /\ w # NULL => w.comm = c /\ w.pc = "reset"
    <3>1. /\ At("reset", c, NULL, TRUE) \in Waits /\ At("reset", c, NULL, TRUE).pc = "reset"
          /\ At("reset", c, NULL, TRUE).comm = c
      BY Zenon DEF At, Waits
    <3> QED BY Zenon, <1>4, <3>1 DEF WaitEnter, Leave
  <2>6. \A u \in Threads : waits'[u] = IF u = t THEN w ELSE waits[u] BY Zenon, <2>5 DEF CInv, CType
  <2>7. w # NULL => WaitOk(t)'
    <3>1. comm'[c] = k BY Zenon, <2>3
    <3>2. w # NULL => waits'[t].comm = c /\ waits'[t].pc = "reset" BY Zenon, <2>5, <2>6
    <3> QED BY Zenon, <1>1, <2>1, <3>1, <3>2 DEF WaitOk
  <2>8. \A d \in Comms : d # c => comm'[d] = comm[d] BY Zenon, <2>3
  <2>9. WaitsOk' /\ waits' \in [Threads -> Waits \cup {NULL}]
    BY ZenonT(60), <1>1, <1>2, <2>5, <2>7, <2>8, OneWaits
  <2>10. ASSUME NEW d \in Comms PROVE InFlight(d)' <=> InFlight(d)
    <3>1. CASE d = c BY Zenon, <1>4, <2>1, <2>3, <3>1 DEF InFlight
    <3>2. CASE d # c
      <4>1. comm'[d] = comm[d] BY Zenon, <2>8, <3>2
      <4>2. \A u \in Threads : waits'[u] # NULL /\ waits'[u].comm = d <=>
                               waits[u] # NULL /\ waits[u].comm = d
        BY Zenon, <1>1, <2>5, <2>6, <3>2
      <4>3. \A u \in Threads : waits[u] # NULL => waits'[u] = waits[u]
        BY Zenon, <1>1, <2>6
      <4> QED BY Zenon, <4>1, <4>2, <4>3 DEF InFlight
    <3> QED BY Zenon, <3>1, <3>2
  <2>11. \A d \in Comms : comm'[d].chan = comm[d].chan /\ comm'[d].port = comm[d].port
    BY Zenon, <2>1, <2>3
  <2>12. OpsOk' /\ BufsOk' /\ RingsOk' BY Zenon, <1>2, <2>10, <2>11, SameOps
  <2>13. CType' BY Zenon, <1>2, <2>3, <2>9 DEF CInv, CType
  <2> QED BY Zenon, <2>4, <2>9, <2>12, <2>13 DEF CInv
<1>5. CASE ~comm[c].finished
  <2> DEFINE w == At("active", c, NULL, FALSE)
  <2>1. comm' = comm /\ waits' = [waits EXCEPT ![t] = w] BY Zenon, <1>5 DEF WaitEnter
  <2>2. w \in Waits /\ w # NULL /\ w.pc = "active" /\ w.comm = c
    <3>1. w \in Waits /\ w.pc = "active" /\ w.comm = c BY Zenon DEF At, Waits
    <3> QED BY Zenon, <3>1, NullAssumption
  <2> HIDE DEF w
  <2>3. \A u \in Threads : waits'[u] = IF u = t THEN w ELSE waits[u] BY Zenon, <2>1 DEF CInv, CType
  <2>4. WaitOk(t)' BY Zenon, <1>1, <1>5, <2>1, <2>2, <2>3 DEF WaitOk
  <2>5. w \in Waits \cup {NULL} /\ \A d \in Comms : d # c => comm'[d] = comm[d] BY Zenon, <2>1, <2>2
  <2>6. WaitsOk' /\ waits' \in [Threads -> Waits \cup {NULL}]
    <3>1. waits' = [waits EXCEPT ![t] = w] BY Zenon, <2>1
    <3>2. w # NULL => w.comm = c BY Zenon, <2>2
    <3> QED BY ZenonT(60), <1>1, <1>2, <2>4, <2>5, <3>1, <3>2, OneWaits
  <2>7. ASSUME NEW d \in Comms PROVE InFlight(d)' <=> InFlight(d)
    BY Zenon, <1>1, <2>1, <2>2, <2>3 DEF InFlight
  <2>8. OpsOk' /\ BufsOk' /\ RingsOk' BY ZenonT(60), <1>2, <2>1, <2>7, SameOps
  <2>9. CommsOk' BY Zenon, <1>2, <2>1 DEF CInv, CommsOk
  <2>10. CType' BY Zenon, <1>2, <2>1, <2>6 DEF CInv, CType
  <2> QED BY Zenon, <2>6, <2>8, <2>9, <2>10 DEF CInv
<1> QED BY Zenon, <1>4, <1>5

(* A thread that waits for an operation under way finds what it needs. *)
LEMMA WaiterIs ==
    ASSUME CInv, NEW t \in Threads, waits[t] # NULL
    PROVE  /\ waits[t] \in Waits /\ waits[t].comm \in Comms
           /\ comm[waits[t].comm].used
           /\ \A u \in Threads : waits[u] # NULL /\ u # t => waits[u].comm # waits[t].comm
           /\ waits[t].pc \in {"active", "hw"} => InFlight(waits[t].comm)
           /\ waits[t].pc \in {"comm", "reset"} => ~InFlight(waits[t].comm)
           /\ waits[t].pc # "reset" =>
                comm[waits[t].comm].busy /\ ~comm[waits[t].comm].finished
<1>1. waits[t] \in Waits /\ waits[t].comm \in Comms BY Zenon DEF CInv, CType, Waits
<1>2. \A u \in Threads : waits[u] # NULL /\ u # t => waits[u].comm # waits[t].comm
  BY Zenon DEF CInv, WaitsOk
<1>3. WaitOk(t) BY Zenon DEF CInv, WaitsOk
<1>4. waits[t].pc \in {"active", "hw"} => InFlight(waits[t].comm)
  BY Zenon, <1>1, <1>2, <1>3 DEF WaitOk, InFlight
<1>5. waits[t].pc \in {"comm", "reset"} => ~InFlight(waits[t].comm)
  BY Zenon, <1>3 DEF WaitOk, InFlight
<1> QED BY ZenonT(60), <1>1, <1>2, <1>3, <1>4, <1>5 DEF WaitOk

LEMMA ActiveSteps ==
    ASSUME CInv, NEW t \in Threads, WaitActive(t)
    PROVE  CInv'
<1> DEFINE c == waits[t].comm
           b == port[comm[c].chan][comm[c].port].mbuf
           w == At("hw", c, b, FALSE)
<1>1. waits[t] # NULL /\ waits[t].pc = "active" BY Zenon DEF WaitActive
<1>2. /\ c \in Comms /\ InFlight(c) /\ comm[c].used
      /\ \A u \in Threads : waits[u] # NULL /\ u # t => waits[u].comm # c
      /\ comm[c].busy /\ ~comm[c].finished
  BY Zenon, <1>1, WaiterIs
<1> HIDE DEF c
<1>3. /\ comm[c].chan \in {"in", "net"} /\ comm[c].chan \in busy
      /\ comm[c].port \in Ports /\ b \in Bufs /\ b # NULL
  BY ZenonT(60), <1>2, FlightUsed, NullAssumption
<1>4. port[comm[c].chan][comm[c].port].used BY Zenon, <1>2 DEF CInv, CommsOk
<1>5. comm[c].chan = "in" \/ Turn(requests[comm[c].chan], comm[c].port)
  BY Zenon, <1>2, <1>3 DEF CInv, OpsOk
<1>6. waits' = [waits EXCEPT ![t] = w] BY Zenon, <1>3, <1>4, <1>5 DEF WaitActive, c
<1>7. UNCHANGED <<port, requests, busy, mbuf, kept, comm, hw, rx, sent, done, dropped>>
  BY Zenon DEF WaitActive, world
<1>8. w \in Waits /\ w # NULL /\ w.pc = "hw" /\ w.comm = c /\ w.mbuf = b
  <2>1. w \in Waits /\ w.pc = "hw" /\ w.comm = c /\ w.mbuf = b BY Zenon, <1>2, <1>3 DEF At, Waits
  <2> QED BY Zenon, <2>1, NullAssumption
<1> HIDE DEF w
<1>9. \A u \in Threads : waits'[u] = IF u = t THEN w ELSE waits[u] BY Zenon, <1>6 DEF CInv, CType
<1>10. WaitOk(t)' BY Zenon, <1>2, <1>7, <1>8, <1>9 DEF WaitOk
<1>11. WaitsOk' /\ waits' \in [Threads -> Waits \cup {NULL}]
  <2>1. w \in Waits \cup {NULL} /\ (w # NULL => w.comm = c) BY Zenon, <1>8
  <2>2. \A d \in Comms : d # c => comm'[d] = comm[d] BY Zenon, <1>7
  <2> QED BY ZenonT(60), <1>2, <1>6, <1>7, <1>10, <2>1, <2>2, OneWaits
<1>12. ASSUME NEW d \in Comms PROVE InFlight(d)' <=> InFlight(d)
  BY Zenon, <1>1, <1>7, <1>8, <1>9 DEF InFlight, c
<1>13. OpsOk' /\ BufsOk' /\ RingsOk' BY Zenon, <1>7, <1>12, SameOps
<1>14. CommsOk' BY Zenon, <1>7 DEF CInv, CommsOk
<1>15. CType' BY Zenon, <1>7, <1>11 DEF CInv, CType
<1> QED BY Zenon, <1>11, <1>13, <1>14, <1>15 DEF CInv

LEMMA CommSteps ==
    ASSUME CInv, NEW t \in Threads, WaitComm(t)
    PROVE  CInv'
<1> DEFINE c == waits[t].comm
<1>1. waits[t] # NULL /\ waits[t].pc = "comm" BY Zenon DEF WaitComm
<1>2. /\ c \in Comms /\ ~InFlight(c) /\ comm[c].used
      /\ \A u \in Threads : waits[u] # NULL /\ u # t => waits[u].comm # c
      /\ comm[c].busy /\ ~comm[c].finished
  BY Zenon, <1>1, WaiterIs
<1>3. comm[c] \in CommType /\ comm[c].finished = FALSE BY Zenon, <1>2 DEF CInv, CType, CommType
<1> DEFINE k == IF waits[t].ok
                THEN [Idle(comm[c]) EXCEPT !.allowed = FALSE,
                                           !.remote = IF comm[c].chan = "in" THEN NULL ELSE comm[c].remote]
                ELSE Idle(comm[c])
<1>4. comm' = [comm EXCEPT ![c] = k] BY Zenon, <1>2 DEF WaitComm
<1>5. UNCHANGED <<port, requests, busy, mbuf, kept, hw, rx, sent, done, dropped>>
  BY Zenon DEF WaitComm, world
<1>6. PICK w \in Waits \cup {NULL} : /\ waits' = [waits EXCEPT ![t] = w]
                                     /\ w # NULL => w.comm = c /\ w.pc = "reset"
  <2>1. waits[t].ok \in BOOLEAN BY Zenon, <1>1 DEF CInv, CType, Waits
  <2>2. /\ At("reset", c, NULL, waits[t].ok) \in Waits /\ At("reset", c, NULL, waits[t].ok).pc = "reset"
        /\ At("reset", c, NULL, waits[t].ok).comm = c
    BY Zenon, <1>2, <2>1 DEF At, Waits
  <2> QED BY ZenonT(60), <2>2 DEF WaitComm, Leave
<1> HIDE DEF c
<1>7. k \in CommType /\ k.used = comm[c].used /\ k.chan = comm[c].chan /\ k.port = comm[c].port
      /\ k.busy = FALSE /\ k.finished = FALSE
  BY ZenonT(60), <1>3 DEF Idle, CommType
<1> HIDE DEF k
<1>8. comm' \in [Comms -> CommType] /\ \A d \in Comms : comm'[d] = IF d = c THEN k ELSE comm[d]
  BY Zenon, <1>2, <1>4, <1>7, PutComm DEF CInv
<1>9. CommsOk' BY Zenon, <1>2, <1>4, <1>5, <1>7, IdleComms
<1>10. \A u \in Threads : waits'[u] = IF u = t THEN w ELSE waits[u] BY Zenon, <1>6 DEF CInv, CType
<1>11. w # NULL => WaitOk(t)'
  <2>1. comm'[c] = k BY Zenon, <1>2, <1>8
  <2>2. w # NULL => waits'[t].comm = c /\ waits'[t].pc = "reset" BY Zenon, <1>6, <1>10
  <2> QED BY Zenon, <1>2, <1>7, <2>1, <2>2 DEF WaitOk
<1>12. \A d \in Comms : d # c => comm'[d] = comm[d] BY Zenon, <1>8
<1>13. WaitsOk' /\ waits' \in [Threads -> Waits \cup {NULL}]
  BY ZenonT(60), <1>2, <1>5, <1>6, <1>11, <1>12, OneWaits
<1>14. ASSUME NEW d \in Comms PROVE InFlight(d)' <=> InFlight(d)
  <2>1. CASE d = c BY Zenon, <1>2, <1>7, <1>8, <2>1 DEF InFlight
  <2>2. CASE d # c
    <3>1. comm'[d] = comm[d] BY Zenon, <1>12, <2>2
    <3>2. \A u \in Threads : waits'[u] # NULL /\ waits'[u].comm = d =>
                             waits[u] # NULL /\ waits'[u] = waits[u]
      BY Zenon, <1>6, <1>10, <2>2
    <3>3. \A u \in Threads : waits[u] # NULL /\ waits[u].comm = d => waits'[u] = waits[u]
      BY Zenon, <1>10, <2>2 DEF c
    <3> QED BY Zenon, <3>1, <3>2, <3>3 DEF InFlight
  <2> QED BY Zenon, <2>1, <2>2
<1>15. \A d \in Comms : comm'[d].chan = comm[d].chan /\ comm'[d].port = comm[d].port
  BY Zenon, <1>7, <1>8
<1>16. OpsOk' /\ BufsOk' /\ RingsOk' BY Zenon, <1>5, <1>14, <1>15, SameOps
<1>17. CType' BY Zenon, <1>5, <1>8, <1>13 DEF CInv, CType
<1> QED BY Zenon, <1>9, <1>13, <1>16, <1>17 DEF CInv

-----------------------------------------------------------------------------
(* Taking one element out of a sequence of different ones. *)
LEMMA WithoutIs ==
    ASSUME NEW S, NEW s \in Seq(S), NEW i \in DOMAIN s
    PROVE  /\ Without(s, i) \in Seq(S) /\ Len(Without(s, i)) = Len(s) - 1
           /\ \A j \in 1 .. Len(s) - 1 : Without(s, i)[j] = IF j < i THEN s[j] ELSE s[j + 1]
<1>1. i \in 1 .. Len(s) /\ Len(s) \in Nat OBVIOUS
<1> DEFINE l == SubSeq(s, 1, i - 1)
           r == SubSeq(s, i + 1, Len(s))
<1>2. l \in Seq(S) /\ Len(l) = i - 1 /\ \A j \in 1 .. i - 1 : l[j] = s[j] BY <1>1
<1>3. r \in Seq(S) /\ Len(r) = Len(s) - i /\ \A j \in 1 .. Len(s) - i : r[j] = s[j + i] BY <1>1
<1>4. Without(s, i) = l \o r BY Zenon DEF Without
<1> HIDE DEF l, r
<1>5. /\ l \o r \in Seq(S) /\ Len(l \o r) = Len(l) + Len(r)
      /\ \A j \in 1 .. Len(l) + Len(r) : (l \o r)[j] = IF j <= Len(l) THEN l[j] ELSE r[j - Len(l)]
  <2>1. l \in Seq(S) /\ r \in Seq(S) BY Zenon, <1>2, <1>3
  <2> QED BY SMTT(30), <2>1
<1>6. Len(Without(s, i)) = Len(s) - 1 /\ Len(l) + Len(r) = Len(s) - 1
  BY <1>1, <1>2, <1>3, <1>4, <1>5
<1>7. \A j \in 1 .. Len(s) - 1 :
        Without(s, i)[j] = IF j <= i - 1 THEN l[j] ELSE r[j - (i - 1)]
  BY Zenon, <1>2, <1>4, <1>5, <1>6
<1>8. ASSUME NEW j \in 1 .. Len(s) - 1
      PROVE  Without(s, i)[j] = IF j < i THEN s[j] ELSE s[j + 1]
  <2>1. CASE j < i
    <3>1. j <= i - 1 /\ j \in 1 .. i - 1 BY <1>1, <2>1
    <3> QED BY Zenon, <1>2, <1>7, <2>1, <3>1
  <2>2. CASE ~(j < i)
    <3>1. Without(s, i)[j] = r[j - (i - 1)] BY <1>1, <1>7, <2>2
    <3>2. j - (i - 1) \in 1 .. Len(s) - i /\ (j - (i - 1)) + i = j + 1 BY <1>1, <2>2
    <3>3. r[j - (i - 1)] = s[(j - (i - 1)) + i] BY Zenon, <1>3, <3>2
    <3> QED BY Zenon, <2>2, <3>1, <3>2, <3>3
  <2> QED BY Zenon, <2>1, <2>2
<1> QED BY Zenon, <1>4, <1>5, <1>6, <1>8

LEMMA WithoutDistinct ==
    ASSUME NEW S, NEW s \in Seq(S), NEW i \in DOMAIN s,
           \A j, k \in DOMAIN s : s[j] = s[k] => j = k
    PROVE  /\ \A j, k \in DOMAIN Without(s, i) : Without(s, i)[j] = Without(s, i)[k] => j = k
           /\ \A x : (\E j \in DOMAIN Without(s, i) : Without(s, i)[j] = x) <=>
                     (x # s[i] /\ \E j \in DOMAIN s : s[j] = x)
<1> DEFINE o == Without(s, i)
<1>1. /\ o \in Seq(S) /\ Len(o) = Len(s) - 1
      /\ \A j \in 1 .. Len(s) - 1 : o[j] = IF j < i THEN s[j] ELSE s[j + 1]
  BY Zenon, WithoutIs
<1> HIDE DEF o
<1>2. DOMAIN o = 1 .. Len(s) - 1 /\ DOMAIN s = 1 .. Len(s) /\ Len(s) \in Nat /\ i \in 1 .. Len(s)
  BY <1>1
<1>3. ASSUME NEW j \in DOMAIN o, NEW k \in DOMAIN o, o[j] = o[k] PROVE j = k
  <2> DEFINE f(n) == IF n < i THEN n ELSE n + 1
  <2>1. f(j) \in DOMAIN s /\ f(k) \in DOMAIN s /\ (f(j) = f(k) => j = k) BY <1>2
  <2>2. o[j] = s[f(j)] /\ o[k] = s[f(k)] BY Zenon, <1>1, <1>2
  <2> QED BY Zenon, <1>3, <2>1, <2>2
<1>4. ASSUME NEW j \in DOMAIN o PROVE o[j] # s[i] /\ \E k \in DOMAIN s : s[k] = o[j]
  <2>1. CASE j < i BY <1>1, <1>2, <2>1
  <2>2. CASE ~(j < i)
    <3>1. j + 1 \in DOMAIN s /\ j + 1 # i /\ o[j] = s[j + 1] BY <1>1, <1>2, <2>2
    <3> QED BY Zenon, <3>1
  <2> QED BY Zenon, <2>1, <2>2
<1>5. ASSUME NEW k \in DOMAIN s, s[k] # s[i] PROVE \E j \in DOMAIN o : o[j] = s[k]
  <2>1. CASE k < i BY <1>1, <1>2, <2>1
  <2>2. CASE ~(k < i)
    <3>1. k - 1 \in DOMAIN o /\ ~(k - 1 < i) /\ (k - 1) + 1 = k BY SMTT(60), <1>2, <1>5, <2>2
    <3>2. o[k - 1] = s[k] BY Zenon, <1>1, <1>2, <3>1
    <3> QED BY Zenon, <3>1, <3>2
  <2> QED BY Zenon, <2>1, <2>2
<1> QED BY <1>3, <1>4, <1>5 DEF o

(* Appending another element. *)
LEMMA AppendDistinct ==
    ASSUME NEW S, NEW s \in Seq(S), NEW y \in S,
           \A j, k \in DOMAIN s : s[j] = s[k] => j = k,
           \A j \in DOMAIN s : s[j] # y
    PROVE  /\ Append(s, y) \in Seq(S)
           /\ \A j, k \in DOMAIN Append(s, y) : Append(s, y)[j] = Append(s, y)[k] => j = k
           /\ \A x : (\E j \in DOMAIN Append(s, y) : Append(s, y)[j] = x) <=>
                     (x = y \/ \E j \in DOMAIN s : s[j] = x)
<1> DEFINE o == Append(s, y)
<1>1. /\ o \in Seq(S) /\ Len(o) = Len(s) + 1
      /\ \A j \in 1 .. Len(s) + 1 : o[j] = IF j = Len(s) + 1 THEN y ELSE s[j]
  OBVIOUS
<1> HIDE DEF o
<1>2. DOMAIN o = 1 .. Len(s) + 1 /\ DOMAIN s = 1 .. Len(s) /\ Len(s) \in Nat BY <1>1
<1>3. \A j \in DOMAIN o : j = Len(s) + 1 \/ j \in DOMAIN s BY <1>2
<1>4. \A j \in DOMAIN s : j \in DOMAIN o /\ o[j] = s[j] BY <1>1, <1>2
<1>5. Len(s) + 1 \in DOMAIN o /\ o[Len(s) + 1] = y BY <1>1, <1>2
<1> HIDE <1>1, <1>2
<1>6. \A j, k \in DOMAIN o : o[j] = o[k] => j = k BY Zenon, <1>3, <1>4, <1>5
<1>7. \A x : (\E j \in DOMAIN o : o[j] = x) <=> (x = y \/ \E j \in DOMAIN s : s[j] = x)
  BY Zenon, <1>3, <1>4, <1>5
<1> QED BY Zenon, <1>1, <1>6, <1>7 DEF o

-----------------------------------------------------------------------------
(* A communicator that starts an operation. *)
LEMMA BusyComms ==
    ASSUME CInv, NEW c \in Comms, NEW k \in CommType, comm[c].used,
           comm' = [comm EXCEPT ![c] = k],
           \A x \in Chans, y \in Ports : port'[x][y].used = port[x][y].used,
           k.used = comm[c].used, k.chan = comm[c].chan, k.port = comm[c].port,
           k.busy = TRUE, k.chan = "fwd" => k.finished
    PROVE  /\ CommsOk' /\ comm' \in [Comms -> CommType]
           /\ \A d \in Comms : comm'[d] = IF d = c THEN k ELSE comm[d]
<1>1. comm' \in [Comms -> CommType] /\ \A d \in Comms : comm'[d] = IF d = c THEN k ELSE comm[d]
  BY Zenon, PutComm DEF CInv
<1>2. \A d \in Comms : /\ comm'[d].used = comm[d].used /\ comm'[d].chan = comm[d].chan
                       /\ comm'[d].port = comm[d].port
  BY Zenon, <1>1
<1>3. \A d \in Comms : /\ comm'[d].busy => comm'[d].used
                       /\ comm'[d].finished => comm'[d].busy
                       /\ comm'[d].busy /\ comm'[d].chan = "fwd" => comm'[d].finished
  BY ZenonT(60), <1>1 DEF CInv, CommsOk
<1>4. ASSUME NEW d \in Comms, comm'[d].used
      PROVE  /\ comm'[d].chan \in Chans /\ comm'[d].port \in Ports
             /\ port'[comm'[d].chan][comm'[d].port].used
  <2>1. comm[d].used BY Zenon, <1>2, <1>4
  <2>2. /\ comm[d].chan \in Chans /\ comm[d].port \in Ports
        /\ port[comm[d].chan][comm[d].port].used
    BY Zenon, <2>1 DEF CInv, CommsOk
  <2> QED BY Zenon, <1>2, <2>2
<1>5. CommsOk' BY <1>2, <1>3, <1>4 DEF CInv, CommsOk
<1> QED BY Zenon, <1>1, <1>5

(* The waits for operations that a step does not touch. *)
LEMMA WaitsSame ==
    ASSUME CInv, waits' = waits,
           \A t \in Threads : waits[t] # NULL =>
             LET k == comm[waits[t].comm] IN
             comm'[waits[t].comm] = k /\ port'[k.chan][k.port].mbuf = port[k.chan][k.port].mbuf
    PROVE  WaitsOk'
<1>1. ASSUME NEW t \in Threads, waits'[t] # NULL PROVE WaitOk(t)'
  BY Zenon, <1>1 DEF CInv, WaitsOk, WaitOk
<1> QED BY Zenon, <1>1 DEF CInv, WaitsOk

(* The operations under way, when a step starts and ends none. *)
LEMMA FlightsKept ==
    ASSUME CInv, busy' = busy, hw' = hw,
           \A y \in Ports : Turn(requests["net"], y) => Turn(requests["net"], y)',
           \A x \in {"in", "fwd"}, y \in Ports : port'[x][y].mbuf = port[x][y].mbuf,
           \A d \in Comms : comm'[d].chan = comm[d].chan /\ comm'[d].port = comm[d].port,
           \A d \in Comms : InFlight(d)' <=> InFlight(d),
           \A d \in Comms : InFlight(d) =>
             port'[comm[d].chan][comm[d].port].mbuf = port[comm[d].chan][comm[d].port].mbuf
    PROVE  /\ OpsOk'
           /\ \A p \in Ports : port'["fwd"][p].mbuf = NULL
           /\ \A p \in Ports : port'["in"][p].mbuf # NULL =>
                \E c \in Comms : InFlight(c)' /\ comm'[c].chan = "in" /\ comm'[c].port = p
<1>1. OpsOk'
  <2>1. ASSUME NEW c \in Comms, InFlight(c)'
        PROVE  /\ (comm[c].chan \in busy)'
               /\ (port[comm[c].chan][comm[c].port].mbuf # NULL)'
               /\ (comm[c].chan = "net" => Turn(requests["net"], comm[c].port))'
    <3>1. InFlight(c) /\ comm[c].port \in Ports BY Zenon, <2>1, FlightUsed
    <3>2. comm[c].chan \in busy /\ port[comm[c].chan][comm[c].port].mbuf # NULL
          /\ (comm[c].chan = "net" => Turn(requests["net"], comm[c].port))
      BY ZenonT(60), <3>1 DEF CInv, OpsOk
    <3>3. comm[c].chan = "net" => Turn(requests["net"], comm[c].port)' BY Zenon, <3>1, <3>2
    <3>4. /\ Turn(requests["net"], comm[c].port)' <=> Turn(requests'["net"], comm'[c].port)
          /\ comm'[c].port = comm[c].port
      BY ZenonT(60) DEF Turn
    <3> QED BY Zenon, <3>1, <3>2, <3>3, <3>4 DEF Turn
  <2>2. ASSUME NEW a \in busy' PROVE \E c \in Comms : InFlight(c)' /\ comm'[c].chan = a
    <3>1. PICK c \in Comms : InFlight(c) /\ comm[c].chan = a BY Zenon DEF CInv, OpsOk
    <3> QED BY Zenon, <3>1
  <2>3. ASSUME NEW c \in Comms, NEW d \in Comms, InFlight(c)', InFlight(d)',
               comm'[c].chan = comm'[d].chan
        PROVE  c = d
    BY <2>3 DEF CInv, OpsOk
  <2>4. ASSUME NEW a \in {"in", "net"}, hw'[a] # NULL
        PROVE  \E c \in Comms : /\ InFlight(c)' /\ comm'[c].chan = a
                                /\ port'[a][comm'[c].port].mbuf = hw'[a]
    <3>1. PICK c \in Comms : InFlight(c) /\ comm[c].chan = a /\ port[a][comm[c].port].mbuf = hw[a]
      BY ZenonT(60), <2>4 DEF CInv, OpsOk
    <3> QED BY Zenon, <3>1
  <2> QED BY Zenon, <2>1, <2>2, <2>3, <2>4 DEF OpsOk
<1>2. \A p \in Ports : port'["fwd"][p].mbuf = NULL BY Zenon DEF CInv, BufsOk
<1>3. ASSUME NEW p \in Ports, port'["in"][p].mbuf # NULL
      PROVE  \E c \in Comms : InFlight(c)' /\ comm'[c].chan = "in" /\ comm'[c].port = p
  BY <1>3 DEF CInv, BufsOk
<1> QED BY Zenon, <1>1, <1>2, <1>3

LEMMA FlightsSame ==
    ASSUME CInv, requests'["net"] = requests["net"], busy' = busy, hw' = hw,
           \A x \in Chans, y \in Ports : port'[x][y].mbuf = port[x][y].mbuf,
           \A d \in Comms : comm'[d].chan = comm[d].chan /\ comm'[d].port = comm[d].port,
           \A d \in Comms : InFlight(d)' <=> InFlight(d)
    PROVE  /\ OpsOk'
           /\ \A p \in Ports : port'["fwd"][p].mbuf = NULL
           /\ \A p \in Ports : port'["in"][p].mbuf # NULL =>
                \E c \in Comms : InFlight(c)' /\ comm'[c].chan = "in" /\ comm'[c].port = p
<1>1. \A x \in {"in", "fwd"}, y \in Ports : port'[x][y].mbuf = port[x][y].mbuf BY Zenon DEF Chans
<1>2. \A d \in Comms : InFlight(d) => comm[d].chan \in Chans /\ comm[d].port \in Ports
  BY Zenon, FlightUsed DEF Chans
<1>3. \A d \in Comms : InFlight(d) =>
        port'[comm[d].chan][comm[d].port].mbuf = port[comm[d].chan][comm[d].port].mbuf
  BY Zenon, <1>2
<1>4. \A y \in Ports : Turn(requests["net"], y) => Turn(requests["net"], y)' BY Zenon DEF Turn
<1> QED BY ZenonT(60), <1>1, <1>3, <1>4, FlightsKept

(* Reading a stored message. *)
LEMMA StoredSteps ==
    ASSUME CInv, OneUser, NEW c \in Comms, NEW u \in Buffers, AreadStored(c, u)
    PROVE  CInv'
<1>1. /\ comm[c].used /\ comm[c].chan = "in" /\ ~comm[c].busy /\ comm[c] \in CommType
      /\ \A t \in Threads : waits[t] # NULL => waits[t].comm # c
  BY Zenon DEF AreadStored, MayRead, Reads, Alone, CInv, CType
<1>2. UNCHANGED <<busy, waits, hw, rx, sent, dropped>> BY Zenon DEF AreadStored
<1>3. PICK i \in DOMAIN kept : /\ ClearSender(mbuf[kept[i]].from)
                               /\ mbuf' = [mbuf EXCEPT ![kept[i]] = Free]
                               /\ kept' = Without(kept, i)
  BY Zenon DEF AreadStored
<1>4. PICK b \in Bufs, from \in Ports \cup {NULL} : b = kept[i] /\ from = mbuf[b].from
  <2>1. kept[i] \in Bufs BY <1>3 DEF CInv, CType
  <2>2. mbuf[kept[i]] \in BufType BY Zenon, <2>1 DEF CInv, CType
  <2> QED BY Zenon, <2>1, <2>2 DEF BufType
<1> DEFINE k == [Asked(c, u) EXCEPT !.asked = u, !.busy = TRUE, !.finished = TRUE, !.allowed = FALSE]
<1>5. comm' = [comm EXCEPT ![c] = k] BY Zenon DEF AreadStored
<1>6. k \in CommType /\ k.used = comm[c].used /\ k.chan = comm[c].chan /\ k.port = comm[c].port
      /\ k.busy = TRUE /\ k.finished = TRUE
  BY ZenonT(60), <1>1 DEF Asked, CommType
<1> HIDE DEF k
<1>7. /\ requests' \in [{"net", "fwd"} -> Fifo] /\ requests'["net"] = requests["net"]
      /\ RingsOk'
  <2>1. CASE from = NULL BY Zenon, <1>3, <1>4, <2>1 DEF ClearSender, CInv, CType, RingsOk
  <2>2. CASE from # NULL
    <3>1. requests' = [requests EXCEPT !["fwd"] = Clear(requests["fwd"], from)]
      BY Zenon, <1>3, <1>4, <2>2 DEF ClearSender
    <3>2. requests["fwd"] \in Fifo /\ RingOk(requests["fwd"]) /\ from \in Ports
      BY Zenon, <2>2 DEF CInv, CType, RingsOk
    <3>3. Clear(requests["fwd"], from) \in Fifo /\ RingOk(Clear(requests["fwd"], from))
      BY Zenon, <3>2, ClearSteps
    <3>4. \A a \in {"net", "fwd"} :
            requests'[a] = IF a = "fwd" THEN Clear(requests["fwd"], from) ELSE requests[a]
      BY Zenon, <3>1 DEF CInv, CType
    <3> QED BY Zenon, <3>1, <3>3, <3>4 DEF CInv, CType, RingsOk
  <2> QED BY Zenon, <2>1, <2>2
<1>8. /\ port' \in [Chans -> [Ports -> PortType]]
      /\ \A x \in Chans, y \in Ports :
           port'[x][y].used = port[x][y].used /\ port'[x][y].mbuf = port[x][y].mbuf
  <2>1. CASE port' = port BY Zenon, <2>1 DEF CInv, CType
  <2>2. CASE port' # port
    <3>1. from \in Ports /\ port' = [port EXCEPT !["fwd"][from].requested = FALSE]
      BY Zenon, <1>3, <1>4, <2>2 DEF ClearSender
    <3> DEFINE v == [port["fwd"][from] EXCEPT !.requested = FALSE]
    <3>2. CType /\ "fwd" \in Chans /\ port["fwd"][from] \in PortType BY Zenon, <3>1 DEF CInv, CType, Chans
    <3>3. port' = [port EXCEPT !["fwd"][from] = v] BY Zenon, <3>1, <3>2 DEF CType
    <3>4. v \in PortType /\ v.used = port["fwd"][from].used /\ v.mbuf = port["fwd"][from].mbuf
      BY Zenon, <3>2 DEF PortType
    <3> HIDE DEF v
    <3>5. v \in PortType BY Zenon, <3>4
    <3>6. /\ port' \in [Chans -> [Ports -> PortType]]
          /\ \A x \in Chans, y \in Ports :
               port'[x][y] = IF x = "fwd" /\ y = from THEN v ELSE port[x][y]
      <4>1. CType /\ "fwd" \in Chans /\ from \in Ports BY Zenon, <3>1, <3>2
      <4> QED BY ZenonT(60), <3>3, <3>5, <4>1, PutPort
    <3> QED BY Zenon, <3>4, <3>6
  <2> QED BY Zenon, <2>1, <2>2
<1>9. /\ CommsOk' /\ comm' \in [Comms -> CommType]
      /\ \A d \in Comms : comm'[d] = IF d = c THEN k ELSE comm[d]
  BY Zenon, <1>1, <1>5, <1>6, <1>8, BusyComms
<1>10. WaitsOk'
  <2>1. ASSUME NEW t \in Threads, waits[t] # NULL
        PROVE  LET d == comm[waits[t].comm] IN
               comm'[waits[t].comm] = d /\ port'[d.chan][d.port].mbuf = port[d.chan][d.port].mbuf
    <3>1. waits[t].comm \in Comms /\ comm[waits[t].comm].used BY Zenon, <2>1, WaiterIs
    <3>2. comm[waits[t].comm].chan \in Chans /\ comm[waits[t].comm].port \in Ports
      BY ZenonT(60), <3>1 DEF CInv, CommsOk
    <3> QED BY ZenonT(60), <1>1, <1>8, <1>9, <2>1, <3>1, <3>2
  <2> QED BY Zenon, <1>2, <2>1, WaitsSame
<1>11. ASSUME NEW d \in Comms PROVE InFlight(d)' <=> InFlight(d)
  BY Zenon, <1>1, <1>2, <1>6, <1>9 DEF InFlight
<1>12. \A d \in Comms : comm'[d].chan = comm[d].chan /\ comm'[d].port = comm[d].port
  BY Zenon, <1>6, <1>9
<1>13. /\ OpsOk'
       /\ \A p \in Ports : port'["fwd"][p].mbuf = NULL
       /\ \A p \in Ports : port'["in"][p].mbuf # NULL =>
            \E d \in Comms : InFlight(d)' /\ comm'[d].chan = "in" /\ comm'[d].port = p
  BY Zenon, <1>2, <1>7, <1>8, <1>11, <1>12, FlightsSame
<1>14. /\ mbuf' \in [Bufs -> BufType]
       /\ \A x \in Bufs : mbuf'[x].used <=> mbuf[x].used /\ x # b
  <2>1. Free \in BufType /\ ~Free.used BY Zenon DEF Free, BufType
  <2>2. \A x \in Bufs : mbuf'[x] = IF x = b THEN Free ELSE mbuf[x]
    BY ZenonT(60), <1>3, <1>4 DEF CInv, CType
  <2>3. mbuf' \in [Bufs -> BufType] BY Zenon, <1>3, <1>4, <2>1 DEF CInv, CType
  <2> QED BY Zenon, <2>1, <2>2, <2>3
<1>15. /\ kept \in Seq(Bufs) /\ kept' = Without(kept, i) /\ kept[i] = b
       /\ \A j, n \in DOMAIN kept : kept[j] = kept[n] => j = n
  BY ZenonT(60), <1>3, <1>4 DEF CInv, CType, BufsOk
<1>16. kept' \in Seq(Bufs) BY Zenon, <1>15, WithoutIs
<1>17. /\ \A j, n \in DOMAIN kept' : kept'[j] = kept'[n] => j = n
       /\ \A x : (\E j \in DOMAIN kept' : kept'[j] = x) <=>
                 (x # b /\ \E j \in DOMAIN kept : kept[j] = x)
  <2>1. /\ \A j, n \in DOMAIN Without(kept, i) : Without(kept, i)[j] = Without(kept, i)[n] => j = n
        /\ \A x : (\E j \in DOMAIN Without(kept, i) : Without(kept, i)[j] = x) <=>
                  (x # kept[i] /\ \E j \in DOMAIN kept : kept[j] = x)
    BY Zenon, <1>15, WithoutDistinct
  <2> QED BY Zenon, <1>15, <2>1
<1>18. BufsOk'
  <2>1. ASSUME NEW a \in Chans, NEW p \in Ports, NEW j \in DOMAIN kept'
        PROVE  port'[a][p].mbuf # kept'[j]
    <3>1. PICK n \in DOMAIN kept : kept[n] = kept'[j] BY Zenon, <1>17
    <3> QED BY SMTT(60), <1>8, <3>1 DEF CInv, BufsOk
  <2>2. \A a \in Chans : \A p \in Ports : port[a][p].mbuf # b BY <1>15 DEF CInv, BufsOk
  <2>3. ASSUME NEW x \in Bufs
        PROVE  mbuf'[x].used <=>
                 \/ \E a \in Chans : \E p \in Ports : port'[a][p].mbuf = x
                 \/ \E j \in DOMAIN kept' : kept'[j] = x
    <3>1. mbuf[x].used <=> \/ \E a \in Chans : \E p \in Ports : port[a][p].mbuf = x
                           \/ \E j \in DOMAIN kept : kept[j] = x
      BY Zenon DEF CInv, BufsOk
    <3>2. (\E a \in Chans : \E p \in Ports : port'[a][p].mbuf = x) <=>
          (\E a \in Chans : \E p \in Ports : port[a][p].mbuf = x)
      BY ZenonT(60), <1>8
    <3>3. (\E j \in DOMAIN kept' : kept'[j] = x) <=> (x # b /\ \E j \in DOMAIN kept : kept[j] = x)
      BY Zenon, <1>17
    <3>4. mbuf'[x].used <=> mbuf[x].used /\ x # b BY Zenon, <1>14
    <3>5. x = b => ~\E a \in Chans : \E p \in Ports : port[a][p].mbuf = x BY Zenon, <2>2
    <3> QED BY Zenon, <3>1, <3>2, <3>3, <3>4, <3>5
  <2>4. \A a, x \in Chans : \A p, y \in Ports :
          port'[a][p].mbuf # NULL /\ port'[a][p].mbuf = port'[x][y].mbuf => a = x /\ p = y
    BY SMTT(60), <1>8 DEF CInv, BufsOk
  <2> QED BY ZenonT(60), <1>13, <1>17, <2>1, <2>3, <2>4 DEF BufsOk
<1>19. CType' BY Zenon, <1>2, <1>7, <1>8, <1>9, <1>14, <1>16 DEF CInv, CType
<1> QED BY Zenon, <1>7, <1>9, <1>10, <1>13, <1>18, <1>19 DEF CInv
(* A buffer that was free is taken: what else is in use does not change. *)
LEMMA TakeBuf ==
    ASSUME CInv, NEW b \in Bufs, NEW m \in Msgs \cup {NULL}, NEW from \in Ports \cup {NULL},
           ~mbuf[b].used, mbuf' = [mbuf EXCEPT ![b] = Taken(m, from)]
    PROVE  /\ mbuf' \in [Bufs -> BufType]
           /\ \A x \in Bufs : mbuf'[x].used <=> mbuf[x].used \/ x = b
           /\ \A a \in Chans : \A p \in Ports : port[a][p].mbuf # b
           /\ \A j \in DOMAIN kept : kept[j] # b
<1>1. Taken(m, from) \in BufType /\ Taken(m, from).used BY Zenon DEF Taken, BufType
<1>2. \A x \in Bufs : mbuf'[x] = IF x = b THEN Taken(m, from) ELSE mbuf[x] BY Zenon DEF CInv, CType
<1>3. mbuf' \in [Bufs -> BufType] BY Zenon, <1>1 DEF CInv, CType
<1>4. ~\E a \in Chans : \E p \in Ports : port[a][p].mbuf = b BY Zenon DEF CInv, BufsOk
<1>5. ~\E j \in DOMAIN kept : kept[j] = b BY Zenon DEF CInv, BufsOk
<1> QED BY Zenon, <1>1, <1>2, <1>3, <1>4, <1>5

(* A buffer is released. *)
LEMMA FreeBuf ==
    ASSUME CType, NEW b \in Bufs, mbuf' = [mbuf EXCEPT ![b] = Free]
    PROVE  /\ mbuf' \in [Bufs -> BufType]
           /\ \A x \in Bufs : mbuf'[x].used <=> mbuf[x].used /\ x # b
<1>1. Free \in BufType /\ ~Free.used BY Zenon DEF Free, BufType
<1>2. \A x \in Bufs : mbuf'[x] = IF x = b THEN Free ELSE mbuf[x] BY Zenon DEF CType
<1>3. mbuf' \in [Bufs -> BufType] BY Zenon, <1>1 DEF CType
<1> QED BY Zenon, <1>1, <1>2, <1>3

(* The message that a write makes. *)
LEMMA MsgIs ==
    ASSUME CInv, RemotesOk, NEW c \in Comms, comm[c].used, comm[c].chan # "in", sent < MaxMsgs
    PROVE  Msg(comm[c]) \in Msgs /\ sent + 1 \in 0 .. MaxMsgs
<1>1. sent + 1 \in 1 .. MaxMsgs BY ChannelsAssumption DEF CInv, CType
<1>2. comm[c].remote \in Addr BY Zenon DEF RemotesOk
<1>3. comm[c].port \in Ports BY Zenon DEF CInv, CommsOk
<1>4. Local(comm[c].port) \in Addr BY Zenon, <1>3 DEF Local, Addr
<1>5. Msg(comm[c]) \in Msgs BY Zenon, <1>1, <1>2, <1>4 DEF Msg, Msgs
<1> QED BY SMTT(60), <1>1, <1>5
=============================================================================
