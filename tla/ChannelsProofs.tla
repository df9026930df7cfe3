--------------------------- MODULE ChannelsProofs ---------------------------
(***************************************************************************)
(* Mailboxes and portals, for any number of ports, communicators, message  *)
(* buffers, threads and messages: operations and buffers belong together.  *)
(***************************************************************************)
EXTENDS ChannelsLemmas

(* Forwarding a message, or registering without a buffer for it. *)
LEMMA ForwardSteps ==
    ASSUME CInv, RemotesOk, OneUser, NEW c \in Comms, AwriteForward(c)
    PROVE  CInv'
<1> DEFINE p == comm[c].port
<1>1. /\ comm[c].used /\ comm[c].chan = "fwd" /\ ~comm[c].busy /\ comm[c] \in CommType
      /\ \A t \in Threads : waits[t] # NULL => waits[t].comm # c
      /\ p \in Ports /\ ~IsFull(requests["fwd"]) /\ sent < MaxMsgs
  BY Zenon DEF AwriteForward, Writes, Alone, CInv, CType, CommsOk
<1>2. UNCHANGED <<busy, waits, hw, rx>> BY Zenon DEF AwriteForward
<1>3. /\ requests' = [requests EXCEPT !["fwd"] = Register(requests["fwd"], p)]
      /\ port' = [port EXCEPT !["fwd"][p].requested = TRUE]
  BY Zenon DEF AwriteForward
<1>4. \/ /\ \E b \in Aux : /\ FirstFree(Aux, b)
                           /\ mbuf' = [mbuf EXCEPT ![b] = Taken(Msg(comm[c]), p)]
                           /\ kept' = Append(kept, b)
         /\ sent' = sent + 1
         /\ comm' = [comm EXCEPT ![c].busy = TRUE, ![c].finished = TRUE, ![c].allowed = FALSE]
      \/ UNCHANGED <<mbuf, kept, sent, comm>>
  BY Zenon DEF AwriteForward
<1>5. Msg(comm[c]) \in Msgs /\ sent + 1 \in 0 .. MaxMsgs BY Zenon, <1>1, MsgIs
<1> HIDE DEF p
<1>6. /\ requests' \in [{"net", "fwd"} -> Fifo] /\ requests'["net"] = requests["net"] /\ RingsOk'
  <2>1. requests["fwd"] \in Fifo /\ RingOk(requests["fwd"]) BY Zenon DEF CInv, CType, RingsOk
  <2>2. Register(requests["fwd"], p) \in Fifo /\ RingOk(Register(requests["fwd"], p))
    BY Zenon, <1>1, <2>1, RingSteps
  <2>3. \A a \in {"net", "fwd"} :
          requests'[a] = IF a = "fwd" THEN Register(requests["fwd"], p) ELSE requests[a]
    BY Zenon, <1>3 DEF CInv, CType
  <2> QED BY Zenon, <1>3, <2>2, <2>3 DEF CInv, CType, RingsOk
<1>7. /\ port' \in [Chans -> [Ports -> PortType]]
      /\ \A x \in Chans, y \in Ports :
           port'[x][y].used = port[x][y].used /\ port'[x][y].mbuf = port[x][y].mbuf
  <2> DEFINE v == [port["fwd"][p] EXCEPT !.requested = TRUE]
  <2>1. CType /\ "fwd" \in Chans /\ port["fwd"][p] \in PortType BY Zenon, <1>1 DEF CInv, CType, Chans
  <2>2. port' = [port EXCEPT !["fwd"][p] = v] BY Zenon, <1>1, <1>3, <2>1 DEF CType
  <2>3. v \in PortType /\ v.used = port["fwd"][p].used /\ v.mbuf = port["fwd"][p].mbuf
    BY Zenon, <2>1 DEF PortType
  <2> HIDE DEF v
  <2>4. CType /\ "fwd" \in Chans /\ v \in PortType /\ p \in Ports BY Zenon, <1>1, <2>1, <2>3
  <2>5. /\ port' \in [Chans -> [Ports -> PortType]]
        /\ \A x \in Chans, y \in Ports :
             port'[x][y] = IF x = "fwd" /\ y = p THEN v ELSE port[x][y]
    BY ZenonT(60), <2>2, <2>4, PutPort
  <2> QED BY Zenon, <2>3, <2>5
<1>8. CASE UNCHANGED <<mbuf, kept, sent, comm>>
  <2>1. CommsOk'
    <3>1. ASSUME NEW d \in Comms, comm'[d].used
          PROVE  /\ comm'[d].chan \in Chans /\ comm'[d].port \in Ports
                 /\ port'[comm'[d].chan][comm'[d].port].used
      BY <1>7, <1>8, <3>1 DEF CInv, CommsOk
    <3> QED BY Zenon, <1>8, <3>1 DEF CInv, CommsOk
  <2>2. WaitsOk'
    <3>1. ASSUME NEW t \in Threads, waits[t] # NULL
          PROVE  LET d == comm[waits[t].comm] IN
                 comm'[waits[t].comm] = d /\ port'[d.chan][d.port].mbuf = port[d.chan][d.port].mbuf
      <4>1. waits[t].comm \in Comms /\ comm[waits[t].comm].used BY Zenon, <3>1, WaiterIs
      <4>2. comm[waits[t].comm].chan \in Chans /\ comm[waits[t].comm].port \in Ports
        BY Zenon, <4>1 DEF CInv, CommsOk
      <4> QED BY Zenon, <1>7, <1>8, <4>1, <4>2
    <3> QED BY Zenon, <1>2, <3>1, WaitsSame
  <2>3. \A d \in Comms : comm'[d].chan = comm[d].chan /\ comm'[d].port = comm[d].port BY Zenon, <1>8
  <2>4. \A d \in Comms : InFlight(d)' <=> InFlight(d) BY Zenon, <1>2, <1>8 DEF InFlight
  <2>5. /\ OpsOk'
        /\ \A y \in Ports : port'["fwd"][y].mbuf = NULL
        /\ \A y \in Ports : port'["in"][y].mbuf # NULL =>
             \E d \in Comms : InFlight(d)' /\ comm'[d].chan = "in" /\ comm'[d].port = y
    BY Zenon, <1>2, <1>6, <1>7, <2>3, <2>4, FlightsSame
  <2>6. BufsOk' BY <1>7, <1>8, <2>5 DEF CInv, BufsOk
  <2>7. CType' BY Zenon, <1>2, <1>6, <1>7, <1>8 DEF CInv, CType
  <2> QED BY Zenon, <1>6, <2>1, <2>2, <2>5, <2>6, <2>7 DEF CInv
<1>9. CASE ~UNCHANGED <<mbuf, kept, sent, comm>>
  <2>1. PICK b \in Aux : /\ FirstFree(Aux, b)
                        /\ mbuf' = [mbuf EXCEPT ![b] = Taken(Msg(comm[c]), p)]
                        /\ kept' = Append(kept, b)
                        /\ sent' = sent + 1
                        /\ comm' = [comm EXCEPT ![c].busy = TRUE, ![c].finished = TRUE,
                                               ![c].allowed = FALSE]
    BY Zenon, <1>4, <1>9
  <2>2. b \in Bufs /\ ~mbuf[b].used BY Zenon, <2>1, Consts DEF FirstFree
  <2> DEFINE k == [comm[c] EXCEPT !.busy = TRUE, !.finished = TRUE, !.allowed = FALSE]
  <2>3. comm' = [comm EXCEPT ![c] = k] BY Zenon, <1>1, <2>1 DEF CInv, CType
  <2>4. k \in CommType /\ k.used = comm[c].used /\ k.chan = comm[c].chan /\ k.port = comm[c].port
        /\ k.busy = TRUE /\ k.finished = TRUE
    BY Zenon, <1>1 DEF CommType
  <2> HIDE DEF k
  <2>5. /\ CommsOk' /\ comm' \in [Comms -> CommType]
        /\ \A d \in Comms : comm'[d] = IF d = c THEN k ELSE comm[d]
    BY Zenon, <1>1, <1>7, <2>3, <2>4, BusyComms
  <2>6. WaitsOk'
    <3>1. ASSUME NEW t \in Threads, waits[t] # NULL
          PROVE  LET d == comm[waits[t].comm] IN
                 comm'[waits[t].comm] = d /\ port'[d.chan][d.port].mbuf = port[d.chan][d.port].mbuf
      <4>1. waits[t].comm \in Comms /\ comm[waits[t].comm].used /\ waits[t].comm # c
        BY Zenon, <1>1, <3>1, WaiterIs
      <4>2. comm[waits[t].comm].chan \in Chans /\ comm[waits[t].comm].port \in Ports
        BY Zenon, <4>1 DEF CInv, CommsOk
      <4> QED BY Zenon, <1>7, <2>5, <4>1, <4>2
    <3> QED BY Zenon, <1>2, <3>1, WaitsSame
  <2>7. \A d \in Comms : comm'[d].chan = comm[d].chan /\ comm'[d].port = comm[d].port
    BY Zenon, <2>4, <2>5
  <2>8. ASSUME NEW d \in Comms PROVE InFlight(d)' <=> InFlight(d)
    BY Zenon, <1>1, <1>2, <2>4, <2>5 DEF InFlight
  <2>9. /\ OpsOk'
        /\ \A y \in Ports : port'["fwd"][y].mbuf = NULL
        /\ \A y \in Ports : port'["in"][y].mbuf # NULL =>
             \E d \in Comms : InFlight(d)' /\ comm'[d].chan = "in" /\ comm'[d].port = y
    BY Zenon, <1>2, <1>6, <1>7, <2>7, <2>8, FlightsSame
  <2>10. Msg(comm[c]) \in Msgs \cup {NULL} /\ p \in Ports \cup {NULL} BY Zenon, <1>1, <1>5
  <2>11. /\ mbuf' \in [Bufs -> BufType]
         /\ \A x \in Bufs : mbuf'[x].used <=> mbuf[x].used \/ x = b
         /\ \A a \in Chans : \A y \in Ports : port[a][y].mbuf # b
         /\ \A j \in DOMAIN kept : kept[j] # b
    BY Zenon, <2>1, <2>2, <2>10, TakeBuf
  <2>12. kept \in Seq(Bufs) /\ \A j, n \in DOMAIN kept : kept[j] = kept[n] => j = n
    BY Zenon DEF CInv, CType, BufsOk
  <2>13. /\ kept' \in Seq(Bufs)
         /\ \A j, n \in DOMAIN kept' : kept'[j] = kept'[n] => j = n
         /\ \A x : (\E j \in DOMAIN kept' : kept'[j] = x) <=>
                   (x = b \/ \E j \in DOMAIN kept : kept[j] = x)
    <3>1. /\ Append(kept, b) \in Seq(Bufs)
          /\ \A j, n \in DOMAIN Append(kept, b) : Append(kept, b)[j] = Append(kept, b)[n] => j = n
          /\ \A x : (\E j \in DOMAIN Append(kept, b) : Append(kept, b)[j] = x) <=>
                    (x = b \/ \E j \in DOMAIN kept : kept[j] = x)
      <4>1. b \in Bufs /\ \A j \in DOMAIN kept : kept[j] # b BY Zenon, <2>2, <2>11
      <4> QED BY ZenonT(60), <2>12, <4>1, AppendDistinct
    <3> QED BY Zenon, <2>1, <3>1
  <2>14. BufsOk'
    <3>1. ASSUME NEW a \in Chans, NEW y \in Ports, NEW j \in DOMAIN kept'
          PROVE  port'[a][y].mbuf # kept'[j]
      <4>1. kept'[j] = b \/ \E n \in DOMAIN kept : kept[n] = kept'[j] BY Zenon, <2>13
      <4> QED BY <1>7, <2>11, <4>1 DEF CInv, BufsOk
    <3>2. ASSUME NEW x \in Bufs
          PROVE  mbuf'[x].used <=>
                   \/ \E a \in Chans : \E y \in Ports : port'[a][y].mbuf = x
                   \/ \E j \in DOMAIN kept' : kept'[j] = x
      <4>1. mbuf[x].used <=> \/ \E a \in Chans : \E y \in Ports : port[a][y].mbuf = x
                             \/ \E j \in DOMAIN kept : kept[j] = x
        BY Zenon DEF CInv, BufsOk
      <4>2. (\E a \in Chans : \E y \in Ports : port'[a][y].mbuf = x) <=>
            (\E a \in Chans : \E y \in Ports : port[a][y].mbuf = x)
        BY <1>7
      <4>3. (\E j \in DOMAIN kept' : kept'[j] = x) <=> (x = b \/ \E j \in DOMAIN kept : kept[j] = x)
        BY Zenon, <2>13
      <4>4. mbuf'[x].used <=> mbuf[x].used \/ x = b BY Zenon, <2>11
      <4> QED BY Zenon, <4>1, <4>2, <4>3, <4>4
    <3>3. \A a, x \in Chans : \A q, y \in Ports :
            port'[a][q].mbuf # NULL /\ port'[a][q].mbuf = port'[x][y].mbuf => a = x /\ q = y
      BY <1>7 DEF CInv, BufsOk
    <3> QED BY Zenon, <2>9, <2>13, <3>1, <3>2, <3>3 DEF BufsOk
  <2>15. sent' \in 0 .. MaxMsgs BY Zenon, <1>5, <2>1
  <2>16. CType' BY Zenon, <1>2, <1>6, <1>7, <2>5, <2>11, <2>13, <2>15 DEF CInv, CType
  <2> QED BY Zenon, <1>6, <2>5, <2>6, <2>9, <2>14, <2>16 DEF CInv
<1> QED BY Zenon, <1>8, <1>9

-----------------------------------------------------------------------------
(* An operation starts on a channel that is not busy. *)
Starts(c, a, p, b, k) ==
    /\ comm[c].used /\ comm[c].chan = a /\ comm[c].port = p /\ ~comm[c].busy /\ a \notin busy
    /\ \A t \in Threads : waits[t] # NULL => waits[t].comm # c
    /\ comm' = [comm EXCEPT ![c] = k]
    /\ k.used = comm[c].used /\ k.chan = a /\ k.port = p /\ k.busy = TRUE /\ ~k.finished
    /\ waits' = waits /\ busy' = busy \cup {a} /\ hw' = [hw EXCEPT ![a] = b]
    /\ \A x \in Chans, y \in Ports :
         /\ port'[x][y].used = port[x][y].used
         /\ port'[x][y].mbuf = IF x = a /\ y = p THEN b ELSE port[x][y].mbuf
    /\ a = "net" => Turn(requests'["net"], p)
    /\ a # "net" => requests'["net"] = requests["net"]

LEMMA StartFlight ==
    ASSUME CInv, NEW c \in Comms, NEW a \in {"in", "net"}, NEW p \in Ports, NEW b \in Bufs,
           NEW k \in CommType, Starts(c, a, p, b, k)
    PROVE  /\ CommsOk' /\ WaitsOk' /\ OpsOk'
           /\ comm' \in [Comms -> CommType] /\ hw' \in [{"in", "net"} -> Bufs \cup {NULL}]
           /\ busy' \in SUBSET {"in", "net"}
           /\ \A y \in Ports : port'["fwd"][y].mbuf = NULL
           /\ \A y \in Ports : port'["in"][y].mbuf # NULL =>
                \E d \in Comms : InFlight(d)' /\ comm'[d].chan = "in" /\ comm'[d].port = y
<1> USE DEF Starts
<1>1. /\ CommsOk' /\ comm' \in [Comms -> CommType]
      /\ \A d \in Comms : comm'[d] = IF d = c THEN k ELSE comm[d]
  <2>1. k.chan = comm[c].chan /\ k.port = comm[c].port /\ (k.chan = "fwd" => k.finished) BY Zenon
  <2> QED BY Zenon, <2>1, BusyComms
<1>2. a \in Chans /\ "in" \in Chans /\ "fwd" \in Chans /\ a # "fwd" BY Zenon DEF Chans
<1>3. \A d \in Comms : d # c /\ comm[d].used =>
        /\ comm[d].chan \in Chans /\ comm[d].port \in Ports /\ (comm[d].chan # a \/ comm[d].port # p)
  BY ZenonT(60) DEF CInv, CommsOk
<1>4. \A d \in Comms : d # c /\ comm[d].used =>
        port'[comm[d].chan][comm[d].port].mbuf = port[comm[d].chan][comm[d].port].mbuf
  BY Zenon, <1>3
<1>5. WaitsOk'
  <2>1. ASSUME NEW t \in Threads, waits[t] # NULL
        PROVE  LET d == comm[waits[t].comm] IN
               comm'[waits[t].comm] = d /\ port'[d.chan][d.port].mbuf = port[d.chan][d.port].mbuf
    <3>1. waits[t].comm \in Comms /\ comm[waits[t].comm].used /\ waits[t].comm # c
      BY Zenon, <2>1, WaiterIs
    <3> QED BY Zenon, <1>1, <1>4, <3>1
  <2> QED BY Zenon, <2>1, WaitsSame
<1>6. ASSUME NEW d \in Comms PROVE InFlight(d)' <=> d = c \/ InFlight(d)
  <2>1. CASE d = c BY Zenon, <1>1, <2>1 DEF InFlight
  <2>2. CASE d # c BY Zenon, <1>1, <2>2 DEF InFlight
  <2> QED BY Zenon, <2>1, <2>2
<1>7. ~InFlight(c) BY Zenon DEF InFlight
<1>8. \A d \in Comms : InFlight(d) =>
        /\ d # c /\ comm'[d] = comm[d] /\ comm[d].chan \in busy /\ comm[d].chan # a
        /\ comm[d].used
  BY Zenon, <1>1, <1>7, FlightUsed
<1>9. hw' \in [{"in", "net"} -> Bufs \cup {NULL}]
      /\ \A x \in {"in", "net"} : hw'[x] = IF x = a THEN b ELSE hw[x]
  BY Zenon DEF CInv, CType
<1>10. comm'[c] = k /\ port'[a][p].mbuf = b /\ b # NULL BY Zenon, <1>1, <1>2, NullAssumption
<1>11. OpsOk'
  <2>1. ASSUME NEW d \in Comms, InFlight(d)'
        PROVE  /\ (comm[d].chan \in busy)'
               /\ (port[comm[d].chan][comm[d].port].mbuf # NULL)'
               /\ (comm[d].chan = "net" => Turn(requests["net"], comm[d].port))'
    <3>1. CASE d = c BY SMTT(60), <1>10, <3>1
    <3>2. CASE d # c
      <4>1. InFlight(d) /\ comm'[d] = comm[d] /\ comm[d].chan \in busy /\ comm[d].chan # a
        BY ZenonT(60), <1>6, <1>8, <2>1, <3>2
      <4>2. port'[comm[d].chan][comm[d].port].mbuf # NULL
        BY <1>4, <1>8, <4>1 DEF CInv, OpsOk
      <4>3. comm[d].chan = "net" => Turn(requests'["net"], comm[d].port)
        BY Zenon, <4>1 DEF CInv, OpsOk
      <4> QED BY <4>1, <4>2, <4>3
    <3> QED BY Zenon, <3>1, <3>2
  <2>2. ASSUME NEW x \in busy' PROVE \E d \in Comms : InFlight(d)' /\ comm'[d].chan = x
    <3>1. CASE x = a BY Zenon, <1>6, <1>10, <3>1
    <3>2. CASE x # a
      <4>1. PICK d \in Comms : InFlight(d) /\ comm[d].chan = x BY Zenon, <3>2 DEF CInv, OpsOk
      <4> QED BY Zenon, <1>6, <1>8, <4>1
    <3> QED BY Zenon, <3>1, <3>2
  <2>3. ASSUME NEW d \in Comms, NEW e \in Comms, InFlight(d)', InFlight(e)',
               comm'[d].chan = comm'[e].chan
        PROVE  d = e
    <3>1. CASE d = c BY SMTT(60), <1>6, <1>8, <1>10, <2>3, <3>1
    <3>2. CASE e = c BY <1>6, <1>8, <1>10, <2>3, <3>2
    <3>3. CASE d # c /\ e # c
      <4>1. InFlight(d) /\ InFlight(e) /\ comm[d].chan = comm[e].chan BY Zenon, <1>6, <1>8, <2>3, <3>3
      <4> QED BY Zenon, <4>1 DEF CInv, OpsOk
    <3> QED BY Zenon, <3>1, <3>2, <3>3
  <2>4. ASSUME NEW x \in {"in", "net"}, hw'[x] # NULL
        PROVE  \E d \in Comms : /\ InFlight(d)' /\ comm'[d].chan = x
                                /\ port'[x][comm'[d].port].mbuf = hw'[x]
    <3>1. CASE x = a BY <1>6, <1>9, <1>10, <3>1
    <3>2. CASE x # a
      <4>1. PICK d \in Comms : InFlight(d) /\ comm[d].chan = x /\ port[x][comm[d].port].mbuf = hw[x]
        BY Zenon, <1>9, <2>4, <3>2 DEF CInv, OpsOk
      <4>2. port'[x][comm[d].port].mbuf = hw[x] BY Zenon, <1>4, <1>8, <4>1
      <4> QED BY ZenonT(60), <1>6, <1>8, <1>9, <3>2, <4>1, <4>2
    <3> QED BY Zenon, <3>1, <3>2
  <2> QED BY Zenon, <2>1, <2>2, <2>3, <2>4 DEF OpsOk
<1>12. \A y \in Ports : port'["fwd"][y].mbuf = NULL BY <1>2 DEF CInv, BufsOk
<1>13. ASSUME NEW y \in Ports, port'["in"][y].mbuf # NULL
       PROVE  \E d \in Comms : InFlight(d)' /\ comm'[d].chan = "in" /\ comm'[d].port = y
  <2>1. CASE a = "in" /\ y = p BY ZenonT(60), <1>6, <1>10, <2>1
  <2>2. CASE ~(a = "in" /\ y = p)
    <3>1. port["in"][y].mbuf # NULL BY Zenon, <1>2, <1>13, <2>2
    <3>2. PICK d \in Comms : InFlight(d) /\ comm[d].chan = "in" /\ comm[d].port = y
      BY Zenon, <3>1 DEF CInv, BufsOk
    <3> QED BY Zenon, <1>6, <1>8, <3>2
  <2> QED BY Zenon, <2>1, <2>2
<1>14. busy' \in SUBSET {"in", "net"} BY Zenon DEF CInv, CType
<1> QED BY Zenon, <1>1, <1>5, <1>9, <1>11, <1>12, <1>13, <1>14

(* A port gets a buffer that was free. *)
Gets(a, p, b) ==
    /\ port[a][p].mbuf = NULL /\ kept' = kept
    /\ \A x \in Bufs : mbuf'[x].used <=> mbuf[x].used \/ x = b
    /\ \A x \in Chans : \A y \in Ports : port[x][y].mbuf # b
    /\ \A j \in DOMAIN kept : kept[j] # b
    /\ \A x \in Chans, y \in Ports :
         port'[x][y].mbuf = IF x = a /\ y = p THEN b ELSE port[x][y].mbuf

LEMMA GetBuf ==
    ASSUME CInv, NEW a \in Chans, NEW p \in Ports, NEW b \in Bufs, Gets(a, p, b),
           \A y \in Ports : port'["fwd"][y].mbuf = NULL,
           \A y \in Ports : port'["in"][y].mbuf # NULL =>
             \E d \in Comms : InFlight(d)' /\ comm'[d].chan = "in" /\ comm'[d].port = y
    PROVE  BufsOk'
<1> USE DEF Gets
<1>1. \A x, z \in Chans : \A y, w \in Ports :
        port'[x][y].mbuf # NULL /\ port'[x][y].mbuf = port'[z][w].mbuf => x = z /\ y = w
  BY DEF CInv, BufsOk
<1>2. \A x \in Chans : \A y \in Ports : \A j \in DOMAIN kept : port'[x][y].mbuf # kept[j]
  BY DEF CInv, BufsOk
<1>3. ASSUME NEW x \in Bufs
      PROVE  mbuf'[x].used <=>
               \/ \E z \in Chans : \E y \in Ports : port'[z][y].mbuf = x
               \/ \E j \in DOMAIN kept : kept[j] = x
  <2>1. mbuf[x].used <=> \/ \E z \in Chans : \E y \in Ports : port[z][y].mbuf = x
                         \/ \E j \in DOMAIN kept : kept[j] = x
    BY Zenon DEF CInv, BufsOk
  <2>2. x # NULL BY Zenon, NullAssumption
  <2>3. (\E z \in Chans : \E y \in Ports : port'[z][y].mbuf = x) <=>
        (x = b \/ \E z \in Chans : \E y \in Ports : port[z][y].mbuf = x)
    BY <2>2
  <2>4. mbuf'[x].used <=> mbuf[x].used \/ x = b BY Zenon
  <2> QED BY Zenon, <2>1, <2>3, <2>4
<1>4. \A i, j \in DOMAIN kept : kept[i] = kept[j] => i = j BY Zenon DEF CInv, BufsOk
<1> QED BY SMTT(60), <1>1, <1>2, <1>3, <1>4 DEF BufsOk

LEMMA StartSteps ==
    ASSUME CInv, OneUser, NEW c \in Comms, NEW u \in Buffers, AreadStart(c, u)
    PROVE  CInv'
<1> DEFINE p == comm[c].port
           k == [Asked(c, u) EXCEPT !.asked = u, !.busy = TRUE]
<1>1. /\ comm[c].used /\ comm[c].chan = "in" /\ ~comm[c].busy /\ comm[c] \in CommType
      /\ \A t \in Threads : waits[t] # NULL => waits[t].comm # c
      /\ p \in Ports /\ "in" \notin busy
  BY Zenon DEF AreadStart, MayStart, MayRead, Reads, Alone, CInv, CType, CommsOk
<1>2. UNCHANGED <<requests, kept, waits, rx, sent>> BY Zenon DEF AreadStart
<1>3. PICK b \in Bufs : /\ FirstFree(Bufs, b)
                        /\ mbuf' = [mbuf EXCEPT ![b] = Taken(NULL, NULL)]
                        /\ port' = [port EXCEPT !["in"][p].mbuf = b]
                        /\ hw' = [hw EXCEPT !["in"] = b]
  BY Zenon DEF AreadStart
<1>4. busy' = busy \cup {"in"} /\ comm' = [comm EXCEPT ![c] = k] BY Zenon DEF AreadStart
<1>5. ~comm[c].finished BY Zenon, <1>1 DEF CInv, CommsOk
<1>6. k \in CommType /\ k.used = comm[c].used /\ k.chan = "in" /\ k.port = p
      /\ k.busy = TRUE /\ ~k.finished
  BY Zenon, <1>1, <1>5 DEF Asked, CommType
<1> HIDE DEF k, p
<1>7. ~mbuf[b].used /\ NULL \in Msgs \cup {NULL} /\ NULL \in Ports \cup {NULL}
  BY Zenon, <1>3 DEF FirstFree
<1>8. /\ mbuf' \in [Bufs -> BufType]
      /\ \A x \in Bufs : mbuf'[x].used <=> mbuf[x].used \/ x = b
      /\ \A x \in Chans : \A y \in Ports : port[x][y].mbuf # b
      /\ \A j \in DOMAIN kept : kept[j] # b
  BY Zenon, <1>3, <1>7, TakeBuf
<1>9. /\ port' \in [Chans -> [Ports -> PortType]]
      /\ \A x \in Chans, y \in Ports : port'[x][y].used = port[x][y].used
      /\ \A x \in Chans, y \in Ports :
           port'[x][y].mbuf = IF x = "in" /\ y = p THEN b ELSE port[x][y].mbuf
  <2> DEFINE v == [port["in"][p] EXCEPT !.mbuf = b]
  <2>1. CType /\ "in" \in Chans /\ port["in"][p] \in PortType BY Zenon, <1>1 DEF CInv, CType, Chans
  <2>2. port' = [port EXCEPT !["in"][p] = v] BY Zenon, <1>1, <1>3, <2>1 DEF CType
  <2>3. v \in PortType /\ v.used = port["in"][p].used /\ v.mbuf = b
    BY Zenon, <2>1 DEF PortType
  <2> HIDE DEF v
  <2>4. CType /\ "in" \in Chans /\ v \in PortType /\ p \in Ports BY Zenon, <1>1, <2>1, <2>3
  <2>5. /\ port' \in [Chans -> [Ports -> PortType]]
        /\ \A x \in Chans, y \in Ports :
             port'[x][y] = IF x = "in" /\ y = p THEN v ELSE port[x][y]
    BY ZenonT(60), <2>2, <2>4, PutPort
  <2> QED BY Zenon, <2>3, <2>5
<1>10. /\ CommsOk' /\ WaitsOk' /\ OpsOk'
       /\ comm' \in [Comms -> CommType] /\ hw' \in [{"in", "net"} -> Bufs \cup {NULL}]
       /\ busy' \in SUBSET {"in", "net"}
       /\ \A y \in Ports : port'["fwd"][y].mbuf = NULL
       /\ \A y \in Ports : port'["in"][y].mbuf # NULL =>
            \E d \in Comms : InFlight(d)' /\ comm'[d].chan = "in" /\ comm'[d].port = y
  <2>1. "in" \in {"in", "net"} /\ "in" # "net" BY Zenon
  <2>2. comm[c].port = p BY Zenon DEF p
  <2>3. ("in" = "net" => Turn(requests'["net"], p)) /\ ("in" # "net" => requests'["net"] = requests["net"])
    BY Zenon, <1>2
  <2>4. Starts(c, "in", p, b, k) BY Zenon, <1>1, <1>2, <1>3, <1>4, <1>6, <1>9, <2>2, <2>3 DEF Starts
  <2> QED BY Zenon, <1>1, <1>6, <2>1, <2>4, StartFlight
<1>11. port["in"][p].mbuf = NULL
  <2>1. ASSUME port["in"][p].mbuf # NULL PROVE FALSE
    <3>1. PICK d \in Comms : InFlight(d) /\ comm[d].chan = "in" BY Zenon, <1>1, <2>1 DEF CInv, BufsOk
    <3> QED BY <1>1, <3>1 DEF CInv, OpsOk
  <2> QED BY Zenon, <2>1
<1>12. BufsOk'
  <2>1. "in" \in Chans /\ kept' = kept BY Zenon, <1>2 DEF Chans
  <2>2. Gets("in", p, b) BY Zenon, <1>8, <1>9, <1>11, <2>1 DEF Gets
  <2> QED BY Zenon, <1>1, <1>10, <2>1, <2>2, GetBuf
<1>13. RingsOk' BY Zenon, <1>2 DEF CInv, RingsOk
<1>14. CType' BY Zenon, <1>2, <1>8, <1>9, <1>10 DEF CInv, CType
<1> QED BY Zenon, <1>10, <1>12, <1>13, <1>14 DEF CInv

(* The FIFO after the request of a send. *)
LEMMA SendFifo ==
    ASSUME NEW q \in Fifo, NEW p \in Ports, RingOk(q)
    PROVE  /\ ~IsFull(q) => Register(q, p) \in Fifo /\ RingOk(Register(q, p))
           /\ \A y \in Ports : Turn(q, y) /\ ~IsFull(q) => Turn(Register(q, p), y)
<1>1. ~IsFull(q) => Register(q, p) \in Fifo /\ RingOk(Register(q, p)) BY Zenon, RingSteps
<1>2. ASSUME NEW y \in Ports, Turn(q, y), ~IsFull(q) PROVE Turn(Register(q, p), y)
  <2>1. q.head \in Ports /\ q.tail \in Ports /\ q.nelements \in 0 .. PORT_NR /\ PORT_NR \in Nat
    BY Zenon, RequestsAssumption DEF Fifo, RingOk
  <2>2. q.nelements # 0 /\ q.nelements # PORT_NR /\ q.fifo[q.tail] = y BY Zenon, <1>2 DEF Turn, IsFull
  <2>3. q.head # q.tail BY <2>1, <2>2 DEF RingOk, Ports
  <2>4. /\ Register(q, p).tail = q.tail /\ Register(q, p).nelements = q.nelements + 1
        /\ Register(q, p).fifo = [q.fifo EXCEPT ![q.head] = p]
    BY Zenon, FifoSteps
  <2>5. Register(q, p).fifo[q.tail] = y BY Zenon, <2>1, <2>2, <2>3, <2>4 DEF Fifo
  <2>6. q.nelements + 1 # 0 BY <2>1
  <2> QED BY Zenon, <2>4, <2>5, <2>6 DEF Turn
<1> QED BY Zenon, <1>1, <1>2

(* Sending: a step that gets a buffer and a place in the FIFO, and starts  *)
(* the hardware or not.                                                    *)
LEMMA SendSteps ==
    ASSUME CInv, RemotesOk, OneUser, NEW c \in Comms, AwriteSend(c)
    PROVE  CInv'
<1> DEFINE p == comm[c].port
           q == requests["net"]
           req == port["net"][p].requested \/ ~IsFull(q)
           fifo == IF port["net"][p].requested \/ IsFull(q) THEN q ELSE Register(q, p)
           may == req /\ Turn(fifo, p) /\ "net" \notin busy
<1>1. /\ comm[c].used /\ comm[c].chan = "net" /\ ~comm[c].busy /\ comm[c] \in CommType
      /\ \A t \in Threads : waits[t] # NULL => waits[t].comm # c
      /\ p \in Ports /\ q \in Fifo /\ RingOk(q)
  BY Zenon DEF AwriteSend, Writes, Alone, CInv, CType, CommsOk, RingsOk
<1>2. UNCHANGED <<kept, waits, rx>> BY Zenon DEF AwriteSend
<1>3. PICK b \in Bufs :
        /\ SendBuffer(comm[c], b)
        /\ port' = [port EXCEPT !["net"][p].mbuf = b, !["net"][p].requested = req]
        /\ requests' = [requests EXCEPT !["net"] = fifo]
        /\ \/ may /\ hw' = [hw EXCEPT !["net"] = b] /\ busy' = busy \cup {"net"}
              /\ comm' = [comm EXCEPT ![c].busy = TRUE]
           \/ UNCHANGED <<hw, busy, comm>>
  BY Zenon DEF AwriteSend
<1>4. ~comm[c].finished BY Zenon, <1>1 DEF CInv, CommsOk
<1>5. fifo \in Fifo /\ RingOk(fifo) /\ \A y \in Ports : Turn(q, y) => Turn(fifo, y)
  BY Zenon, <1>1, SendFifo
<1>6. req \in BOOLEAN BY Zenon
<1> HIDE DEF p, req, fifo
<1>7. /\ requests' \in [{"net", "fwd"} -> Fifo] /\ requests'["net"] = fifo /\ RingsOk'
  <2>1. \A a \in {"net", "fwd"} : requests'[a] = IF a = "net" THEN fifo ELSE requests[a]
    BY Zenon, <1>3 DEF CInv, CType
  <2>2. requests' \in [{"net", "fwd"} -> Fifo] BY Zenon, <1>3, <1>5 DEF CInv, CType
  <2>3. RingsOk' BY Zenon, <1>5, <2>1 DEF CInv, RingsOk
  <2> QED BY Zenon, <2>1, <2>2, <2>3
<1>8. /\ port' \in [Chans -> [Ports -> PortType]]
      /\ \A x \in Chans, y \in Ports :
           /\ port'[x][y].used = port[x][y].used
           /\ port'[x][y].mbuf = IF x = "net" /\ y = p THEN b ELSE port[x][y].mbuf
  <2> DEFINE v == [port["net"][p] EXCEPT !.mbuf = b, !.requested = req]
  <2>1. CType /\ "net" \in Chans /\ port["net"][p] \in PortType BY Zenon, <1>1 DEF CInv, CType, Chans
  <2>2. port' = [port EXCEPT !["net"][p] = v] BY ZenonT(60), <1>1, <1>3, <2>1 DEF CType
  <2>3. v \in PortType /\ v.used = port["net"][p].used /\ v.mbuf = b
    BY Zenon, <1>6, <2>1 DEF PortType
  <2> HIDE DEF v
  <2>4. CType /\ "net" \in Chans /\ v \in PortType /\ p \in Ports BY Zenon, <1>1, <2>1, <2>3
  <2>5. /\ port' \in [Chans -> [Ports -> PortType]]
        /\ \A x \in Chans, y \in Ports :
             port'[x][y] = IF x = "net" /\ y = p THEN v ELSE port[x][y]
    BY ZenonT(60), <2>2, <2>4, PutPort
  <2> QED BY Zenon, <2>3, <2>5
<1>9. /\ CommsOk' /\ WaitsOk' /\ OpsOk'
      /\ comm' \in [Comms -> CommType] /\ hw' \in [{"in", "net"} -> Bufs \cup {NULL}]
      /\ busy' \in SUBSET {"in", "net"}
      /\ \A y \in Ports : port'["fwd"][y].mbuf = NULL
      /\ \A y \in Ports : port'["in"][y].mbuf # NULL =>
           \E d \in Comms : InFlight(d)' /\ comm'[d].chan = "in" /\ comm'[d].port = y
  <2>1. CASE may /\ hw' = [hw EXCEPT !["net"] = b] /\ busy' = busy \cup {"net"}
             /\ comm' = [comm EXCEPT ![c].busy = TRUE]
    <3> DEFINE k == [comm[c] EXCEPT !.busy = TRUE]
    <3>1. comm' = [comm EXCEPT ![c] = k] BY Zenon, <1>1, <2>1 DEF CInv, CType
    <3>2. k \in CommType /\ k.used = comm[c].used /\ k.chan = "net" /\ k.port = p
          /\ k.busy = TRUE /\ ~k.finished
      BY Zenon, <1>1, <1>4 DEF CommType, p
    <3> HIDE DEF k
    <3>3. comm[c].port = p /\ "net" \notin busy /\ Turn(requests'["net"], p) BY Zenon, <1>7, <2>1 DEF p
    <3>4. Starts(c, "net", p, b, k)
      BY ZenonT(60), <1>1, <1>2, <1>8, <2>1, <3>1, <3>2, <3>3 DEF Starts
    <3>5. "net" \in {"in", "net"} /\ k \in CommType /\ p \in Ports BY Zenon, <1>1, <3>2
    <3> QED BY Zenon, <3>4, <3>5, StartFlight
  <2>2. CASE UNCHANGED <<hw, busy, comm>>
    <3>1. CommsOk'
      <4>1. ASSUME NEW d \in Comms, comm'[d].used
            PROVE  /\ comm'[d].chan \in Chans /\ comm'[d].port \in Ports
                   /\ port'[comm'[d].chan][comm'[d].port].used
        BY SMTT(60), <1>8, <2>2, <4>1 DEF CInv, CommsOk
      <4> QED BY ZenonT(60), <2>2, <4>1 DEF CInv, CommsOk
    <3>2. \A d \in Comms : d # c /\ comm[d].used =>
            /\ comm[d].chan \in Chans /\ comm[d].port \in Ports
            /\ comm[d].chan # "net" \/ comm[d].port # p
      BY Zenon, <1>1 DEF CInv, CommsOk, p
    <3>3. \A d \in Comms : d # c /\ comm[d].used =>
            port'[comm[d].chan][comm[d].port].mbuf = port[comm[d].chan][comm[d].port].mbuf
      BY ZenonT(60), <1>8, <3>2
    <3>4. WaitsOk'
      <4>1. ASSUME NEW t \in Threads, waits[t] # NULL
            PROVE  LET d == comm[waits[t].comm] IN
                   comm'[waits[t].comm] = d /\ port'[d.chan][d.port].mbuf = port[d.chan][d.port].mbuf
        <5>1. waits[t].comm \in Comms /\ comm[waits[t].comm].used /\ waits[t].comm # c
          BY Zenon, <1>1, <4>1, WaiterIs
        <5> QED BY Zenon, <2>2, <3>3, <5>1
      <4> QED BY Zenon, <1>2, <4>1, WaitsSame
    <3>5. \A d \in Comms : InFlight(d)' <=> InFlight(d) BY Zenon, <1>2, <2>2 DEF InFlight
    <3>6. \A d \in Comms : InFlight(d) =>
            port'[comm[d].chan][comm[d].port].mbuf = port[comm[d].chan][comm[d].port].mbuf
      <4>1. ~InFlight(c) BY Zenon, <1>1 DEF InFlight
      <4> QED BY Zenon, <3>3, <4>1, FlightUsed
    <3>7. \A d \in Comms : comm'[d].chan = comm[d].chan /\ comm'[d].port = comm[d].port BY Zenon, <2>2
    <3>8. \A y \in Ports : Turn(requests["net"], y) => Turn(requests["net"], y)'
      BY Zenon, <1>5, <1>7 DEF Turn
    <3>9. \A x \in {"in", "fwd"}, y \in Ports : port'[x][y].mbuf = port[x][y].mbuf
      BY Zenon, <1>8 DEF Chans
    <3>10. /\ OpsOk'
           /\ \A y \in Ports : port'["fwd"][y].mbuf = NULL
           /\ \A y \in Ports : port'["in"][y].mbuf # NULL =>
                \E d \in Comms : InFlight(d)' /\ comm'[d].chan = "in" /\ comm'[d].port = y
      BY ZenonT(60), <2>2, <3>5, <3>6, <3>7, <3>8, <3>9, FlightsKept
    <3> QED BY ZenonT(60), <2>2, <3>1, <3>4, <3>10 DEF CInv, CType
  <2> QED BY Zenon, <1>3, <2>1, <2>2
<1>10. BufsOk' /\ mbuf' \in [Bufs -> BufType] /\ sent' \in 0 .. MaxMsgs
  <2>1. CASE port["net"][p].mbuf = b /\ UNCHANGED <<mbuf, sent>>
    <3>1. \A x \in Chans, y \in Ports : port'[x][y].mbuf = port[x][y].mbuf BY Zenon, <1>8, <2>1
    <3>2. BufsOk' BY SMTT(60), <1>2, <1>9, <2>1, <3>1 DEF CInv, BufsOk
    <3> QED BY Zenon, <2>1, <3>2 DEF CInv, CType
  <2>2. CASE /\ port["net"][p].mbuf = NULL /\ sent < MaxMsgs /\ FirstFree(Bufs, b)
             /\ mbuf' = [mbuf EXCEPT ![b] = Taken(Msg(comm[c]), NULL)]
             /\ sent' = sent + 1
    <3>1. Msg(comm[c]) \in Msgs \cup {NULL} /\ sent' \in 0 .. MaxMsgs BY Zenon, <1>1, <2>2, MsgIs
    <3>2. ~mbuf[b].used /\ NULL \in Ports \cup {NULL} BY Zenon, <2>2 DEF FirstFree
    <3>3. /\ mbuf' \in [Bufs -> BufType]
          /\ \A x \in Bufs : mbuf'[x].used <=> mbuf[x].used \/ x = b
          /\ \A x \in Chans : \A y \in Ports : port[x][y].mbuf # b
          /\ \A j \in DOMAIN kept : kept[j] # b
      BY Zenon, <2>2, <3>1, <3>2, TakeBuf
    <3>4. Gets("net", p, b) BY ZenonT(60), <1>2, <1>8, <2>2, <3>3 DEF Gets
    <3>5. "net" \in Chans /\ p \in Ports BY Zenon, <1>1 DEF Chans
    <3>6. BufsOk' BY ZenonT(60), <1>9, <3>4, <3>5, GetBuf
    <3> QED BY Zenon, <3>1, <3>3, <3>6
  <2> QED BY Zenon, <1>3, <2>1, <2>2 DEF SendBuffer, p
<1>11. CType' BY Zenon, <1>2, <1>7, <1>8, <1>9, <1>10 DEF CInv, CType
<1> QED BY ZenonT(60), <1>7, <1>9, <1>10, <1>11 DEF CInv

-----------------------------------------------------------------------------
(* An operation ends, and the thread goes on to its communicator. *)
Ends(t, c, a, p, w) ==
    /\ waits[t] # NULL /\ waits[t].pc = "hw" /\ waits[t].comm = c
    /\ comm[c].chan = a /\ comm[c].port = p
    /\ comm' = comm /\ waits' = [waits EXCEPT ![t] = w] /\ w # NULL /\ w.pc = "comm" /\ w.comm = c
    /\ busy' = busy \ {a}
    /\ \A x \in {"in", "net"} : hw'[x] = IF x = a THEN NULL ELSE hw[x]
    /\ \A x \in Chans, y \in Ports :
         /\ port'[x][y].used = port[x][y].used
         /\ port'[x][y].mbuf = IF x = a /\ y = p THEN NULL ELSE port[x][y].mbuf
    /\ a # "net" => requests'["net"] = requests["net"]

LEMMA EndFlight ==
    ASSUME CInv, NEW t \in Threads, NEW c \in Comms, NEW a \in {"in", "net"}, NEW p \in Ports,
           NEW w \in Waits, Ends(t, c, a, p, w)
    PROVE  /\ CommsOk' /\ WaitsOk' /\ OpsOk'
           /\ waits' \in [Threads -> Waits \cup {NULL}]
           /\ busy' \in SUBSET {"in", "net"}
           /\ \A y \in Ports : port'["fwd"][y].mbuf = NULL
           /\ \A y \in Ports : port'["in"][y].mbuf # NULL =>
                \E d \in Comms : InFlight(d)' /\ comm'[d].chan = "in" /\ comm'[d].port = y
<1> USE DEF Ends
<1>1. /\ InFlight(c) /\ comm[c].used /\ comm[c].busy /\ ~comm[c].finished
      /\ \A u \in Threads : waits[u] # NULL /\ u # t => waits[u].comm # c
  BY WaiterIs
<1>2. a \in Chans /\ "in" \in Chans /\ "fwd" \in Chans /\ a # "fwd" BY Zenon DEF Chans
<1>3. \A d \in Comms : d # c /\ comm[d].used =>
        /\ comm[d].chan \in Chans /\ comm[d].port \in Ports /\ (comm[d].chan # a \/ comm[d].port # p)
  BY ZenonT(60), <1>1 DEF CInv, CommsOk
<1>4. \A d \in Comms : d # c /\ comm[d].used =>
        port'[comm[d].chan][comm[d].port].mbuf = port[comm[d].chan][comm[d].port].mbuf
  BY <1>3
<1>5. \A u \in Threads : waits'[u] = IF u = t THEN w ELSE waits[u] BY Zenon DEF CInv, CType
<1>6. waits' \in [Threads -> Waits \cup {NULL}] BY Zenon DEF CInv, CType
<1>7. CommsOk'
  <2>1. ASSUME NEW d \in Comms, comm'[d].used
        PROVE  /\ comm'[d].chan \in Chans /\ comm'[d].port \in Ports
               /\ port'[comm'[d].chan][comm'[d].port].used
    BY SMTT(60), <2>1 DEF CInv, CommsOk
  <2> QED BY ZenonT(60), <2>1 DEF CInv, CommsOk
<1>8. WaitsOk'
  <2>1. ASSUME NEW u \in Threads, waits'[u] # NULL PROVE WaitOk(u)'
    <3>1. CASE u = t
      <4>1. waits'[u] = w BY Zenon, <1>5, <3>1
      <4> QED BY Zenon, <1>1, <4>1 DEF WaitOk
    <3>2. CASE u # t
      <4>1. waits'[u] = waits[u] /\ waits[u] # NULL BY <1>5, <2>1, <3>2
      <4>2. waits[u].comm \in Comms /\ comm[waits[u].comm].used /\ waits[u].comm # c
        BY ZenonT(60), <1>1, <3>2, <4>1, WaiterIs
      <4>3. WaitOk(u) BY Zenon, <4>1 DEF CInv, WaitsOk
      <4>4. port'[comm[waits[u].comm].chan][comm[waits[u].comm].port].mbuf
            = port[comm[waits[u].comm].chan][comm[waits[u].comm].port].mbuf
        BY Zenon, <1>4, <4>2
      <4>5. comm' = comm BY Zenon
      <4> HIDE DEF Ends
      <4> QED BY Zenon, <4>1, <4>3, <4>4, <4>5 DEF WaitOk
    <3> QED BY Zenon, <3>1, <3>2
  <2>2. ASSUME NEW u \in Threads, NEW x \in Threads, waits'[u] # NULL, waits'[x] # NULL,
               waits'[u].comm = waits'[x].comm
        PROVE  u = x
    BY <1>5, <2>2 DEF CInv, WaitsOk
  <2> QED BY Zenon, <2>1, <2>2 DEF WaitsOk
<1>9. ASSUME NEW d \in Comms PROVE InFlight(d)' <=> d # c /\ InFlight(d)
  <2>1. CASE d = c BY SMTT(60), <1>5, <2>1 DEF InFlight
  <2>2. CASE d # c BY <1>5, <2>2 DEF InFlight
  <2> QED BY ZenonT(60), <2>1, <2>2
<1>10. \A d \in Comms : InFlight(d) /\ d # c =>
         comm[d].used /\ comm[d].chan \in busy /\ comm[d].chan # a
  <2>1. \A d \in Comms : InFlight(d) /\ d # c => comm[d].chan # a BY Zenon, <1>1 DEF CInv, OpsOk
  <2> QED BY Zenon, <2>1, FlightUsed
<1>11. OpsOk'
  <2>1. ASSUME NEW d \in Comms, InFlight(d)'
        PROVE  /\ (comm[d].chan \in busy)'
               /\ (port[comm[d].chan][comm[d].port].mbuf # NULL)'
               /\ (comm[d].chan = "net" => Turn(requests["net"], comm[d].port))'
    <3>1. InFlight(d) /\ d # c /\ comm[d].chan \in busy /\ comm[d].chan # a /\ comm[d].used
      BY ZenonT(60), <1>9, <1>10, <2>1
    <3>2. port'[comm[d].chan][comm[d].port].mbuf # NULL BY SMTT(60), <1>4, <3>1 DEF CInv, OpsOk
    <3>3. comm[d].chan = "net" => Turn(requests'["net"], comm[d].port) BY Zenon, <3>1 DEF CInv, OpsOk
    <3> QED BY Zenon, <3>1, <3>2, <3>3
  <2>2. ASSUME NEW x \in busy' PROVE \E d \in Comms : InFlight(d)' /\ comm'[d].chan = x
    <3>1. PICK d \in Comms : InFlight(d) /\ comm[d].chan = x BY Zenon DEF CInv, OpsOk
    <3> QED BY Zenon, <1>9, <3>1
  <2>3. ASSUME NEW d \in Comms, NEW e \in Comms, InFlight(d)', InFlight(e)',
               comm'[d].chan = comm'[e].chan
        PROVE  d = e
    BY Zenon, <1>9, <2>3 DEF CInv, OpsOk
  <2>4. ASSUME NEW x \in {"in", "net"}, hw'[x] # NULL
        PROVE  \E d \in Comms : /\ InFlight(d)' /\ comm'[d].chan = x
                                /\ port'[x][comm'[d].port].mbuf = hw'[x]
    <3>1. x # a /\ hw'[x] = hw[x] BY Zenon, <2>4
    <3>2. PICK d \in Comms : InFlight(d) /\ comm[d].chan = x /\ port[x][comm[d].port].mbuf = hw[x]
      BY Zenon, <2>4, <3>1 DEF CInv, OpsOk
    <3>3. port'[x][comm[d].port].mbuf = hw[x] BY Zenon, <1>4, <1>10, <3>1, <3>2
    <3> QED BY ZenonT(60), <1>9, <3>1, <3>2, <3>3
  <2> QED BY Zenon, <2>1, <2>2, <2>3, <2>4 DEF OpsOk
<1>12. \A y \in Ports : port'["fwd"][y].mbuf = NULL BY <1>2 DEF CInv, BufsOk
<1>13. ASSUME NEW y \in Ports, port'["in"][y].mbuf # NULL
       PROVE  \E d \in Comms : InFlight(d)' /\ comm'[d].chan = "in" /\ comm'[d].port = y
  <2>1. port["in"][y].mbuf # NULL /\ ~(a = "in" /\ y = p) BY ZenonT(60), <1>2, <1>13
  <2>2. PICK d \in Comms : InFlight(d) /\ comm[d].chan = "in" /\ comm[d].port = y
    BY Zenon, <2>1 DEF CInv, BufsOk
  <2> QED BY Zenon, <1>9, <2>1, <2>2
<1>14. busy' \in SUBSET {"in", "net"} BY Zenon DEF CInv, CType
<1> QED BY ZenonT(60), <1>6, <1>7, <1>8, <1>11, <1>12, <1>13, <1>14

(* A port gives its buffer up: it is released, or it stores a message.     *)
Gives(a, p, b) ==
    /\ port[a][p].mbuf = b
    /\ \A x \in Chans, y \in Ports :
         port'[x][y].mbuf = IF x = a /\ y = p THEN NULL ELSE port[x][y].mbuf
    /\ \/ kept' = kept /\ mbuf' = [mbuf EXCEPT ![b] = Free]
       \/ kept' = Append(kept, b) /\ mbuf' = mbuf

LEMMA GiveBuf ==
    ASSUME CInv, NEW a \in Chans, NEW p \in Ports, NEW b \in Bufs, Gives(a, p, b),
           \A y \in Ports : port'["fwd"][y].mbuf = NULL,
           \A y \in Ports : port'["in"][y].mbuf # NULL =>
             \E d \in Comms : InFlight(d)' /\ comm'[d].chan = "in" /\ comm'[d].port = y
    PROVE  BufsOk' /\ mbuf' \in [Bufs -> BufType] /\ kept' \in Seq(Bufs)
<1> USE DEF Gives
<1>1. b # NULL /\ \A x \in Bufs : x # NULL BY ZenonT(60), NullAssumption
<1>2. \A x, z \in Chans : \A y, w \in Ports :
        port'[x][y].mbuf # NULL /\ port'[x][y].mbuf = port'[z][w].mbuf => x = z /\ y = w
  BY SMTT(60) DEF CInv, BufsOk
<1>3. \A x \in Chans, y \in Ports : port'[x][y].mbuf # b BY SMTT(60), <1>1 DEF CInv, BufsOk
<1>4. \A j \in DOMAIN kept : kept[j] # b BY DEF CInv, BufsOk
<1>5. kept \in Seq(Bufs) /\ \A j, n \in DOMAIN kept : kept[j] = kept[n] => j = n
  BY Zenon DEF CInv, CType, BufsOk
<1>6. \A x \in Bufs : (\E z \in Chans : \E y \in Ports : port'[z][y].mbuf = x) <=>
                      (x # b /\ \E z \in Chans : \E y \in Ports : port[z][y].mbuf = x)
  BY <1>1, <1>3
<1>7. \A x \in Bufs : mbuf[x].used <=> \/ \E z \in Chans : \E y \in Ports : port[z][y].mbuf = x
                                       \/ \E j \in DOMAIN kept : kept[j] = x
  BY Zenon DEF CInv, BufsOk
<1>8. mbuf[b].used BY Zenon, <1>7
<1>9. CASE kept' = kept /\ mbuf' = [mbuf EXCEPT ![b] = Free]
  <2>1. CType /\ mbuf' = [mbuf EXCEPT ![b] = Free] BY Zenon, <1>9 DEF CInv
  <2>2. /\ mbuf' \in [Bufs -> BufType]
        /\ \A x \in Bufs : mbuf'[x].used <=> mbuf[x].used /\ x # b
    BY Zenon, <2>1, FreeBuf
  <2>3. \A x \in Chans : \A y \in Ports : \A j \in DOMAIN kept' : port'[x][y].mbuf # kept'[j]
    <3>1. \A j \in DOMAIN kept : kept[j] \in Bufs /\ kept[j] # NULL BY <1>1, <1>5
    <3> QED BY SMTT(60), <1>9, <3>1 DEF CInv, BufsOk
  <2>4. ASSUME NEW x \in Bufs
        PROVE  mbuf'[x].used <=> \/ \E z \in Chans : \E y \in Ports : port'[z][y].mbuf = x
                                 \/ \E j \in DOMAIN kept' : kept'[j] = x
    <3>1. (\E j \in DOMAIN kept' : kept'[j] = x) <=> (\E j \in DOMAIN kept : kept[j] = x) BY Zenon, <1>9
    <3>2. x = b => ~\E j \in DOMAIN kept : kept[j] = x BY Zenon, <1>4
    <3> QED BY ZenonT(60), <1>6, <1>7, <2>2, <3>1, <3>2
  <2>5. BufsOk' BY Zenon, <1>2, <1>5, <1>9, <2>3, <2>4 DEF BufsOk
  <2> QED BY Zenon, <1>5, <1>9, <2>2, <2>5
<1>10. CASE kept' = Append(kept, b) /\ mbuf' = mbuf
  <2>1. /\ Append(kept, b) \in Seq(Bufs)
        /\ \A j, n \in DOMAIN Append(kept, b) : Append(kept, b)[j] = Append(kept, b)[n] => j = n
        /\ \A x : (\E j \in DOMAIN Append(kept, b) : Append(kept, b)[j] = x) <=>
                  (x = b \/ \E j \in DOMAIN kept : kept[j] = x)
    BY SMTT(60), <1>4, <1>5, AppendDistinct
  <2>2. /\ kept' \in Seq(Bufs)
        /\ \A j, n \in DOMAIN kept' : kept'[j] = kept'[n] => j = n
        /\ \A x : (\E j \in DOMAIN kept' : kept'[j] = x) <=>
                  (x = b \/ \E j \in DOMAIN kept : kept[j] = x)
    <3>1. kept' = Append(kept, b) BY Zenon, <1>10
    <3> HIDE DEF Gives
    <3> QED BY Zenon, <2>1, <3>1
  <2>3. ASSUME NEW x \in Chans, NEW y \in Ports, NEW j \in DOMAIN kept'
        PROVE  port'[x][y].mbuf # kept'[j]
    <3>1. kept'[j] = b \/ \E n \in DOMAIN kept : kept[n] = kept'[j] BY ZenonT(60), <2>2
    <3>2. kept'[j] # NULL BY <1>1, <2>2
    <3> QED BY SMTT(60), <1>3, <3>1, <3>2 DEF CInv, BufsOk
  <2>4. ASSUME NEW x \in Bufs
        PROVE  mbuf'[x].used <=> \/ \E z \in Chans : \E y \in Ports : port'[z][y].mbuf = x
                                 \/ \E j \in DOMAIN kept' : kept'[j] = x
    <3>1. (\E j \in DOMAIN kept' : kept'[j] = x) <=> (x = b \/ \E j \in DOMAIN kept : kept[j] = x)
      BY Zenon, <2>2
    <3>2. mbuf'[x].used <=> mbuf[x].used BY Zenon, <1>10
    <3> QED BY ZenonT(60), <1>6, <1>7, <1>8, <3>1, <3>2
  <2>5. BufsOk' BY Zenon, <1>2, <2>2, <2>3, <2>4 DEF BufsOk
  <2> QED BY Zenon, <1>10, <2>2, <2>5 DEF CInv, CType
<1> QED BY Zenon, <1>9, <1>10

LEMMA HwSteps ==
    ASSUME CInv, NEW t \in Threads, WaitHw(t) \/ WaitHwFails(t)
    PROVE  CInv'
<1> DEFINE c == waits[t].comm
           a == comm[c].chan
           p == comm[c].port
           b == waits[t].mbuf
           m == mbuf[b].msg
<1>1. waits[t] # NULL /\ waits[t].pc = "hw" BY Zenon DEF WaitHw, WaitHwFails
<1>2. c \in Comms /\ InFlight(c) /\ waits[t] \in Waits BY Zenon, <1>1, WaiterIs
<1>3. /\ a \in {"in", "net"} /\ p \in Ports /\ port[a][p].mbuf \in Bufs
      /\ port[a][p].mbuf # NULL
  BY Zenon, <1>2, FlightUsed, NullAssumption
<1>4. b = port[a][p].mbuf BY Zenon, <1>1 DEF CInv, WaitsOk, WaitOk
<1>5. comm' = comm /\ rx' = rx /\ sent' = sent /\ busy' = busy \ {a} BY Zenon, <1>3 DEF WaitHw, WaitHwFails
<1>6. PICK w \in Waits : waits' = [waits EXCEPT ![t] = w] /\ w # NULL /\ w.pc = "comm" /\ w.comm = c
  <2> DEFINE v(ok) == At("comm", c, NULL, ok)
  <2>1. \A ok \in BOOLEAN : v(ok) \in Waits /\ v(ok).pc = "comm" /\ v(ok).comm = c
    BY Zenon, <1>2 DEF At, Waits
  <2>2. \A ok \in BOOLEAN : v(ok) # NULL BY Zenon, <2>1, NullAssumption
  <2>3. \E ok \in BOOLEAN : waits' = [waits EXCEPT ![t] = v(ok)]
    <3>1. CASE WaitHwFails(t) BY Zenon, <3>1 DEF WaitHwFails
    <3>2. CASE WaitHw(t)
      <4>1. (a # "in" \/ HeaderCheck(m, comm[c])) \in BOOLEAN BY Zenon DEF HeaderCheck, SourceCheck
      <4> QED BY ZenonT(60), <1>3, <3>2, <4>1 DEF WaitHw
    <3> QED BY Zenon, <3>1, <3>2
  <2> QED BY Zenon, <2>1, <2>2, <2>3
<1>7. \A x \in {"in", "net"} : hw'[x] = IF x = a THEN NULL ELSE hw[x]
  BY Zenon DEF WaitHw, WaitHwFails, CInv, CType
<1>8. hw' \in [{"in", "net"} -> Bufs \cup {NULL}] BY ZenonT(60) DEF WaitHw, WaitHwFails, CInv, CType
<1>9. \/ kept' = kept /\ mbuf' = [mbuf EXCEPT ![b] = Free]
      \/ kept' = Append(kept, b) /\ mbuf' = mbuf
  BY Zenon, <1>3 DEF WaitHw, WaitHwFails
<1>10. PICK v \in PortType : /\ port' = [port EXCEPT ![a][p] = v]
                             /\ v.used = port[a][p].used /\ v.mbuf = NULL
  <2>1. CType /\ a \in Chans /\ port[a][p] \in PortType BY Zenon, <1>3 DEF CInv, CType, Chans
  <2>2. CASE WaitHwFails(t)
    <3> DEFINE v == [port[a][p] EXCEPT !.mbuf = NULL]
    <3>1. port' = [port EXCEPT ![a][p] = v] BY Zenon, <1>3, <2>1, <2>2 DEF WaitHwFails, CType
    <3>2. v \in PortType /\ v.used = port[a][p].used /\ v.mbuf = NULL BY Zenon, <2>1 DEF PortType
    <3> QED BY Zenon, <3>1, <3>2
  <2>3. CASE WaitHw(t)
    <3>3. port' = [port EXCEPT ![a][p].mbuf = NULL, ![a][p].requested = @ /\ a = "in"]
      BY Zenon, <1>3, <2>3 DEF WaitHw
    <3>4. PICK r \in BOOLEAN : port' = [port EXCEPT ![a][p].mbuf = NULL, ![a][p].requested = r]
      BY Zenon, <3>3
    <3> DEFINE v == [port[a][p] EXCEPT !.mbuf = NULL, !.requested = r]
    <3>1. port' = [port EXCEPT ![a][p] = v] BY ZenonT(60), <1>3, <2>1, <3>4 DEF CType
    <3>2. v \in PortType /\ v.used = port[a][p].used /\ v.mbuf = NULL BY Zenon, <2>1 DEF PortType
    <3> QED BY Zenon, <3>1, <3>2
  <2> QED BY Zenon, <2>2, <2>3
<1>11. /\ requests' \in [{"net", "fwd"} -> Fifo] /\ RingsOk'
       /\ a # "net" => requests'["net"] = requests["net"]
  <2>1. CASE requests' = requests BY Zenon, <2>1 DEF CInv, CType, RingsOk
  <2>2. CASE a = "net" /\ requests' = [requests EXCEPT ![a] = Complete(requests[a])]
    <3>1. Turn(requests["net"], p) BY Zenon, <1>2, <2>2 DEF CInv, OpsOk
    <3>2. requests["net"] \in Fifo /\ RingOk(requests["net"]) /\ requests["net"].nelements # 0
      BY Zenon, <3>1 DEF CInv, CType, RingsOk, Turn
    <3>3. Complete(requests["net"]) \in Fifo /\ RingOk(Complete(requests["net"]))
      BY Zenon, <1>3, <3>2, RingSteps
    <3>4. \A x \in {"net", "fwd"} :
            requests'[x] = IF x = "net" THEN Complete(requests["net"]) ELSE requests[x]
      BY Zenon, <2>2 DEF CInv, CType
    <3> QED BY Zenon, <2>2, <3>3, <3>4 DEF CInv, CType, RingsOk
  <2> QED BY Zenon, <1>3, <2>1, <2>2 DEF WaitHw, WaitHwFails
<1> HIDE DEF c, a, p, b, m
<1>12. /\ port' \in [Chans -> [Ports -> PortType]]
       /\ \A x \in Chans, y \in Ports :
            /\ port'[x][y].used = port[x][y].used
            /\ port'[x][y].mbuf = IF x = a /\ y = p THEN NULL ELSE port[x][y].mbuf
  <2>1. CType /\ a \in Chans /\ p \in Ports BY Zenon, <1>3 DEF CInv, Chans
  <2>2. /\ port' \in [Chans -> [Ports -> PortType]]
        /\ \A x \in Chans, y \in Ports :
             port'[x][y] = IF x = a /\ y = p THEN v ELSE port[x][y]
    BY ZenonT(60), <1>10, <2>1, PutPort
  <2> QED BY Zenon, <1>10, <2>2
<1>13. Ends(t, c, a, p, w)
  BY Zenon, <1>1, <1>5, <1>6, <1>7, <1>11, <1>12 DEF Ends, c, a, p
<1>14. /\ CommsOk' /\ WaitsOk' /\ OpsOk'
       /\ waits' \in [Threads -> Waits \cup {NULL}]
       /\ busy' \in SUBSET {"in", "net"}
       /\ \A y \in Ports : port'["fwd"][y].mbuf = NULL
       /\ \A y \in Ports : port'["in"][y].mbuf # NULL =>
            \E d \in Comms : InFlight(d)' /\ comm'[d].chan = "in" /\ comm'[d].port = y
  BY Zenon, <1>2, <1>3, <1>6, <1>13, EndFlight
<1>15. Gives(a, p, b) BY Zenon, <1>4, <1>9, <1>12 DEF Gives
<1>16. a \in Chans /\ b \in Bufs /\ p \in Ports BY Zenon, <1>3, <1>4 DEF Chans
<1>17. BufsOk' /\ mbuf' \in [Bufs -> BufType] /\ kept' \in Seq(Bufs)
  BY ZenonT(60), <1>14, <1>15, <1>16, GiveBuf
<1>18. CType' BY Zenon, <1>5, <1>8, <1>11, <1>12, <1>14, <1>17 DEF CInv, CType
<1> QED BY Zenon, <1>11, <1>14, <1>17, <1>18 DEF CInv

-----------------------------------------------------------------------------
(* Where writes go is set when a communicator is opened. *)
LEMMA RemotePut ==
    ASSUME CType, RemotesOk, NEW c \in Comms, NEW k, comm' = [comm EXCEPT ![c] = k],
           k.used /\ k.chan # "in" => \/ k.remote \in Addr /\ k.chan = Out(k.remote)
                                     \/ /\ comm[c].used /\ k.chan = comm[c].chan
                                        /\ k.remote = comm[c].remote
    PROVE  RemotesOk'
<1>1. \A d \in Comms : comm'[d] = IF d = c THEN k ELSE comm[d] BY Zenon DEF CType
<1>2. ASSUME NEW d \in Comms, comm'[d].used, comm'[d].chan # "in"
      PROVE  comm'[d].remote \in Addr /\ comm'[d].chan = Out(comm'[d].remote)
  <2>1. CASE d = c BY SMTT(60), <1>1, <1>2, <2>1 DEF RemotesOk
  <2>2. CASE d # c BY SMTT(60), <1>1, <1>2, <2>2 DEF RemotesOk
  <2> QED BY Zenon, <2>1, <2>2
<1> QED BY Zenon, <1>2 DEF RemotesOk

LEMMA RemoteSteps ==
    ASSUME CInv, RemotesOk, [Next]_vars
    PROVE  RemotesOk'
<1>1. CType /\ \A d \in Comms : comm[d] \in CommType BY Zenon DEF CInv, CType
<1>2. CASE comm' = comm BY Zenon, <1>2 DEF RemotesOk
<1>3. ASSUME NEW p \in Ports, Create(p) PROVE RemotesOk'
  <2>1. CommAlloc("in", p, NULL, Stored(Bufs, Local(p), NULL) # {}) BY Zenon, <1>3 DEF Create
  <2>2. ASSUME comm' # comm PROVE RemotesOk'
    <3> DEFINE k == [NoComm EXCEPT !.used = TRUE, !.chan = "in", !.port = p, !.remote = NULL]
    <3>1. PICK c \in Comms : comm' = [comm EXCEPT ![c] = k] BY Zenon, <2>1, <2>2 DEF CommAlloc
    <3>2. k.chan = "in" BY Zenon DEF NoComm
    <3> HIDE DEF k
    <3> QED BY Zenon, <1>1, <3>1, <3>2, RemotePut
  <2> QED BY Zenon, <1>2, <2>2
<1>4. ASSUME NEW dest \in Targets, Open(dest) PROVE RemotesOk'
  <2>1. PICK p \in Ports : CommAlloc(Out(dest), p, dest, FALSE) BY Zenon, <1>4 DEF Open
  <2>2. ASSUME comm' # comm PROVE RemotesOk'
    <3> DEFINE k == [NoComm EXCEPT !.used = TRUE, !.chan = Out(dest), !.port = p, !.remote = dest]
    <3>1. PICK c \in Comms : comm' = [comm EXCEPT ![c] = k] BY Zenon, <2>1, <2>2 DEF CommAlloc
    <3>2. k.chan = Out(dest) /\ k.remote = dest /\ dest \in Addr BY Zenon, AddressAssumption DEF NoComm
    <3> HIDE DEF k
    <3> QED BY Zenon, <1>1, <3>1, <3>2, RemotePut
  <2> QED BY Zenon, <1>2, <2>2
<1>5. ASSUME NEW c \in Comms, Release(c) PROVE RemotesOk'
  <2>1. comm' = [comm EXCEPT ![c] = NoComm] /\ ~NoComm.used BY Zenon, <1>5 DEF Release, NoComm
  <2> QED BY ZenonT(60), <1>1, <2>1, RemotePut
<1>6. ASSUME NEW c \in Comms, NEW k,
             comm' = [comm EXCEPT ![c] = k], comm[c].used,
             k.chan = comm[c].chan, k.chan = "in" \/ k.remote = comm[c].remote
      PROVE  RemotesOk'
  BY Zenon, <1>1, <1>6, RemotePut
<1>7. ASSUME NEW c \in Comms, AwriteForward(c) \/ AwriteSend(c), comm' # comm PROVE RemotesOk'
  <2>1. CASE AwriteForward(c)
    <3> DEFINE k == [comm[c] EXCEPT !.busy = TRUE, !.finished = TRUE, !.allowed = FALSE]
    <3>1. comm' = [comm EXCEPT ![c] = k] BY Zenon, <1>1, <1>7, <2>1 DEF AwriteForward, CType
    <3>2. k.chan = comm[c].chan /\ k.remote = comm[c].remote BY Zenon, <1>1 DEF CommType
    <3>3. comm[c].used BY Zenon, <2>1 DEF AwriteForward, Writes
    <3> HIDE DEF k
    <3> QED BY Zenon, <1>6, <3>1, <3>2, <3>3
  <2>2. CASE AwriteSend(c)
    <3> DEFINE k == [comm[c] EXCEPT !.busy = TRUE]
    <3>1. comm' = [comm EXCEPT ![c] = k] BY Zenon, <1>1, <1>7, <2>2 DEF AwriteSend, CType
    <3>2. k.chan = comm[c].chan /\ k.remote = comm[c].remote BY Zenon, <1>1 DEF CommType
    <3>3. comm[c].used BY Zenon, <2>2 DEF AwriteSend, Writes
    <3> HIDE DEF k
    <3> QED BY Zenon, <1>6, <3>1, <3>2, <3>3
  <2> QED BY Zenon, <1>7, <2>1, <2>2
<1>8. ASSUME NEW c \in Comms, NEW r \in Filters, Allow(c, r) \/ SetRemote(c, r) PROVE RemotesOk'
  <2>1. PICK k \in CommType : comm' = [comm EXCEPT ![c] = k] /\ k.chan = comm[c].chan
    <3>1. r \in Addr BY Zenon, AddressAssumption
    <3>2. CASE Allow(c, r)
      <4> DEFINE k == [comm[c] EXCEPT !.allowed = TRUE, !.remote = r]
      <4>1. comm' = [comm EXCEPT ![c] = k] BY Zenon, <1>1, <3>2 DEF Allow, CType
      <4>2. k \in CommType /\ k.chan = comm[c].chan BY Zenon, <1>1, <3>1 DEF CommType
      <4> QED BY Zenon, <4>1, <4>2
    <3>3. CASE SetRemote(c, r)
      <4> DEFINE k == [comm[c] EXCEPT !.remote = r]
      <4>1. comm' = [comm EXCEPT ![c] = k] BY Zenon, <1>1, <3>3 DEF SetRemote, CType
      <4>2. k \in CommType /\ k.chan = comm[c].chan BY Zenon, <1>1, <3>1 DEF CommType
      <4> QED BY Zenon, <4>1, <4>2
    <3> QED BY Zenon, <1>8, <3>2, <3>3
  <2>2. comm[c].chan = "in" /\ comm[c].used BY Zenon, <1>8 DEF Allow, SetRemote
  <2> QED BY Zenon, <1>6, <2>1, <2>2
<1>9. ASSUME NEW c \in Comms, NEW u \in Buffers, Aread(c, u) PROVE RemotesOk'
  <2>1. PICK k : comm' = [comm EXCEPT ![c] = k] /\ k.chan = comm[c].chan
    <3>1. comm[c] \in CommType BY Zenon, <1>1
    <3>2. CASE AreadRefused(c, u) \/ AreadFails(c, u)
      <4>1. comm' = [comm EXCEPT ![c] = Asked(c, u)] BY Zenon, <3>2 DEF AreadRefused, AreadFails
      <4>2. Asked(c, u).chan = comm[c].chan BY Zenon, <3>1 DEF Asked, CommType
      <4> QED BY Zenon, <4>1, <4>2
    <3>3. CASE AreadStored(c, u)
      <4> DEFINE k == [Asked(c, u) EXCEPT !.asked = u, !.busy = TRUE, !.finished = TRUE, !.allowed = FALSE]
      <4>1. comm' = [comm EXCEPT ![c] = k] BY Zenon, <3>3 DEF AreadStored
      <4>2. k.chan = comm[c].chan BY Zenon, <3>1 DEF Asked, CommType
      <4> QED BY Zenon, <4>1, <4>2
    <3>4. CASE AreadStart(c, u)
      <4> DEFINE k == [Asked(c, u) EXCEPT !.asked = u, !.busy = TRUE]
      <4>1. comm' = [comm EXCEPT ![c] = k] BY Zenon, <3>4 DEF AreadStart
      <4>2. k.chan = comm[c].chan BY Zenon, <3>1 DEF Asked, CommType
      <4> QED BY Zenon, <4>1, <4>2
    <3> QED BY Zenon, <1>9, <3>2, <3>3, <3>4 DEF Aread
  <2>2. comm[c].chan = "in" /\ comm[c].used
    BY Zenon, <1>9
       DEF Aread, AreadRefused, AreadStored, AreadStart, AreadFails, MayStart, MayRead, Reads
  <2> QED BY Zenon, <1>6, <2>1, <2>2
<1>10. ASSUME NEW t \in Threads, NEW c \in Comms, WaitEnter(t, c), comm' # comm PROVE RemotesOk'
  <2> DEFINE k == [Idle(comm[c]) EXCEPT !.finished = FALSE]
  <2>1. comm' = [comm EXCEPT ![c] = k] /\ comm[c].used BY Zenon, <1>10 DEF WaitEnter
  <2>2. k.chan = comm[c].chan /\ k.remote = comm[c].remote BY Zenon, <1>1 DEF Idle, CommType
  <2> HIDE DEF k
  <2> QED BY Zenon, <1>6, <2>1, <2>2
<1>11. ASSUME NEW t \in Threads, WaitComm(t) PROVE RemotesOk'
  <2> DEFINE c == waits[t].comm
             k == IF waits[t].ok
                  THEN [Idle(comm[c]) EXCEPT !.allowed = FALSE,
                                             !.remote = IF comm[c].chan = "in" THEN NULL ELSE comm[c].remote]
                  ELSE Idle(comm[c])
  <2>1. comm' = [comm EXCEPT ![c] = k] BY Zenon, <1>11 DEF WaitComm
  <2>2. c \in Comms /\ comm[c].used BY Zenon, <1>11, WaiterIs DEF WaitComm
  <2>3. comm[c] \in CommType BY Zenon, <1>1, <2>2
  <2>4. k.chan = comm[c].chan /\ (k.chan = "in" \/ k.remote = comm[c].remote)
    BY Zenon, <2>3 DEF Idle, CommType
  <2> HIDE DEF k, c
  <2> QED BY Zenon, <1>6, <2>1, <2>2, <2>4
<1>12. ASSUME NEW t \in Threads, WaitReset(t) PROVE RemotesOk'
  <2> DEFINE c == waits[t].comm
             k == [comm[c] EXCEPT !.remote = IF comm[c].chan = "in" THEN NULL ELSE @]
  <2>1. c \in Comms /\ comm[c].used BY Zenon, <1>12, WaiterIs DEF WaitReset
  <2>2. comm' = [comm EXCEPT ![c] = k] BY Zenon, <1>1, <1>12, <2>1 DEF WaitReset, CType
  <2>3. comm[c] \in CommType BY Zenon, <1>1, <2>1
  <2>4. k.chan = comm[c].chan /\ (k.chan = "in" \/ k.remote = comm[c].remote)
    BY Zenon, <2>3 DEF CommType
  <2> HIDE DEF k, c
  <2> QED BY Zenon, <1>6, <2>1, <2>2, <2>4
<1>13. CASE \/ \E t \in Threads : WaitActive(t) \/ WaitHw(t) \/ WaitHwFails(t)
            \/ \E src \in Sources, p \in Ports : Arrive(src, p)
            \/ HwReceive \/ HwSend \/ UNCHANGED vars
  <2>1. comm' = comm
    BY ZenonT(60), <1>13 DEF WaitActive, WaitHw, WaitHwFails, Arrive, HwReceive, HwSend, vars
  <2> QED BY Zenon, <1>2, <2>1
<1> QED BY SMTT(60), <1>2, <1>3, <1>4, <1>5, <1>7, <1>8, <1>9, <1>10, <1>11, <1>12, <1>13 DEF Next

-----------------------------------------------------------------------------
IInv == CInv /\ RemotesOk

LEMMA InitOk == Init => IInv
<1> SUFFICES ASSUME Init PROVE IInv BY Zenon
<1> USE DEF Init
<1>1. EmptyFifo \in Fifo /\ RingOk(EmptyFifo)
  BY RequestsAssumption DEF EmptyFifo, Fifo, RingOk, Ports
<1>2. /\ NoComm \in CommType /\ ~NoComm.used /\ ~NoComm.busy /\ ~NoComm.finished
      /\ Unused \in PortType /\ Unused.mbuf = NULL
      /\ Free \in BufType /\ ~Free.used
  BY Zenon DEF NoComm, CommType, Unused, PortType, Free, BufType
<1>3. /\ \A c \in Comms : comm[c] = NoComm
      /\ \A a \in Chans, p \in Ports : port[a][p] = Unused
      /\ \A b \in Bufs : mbuf[b] = Free
      /\ \A t \in Threads : waits[t] = NULL
      /\ \A a \in {"in", "net"} : hw[a] = NULL
      /\ \A a \in {"net", "fwd"} : requests[a] = EmptyFifo
      /\ kept = <<>> /\ DOMAIN kept = {} /\ busy = {}
  BY DEF Chans
<1>4. CType
  <2>1. 0 \in 0 .. MaxMsgs BY ChannelsAssumption
  <2>2. port \in [Chans -> [Ports -> PortType]] BY Zenon, <1>2 DEF Chans
  <2> QED BY SMTT(60), <1>1, <1>2, <2>1, <2>2 DEF CType
<1> HIDE DEF Init
<1>5. CommsOk BY Zenon, <1>2, <1>3 DEF CommsOk
<1>6. WaitsOk BY Zenon, <1>3 DEF WaitsOk
<1>7. \A c \in Comms : ~InFlight(c) BY Zenon, <1>2, <1>3 DEF InFlight
<1>8. OpsOk BY Zenon, <1>3, <1>7 DEF OpsOk
<1>9. BufsOk
  <2>1. "in" \in Chans /\ "fwd" \in Chans BY Zenon DEF Chans
  <2>2. \A b \in Bufs : b # NULL BY Zenon, NullAssumption
  <2> QED BY Zenon, <1>2, <1>3, <2>1, <2>2 DEF BufsOk
<1>10. RingsOk BY Zenon, <1>1, <1>3 DEF RingsOk
<1>11. RemotesOk BY Zenon, <1>2, <1>3 DEF RemotesOk
<1> QED BY Zenon, <1>4, <1>5, <1>6, <1>8, <1>9, <1>10, <1>11 DEF IInv, CInv

LEMMA NextOk ==
    ASSUME OneUser, IInv, [Next]_vars
    PROVE  IInv'
<1> USE DEF IInv
<1>1. RemotesOk' BY Zenon, RemoteSteps
<1>2. CInv'
  <2>1. CASE UNCHANGED vars
    <3>1. UNCHANGED <<port, requests, busy, mbuf, kept, comm, waits, hw, rx, sent>> BY Zenon, <2>1 DEF vars
    <3>2. CType' BY Zenon, <3>1 DEF CInv, CType
    <3>3. \A c \in Comms : SameOp(c) BY Zenon, <3>1 DEF SameOp
    <3> QED BY Zenon, <3>1, <3>2, <3>3, Quiet
  <2>2. ASSUME NEW p \in Ports, Create(p) PROVE CInv' BY Zenon, <2>2, CreateSteps
  <2>3. ASSUME NEW a \in Targets, Open(a) PROVE CInv' BY Zenon, <2>3, OpenSteps
  <2>4. ASSUME NEW c \in Comms, Release(c) \/ AwriteForward(c) \/ AwriteSend(c) PROVE CInv'
    BY Zenon, <2>4, ReleaseSteps, ForwardSteps, SendSteps
  <2>5. ASSUME NEW c \in Comms, NEW r \in Filters, Allow(c, r) \/ SetRemote(c, r) PROVE CInv'
    BY Zenon, <2>5, AllowSteps
  <2>6. ASSUME NEW c \in Comms, NEW u \in Buffers, Aread(c, u) PROVE CInv'
    BY Zenon, <2>6, AskSteps, StoredSteps, StartSteps DEF Aread
  <2>7. ASSUME NEW t \in Threads, NEW c \in Comms, WaitEnter(t, c) PROVE CInv'
    BY Zenon, <2>7, EnterSteps
  <2>8. ASSUME NEW t \in Threads,
               WaitActive(t) \/ WaitHw(t) \/ WaitHwFails(t) \/ WaitComm(t) \/ WaitReset(t)
        PROVE  CInv'
    BY Zenon, <2>8, ActiveSteps, HwSteps, CommSteps, ResetSteps
  <2>9. CASE (\E src \in Sources, p \in Ports : Arrive(src, p)) \/ HwReceive \/ HwSend
    BY Zenon, <2>9, NetSteps
  <2> QED BY Zenon, <2>1, <2>2, <2>3, <2>4, <2>5, <2>6, <2>7, <2>8, <2>9 DEF Next
<1> QED BY Zenon, <1>1, <1>2

INSTANCE FiniteSetTheorems

(* What the buffers of the invariant say of their owners. *)
LEMMA OwnersAre ==
    ASSUME CInv
    PROVE  BufferHasOneOwner
<1>1. /\ port \in [Chans -> [Ports -> PortType]] /\ mbuf \in [Bufs -> BufType]
      /\ \A b \in Bufs : mbuf[b].used \in BOOLEAN
  BY Zenon DEF CInv, CType, BufType
<1>2. \A b \in Bufs : b # NULL BY Zenon, NullAssumption
<1>3. ASSUME NEW b \in Bufs, NEW o \in Owners(b)
      PROVE  \/ \E a \in Chans, p \in Ports : o = <<a, p>> /\ port[a][p].mbuf = b
             \/ \E i \in DOMAIN kept : o = <<"kept", i>> /\ kept[i] = b
  BY <1>3 DEF Owners, Chans
<1>4. ASSUME NEW b \in Bufs, NEW o \in Owners(b), NEW x \in Owners(b)
      PROVE  o = x
  <2>1. ASSUME NEW a \in Chans, NEW p \in Ports, port[a][p].mbuf = b, o = <<a, p>>
        PROVE  o = x
    <3>1. \A i \in DOMAIN kept : kept[i] # b BY ZenonT(60), <2>1 DEF CInv, BufsOk
    <3>2. PICK c \in Chans, y \in Ports : x = <<c, y>> /\ port[c][y].mbuf = b BY Zenon, <1>3, <3>1
    <3>3. a = c /\ p = y BY SMTT(60), <1>2, <2>1, <3>2 DEF CInv, BufsOk
    <3> QED BY Zenon, <2>1, <3>2, <3>3
  <2>2. ASSUME NEW i \in DOMAIN kept, kept[i] = b, o = <<"kept", i>>
        PROVE  o = x
    <3>1. \A a \in Chans, p \in Ports : port[a][p].mbuf # b BY SMTT(60), <2>2 DEF CInv, BufsOk
    <3>2. PICK j \in DOMAIN kept : x = <<"kept", j>> /\ kept[j] = b BY Zenon, <1>3, <3>1
    <3>3. i = j BY SMTT(60), <2>2, <3>2 DEF CInv, BufsOk
    <3> QED BY Zenon, <2>2, <3>2, <3>3
  <2> QED BY ZenonT(60), <1>3, <2>1, <2>2
<1>5. ASSUME NEW b \in Bufs, mbuf[b].used PROVE \E o : o \in Owners(b)
  <2>1. ASSUME NEW a \in Chans, NEW p \in Ports, port[a][p].mbuf = b PROVE <<a, p>> \in Owners(b)
    BY Zenon, <2>1 DEF Owners, Chans
  <2>2. ASSUME NEW i \in DOMAIN kept, kept[i] = b PROVE <<"kept", i>> \in Owners(b)
    BY Zenon, <2>2 DEF Owners
  <2>3. \/ \E a \in Chans : \E p \in Ports : port[a][p].mbuf = b
        \/ \E i \in DOMAIN kept : kept[i] = b
    BY ZenonT(60), <1>5 DEF CInv, BufsOk
  <2> QED BY ZenonT(60), <2>1, <2>2, <2>3, Zenon
<1>6. ASSUME NEW b \in Bufs, ~mbuf[b].used PROVE Owners(b) = {}
  <2>1. ~(\E a \in Chans : \E p \in Ports : port[a][p].mbuf = b) /\ ~(\E i \in DOMAIN kept : kept[i] = b)
    BY Zenon, <1>6 DEF CInv, BufsOk
  <2> QED BY Zenon, <1>3, <2>1
<1>7. ASSUME NEW b \in Bufs PROVE Cardinality(Owners(b)) = IF mbuf[b].used THEN 1 ELSE 0
  <2>1. CASE mbuf[b].used
    <3>1. PICK o : o \in Owners(b) BY Zenon, <1>5, <2>1
    <3>2. Owners(b) = {o} BY SMTT(60), <1>4, <3>1
    <3> QED BY ZenonT(60), <2>1, <3>2, FS_Singleton
  <2>2. CASE ~mbuf[b].used BY Zenon, <1>6, <2>2, FS_EmptySet
  <2> QED BY Zenon, <1>1, <2>1, <2>2
<1> QED BY SMTT(60), <1>7 DEF BufferHasOneOwner

(* What it says of the operations under way. *)
LEMMA OperationsAre ==
    ASSUME CInv
    PROVE  OneOperation
<1> SUFFICES ASSUME NEW a \in {"in", "net"}
             PROVE  /\ Cardinality({c \in Comms : InFlight(c) /\ comm[c].chan = a})
                       = IF a \in busy THEN 1 ELSE 0
                    /\ \A c \in Comms : InFlight(c) /\ comm[c].chan = a =>
                         /\ port[a][comm[c].port].mbuf # NULL
                         /\ a = "net" => Turn(requests[a], comm[c].port)
  BY Zenon DEF OneOperation
<1> DEFINE S == {c \in Comms : InFlight(c) /\ comm[c].chan = a}
<1>1. Cardinality(S) = IF a \in busy THEN 1 ELSE 0
  <2>1. CASE a \in busy
    <3>1. PICK c \in Comms : InFlight(c) /\ comm[c].chan = a BY Zenon, <2>1 DEF CInv, OpsOk
    <3>2. \A d \in Comms : InFlight(d) /\ comm[d].chan = a => d = c BY Zenon, <3>1 DEF CInv, OpsOk
    <3>3. S = {c} BY Zenon, <3>1, <3>2
    <3> QED BY ZenonT(60), <2>1, <3>3, FS_Singleton
  <2>2. CASE a \notin busy
    <3>1. S = {} BY SMTT(60), <2>2 DEF CInv, OpsOk
    <3> QED BY Zenon, <2>2, <3>1, FS_EmptySet
  <2> QED BY Zenon, <2>1, <2>2
<1>2. \A c \in Comms : InFlight(c) /\ comm[c].chan = a =>
        port[a][comm[c].port].mbuf # NULL /\ (a = "net" => Turn(requests[a], comm[c].port))
  BY Zenon DEF CInv, OpsOk
<1> QED BY SMTT(60), <1>1, <1>2

(* A channel is busy for one communicator, whose wait finds its operation, *)
(* and every message buffer in use has one owner, through every            *)
(* interleaving of calls, waits and hardware, failures of the hardware     *)
(* included (active_aread(), active_awrite(), active_wait(),               *)
(* mbuffer_alloc(), mbuffer_release()), when no two threads use the same   *)
(* communicator at the same time.                                          *)
THEOREM Operations == OneUser => (Spec => []OperationsSound)
<1> SUFFICES ASSUME OneUser PROVE Spec => []OperationsSound BY Zenon
<1>1. Init => IInv BY Zenon, InitOk
<1>2. IInv /\ [Next]_vars => IInv' BY Zenon, NextOk
<1>3. IInv => OperationsSound BY Zenon, OwnersAre, OperationsAre DEF IInv, OperationsSound
<1> QED BY <1>1, <1>2, <1>3, PTL DEF Spec
=============================================================================
