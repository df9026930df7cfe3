-------------------------------- MODULE Tcp --------------------------------
(* One TCP connection of the lwIP stack, end to end: the client that opens
   it, the server whose listening control block accepts it, and the network
   between them, which loses, duplicates and reorders segments.  Both ends
   run the code of core/tcp.c, core/tcp_in.c and core/tcp_out.c with the
   options the kernel builds it with: no SACK, window scaling, timestamps,
   keep-alive or backlog.

   A handler of the code works on one protocol control block (pcb).  It is an
   operator here that takes the control block and returns the changed one;
   the fields "out", "data", "given" and "events" of the record are the
   handler's own (segments handed to IP, recv_data, what the receive callback
   took, recv_flags with "LOST" for a connection that ends without an orderly
   close) and are empty between two handlers.  A byte of payload is its position in the stream that its writer
   wrote, so that trimming and reassembly show in what the reader gets. *)
EXTENDS Integers, FiniteSets, SequencesExt

CONSTANTS
  SeqSpace,        \* size of the sequence space (2^32 in the code)
  Iss,           \* initial sequence number that tcp_next_iss() gives a host
  TCP_MSS, TCP_WND, TCP_SND_BUF, TCP_MAXRTX, TCP_SYNMAXRTX,
  TCPWND_MAX,    \* where window arithmetic saturates (0xFFFF in the code)
  DupAcks,       \* duplicate ACKs that trigger a fast retransmit (3 in the code)
  Workloads      \* bounds: what the applications and the network may do

Host == {"client", "server"}
Peer(h) == CHOOSE g \in Host : g # h

(* What may go wrong: the network loses or duplicates a segment, a timeout
   fires while segments are in flight, a close finds no memory for the FIN, an
   application refuses received data. *)
Fault == {"loss", "dup", "early", "nomem", "refuse"}

(* A workload: the application of a host writes "stream" bytes, in pieces
   whose sizes are in "writes", and reports what it has read all at once or in
   pieces of at most "read".  When it is done it does one of "ops"; hosts in
   "patient" are done only once the peer is.  Things of the kinds in "faults"
   go wrong, "maxfaults" times. *)
ASSUME TcpAssumption ==
  /\ SeqSpace \in Nat \ {0} /\ SeqSpace % 2 = 0 /\ 2 * TCP_WND < SeqSpace
  /\ Iss \in [Host -> 0..SeqSpace - 1]
  /\ {TCP_MSS, TCP_WND, TCP_SND_BUF, TCP_MAXRTX, TCP_SYNMAXRTX, DupAcks}
       \subseteq Nat \ {0}
  /\ 2 * TCP_MSS =< TCP_WND
  /\ \A w \in Workloads :
       /\ DOMAIN w = {"stream", "writes", "read", "ops", "patient", "faults",
                       "maxfaults"}
       /\ w.faults \subseteq Fault

VARIABLES
  load,     \* the workload
  pcb,      \* control block of each host, in state CLOSED when there is none
  listening,\* TRUE while the server's listening control block exists
  net,      \* segments on their way to each host
  wrote,    \* bytes each application has given to tcp_write()
  shut,     \* TRUE once an application has closed its sending side
  rcvd,     \* bytes each application has received
  unread,   \* how many of them it has not acknowledged with tcp_recved()
  eof,      \* TRUE once an application was told of the end of the stream
  failed,   \* TRUE once the connection of a host ended abnormally
  accepted, \* TRUE once the server has allocated its control block
  faults    \* how often something may still go wrong

vars == <<load, pcb, listening, net, wrote, shut, rcvd, unread, eof, failed,
          accepted, faults>>

-----------------------------------------------------------------------------
(* Sequence numbers *)

Plus(a, n) == (a + n) % SeqSpace
TCP_SEQ_LT(a, b) == (a - b) % SeqSpace >= SeqSpace \div 2
TCP_SEQ_LEQ(a, b) == a = b \/ TCP_SEQ_LT(a, b)
TCP_SEQ_GT(a, b) == ~TCP_SEQ_LEQ(a, b)
TCP_SEQ_GEQ(a, b) == ~TCP_SEQ_LT(a, b)
TCP_SEQ_BETWEEN(a, b, c) == TCP_SEQ_GEQ(a, b) /\ TCP_SEQ_LEQ(a, c)

TCP_WND_INC(wnd, inc) == IF wnd + inc > TCPWND_MAX THEN TCPWND_MAX ELSE wnd + inc

(* A segment takes one sequence number more than its payload when it carries
   a SYN or a FIN. *)
TCP_TCPLEN(seg) ==
  Len(seg.data) + (IF seg.flags \cap {"SYN", "FIN"} # {} THEN 1 ELSE 0)

EndOf(seg) == Plus(seg.seq, TCP_TCPLEN(seg))
DataEnd(seg) == Plus(seg.seq, Len(seg.data))

-----------------------------------------------------------------------------
(* Control blocks *)

NoData == [data |-> <<>>, fin |-> FALSE]

tcp_alloc ==
  [state |-> "CLOSED", flags |-> {},
   snd_nxt |-> 0, lastack |-> 0, snd_lbb |-> 0, snd_buf |-> TCP_SND_BUF,
   snd_wnd |-> 0, snd_wnd_max |-> 0, snd_wl1 |-> 0, snd_wl2 |-> 0,
   unsent |-> <<>>, unacked |-> <<>>,
   rcv_nxt |-> 0, rcv_wnd |-> TCP_WND, rcv_ann_wnd |-> TCP_WND,
   rcv_ann_right_edge |-> 0, ooseq |-> <<>>, refused |-> NoData,
   rtime |-> FALSE, nrtx |-> 0, dupacks |-> 0, rto_end |-> 0,
   persist |-> FALSE, persist_probe |-> 0,
   cwnd |-> 1, ssthresh |-> TCP_SND_BUF, bytes_acked |-> 0,
   out |-> {}, data |-> <<>>, given |-> <<>>, events |-> {}]

(* States in which the control block is on the list of active ones. *)
Synchronized == {"ESTABLISHED", "FIN_WAIT_1", "FIN_WAIT_2", "CLOSE_WAIT",
                 "CLOSING", "LAST_ACK"}
Active == Synchronized \cup {"SYN_SENT", "SYN_RCVD"}

Set(p, f) == [p EXCEPT !.flags = @ \cup f]
Clear(p, f) == [p EXCEPT !.flags = @ \ f]
Send(p, seq, ack, wnd, flags, data) ==
  [p EXCEPT !.out = @ \cup {[seq |-> seq, ack |-> ack, wnd |-> wnd,
                             flags |-> flags, data |-> data]}]

tcp_rst(p, seq, ack) == Send(p, seq, ack, TCP_WND, {"RST", "ACK"}, <<>>)

(* A segment sent with the current acknowledgement also announces the window,
   and the right edge of the window that was announced is remembered. *)
SendAnnounced(p, seq, flags, data) ==
  [Send(p, seq, p.rcv_nxt, p.rcv_ann_wnd, flags, data) EXCEPT
     !.rcv_ann_right_edge = Plus(p.rcv_nxt, p.rcv_ann_wnd)]

tcp_send_empty_ack(p) ==
  Clear(SendAnnounced(p, p.snd_nxt, {"ACK"}, <<>>), {"ACK_DELAY", "ACK_NOW"})

tcp_ack_now(p) == Set(p, {"ACK_NOW"})

(* Every second segment is acknowledged at once. *)
tcp_ack(p) ==
  IF "ACK_DELAY" \in p.flags THEN tcp_ack_now(Clear(p, {"ACK_DELAY"}))
                             ELSE Set(p, {"ACK_DELAY"})

tcp_pcb_purge(p) ==
  IF p.state \in {"CLOSED", "TIME_WAIT"} THEN p
  ELSE [p EXCEPT !.refused = NoData, !.ooseq = <<>>, !.rtime = FALSE,
                 !.unsent = <<>>, !.unacked = <<>>]

(* The control block is gone: what it has handed to IP and to the application
   remains. *)
tcp_free(p) ==
  [tcp_alloc EXCEPT !.out = p.out, !.given = p.given, !.events = p.events]

(* tcp_pcb_remove() acknowledges what a delayed ACK still owes, unless the
   control block is the one tcp_input() is working on. *)
tcp_pcb_remove(p, inInput) ==
  LET q == tcp_pcb_purge(p) IN
  tcp_free(IF /\ q.state # "TIME_WAIT" /\ "ACK_DELAY" \in q.flags /\ ~inInput
           THEN tcp_send_empty_ack(q) ELSE q)

tcp_abort(p, inInput) ==
  IF p.state = "TIME_WAIT" THEN tcp_pcb_remove(p, inInput)
  ELSE tcp_rst([tcp_pcb_remove(p, inInput) EXCEPT !.events = @ \cup {"LOST"}],
               p.snd_nxt, p.rcv_nxt)

-----------------------------------------------------------------------------
(* Sending: tcp_out.c *)

(* A sent segment waits on "unacked" in sequence order: a retransmitted one
   goes back in front of those that were sent after it. *)
QueueUnacked(queue, seg) ==
  IF queue # <<>> /\ TCP_SEQ_LT(seg.seq, Last(queue).seq)
  THEN LET before == {i \in 1..Len(queue) :
                        \A j \in 1..i : TCP_SEQ_LT(queue[j].seq, seg.seq)}
       IN InsertAt(queue, Cardinality(before) + 1, seg)
  ELSE Append(queue, seg)

tcp_output_segment(p, seg) ==
  [SendAnnounced(p, seg.seq, seg.flags, seg.data) EXCEPT !.rtime = TRUE]

(* One turn of the loop of tcp_output(): the head of "unsent" goes out. *)
SendHead(p) ==
  LET seg == IF p.state = "SYN_SENT" THEN Head(p.unsent)
             ELSE [Head(p.unsent) EXCEPT !.flags = @ \cup {"ACK"}]
      q == tcp_output_segment(p, seg)
      acked == IF p.state = "SYN_SENT" THEN q
               ELSE Clear(q, {"ACK_DELAY", "ACK_NOW"})
  IN [acked EXCEPT
        !.unsent = Tail(@),
        !.unacked = IF TCP_TCPLEN(seg) > 0 THEN QueueUnacked(@, seg) ELSE @,
        !.snd_nxt = IF TCP_SEQ_LT(@, EndOf(seg)) THEN EndOf(seg) ELSE @]

SendWindow(p) == IF p.cwnd < p.snd_wnd THEN p.cwnd ELSE p.snd_wnd

(* How far beyond the last acknowledged number the head of "unsent" reaches. *)
FitsWindow(p) ==
  LET seg == Head(p.unsent)
  IN (seg.seq - p.lastack + Len(seg.data)) % SeqSpace =< SendWindow(p)

tcp_do_output_nagle(p) ==
  \/ p.unacked = <<>>
  \/ "INFR" \in p.flags
  \/ Len(p.unsent) > 1
  \/ Len(Head(p.unsent).data) >= TCP_MSS
  \/ p.snd_buf = 0

RECURSIVE SendAll(_)
SendAll(p) ==
  IF /\ p.unsent # <<>> /\ FitsWindow(p)
     /\ tcp_do_output_nagle(p) \/ p.flags \cap {"NAGLEMEMERR", "FIN"} # {}
  THEN SendAll(SendHead(p)) ELSE p

(* When the window is too small for the next segment and nothing in flight
   will open it, the persist timer starts. *)
StartPersist(p) ==
  IF SendWindow(p) = p.snd_wnd /\ p.unacked = <<>> /\ ~p.persist
  THEN [p EXCEPT !.persist = TRUE, !.persist_probe = 0] ELSE p

tcp_output(p) ==
  IF p.unsent # <<>> /\ FitsWindow(p)
  THEN Clear(SendAll([p EXCEPT !.persist = FALSE]), {"NAGLEMEMERR"})
  ELSE LET q == IF p.unsent = <<>> THEN p ELSE StartPersist(p)
       IN IF "ACK_NOW" \in q.flags THEN tcp_send_empty_ack(q)
          ELSE Clear(q, {"NAGLEMEMERR"})

tcp_enqueue_flags(p, flags) ==
  LET seg == [seq |-> p.snd_lbb, flags |-> flags, data |-> <<>>] IN
  [p EXCEPT !.unsent = Append(@, seg), !.snd_lbb = Plus(@, 1),
            !.flags = @ \cup (flags \cap {"FIN"})]

(* The FIN rides on the last segment that was not sent yet, when there is one. *)
tcp_send_fin(p) ==
  IF p.unsent # <<>> /\ Last(p.unsent).flags \cap {"SYN", "FIN"} = {}
  THEN [p EXCEPT !.unsent[Len(p.unsent)].flags = @ \cup {"FIN"},
                 !.flags = @ \cup {"FIN"}]
  ELSE tcp_enqueue_flags(p, {"FIN"})

(* tcp_write() fills the last unsent segment up and cuts the rest in
   segments.  No segment is larger than half the largest window seen. *)
MssLocal(p) ==
  LET half == p.snd_wnd_max \div 2
  IN IF half = 0 \/ TCP_MSS =< half THEN TCP_MSS ELSE half

tcp_write(p, bytes) ==
  LET mss == MssLocal(p)
      tail == IF p.unsent = <<>> THEN 0 ELSE Len(Last(p.unsent).data)
      space == IF tail = 0 THEN 0 ELSE mss - tail
      pos == IF space < Len(bytes) THEN space ELSE Len(bytes)
      rest == SubSeq(bytes, pos + 1, Len(bytes))
      queue == [i \in 1..((Len(rest) + mss - 1) \div mss) |->
                  [seq |-> Plus(p.snd_lbb, pos + (i - 1) * mss), flags |-> {},
                   data |-> SubSeq(rest, (i - 1) * mss + 1,
                              IF i * mss < Len(rest) THEN i * mss ELSE Len(rest))]]
      filled == IF pos = 0 THEN p.unsent
                ELSE [p.unsent EXCEPT ![Len(p.unsent)].data = @ \o SubSeq(bytes, 1, pos)]
  IN [p EXCEPT !.unsent = filled \o queue,
               !.snd_lbb = Plus(@, Len(bytes)), !.snd_buf = @ - Len(bytes)]

(* The head of "unsent" is cut in two.  Its flags are or-ed into the header
   of the first half, which keeps the FIN that the second half gets. *)
tcp_split_unsent_seg(p, split) ==
  LET useg == Head(p.unsent)
      seg == [seq |-> Plus(useg.seq, split), flags |-> useg.flags \cap {"FIN"},
              data |-> SubSeq(useg.data, split + 1, Len(useg.data))]
  IN IF Len(useg.data) =< split THEN p
     ELSE [p EXCEPT !.unsent = <<[useg EXCEPT !.data = SubSeq(@, 1, split)],
                                 seg>> \o Tail(@)]

(* Mutant: snd_nxt does not count the probe. *)
tcp_zero_window_probe_uncounted(p) ==
  [SendAnnounced(p, Head(p.unsent).seq, {"ACK"}, SubSeq(Head(p.unsent).data, 1, 1))
     EXCEPT !.persist_probe = @ + 1]

(* The probe is the first byte of "unsent", or its FIN, outside of the
   retransmission queue. *)
tcp_zero_window_probe(p) ==
  LET seg == Head(p.unsent)
      fin == "FIN" \in seg.flags /\ seg.data = <<>>
      next == Plus(seg.seq, 1)
  IN [SendAnnounced(p, seg.seq, IF fin THEN {"ACK", "FIN"} ELSE {"ACK"},
                    IF fin THEN <<>> ELSE <<Head(seg.data)>>) EXCEPT
        !.persist_probe = @ + 1,
        !.snd_nxt = IF TCP_SEQ_LT(@, next) THEN next ELSE @]

(* Mutant: what is sent again comes after what was never sent. *)
tcp_rexmit_rto_prepare_behind(p) ==
  [p EXCEPT !.unsent = @ \o p.unacked, !.unacked = <<>>,
            !.flags = @ \cup {"RTO"}, !.rto_end = EndOf(Last(p.unacked))]

(* Everything in flight goes back to "unsent" ... *)
tcp_rexmit_rto_prepare(p) ==
  [p EXCEPT !.unsent = p.unacked \o @, !.unacked = <<>>,
            !.flags = @ \cup {"RTO"}, !.rto_end = EndOf(Last(p.unacked))]

(* ... and is sent again. *)
tcp_rexmit_rto_commit(p) == tcp_output([p EXCEPT !.nrtx = @ + 1])

(* Only the oldest segment goes back to "unsent". *)
tcp_rexmit(p) ==
  LET seg == Head(p.unacked)
      before == {i \in 1..Len(p.unsent) :
                   \A j \in 1..i : TCP_SEQ_LT(p.unsent[j].seq, seg.seq)}
  IN [p EXCEPT !.unacked = Tail(@), !.nrtx = @ + 1,
               !.unsent = InsertAt(@, Cardinality(before) + 1, seg)]

(* Half of what may be in flight, and at least two segments. *)
Ssthresh(p) ==
  LET half == SendWindow(p) \div 2
  IN IF half < 2 * TCP_MSS THEN 2 * TCP_MSS ELSE half

tcp_rexmit_fast(p) ==
  IF p.unacked = <<>> \/ "INFR" \in p.flags THEN p
  ELSE [Set(tcp_rexmit(p), {"INFR"}) EXCEPT
          !.ssthresh = Ssthresh(p),
          !.cwnd = Ssthresh(p) + 3 * TCP_MSS, !.rtime = TRUE]

-----------------------------------------------------------------------------
(* Receiving: tcp_in.c *)

(* The announced window only moves right, and only in steps worth a segment. *)
NewRightEdge(p) == Plus(p.rcv_nxt, p.rcv_wnd)

WindowStep ==
  IF TCP_WND \div 2 < TCP_MSS THEN TCP_WND \div 2 ELSE TCP_MSS

MayAnnounce(p) ==
  TCP_SEQ_GEQ(NewRightEdge(p), Plus(p.rcv_ann_right_edge, WindowStep))

tcp_update_rcv_ann_wnd(p) ==
  [p EXCEPT !.rcv_ann_wnd =
     IF MayAnnounce(p) THEN p.rcv_wnd
     ELSE IF TCP_SEQ_GT(p.rcv_nxt, p.rcv_ann_right_edge) THEN 0
     ELSE (p.rcv_ann_right_edge - p.rcv_nxt) % SeqSpace]

WindowInflation(p) ==
  IF MayAnnounce(p) THEN (NewRightEdge(p) - p.rcv_ann_right_edge) % SeqSpace ELSE 0

TCP_WND_UPDATE_THRESHOLD ==
  IF TCP_WND \div 4 < 4 * TCP_MSS THEN TCP_WND \div 4 ELSE 4 * TCP_MSS

tcp_recved(p, len) ==
  LET q == [p EXCEPT !.rcv_wnd = IF @ + len > TCP_WND THEN TCP_WND ELSE @ + len]
      r == tcp_update_rcv_ann_wnd(q)
  IN IF WindowInflation(q) >= TCP_WND_UPDATE_THRESHOLD
     THEN tcp_output(tcp_ack_now(r)) ELSE r

(* The longest run of segments at the head of a queue that all satisfy Test. *)
HeadRun(queue, Test(_)) ==
  Cardinality({i \in 1..Len(queue) : \A j \in 1..i : Test(queue[j])})

tcp_free_acked_segments(queue, ack) ==
  LET Acked(seg) == TCP_SEQ_LEQ(EndOf(seg), ack)
  IN SubSeq(queue, HeadRun(queue, Acked) + 1, Len(queue))

QueuedBytes(p) ==
  FoldLeft(LAMBDA n, seg : n + Len(seg.data), 0, p.unacked \o p.unsent)

(* The peer's window is taken from a segment that is not older than the one
   it was last taken from. *)
UpdateSendWindow(p, seg) ==
  IF \/ TCP_SEQ_LT(p.snd_wl1, seg.seq)
     \/ p.snd_wl1 = seg.seq /\ TCP_SEQ_LT(p.snd_wl2, seg.ack)
     \/ p.snd_wl2 = seg.ack /\ seg.wnd > p.snd_wnd
  THEN [p EXCEPT !.snd_wnd = seg.wnd, !.snd_wl1 = seg.seq, !.snd_wl2 = seg.ack,
                 !.snd_wnd_max = IF @ < seg.wnd THEN seg.wnd ELSE @]
  ELSE p

(* q is the control block p after the window update. *)
DuplicateAck(p, q, seg) ==
  IF /\ TCP_TCPLEN(seg) = 0 /\ q.rtime /\ q.lastack = seg.ack
     /\ Plus(q.snd_wl2, q.snd_wnd) = Plus(p.snd_wl2, p.snd_wnd)
  THEN LET n == IF q.dupacks > DupAcks THEN q.dupacks ELSE q.dupacks + 1
           r == [q EXCEPT !.dupacks = n,
                   !.cwnd = IF n > DupAcks THEN TCP_WND_INC(@, TCP_MSS) ELSE @]
       IN IF n >= DupAcks THEN tcp_rexmit_fast(r) ELSE r
  ELSE [q EXCEPT !.dupacks = 0]

(* Slow start below ssthresh, one segment per window above it. *)
GrowWindow(p, acked) ==
  LET step == TCP_MSS * IF "RTO" \in p.flags THEN 1 ELSE 2
      bytes == TCP_WND_INC(p.bytes_acked, acked)
  IN IF p.cwnd < p.ssthresh
     THEN [p EXCEPT !.cwnd = TCP_WND_INC(@, IF acked < step THEN acked ELSE step)]
     ELSE IF bytes < p.cwnd THEN [p EXCEPT !.bytes_acked = bytes]
     ELSE [p EXCEPT !.bytes_acked = bytes - p.cwnd,
                    !.cwnd = TCP_WND_INC(@, TCP_MSS)]

(* What was sent again after a timeout has been acknowledged. *)
Recovered(p) ==
  LET first == IF p.unacked # <<>> THEN p.unacked ELSE p.unsent
  IN first = <<>> \/ TCP_SEQ_LEQ(p.rto_end, Head(first).seq)

NewAck(p, ack) ==
  LET q == IF "INFR" \in p.flags
           THEN [Clear(p, {"INFR"}) EXCEPT !.cwnd = p.ssthresh, !.bytes_acked = 0]
           ELSE p
      Freed(r) ==
        [r EXCEPT !.rtime = r.unacked # <<>>,
                  !.snd_buf = @ + QueuedBytes(p) - QueuedBytes(r),
                  !.flags = IF Recovered(r) THEN @ \ {"RTO"} ELSE @]
  IN Freed([GrowWindow(q, (ack - p.lastack) % SeqSpace) EXCEPT
              !.nrtx = 0, !.dupacks = 0, !.lastack = ack,
              !.unacked = tcp_free_acked_segments(@, ack),
              !.unsent = tcp_free_acked_segments(@, ack)])

ReceiveAck(p, seg) ==
  LET q == UpdateSendWindow(p, seg) IN
  IF TCP_SEQ_LEQ(seg.ack, p.lastack) THEN DuplicateAck(p, q, seg)
  ELSE IF TCP_SEQ_BETWEEN(seg.ack, Plus(p.lastack, 1), p.snd_nxt)
  THEN NewAck(q, seg.ack)
  ELSE tcp_send_empty_ack(q)

-----------------------------------------------------------------------------
(* The queue of segments that arrived out of order *)

(* Segments that cseg covers are dropped, and cseg is cut where the next one
   begins. *)
tcp_oos_insert_segment(cseg, queue) ==
  LET Covered(seg) == TCP_SEQ_GEQ(DataEnd(cseg), DataEnd(seg))
      n == HeadRun(queue, Covered)
      fin == \E i \in 1..n : "FIN" \in queue[i].flags
      next == SubSeq(queue, n + 1, Len(queue))
      cut == IF next # <<>> /\ TCP_SEQ_GT(DataEnd(cseg), Head(next).seq)
             THEN SubSeq(cseg.data, 1, (Head(next).seq - cseg.seq) % SeqSpace)
             ELSE cseg.data
  IN IF "FIN" \in cseg.flags THEN <<cseg>>
     ELSE <<[cseg EXCEPT !.data = cut,
                         !.flags = IF fin THEN @ \cup {"FIN"} ELSE @]>> \o next

CutAt(seg, seq) ==
  IF TCP_SEQ_GT(DataEnd(seg), seq)
  THEN [seg EXCEPT !.data = SubSeq(@, 1, (seq - seg.seq) % SeqSpace)] ELSE seg

(* A segment appended behind the others is cut at the right edge of the
   window and loses its FIN there. *)
CutAtWindow(p, seg) ==
  IF TCP_SEQ_GT(EndOf(seg), NewRightEdge(p))
  THEN [seg EXCEPT !.flags = @ \ {"FIN"},
                   !.data = SubSeq(@, 1, (NewRightEdge(p) - seg.seq) % SeqSpace)]
  ELSE seg

QueueOoseq(p, inseg) ==
  LET cseg == [seq |-> inseg.seq, flags |-> inseg.flags \cap {"FIN"},
               data |-> inseg.data]
      q == p.ooseq
      Earlier(seg) == TCP_SEQ_LT(seg.seq, cseg.seq)
      n == HeadRun(q, Earlier)
      next == SubSeq(q, n + 1, Len(q))
      front == IF n = 0 THEN <<>>
               ELSE Append(SubSeq(q, 1, n - 1), CutAt(q[n], cseg.seq))
  IN IF q = <<>> THEN <<cseg>>
     ELSE IF next = <<>>
     THEN IF "FIN" \in Last(q).flags THEN q
          ELSE Append(front, CutAtWindow(p, cseg))
     ELSE IF Head(next).seq = cseg.seq
     THEN IF Len(cseg.data) =< Len(Head(next).data) THEN q
          ELSE SubSeq(q, 1, n) \o tcp_oos_insert_segment(cseg, next)
     ELSE front \o tcp_oos_insert_segment(cseg, next)

-----------------------------------------------------------------------------
(* Data *)

(* What was received before is cut off the front of a segment. *)
TrimLeft(p, seg) ==
  IF TCP_SEQ_BETWEEN(p.rcv_nxt, Plus(seg.seq, 1), Plus(EndOf(seg), -1))
  THEN [seg EXCEPT !.seq = p.rcv_nxt,
          !.data = SubSeq(@, 1 + ((p.rcv_nxt - seg.seq) % SeqSpace), Len(@))]
  ELSE seg

TrimRight(p, seg) ==
  IF TCP_TCPLEN(seg) > p.rcv_wnd
  THEN [seg EXCEPT !.flags = @ \ {"FIN"},
                   !.data = IF Len(@) > p.rcv_wnd THEN SubSeq(@, 1, p.rcv_wnd) ELSE @]
  ELSE seg

(* The part of the queue that an in-order segment leaves, and the segment,
   which takes the FIN of those it covers and ends where the next begins. *)
MergeOoseq(p, seg) ==
  LET Covered(other) == TCP_SEQ_GEQ(EndOf(seg), DataEnd(other))
      n == HeadRun(p.ooseq, Covered)
      fin == \E i \in 1..n : "FIN" \in p.ooseq[i].flags
      next == SubSeq(p.ooseq, n + 1, Len(p.ooseq))
      cut == IF next = <<>> THEN seg ELSE CutAt(seg, Head(next).seq)
  IN IF "FIN" \in seg.flags THEN [seg |-> seg, ooseq |-> <<>>]
     ELSE [seg |-> IF fin THEN [cut EXCEPT !.flags = @ \cup {"FIN"}] ELSE cut,
           ooseq |-> next]

(* rcv_nxt moves over a segment: its bytes go to the application and its FIN
   is noted.  An assertion guards the window against underflow. *)
Accept(p, seg) ==
  LET len == TCP_TCPLEN(seg) IN
  tcp_update_rcv_ann_wnd(
    [p EXCEPT !.rcv_nxt = Plus(seg.seq, len),
              !.rcv_wnd = IF @ >= len THEN @ - len ELSE 0,
              !.data = @ \o seg.data,
              !.events = @ \cup (IF "FIN" \in seg.flags THEN {"GOT_FIN"} ELSE {})
                           \cup (IF p.rcv_wnd < len THEN {"ASSERT_WND"} ELSE {})])

RECURSIVE DrainOoseq(_)
DrainOoseq(p) ==
  IF p.ooseq = <<>> THEN p
  ELSE LET cseg == Head(p.ooseq)
           q == Accept([p EXCEPT !.ooseq = Tail(@)], cseg)
           fin == "FIN" \in cseg.flags /\ p.state = "ESTABLISHED"
       IN IF cseg.seq # p.rcv_nxt THEN p
          ELSE DrainOoseq(IF fin THEN [q EXCEPT !.state = "CLOSE_WAIT"] ELSE q)

ReceiveInOrder(p, inseg) ==
  LET merged == MergeOoseq(p, TrimRight(p, inseg))
  IN tcp_ack(DrainOoseq(Accept([p EXCEPT !.ooseq = merged.ooseq], merged.seg)))

InWindow(p, seq) == TCP_SEQ_BETWEEN(seq, p.rcv_nxt, Plus(NewRightEdge(p), -1))

(* Mutant: a gap in front of the segment is not noticed. *)
ReceiveDataAnyOrder(p, seg) ==
  IF InWindow(p, TrimLeft(p, seg).seq) THEN ReceiveInOrder(p, TrimLeft(p, seg))
  ELSE tcp_send_empty_ack(p)

ReceiveData(p, seg) ==
  LET inseg == TrimLeft(p, seg)
      q == IF inseg = seg /\ TCP_SEQ_LT(seg.seq, p.rcv_nxt) THEN tcp_ack_now(p) ELSE p
  IN IF ~InWindow(q, inseg.seq) THEN tcp_send_empty_ack(q)
     ELSE IF inseg.seq = q.rcv_nxt THEN ReceiveInOrder(q, inseg)
     ELSE tcp_send_empty_ack([q EXCEPT !.ooseq = QueueOoseq(q, inseg)])

(* Once the FIN has been received only the acknowledgement is looked at. *)
tcp_receive(p, seg) ==
  LET Acked(q) ==
        IF /\ TCP_TCPLEN(seg) > 0
           /\ q.state \in {"ESTABLISHED", "FIN_WAIT_1", "FIN_WAIT_2"}
        THEN ReceiveData(q, seg)
        ELSE IF InWindow(q, seg.seq) THEN q ELSE tcp_ack_now(q)
  IN Acked(IF "ACK" \in seg.flags THEN ReceiveAck(p, seg) ELSE p)

-----------------------------------------------------------------------------
(* The connection: tcp_process() *)

ResetInput(p, seg) ==
  LET acceptable == IF p.state = "SYN_SENT" THEN seg.ack = p.snd_nxt
                    ELSE seg.seq = p.rcv_nxt
  IN IF acceptable
     THEN [Clear(p, {"ACK_DELAY"}) EXCEPT !.events = @ \cup {"RESET"}]
     ELSE IF p.state # "SYN_SENT"
             /\ TCP_SEQ_BETWEEN(seg.seq, p.rcv_nxt, NewRightEdge(p))
     THEN tcp_ack_now(p) ELSE p

(* LWIP_TCP_CALC_INITIAL_CWND *)
InitialCwnd == TCP_WND_INC(0, 4 * TCP_MSS)

(* The SYN leaves the queue it is on. *)
DropSyn(p) ==
  IF p.unacked # <<>> THEN [p EXCEPT !.unacked = Tail(@)]
                      ELSE [p EXCEPT !.unsent = Tail(@)]

SynSentInput(p, seg) ==
  IF {"SYN", "ACK"} \subseteq seg.flags /\ seg.ack = Plus(p.lastack, 1)
  THEN LET q == DropSyn(p) IN
       tcp_ack_now([q EXCEPT
         !.state = "ESTABLISHED", !.rcv_nxt = Plus(seg.seq, 1),
         !.rcv_ann_right_edge = Plus(seg.seq, 1), !.lastack = seg.ack,
         !.snd_wnd = seg.wnd, !.snd_wnd_max = seg.wnd,
         !.snd_wl1 = Plus(seg.seq, -1), !.cwnd = InitialCwnd,
         !.rtime = q.unacked # <<>>,
         !.nrtx = IF q.unacked = <<>> THEN @ ELSE 0])
  ELSE IF "ACK" \in seg.flags
  THEN LET q == tcp_rst(p, seg.ack, EndOf(seg)) IN
       IF p.nrtx < TCP_SYNMAXRTX /\ p.unacked # <<>>
       THEN [tcp_rexmit_rto_prepare(q) EXCEPT !.nrtx = @ + 1, !.rtime = TRUE]
       ELSE q
  ELSE p

CloseWaitOnFin(p) ==
  IF "GOT_FIN" \in p.events THEN [tcp_ack_now(p) EXCEPT !.state = "CLOSE_WAIT"] ELSE p

(* The accept callback runs unless the listening control block is gone. *)
SynRcvdInput(p, seg) ==
  IF "ACK" \in seg.flags
  THEN IF TCP_SEQ_BETWEEN(seg.ack, Plus(p.lastack, 1), p.snd_nxt)
       THEN IF ~listening THEN tcp_abort(p, TRUE)
            ELSE CloseWaitOnFin([tcp_receive([p EXCEPT !.state = "ESTABLISHED"], seg)
                                   EXCEPT !.cwnd = InitialCwnd])
       ELSE tcp_rst(p, seg.ack, EndOf(seg))
  ELSE IF "SYN" \in seg.flags /\ seg.seq = Plus(p.rcv_nxt, -1) /\ p.unacked # <<>>
  THEN tcp_rexmit(p)
  ELSE p

TimeWait(p) == [tcp_pcb_purge(p) EXCEPT !.state = "TIME_WAIT"]

(* All that was sent, the FIN included, is acknowledged. *)
FinAcked(p, seg) == "ACK" \in seg.flags /\ seg.ack = p.snd_nxt /\ p.unsent = <<>>

ClosingInput(p, seg) ==
  LET Received(q, fin, acked) ==
        CASE p.state = "FIN_WAIT_1" /\ fin ->
               IF acked THEN TimeWait(tcp_ack_now(q))
               ELSE [tcp_ack_now(q) EXCEPT !.state = "CLOSING"]
          [] p.state = "FIN_WAIT_1" /\ ~fin /\ acked -> [q EXCEPT !.state = "FIN_WAIT_2"]
          [] p.state = "FIN_WAIT_2" /\ fin -> TimeWait(tcp_ack_now(q))
          [] p.state = "CLOSING" /\ acked -> TimeWait(q)
          [] p.state = "LAST_ACK" /\ acked -> [q EXCEPT !.events = @ \cup {"CLOSED"}]
          [] OTHER -> q
      After(q) == Received(q, "GOT_FIN" \in q.events, FinAcked(q, seg))
  IN After(tcp_receive(p, seg))

tcp_process(p, seg) ==
  LET q == [p EXCEPT !.persist_probe = 0] IN
  CASE "RST" \in seg.flags -> ResetInput(p, seg)
    [] "RST" \notin seg.flags /\ "SYN" \in seg.flags
         /\ p.state \notin {"SYN_SENT", "SYN_RCVD"} -> tcp_ack_now(p)
    [] OTHER ->
         CASE p.state = "SYN_SENT" -> SynSentInput(q, seg)
           [] p.state = "SYN_RCVD" -> SynRcvdInput(q, seg)
           [] p.state \in {"ESTABLISHED", "CLOSE_WAIT"} ->
                CloseWaitOnFin(tcp_receive(q, seg))
           [] OTHER -> ClosingInput(q, seg)

-----------------------------------------------------------------------------
(* Handlers *)

(* Mutant: the window grows past the buffer. *)
ToldGrows(p) == [p EXCEPT !.rcv_wnd = @ + 2, !.events = @ \cup {"EOF"}]

(* The receive callback is told of the FIN, for which it will not report
   anything as read. *)
Told(p) == [p EXCEPT !.rcv_wnd = IF @ = TCP_WND THEN @ ELSE @ + 1,
                     !.events = @ \cup {"EOF"}]

(* The receive callback takes the data that it refused before, or refuses it
   again. *)
tcp_process_refused_data(p, take) ==
  LET q == [p EXCEPT !.given = p.refused.data, !.refused = NoData]
  IN IF p.refused = NoData \/ ~take THEN p
     ELSE IF p.refused.fin THEN Told(q) ELSE q

(* What tcp_input() does once tcp_process() has returned. *)
FinishInput(p, take) ==
  LET fin == "GOT_FIN" \in p.events
      taken == [p EXCEPT !.given = @ \o p.data]
  IN CASE p.state = "CLOSED" -> p
       [] p.state # "CLOSED" /\ "RESET" \in p.events ->
            [tcp_pcb_remove(p, TRUE) EXCEPT !.events = @ \cup {"LOST"}]
       [] p.state # "CLOSED" /\ "CLOSED" \in p.events -> tcp_pcb_remove(p, TRUE)
       [] p.state # "CLOSED" /\ p.events \cap {"RESET", "CLOSED"} = {} ->
            IF p.data # <<>> /\ "RXCLOSED" \in p.flags THEN tcp_abort(p, TRUE)
            ELSE tcp_output(
                   IF p.data # <<>> /\ ~take
                   THEN [p EXCEPT !.refused = [data |-> p.data, fin |-> fin]]
                   ELSE IF fin THEN Told(taken) ELSE taken)

ActiveInput(p, seg, take) ==
  LET q == tcp_process_refused_data(p, take) IN
  IF q.refused # NoData /\ TCP_TCPLEN(seg) > 0
  THEN IF q.rcv_ann_wnd = 0 THEN tcp_send_empty_ack(q) ELSE q
  ELSE FinishInput(tcp_process(q, seg), take)

tcp_timewait_input(p, seg) ==
  IF "RST" \in seg.flags THEN p
  ELSE IF "SYN" \in seg.flags
          /\ TCP_SEQ_BETWEEN(seg.seq, p.rcv_nxt, NewRightEdge(p))
  THEN tcp_rst(p, seg.ack, EndOf(seg))
  ELSE IF TCP_TCPLEN(seg) > 0 THEN tcp_output(tcp_ack_now(p)) ELSE p

(* The listening control block answers a SYN with a new control block, which
   an acknowledged SYN+ACK makes a connection. *)
tcp_listen_input(p, seg, iss) ==
  LET npcb == [tcp_alloc EXCEPT
                 !.state = "SYN_RCVD", !.rcv_nxt = Plus(seg.seq, 1),
                 !.rcv_ann_right_edge = Plus(seg.seq, 1),
                 !.snd_nxt = iss, !.lastack = iss, !.snd_lbb = iss,
                 !.snd_wl1 = Plus(seg.seq, -1), !.snd_wl2 = iss,
                 !.snd_wnd = seg.wnd, !.snd_wnd_max = seg.wnd]
  IN CASE "RST" \in seg.flags -> p
       [] "RST" \notin seg.flags /\ "ACK" \in seg.flags -> tcp_rst(p, seg.ack, EndOf(seg))
       [] seg.flags = {"SYN"} -> tcp_output(tcp_enqueue_flags(npcb, {"SYN", "ACK"}))
       [] OTHER -> p

(* No control block at all: everything but a reset is answered by one. *)
ClosedInput(p, seg) ==
  IF "RST" \in seg.flags THEN p ELSE tcp_rst(p, seg.ack, EndOf(seg))

(* A timer gives the connection up. *)
GiveUp(p) == [tcp_free(tcp_pcb_purge(p)) EXCEPT !.events = @ \cup {"LOST"}]

(* Mutant: nothing is sent again when nothing waits to be sent. *)
RetransmitTimeoutUnsent(p) ==
  IF p.unsent = <<>> THEN p
  ELSE tcp_rexmit_rto_commit([p EXCEPT !.cwnd = TCP_MSS, !.bytes_acked = 0])

RetransmitTimeout(p) ==
  LET q == IF p.unacked # <<>> THEN tcp_rexmit_rto_prepare(p) ELSE p
  IN IF p.unacked = <<>> /\ p.unsent = <<>> THEN p
     ELSE tcp_rexmit_rto_commit(
            [q EXCEPT !.ssthresh = Ssthresh(p), !.cwnd = TCP_MSS, !.bytes_acked = 0])

PersistTimeout(p) ==
  IF p.snd_wnd = 0 THEN tcp_zero_window_probe(p)
  ELSE tcp_output(tcp_split_unsent_seg(p, p.snd_wnd))

(* The assertions on the persist timer. *)
PersistAsserts(p) == p.persist => p.unacked = <<>> /\ p.unsent # <<>>

(* One visit of tcp_slowtmr() to a control block: "due" says which of the
   deadlines has passed.  Unless it gives the connection up the visit ends in
   tcp_output(), since no application sets a poll interval. *)
SlowVisit(p, due) ==
  IF p.nrtx >= TCP_MAXRTX \/ (p.state = "SYN_SENT" /\ p.nrtx >= TCP_SYNMAXRTX)
  THEN GiveUp(p)
  ELSE IF ~PersistAsserts(p) THEN [p EXCEPT !.events = {"ASSERT_PERSIST"}]
  ELSE IF (p.persist /\ p.persist_probe >= TCP_MAXRTX) \/ due = "state"
  THEN GiveUp(p)
  ELSE tcp_output(CASE due = "rto" -> RetransmitTimeout(p)
                    [] due = "persist" -> PersistTimeout(p)
                    [] due = "ooseq" -> [p EXCEPT !.ooseq = <<>>]
                    [] OTHER -> p)

(* The deadlines that the state of a control block may meet. *)
MayBeDue(p) ==
  {"none"}
  \cup (IF p.rtime /\ ~p.persist THEN {"rto"} ELSE {})
  \cup (IF p.persist THEN {"persist"} ELSE {})
  \cup (IF p.ooseq # <<>> THEN {"ooseq"} ELSE {})
  \cup (IF \/ p.state \in {"SYN_RCVD", "LAST_ACK"}
           \/ p.state = "FIN_WAIT_2" /\ "RXCLOSED" \in p.flags
        THEN {"state"} ELSE {})

(* tcp_close_shutdown_fin(); without memory for the FIN the close is left
   pending. *)
tcp_close_shutdown_fin(p, memory) ==
  IF p.state \notin {"SYN_RCVD", "ESTABLISHED", "CLOSE_WAIT"} THEN p
  ELSE IF ~memory THEN Set(p, {"CLOSEPEND"})
  ELSE tcp_output([tcp_send_fin(p) EXCEPT
         !.state = IF p.state = "CLOSE_WAIT" THEN "LAST_ACK" ELSE "FIN_WAIT_1"])

(* A close that leaves received data unread resets the connection. *)
tcp_close_shutdown(p, rst_on_unacked_data, memory) ==
  IF /\ rst_on_unacked_data /\ p.state \in {"ESTABLISHED", "CLOSE_WAIT"}
     /\ p.refused # NoData \/ p.rcv_wnd # TCP_WND
  THEN [tcp_free(tcp_pcb_purge(tcp_rst(p, p.snd_nxt, p.rcv_nxt))) EXCEPT
          !.events = @ \cup {"LOST"}]
  ELSE IF p.state = "SYN_SENT"
  THEN [tcp_pcb_remove(p, FALSE) EXCEPT !.events = @ \cup {"LOST"}]
  ELSE tcp_close_shutdown_fin(p, memory)

tcp_close(p, memory) == tcp_close_shutdown(Set(p, {"RXCLOSED"}), TRUE, memory)

(* One visit of tcp_fasttmr(). *)
FastVisit(p, take, memory) ==
  LET Closed(q) == IF "CLOSEPEND" \in q.flags
                   THEN tcp_close_shutdown_fin(Clear(q, {"CLOSEPEND"}), memory) ELSE q
      acked == IF "ACK_DELAY" \in p.flags
           THEN Clear(tcp_output(tcp_ack_now(p)), {"ACK_DELAY", "ACK_NOW"}) ELSE p
  IN tcp_process_refused_data(Closed(acked), take)

-----------------------------------------------------------------------------
(* The system *)

Init ==
  /\ load \in Workloads
  /\ pcb = [h \in Host |-> tcp_alloc]
  /\ listening = TRUE
  /\ net = [h \in Host |-> {}]
  /\ wrote = [h \in Host |-> 0]
  /\ shut = [h \in Host |-> FALSE]
  /\ rcvd = [h \in Host |-> <<>>]
  /\ unread = [h \in Host |-> 0]
  /\ eof = [h \in Host |-> FALSE]
  /\ failed = [h \in Host |-> FALSE]
  /\ accepted = FALSE
  /\ faults = load.maxfaults

(* The kernel stops at the first assertion that fails. *)
Panicked == \E h \in Host : pcb[h].events # {}

(* The end of a handler: the segments are on their way and the application
   has what its callbacks were given. *)
Finish(h, p, inbox) ==
  LET panic == p.events \cap {"ASSERT_WND", "ASSERT_PERSIST"} IN
  /\ pcb' = [pcb EXCEPT ![h] = [p EXCEPT !.out = {}, !.data = <<>>, !.given = <<>>,
                                         !.events = panic]]
  /\ net' = [net EXCEPT ![h] = inbox, ![Peer(h)] = @ \cup p.out]
  /\ rcvd' = [rcvd EXCEPT ![h] = @ \o p.given]
  /\ unread' = [unread EXCEPT ![h] = @ + Len(p.given)]
  /\ eof' = [eof EXCEPT ![h] = @ \/ "EOF" \in p.events]
  /\ failed' = [failed EXCEPT ![h] = @ \/ "LOST" \in p.events]

(* The kinds of fault that happen are paid for. *)
Spend(kinds) ==
  /\ kinds \subseteq load.faults
  /\ Cardinality(kinds) =< faults
  /\ faults' = faults - Cardinality(kinds)

If(kind, happens) == IF happens THEN {kind} ELSE {}

tcp_connect ==
  LET h == "client"
      iss == Iss[h]
      p == [tcp_alloc EXCEPT !.state = "SYN_SENT", !.snd_nxt = iss,
              !.lastack = Plus(iss, -1), !.snd_wl2 = Plus(iss, -1),
              !.snd_lbb = Plus(iss, -1), !.snd_wnd = TCP_WND]
  IN /\ pcb[h].state = "CLOSED" /\ ~shut[h] /\ ~failed[h]
     /\ Finish(h, tcp_output(tcp_enqueue_flags(p, {"SYN"})), net[h])
     /\ UNCHANGED <<listening, wrote, shut, accepted, faults>>

(* A segment arrives.  The server allocates one control block; another SYN
   finds none, as when tcp_alloc() fails. *)
tcp_input(h, seg, dup, take) ==
  LET p == pcb[h]
      input == CASE p.state \in Active -> ActiveInput(p, seg, take)
                 [] p.state = "TIME_WAIT" -> tcp_timewait_input(p, seg)
                 [] p.state = "CLOSED" /\ h = "server" /\ listening ->
                      IF seg.flags = {"SYN"} /\ accepted THEN p
                      ELSE tcp_listen_input(p, seg, Iss[h])
                 [] OTHER -> ClosedInput(p, seg)
      Refuses(q) == q.refused # NoData /\ ~take /\ q.refused # p.refused
  IN \E q \in {input} :
       /\ take \/ q.refused # NoData
       /\ Spend(If("dup", dup) \cup If("refuse", Refuses(q)))
       /\ accepted' = (accepted \/ q.state = "SYN_RCVD")
       /\ Finish(h, q, IF dup THEN net[h] ELSE net[h] \ {seg})
       /\ UNCHANGED <<listening, wrote, shut>>

Lose(h, seg) ==
  /\ Spend({"loss"})
  /\ net' = [net EXCEPT ![h] = @ \ {seg}]
  /\ UNCHANGED <<pcb, listening, wrote, shut, rcvd, unread, eof, failed, accepted>>

AppWrite(h, n) ==
  LET bytes == [i \in 1..n |-> wrote[h] + i] IN
  /\ pcb[h].state \in {"SYN_SENT", "SYN_RCVD", "ESTABLISHED", "CLOSE_WAIT"}
  /\ ~shut[h]
  /\ n =< pcb[h].snd_buf /\ wrote[h] + n =< load.stream[h]
  /\ wrote' = [wrote EXCEPT ![h] = @ + n]
  /\ \E p \in {tcp_write(pcb[h], bytes), tcp_output(tcp_write(pcb[h], bytes))} :
       Finish(h, p, net[h])
  /\ UNCHANGED <<listening, shut, accepted, faults>>

(* The application has consumed some of what it received. *)
AppRecved(h, n) ==
  /\ pcb[h].state # "CLOSED" /\ "RXCLOSED" \notin pcb[h].flags
  /\ n = unread[h] \/ n =< load.read
  /\ pcb' = [pcb EXCEPT ![h] = [tcp_recved(@, n) EXCEPT !.out = {}]]
  /\ net' = [net EXCEPT ![Peer(h)] = @ \cup tcp_recved(pcb[h], n).out]
  /\ unread' = [unread EXCEPT ![h] = @ - n]
  /\ UNCHANGED <<listening, wrote, shut, rcvd, eof, failed, accepted, faults>>

(* The application is done: it closes the connection, its own direction of
   it only, or aborts. *)
AppClose(h, op, memory) ==
  LET p == pcb[h] IN
  /\ <<h, op>> \in load.ops
  /\ p.state \in Active \ {"SYN_RCVD"} /\ "RXCLOSED" \notin p.flags
  /\ op = "shutdown" => p.state \in {"ESTABLISHED", "CLOSE_WAIT"} /\ ~shut[h]
  /\ h \in load.patient => eof[h]
  /\ shut' = [shut EXCEPT ![h] = TRUE]
  /\ Spend(If("nomem", ~memory))
  /\ Finish(h, CASE op = "close" -> tcp_close(p, memory)
                 [] op = "shutdown" -> tcp_close_shutdown(p, FALSE, memory)
                 [] op = "abort" -> tcp_abort(p, FALSE),
            net[h])
  /\ UNCHANGED <<listening, wrote, accepted>>

CloseListener ==
  /\ <<"server", "unlisten">> \in load.ops
  /\ listening
  /\ listening' = FALSE
  /\ UNCHANGED <<pcb, net, wrote, shut, rcvd, unread, eof, failed, accepted, faults>>

(* A retransmission or persist timeout that passes while segments are in
   flight is early, and bounded.  The deadlines on a state (20 s and more)
   outlast every segment. *)
InFlight == \E h \in Host : net[h] # {}

tcp_slowtmr(h, due) ==
  /\ pcb[h].state \in Active
  /\ due \in MayBeDue(pcb[h])
  /\ due = "state" => ~InFlight
  /\ Spend(If("early", due # "none" /\ InFlight))
  /\ Finish(h, SlowVisit(pcb[h], due), net[h])
  /\ UNCHANGED <<listening, wrote, shut, accepted>>

TimeWaitOver(h) ==
  /\ pcb[h].state = "TIME_WAIT"
  /\ ~InFlight
  /\ Finish(h, tcp_free(pcb[h]), net[h])
  /\ UNCHANGED <<listening, wrote, shut, accepted, faults>>

tcp_fasttmr(h, take, memory) ==
  LET p == pcb[h] IN
  /\ p.state \in Active
  /\ p.flags \cap {"ACK_DELAY", "CLOSEPEND"} # {} \/ p.refused # NoData
  /\ p.refused = NoData => take
  /\ "CLOSEPEND" \notin p.flags => memory
  /\ Spend(If("nomem", ~memory))
  /\ Finish(h, FastVisit(p, take, memory), net[h])
  /\ UNCHANGED <<listening, wrote, shut, accepted>>

Step ==
  \/ tcp_connect
  \/ CloseListener
  \/ \E h \in Host :
       \/ \E seg \in net[h] :
            \/ Lose(h, seg)
            \/ \E dup, take \in BOOLEAN : tcp_input(h, seg, dup, take)
       \/ \E n \in load.writes : AppWrite(h, n)
       \/ \E n \in 1..unread[h] : AppRecved(h, n)
       \/ \E op \in {"close", "shutdown", "abort"}, memory \in BOOLEAN :
            AppClose(h, op, memory)
       \/ \E due \in {"none", "rto", "persist", "ooseq", "state"} : tcp_slowtmr(h, due)
       \/ TimeWaitOver(h)
       \/ \E take, memory \in BOOLEAN : tcp_fasttmr(h, take, memory)

Next == ~Panicked /\ Step /\ UNCHANGED load

(* The timers run, segments that the network keeps arrive, and the application
   reads what it is given: weak fairness of each, with the condition that
   enables it written out. *)
MayTick(h, due) ==
  /\ ~Panicked /\ pcb[h].state \in Active /\ due \in MayBeDue(pcb[h])
  /\ due = "none" \/ ~InFlight
  /\ SlowVisit(pcb[h], due) # pcb[h]

Owed(h) ==
  /\ ~Panicked /\ pcb[h].state \in Active
  /\ pcb[h].flags \cap {"ACK_DELAY", "CLOSEPEND"} # {} \/ pcb[h].refused # NoData

Unread(h) ==
  /\ ~Panicked /\ unread[h] > 0
  /\ pcb[h].state # "CLOSED" /\ "RXCLOSED" \notin pcb[h].flags

Arrive(h) == \E seg \in net[h] : tcp_input(h, seg, FALSE, TRUE)
ReadAll(h) == AppRecved(h, unread[h])

Fairness ==
  \A h \in Host :
    /\ []<>(Panicked \/ net[h] = {}) \/ []<><<Arrive(h)>>_vars
    /\ []<>~MayTick(h, "none") \/ []<><<tcp_slowtmr(h, "none")>>_vars
    /\ []<>~MayTick(h, "rto") \/ []<><<tcp_slowtmr(h, "rto")>>_vars
    /\ []<>~MayTick(h, "persist") \/ []<><<tcp_slowtmr(h, "persist")>>_vars
    /\ []<>~Owed(h) \/ []<><<tcp_fasttmr(h, TRUE, TRUE)>>_vars
    /\ []<>~Unread(h) \/ []<><<ReadAll(h)>>_vars

Spec == Init /\ [][Next]_vars /\ Fairness

-----------------------------------------------------------------------------
(* Properties *)

Stream_ == INSTANCE AbsStream

(* The connection is a reliable byte stream in both directions: whatever the
   network loses, repeats and reorders, the receive callback gets the bytes
   that the peer wrote, in order and once, and is told of the end only after
   the last of them. *)
ImplementsStream == Stream_!Spec

Connected(h) == pcb[h].state \in Synchronized

(* The bytes that are neither acknowledged nor dropped are all queued, in
   sequence order and without gaps, from the last acknowledged one on, and the
   free send buffer is what they leave. *)
SendQueueSound ==
  \A h \in Host :
    LET p == pcb[h]
        q == p.unacked \o p.unsent
    IN Connected(h) =>
         /\ \A i \in 1..Len(q) - 1 : q[i + 1].seq = EndOf(q[i])
         /\ q = <<>> \/ TCP_SEQ_BETWEEN(p.lastack, Head(q).seq, Plus(EndOf(Head(q)), -1))
         /\ q # <<>> => EndOf(Last(q)) \in {p.snd_lbb, Plus(p.snd_lbb, 1)}
         /\ p.snd_buf + QueuedBytes(p) = TCP_SND_BUF

(* What a sender has taken off its queues as acknowledged, the peer has
   received; and the peer has received nothing that was not sent. *)
AckedIsReceived ==
  \A h \in Host :
    LET p == pcb[h]
        g == pcb[Peer(h)]
    IN Connected(h) /\ Connected(Peer(h)) =>
         TCP_SEQ_LEQ(p.lastack, g.rcv_nxt) /\ TCP_SEQ_LEQ(g.rcv_nxt, p.snd_nxt)

(* What the window leaves room for and what the application has not read yet
   never exceed the receive buffer, and the window that was announced is not
   taken back. *)
WindowSound ==
  \A h \in Host :
    LET p == pcb[h] IN
    Connected(h) =>
      /\ p.rcv_wnd + unread[h] + Len(p.refused.data) =< TCP_WND
      /\ TCP_SEQ_LEQ(p.rcv_ann_right_edge, NewRightEdge(p))

(* Splitting a segment for a small window migrates its FIN to the second half:
   of the segments that wait, only the last one carries a FIN. *)
FinIsLast ==
  \A h \in Host :
    LET q == pcb[h].unacked \o pcb[h].unsent
    IN \A i \in 1..Len(q) - 1 : "FIN" \notin q[i].flags

(* The assertions that guard the persist timer and the receive window hold. *)
NoPanic == ~Panicked

(* Everything written is received in the end: again and again the peer has all
   that was written, unless the connection fails. *)
StreamDelivered ==
  \A h \in Host :
    []<>(\/ Len(rcvd[Peer(h)]) = wrote[h]
         \/ Panicked \/ \E g \in Host : failed[g])
=============================================================================
