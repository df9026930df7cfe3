------------------------------ MODULE AbsStream ------------------------------
(* What a TCP connection promises to the applications at its two ends: each
   direction is a reliable stream of bytes.  A byte is its position in the
   stream, so a stream is delivered in order, once and without gaps when what
   has been delivered is <<1, 2, ..., n>>.  The end of the stream is told only
   after its last byte. *)
EXTENDS Naturals, Sequences

CONSTANT Host   \* the two ends

VARIABLES
  wrote,   \* how many bytes each end has written
  shut,    \* TRUE once an end writes no more
  rcvd,    \* bytes that each end has received
  eof      \* TRUE once an end was told that its peer writes no more

vars == <<wrote, shut, rcvd, eof>>

Other(h) == CHOOSE g \in Host : g # h

Init ==
  /\ wrote = [h \in Host |-> 0]
  /\ shut = [h \in Host |-> FALSE]
  /\ rcvd = [h \in Host |-> <<>>]
  /\ eof = [h \in Host |-> FALSE]

Write(h) ==
  /\ ~shut[h]
  /\ wrote'[h] > wrote[h]
  /\ wrote' = [wrote EXCEPT ![h] = wrote'[h]]
  /\ UNCHANGED <<shut, rcvd, eof>>

Shut(h) ==
  /\ shut' = [shut EXCEPT ![h] = TRUE]
  /\ UNCHANGED <<wrote, rcvd, eof>>

(* The receiver has the first n bytes, and with the last of them perhaps the
   end of the stream. *)
Deliver(h) ==
  \E n \in Len(rcvd[h])..wrote[Other(h)], end \in BOOLEAN :
    /\ end => shut[Other(h)] /\ n = wrote[Other(h)]
    /\ eof[h] => n = Len(rcvd[h])
    /\ rcvd' = [rcvd EXCEPT ![h] = [i \in 1..n |-> i]]
    /\ eof' = [eof EXCEPT ![h] = @ \/ end]
    /\ UNCHANGED <<wrote, shut>>

Next == \E h \in Host : Write(h) \/ Shut(h) \/ Deliver(h)

Spec == Init /\ [][Next]_vars
=============================================================================
