------------------------------ MODULE Requests ------------------------------
(***************************************************************************)
(* The circular FIFO of write requests of noc/active.c.  A FIFO is the     *)
(* record of struct requests_fifo; max_capacity is the number of ports.    *)
(***************************************************************************)
EXTENDS Integers

CONSTANT PORT_NR  \* ports of a hardware channel, a power of two

ASSUME RequestsAssumption == PORT_NR \in Nat \ {0}

Ports == 0 .. PORT_NR - 1

Fifo == [head : Ports, tail : Ports, nelements : -1 .. PORT_NR, fifo : [Ports -> Ports \cup {-1}]]

EmptyFifo == [head |-> 0, tail |-> 0, nelements |-> 0, fifo |-> [i \in Ports |-> -1]]

Succ(i) == (i + 1) % PORT_NR

(* Positions from the tail up to the head; none when the two meet. *)
Dist(q, i) == (i - q.tail) % PORT_NR
Span(q) == {i \in Ports : Dist(q, i) < Dist(q, q.head)}

(* do_request_operation(), when the FIFO is not full *)
Register(q, p) ==
    [q EXCEPT !.fifo[q.head] = p, !.head = Succ(q.head), !.nelements = @ + 1]

IsFull(q) == q.nelements = PORT_NR

(* Mutant: the request stays. *)
CompleteKeeps(q) == q

(* do_request_complete(), when it is the port's turn *)
Complete(q) ==
    [q EXCEPT !.fifo[q.tail] = -1, !.tail = Succ(q.tail), !.nelements = @ - 1]

(* do_request_clear(): the entries after the first one of the port move    *)
(* one position towards the tail.                                          *)
Found(q, p) == {i \in Span(q) : q.fifo[i] = p}
Clears(q, p) == q.nelements # 0 /\ Found(q, p) # {}
Clear(q, p) ==
    IF ~Clears(q, p) THEN q
    ELSE [q EXCEPT !.fifo = [i \in Ports |->
                               IF i \in Span(q) /\ \E j \in Found(q, p) : Dist(q, j) <= Dist(q, i)
                               THEN q.fifo[Succ(i)] ELSE q.fifo[i]],
                   !.head = (@ - 1) % PORT_NR,
                   !.nelements = @ - 1]

(* do_request_verify() *)
Turn(q, p) == q.nelements # 0 /\ q.fifo[q.tail] = p
=============================================================================
