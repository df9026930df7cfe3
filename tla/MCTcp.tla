------------------------------- MODULE MCTcp -------------------------------
(* Workloads of a TCP connection for TLC.  The initial sequence numbers make
   the numbers of both ends wrap around. *)
EXTENDS Tcp

IssOf == [client |-> 15, server |-> 13]

(* The client writes three bytes and closes, and the server closes when it is
   told. *)
Plain == [stream |-> [client |-> 3, server |-> 0], writes |-> {3}, read |-> 0,
          ops |-> Host \X {"close"}, patient |-> {"server"},
          faults |-> {}, maxfaults |-> 0]

Lossy == [Plain EXCEPT !.faults = {"loss"}, !.maxfaults = 1]

Repeated == [Plain EXCEPT !.stream.client = 2, !.writes = {2},
                          !.faults = {"early", "dup"}, !.maxfaults = 1]

(* More is written than the window holds, and the segment that opens the window
   again may be lost. *)
Full == [Plain EXCEPT !.stream.client = 5, !.writes = {5},
                      !.ops = {}, !.faults = {"loss"}, !.maxfaults = 1]

(* Both ends write, and go when they like. *)
Busy == [Plain EXCEPT !.stream = [client |-> 1, server |-> 1], !.writes = {1},
                      !.ops = {<<"client", "close">>, <<"server", "abort">>},
                      !.patient = {}]

(* Both ends close at the same time. *)
Crossing == [Plain EXCEPT !.stream = [client |-> 0, server |-> 1], !.writes = {1},
                          !.patient = {}]

(* A client that has closed its direction gets an answer, and closes are put
   off for want of memory. *)
Half == [Plain EXCEPT !.stream = [client |-> 0, server |-> 1], !.writes = {1},
                      !.ops = {<<"client", "shutdown">>, <<"client", "close">>,
                               <<"server", "close">>},
                      !.faults = {"nomem"}, !.maxfaults = 1]

(* The server refuses data that it takes later. *)
Refusing == [Plain EXCEPT !.stream.client = 2, !.writes = {1}, !.faults = {"refuse"}, !.maxfaults = 1]

(* The listener goes away while a connection is being opened. *)
Unlisten == [Plain EXCEPT !.stream.client = 1, !.writes = {1},
                          !.ops = {<<"server", "unlisten">>, <<"client", "close">>}]

(* Only the client closes. *)
OneWay(load_) == [load_ EXCEPT !.ops = {<<"client", "close">>}]

All == {OneWay(Lossy), [Lossy EXCEPT !.stream.client = 1, !.writes = {1}], OneWay(Repeated), Full,
        [Busy EXCEPT !.ops = {<<"server", "abort">>}], Crossing, Half, OneWay(Refusing), Unlisten}

(* Both ends close in every workload, and what fills the window is read byte by
   byte. *)
ByteByByte == [Full EXCEPT !.read = 1]
Larger == {Lossy, Repeated, ByteByByte, Busy, Half, Refusing, Unlisten}

(* The client closes while more than the window holds is queued. *)
ClosesEarly == {[ByteByByte EXCEPT !.writes = {1, 4}, !.ops = Plain.ops, !.maxfaults = 0]}

(* A client that has closed its direction refuses the answer. *)
RefusesLast == {[Half EXCEPT !.faults = {"refuse"}]}

OnlyFull == {ByteByByte}
=============================================================================
