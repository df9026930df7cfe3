-------------------------------- MODULE Nic --------------------------------
(* Reception of packets by the driver dev/net/rtl8139.c: the interrupt handler *)
(* fills recv_packet_array and network_get_new_packet() empties it, without a   *)
(* lock.  The build with this device has one core, so that the handler runs    *)
(* between two steps of the reader and the reader waits until it returns; the  *)
(* device goes on receiving meanwhile.                                         *)
(*                                                                             *)
(* Packets are numbered in the order of their arrival.  The ring of bytes in   *)
(* which the device stores them is a queue of at most RxRoom packets; that it  *)
(* may write over a packet that was queued but not read yet, which             *)
(* write_packet_array() warns of, and the loopback switches are not modelled.  *)
EXTENDS Integers, Sequences, SequencesExt

CONSTANTS
    PACKET_ARRAY_LENGTH,
    RxRoom,
    MaxPackets,             \* bound: packets that arrive
    Bad                     \* packets that the device stores with an invalid status

NULL == 0
Slots == 0..(PACKET_ARRAY_LENGTH - 1)

VARIABLES
    rx, arrived,            \* device: packets in its buffer, packets so far
    rok, unmasked,          \* device: interrupt status and mask
    handler,                \* where rtl8139_handler() is
    packets, read_pos, write_pos,   \* recv_packet_array
    reader, packet,         \* where read_packet_array() is, and what it copied
    stored, got,            \* history: packets put into the array, results of the reads
    raced                   \* history: a reset came in the middle of a read

vars == <<rx, arrived, rok, unmasked, handler, packets, read_pos, write_pos, reader, packet,
          stored, got, raced>>
device == <<rx, arrived, rok, unmasked>>
array == <<packets, read_pos, write_pos>>
read == <<reader, packet, got>>

-----------------------------------------------------------------------------

\* The device (external) stores a packet and sets ROK, or has no room for it.
Arrive ==
    /\ arrived < MaxPackets
    /\ arrived' = arrived + 1
    /\ \/ Len(rx) < RxRoom /\ rx' = Append(rx, arrived') /\ rok' = TRUE
       \/ Len(rx) = RxRoom /\ UNCHANGED <<rx, rok>>
    /\ UNCHANGED <<unmasked, handler, array, read, stored, raced>>

\* rtl8139_handler() is entered while the device asserts its interrupt; it masks
\* it and reads the status.
HandlerEnter ==
    /\ handler = "idle" /\ rok /\ unmasked
    /\ unmasked' = FALSE
    /\ handler' = "receive"
    /\ UNCHANGED <<rx, arrived, rok, array, read, stored, raced>>

\* Mutant: the array is never full.
WriteAlways(p) ==
    /\ packets' = [packets EXCEPT ![write_pos] = p]
    /\ write_pos' = (write_pos + 1) % PACKET_ARRAY_LENGTH
    /\ stored' = Append(stored, p)
    /\ UNCHANGED read_pos

\* write_packet_array(): the packet is dropped when the array is full.
write_packet_array(p) ==
    LET next == (write_pos + 1) % PACKET_ARRAY_LENGTH IN
    \/ next = read_pos /\ UNCHANGED <<array, stored>>
    \/ /\ next # read_pos
       /\ packets' = [packets EXCEPT ![write_pos] = p]
       /\ write_pos' = next
       /\ stored' = Append(stored, p)
       /\ UNCHANGED read_pos

\* rtl8139_reset_rx(): the array and the buffer of the device are emptied.
rtl8139_reset_rx ==
    /\ packets' = [i \in Slots |-> NULL]
    /\ read_pos' = 0 /\ write_pos' = 0
    /\ rx' = <<>>
    /\ stored' = SelectSeq(stored, LAMBDA p: \E i \in DOMAIN got: got[i] = p)
    /\ raced' = (raced \/ reader # "idle")

\* One round of the loop of rtl8139_receive_packet().
ReceivePacket ==
    /\ handler = "receive" /\ rx # <<>>
    /\ \/ /\ Head(rx) \notin Bad
          /\ write_packet_array(Head(rx))
          /\ rx' = Tail(rx)
          /\ handler' = IF rx' = <<>> THEN "done" ELSE "receive"
          /\ UNCHANGED raced
       \/ /\ Head(rx) \in Bad
          /\ rtl8139_reset_rx
          /\ handler' = "done"
    /\ UNCHANGED <<arrived, rok, unmasked, read>>

\* The handler unmasks the interrupt, then clears the status.
HandlerUnmask ==
    /\ handler = "done"
    /\ unmasked' = TRUE
    /\ handler' = "clear"
    /\ UNCHANGED <<rx, arrived, rok, array, read, stored, raced>>

HandlerClear ==
    /\ handler = "clear"
    /\ rok' = FALSE
    /\ handler' = "idle"
    /\ UNCHANGED <<rx, arrived, unmasked, array, read, stored, raced>>

-----------------------------------------------------------------------------
(* read_packet_array(), one step per access to the array.                      *)

ReadStep(from, to) ==
    /\ handler = "idle"
    /\ reader = from /\ reader' = to
    /\ UNCHANGED <<device, handler, write_pos, stored, raced>>

ReadCheck ==
    /\ ReadStep("idle", "copy")
    /\ read_pos # write_pos
    /\ UNCHANGED <<packets, read_pos, packet, got>>

ReadCopy ==
    /\ ReadStep("copy", "clear")
    /\ packet' = packets[read_pos]
    /\ UNCHANGED <<packets, read_pos, got>>

ReadClear ==
    /\ ReadStep("clear", "advance")
    /\ packets' = [packets EXCEPT ![read_pos] = NULL]
    /\ UNCHANGED <<read_pos, packet, got>>

ReadAdvance ==
    /\ ReadStep("advance", "idle")
    /\ read_pos' = (read_pos + 1) % PACKET_ARRAY_LENGTH
    /\ got' = Append(got, packet)
    /\ UNCHANGED <<packets, packet>>

-----------------------------------------------------------------------------

\* rtl8139_init().
Init ==
    /\ rx = <<>> /\ arrived = 0
    /\ rok = FALSE /\ unmasked = TRUE
    /\ handler = "idle"
    /\ packets = [i \in Slots |-> NULL]
    /\ read_pos = 0 /\ write_pos = 0
    /\ reader = "idle" /\ packet = NULL
    /\ stored = <<>> /\ got = <<>>
    /\ raced = FALSE

Next ==
    \/ Arrive
    \/ HandlerEnter \/ ReceivePacket \/ HandlerUnmask \/ HandlerClear
    \/ ReadCheck \/ ReadCopy \/ ReadClear \/ ReadAdvance

Spec == Init /\ [][Next]_vars

\* The device interrupts the core, and the handler returns.
FairSpec == Spec /\ WF_vars(HandlerEnter \/ ReceivePacket \/ HandlerUnmask \/ HandlerClear)

-----------------------------------------------------------------------------

Real(s) == SelectSeq(s, LAMBDA p: p # NULL)

\* Packets reach the reader in the order of their arrival and none twice, though
\* the handler refills the array between any two steps of a read.  Unless the
\* handler reset the array in the middle of a read, the reads so far and the
\* array hold exactly what was stored, so that no read reports a packet without
\* giving one.
ReadsInOrder ==
    /\ \A i, j \in DOMAIN Real(got): i < j => Real(got)[i] < Real(got)[j]
    /\ ~raced =>
        LET n == (write_pos - read_pos) % PACKET_ARRAY_LENGTH
            taken == reader \in {"clear", "advance"}
            Slot(i) == (read_pos + i - 1) % PACKET_ARRAY_LENGTH
        IN stored = got \o [i \in 1..n |-> IF taken /\ i = 1 THEN packet ELSE packets[Slot(i)]]

\* What the comment on read_packet_array() promises: a read that returns true
\* has fetched a packet ("true if a new packet as been fecthed").
ReadFetches == \A i \in DOMAIN got: got[i] # NULL

\* A packet that the device has received does not stay in its buffer.
ReceivedIsQueued == (rx # <<>>) ~> (rx = <<>>)
=============================================================================
