------------------------------ MODULE PacketFifo ------------------------------
(***************************************************************************)
(* What a PACKET_QUEUE promises the caches that use it as RQ or PQ, and as *)
(* WQ outside the L1D: a bounded queue that serves packets in the order    *)
(* they came, holds at most one packet per block address, and lets a       *)
(* second request for an address that is already waiting be merged into    *)
(* the first, in place.  L1D's WQ tells apart full addresses, and          *)
(* PROCESSED is filled without a look at the addresses in it.              *)
(***************************************************************************)
EXTENDS Naturals, Sequences

CONSTANTS
  SIZE,     \* the capacity of the queue
  Address,  \* the addresses packets ask for
  Id        \* what tells two packets for one address apart

Packet == [address : Address, id : Id]

VARIABLE fifo

Init == fifo = << >>

(* A packet for an address that does not wait yet joins at the end.        *)
Add(p) ==
  /\ Len(fifo) < SIZE
  /\ \A k \in 1..Len(fifo) : fifo[k].address # p.address
  /\ fifo' = Append(fifo, p)

(* A packet for an address that waits already is merged where it waits.    *)
Merge(p) ==
  \E k \in 1..Len(fifo) :
    /\ fifo[k].address = p.address
    /\ fifo' = [fifo EXCEPT ![k] = p]

(* The oldest packet leaves.                                               *)
Remove ==
  /\ fifo # << >>
  /\ fifo' = Tail(fifo)

Next ==
  \/ \E p \in Packet : Add(p) \/ Merge(p)
  \/ Remove

Spec == Init /\ [][Next]_fifo
===============================================================================
