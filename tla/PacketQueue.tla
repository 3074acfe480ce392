------------------------------ MODULE PacketQueue ------------------------------
(***************************************************************************)
(* The ring buffer every cache queue is made of: class PACKET_QUEUE of     *)
(* champsim/inc/block.h, with the functions of champsim/src/block.cc.      *)
(*                                                                         *)
(* A packet is reduced to what the ring looks at, its address, and an id   *)
(* that stands for the rest of its content.  The model drives the ring as  *)
(* CACHE::add_rq and its siblings do: look the address up, merge into the  *)
(* entry that has it, otherwise append unless the queue is full; and serve *)
(* the entry at the head.                                                  *)
(***************************************************************************)
EXTENDS Integers, Sequences

CONSTANTS
  SIZE,      \* number of entries of the ring
  Address,   \* the addresses packets ask for (never 0)
  Id,        \* the rest of a packet's content
  NoAddress, \* the address of an empty entry (0 in the code)
  NoId

ASSUME QueueAssumption ==
  /\ SIZE \in Nat \ {0}
  /\ NoAddress \notin Address

Packet  == [address : Address, id : Id]
Empty   == [address |-> NoAddress, id |-> NoId]
Entries == 0 .. SIZE - 1

VARIABLES entry, head, tail, occupancy

pq_vars == << entry, head, tail, occupancy >>

PqInit ==
  /\ entry = [i \in Entries |-> Empty]
  /\ head = 0
  /\ tail = 0
  /\ occupancy = 0

(* Mutated forms, for the sensitivity of the checks: a full ring scanned   *)
(* as if it were empty; a removal that leaves the head behind.             *)
MutScannedFull ==
  IF head <= tail THEN head .. tail - 1
  ELSE (head .. SIZE - 1) \cup (0 .. tail - 1)

(* An index steps to the next entry and from the last one back to 0.       *)
Advance(i) == IF i + 1 >= SIZE THEN 0 ELSE i + 1

-------------------------------------------------------------------------------
(***************************************************************************)
(* check_queue: the indices the two loops visit, and the first that holds  *)
(* the address, or -1.  At most one entry matches (NoDuplicate), so the    *)
(* order of the visit does not show in the result.                         *)
(***************************************************************************)
Scanned ==
  CASE head = tail /\ occupancy = 0 -> {}
    [] head < tail                  -> head .. tail - 1
    [] OTHER                        -> (head .. SIZE - 1) \cup (0 .. tail - 1)

Matches(a) == {i \in Scanned : entry[i].address = a}

CheckQueue(a) == IF Matches(a) = {} THEN -1 ELSE CHOOSE i \in Matches(a) : TRUE

(* add_queue writes the entry at the tail.                                 *)
AddQueue(p) ==
  /\ entry' = [entry EXCEPT ![tail] = p]
  /\ occupancy' = occupancy + 1
  /\ tail' = Advance(tail)
  /\ UNCHANGED head

MutRemoveQueueHead ==
  /\ entry' = [entry EXCEPT ![head] = Empty]
  /\ occupancy' = occupancy - 1
  /\ UNCHANGED << head, tail >>

(* remove_queue blanks the entry its caller was serving, the one at head.  *)
RemoveQueue ==
  /\ entry' = [entry EXCEPT ![head] = Empty]
  /\ occupancy' = occupancy - 1
  /\ head' = Advance(head)
  /\ UNCHANGED tail

-------------------------------------------------------------------------------
(* The callers: merge, append, serve.                                      *)

Merge(p) ==
  /\ CheckQueue(p.address) # -1
  /\ entry' = [entry EXCEPT ![CheckQueue(p.address)] = p]
  /\ UNCHANGED << head, tail, occupancy >>

Enqueue(p) ==
  /\ CheckQueue(p.address) = -1
  /\ occupancy # SIZE
  /\ AddQueue(p)

Serve ==
  /\ occupancy > 0
  /\ RemoveQueue

PqNext ==
  \/ \E p \in Packet : Merge(p) \/ Enqueue(p)
  \/ Serve

PqSpec == PqInit /\ [][PqNext]_pq_vars

-------------------------------------------------------------------------------
(* The entry that is k places behind the head.                             *)
EntryAt(k) == IF head + k >= SIZE THEN head + k - SIZE ELSE head + k

Live == {EntryAt(k) : k \in 0 .. occupancy - 1}

PqTypeOK ==
  /\ entry \in [Entries -> Packet \cup {Empty}]
  /\ head \in Entries
  /\ tail \in Entries
  /\ occupancy \in 0 .. SIZE

(***************************************************************************)
(* The three counters agree, an entry holds a packet exactly when it is    *)
(* between head and tail: what remove_queue frees is blank again when the  *)
(* ring comes back to it.                                                  *)
(***************************************************************************)
RingShape ==
  /\ tail = EntryAt(occupancy)
  /\ \A i \in Entries : i \in Live <=> entry[i] # Empty

(***************************************************************************)
(* The lookup of check_queue, in its three cases and across the wrap,      *)
(* visits exactly the entries that wait, the full ring (head = tail)       *)
(* included.                                                               *)
(***************************************************************************)
ScanIsLive == Scanned = Live

(***************************************************************************)
(* No address waits twice: a request for an address that already waits is  *)
(* always found and merged (CACHE::add_rq, add_wq and add_pq rely on it).  *)
(***************************************************************************)
NoDuplicate ==
  \A i, j \in Live : entry[i].address = entry[j].address => i = j

(***************************************************************************)
(* SANITY_CHECK of add_queue: whenever the callers' own test on occupancy  *)
(* lets a packet through, the assertion on head and tail cannot fail.      *)
(***************************************************************************)
AssertHolds == occupancy # SIZE => ~ (occupancy > 0 /\ head = tail)

-------------------------------------------------------------------------------
(* The ring implements the bounded FIFO: its content from head to tail.    *)
Content == [k \in 1 .. occupancy |-> entry[EntryAt(k - 1)]]

Fifo == INSTANCE PacketFifo WITH fifo <- Content

(***************************************************************************)
(* Every step of the ring is a step of the bounded FIFO queue: requests    *)
(* leave in the order in which they came, across any number of wraps.      *)
(***************************************************************************)
ImplementsFifo == Fifo!Spec
===============================================================================
