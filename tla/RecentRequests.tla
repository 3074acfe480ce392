--------------------------- MODULE RecentRequests --------------------------
(***************************************************************************)
(* The recent-requests table of the best-offset prefetcher and the delay   *)
(* queue before it (prefetcher/bo.h).  Lines wait in a ring until they are *)
(* DELAY cycles old, or are pushed out by newer ones; then the left bank   *)
(* of the table takes them.  Prefetched lines that arrive go to the right  *)
(* bank.  Times are kept modulo TIME, as those of BestOffset are, and a    *)
(* delay is shorter than that.                                             *)
(***************************************************************************)
EXTENDS BestOffset, Sequences

CONSTANTS
  Line, Slot,                \* line addresses, and the slots of a bank
  TagOf, LeftOf, RightOf,    \* rr_tag, rr_index_left, rr_index_right
  DELAYQSIZE, DELAY

ASSUME RrAssumption ==
  /\ DELAYQSIZE \in Nat \ {0}
  /\ DELAY \in Nat /\ DELAY < TIME

VARIABLES
  recent_request,   \* the two banks
  dq,               \* the ring: [lineaddr, cycle, valid, head, tail]
  now,              \* get_current_cycle, truncated
  pending           \* history: what has been pushed and has not left,
                    \* [line, age], the age counted up to DELAY

rr_vars == <<recent_request, dq, now, pending>>

RrInit ==
  /\ recent_request = [left |-> [i \in Slot |-> 0], right |-> [i \in Slot |-> 0]]
  /\ dq = [lineaddr |-> [i \in 0 .. DELAYQSIZE - 1 |-> 0],
           cycle |-> [i \in 0 .. DELAYQSIZE - 1 |-> 0],
           valid |-> [i \in 0 .. DELAYQSIZE - 1 |-> FALSE], head |-> 0, tail |-> 0]
  /\ now = 0 /\ pending = <<>>
-----------------------------------------------------------------------------
Incremented(i) == IF i + 1 = DELAYQSIZE THEN 0 ELSE i + 1
Ahead(q, k) == (q.head + k) % DELAYQSIZE

(* Mutant: the cycle in which the line is ready is not truncated.          *)
MutReadyWide(q, i) == q.valid[i] /\ (now < q.cycle[i] \/ now >= q.cycle[i] + DELAY)

(* dq_ready, of the slot i.                                                *)
Ready(q, i) ==
  LET issue == q.cycle[i]
      ready == (issue + DELAY) % TIME
  IN  /\ q.valid[i]
      /\ IF ready >= issue THEN now < issue \/ now >= ready
                           ELSE now < issue /\ now >= ready

(* rr_insert_left for each line of a sequence: the last of a slot stays.   *)
Inserted(bank, lines) == [i \in Slot |->
  LET K == {k \in DOMAIN lines : LeftOf[lines[k]] = i}
  IN  IF K = {} THEN bank[i] ELSE TagOf[lines[CHOOSE k \in K : \A j \in K : j <= k]]]

(* dq_pop: how many entries leave, from the head on.                       *)
Ripe(q) == CHOOSE n \in 0 .. DELAYQSIZE :
  /\ \A k \in 0 .. n - 1 : Ready(q, Ahead(q, k))
  /\ n = DELAYQSIZE \/ ~Ready(q, Ahead(q, n))

Popped(q) == [q EXCEPT
  !.valid = [i \in DOMAIN @ |-> @[i] /\ \A k \in 0 .. Ripe(q) - 1 : i # Ahead(q, k)],
  !.head = Ahead(q, Ripe(q))]

Leaving(q) == [k \in 1 .. Ripe(q) |-> q.lineaddr[Ahead(q, k - 1)]]

(* dq_push: in a full ring the oldest entry, at the head, leaves.          *)
Overflows(q) == q.valid[q.tail]

Pushed(q, line) == [q EXCEPT
  !.head = IF Overflows(q) THEN Incremented(@) ELSE @,
  !.lineaddr[q.tail] = line, !.cycle[q.tail] = now, !.valid[q.tail] = TRUE,
  !.tail = Incremented(@)]

Young(line) == [line |-> line, age |-> 0]
Rest(s, n) == SubSeq(s, n + 1, Len(s))

(* bo_prefetcher_operate: what is ripe leaves the queue.                   *)
DqPop ==
  /\ dq' = Popped(dq)
  /\ recent_request' = [recent_request EXCEPT !.left = Inserted(@, Leaving(dq))]
  /\ pending' = Rest(pending, Ripe(dq))
  /\ UNCHANGED now

(* The same when issue_prefetch pushes the line as well.                   *)
DqPopPush(line) ==
  LET q == Popped(dq)
      out == IF Overflows(q) THEN <<q.lineaddr[q.head]>> ELSE <<>>
  IN  /\ dq' = Pushed(q, line)
      /\ recent_request' = [recent_request EXCEPT !.left = Inserted(@, Leaving(dq) \o out)]
      /\ pending' = Append(Rest(pending, Ripe(dq) + Len(out)), Young(line))
      /\ UNCHANGED now

(* bo_prefetcher_cache_fill.                                               *)
CacheFill(line) ==
  /\ recent_request' = [recent_request EXCEPT !.right[RightOf[line]] = TagOf[line]]
  /\ UNCHANGED <<dq, now, pending>>

Cycle ==
  /\ now' = (now + 1) % TIME
  /\ pending' = [k \in DOMAIN pending |->
       [pending[k] EXCEPT !.age = IF @ < DELAY THEN @ + 1 ELSE @]]
  /\ UNCHANGED <<recent_request, dq>>

RrNext == DqPop \/ Cycle \/ \E line \in Line : DqPopPush(line) \/ CacheFill(line)

RrSpec == RrInit /\ [][RrNext]_rr_vars
-----------------------------------------------------------------------------
(* The type invariant of the queue and the table.                          *)
RrTypeOK ==
  /\ dq \in [lineaddr : [0 .. DELAYQSIZE - 1 -> Line \cup {0}],
             cycle : [0 .. DELAYQSIZE - 1 -> 0 .. TIME - 1],
             valid : [0 .. DELAYQSIZE - 1 -> BOOLEAN],
             head : 0 .. DELAYQSIZE - 1, tail : 0 .. DELAYQSIZE - 1]
  /\ pending \in Seq([line : Line, age : 0 .. DELAY]) /\ Len(pending) <= DELAYQSIZE
  /\ now \in 0 .. TIME - 1

(* The ring holds what was pushed and has not left, oldest at the head,    *)
(* when it is full and after it was overrun too (bo.h:186-233); and no     *)
(* line is taken for ripe before it is DELAY cycles old, wherever the      *)
(* truncated times wrap (bo.h:209-216).                                    *)
DelayRing ==
  /\ dq.tail = Ahead(dq, Len(pending))
  /\ \A k \in 0 .. DELAYQSIZE - 1 :
       /\ dq.valid[Ahead(dq, k)] <=> k < Len(pending)
       /\ k < Len(pending) => dq.lineaddr[Ahead(dq, k)] = pending[k + 1].line
  /\ \A k \in 0 .. Len(pending) - 1 :
       Ready(dq, Ahead(dq, k)) => pending[k + 1].age >= DELAY
=============================================================================
