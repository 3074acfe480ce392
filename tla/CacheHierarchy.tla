---------------------------- MODULE CacheHierarchy ----------------------------
(***************************************************************************)
(* The miss path of the simulated memory hierarchy: class CACHE            *)
(* (champsim/src/cache.cc) at every level, wired as main.cc wires it:      *)
(*                                                                         *)
(*     L1I --+                        ITLB --+                             *)
(*           +-- L2C -- LLC -- DRAM          +-- STLB -- page walk         *)
(*     L1D --+                        DTLB --+                             *)
(*                                                                         *)
(* Every cache runs the same code; what differs is its place.  A handler   *)
(* calls into the caches next to it while it runs (add_rq, add_wq, add_pq  *)
(* of the lower one, return_data of the upper ones), so the state is       *)
(* passed as a record s through the operators that model those functions,  *)
(* and an action is one handler of one cache, from its first test to its   *)
(* last assignment.                                                        *)
(*                                                                         *)
(* Time: event_cycle, LATENCY and the cycle in which operate() calls a     *)
(* handler only decide which enabled handler runs next; here any may.      *)
(* The DRAM controller is reduced to what the LLC sees of it.              *)
(***************************************************************************)
EXTENDS Integers, Sequences, FiniteSets

CONSTANTS
  Caches,        \* the caches of this instance, closed under Lower
  Addr,          \* block addresses, all of which fall into one set
  Word,          \* words of a block (full_addr = block and word)
  WAYS,          \* per cache: NUM_WAY
  RQ_SIZE, WQ_SIZE, PQ_SIZE, MSHR_SIZE,  \* per cache
  PROCESSED_SIZE,                        \* of every PROCESSED queue
  DRAM_RQ_SIZE, DRAM_WQ_SIZE,
  LLC_BYPASS,    \* whether the replacement policy may bypass the LLC
  CodeAddr,      \* the blocks the program fetches instructions from
  DataAddr,      \* the blocks it loads from and stores to
  MaxDemand,     \* bound: demands the core issues
  MaxStore,      \* bound: stores the core retires
  MaxPrefetch,   \* bound: prefetches the prefetchers issue
  MaxIssued      \* bound: all of these together

FILL_L1  == 1
FILL_L2  == 2
FILL_LLC == 4

FirstLevel == {"ITLB", "DTLB", "L1I", "L1D"}

FillLevel(c) == IF c \in FirstLevel THEN FILL_L1
                ELSE IF c = "LLC" THEN FILL_LLC ELSE FILL_L2

(* lower_level and upper_level_icache / upper_level_dcache, from main.cc.  *)
Lower(c) ==
  CASE c \in {"ITLB", "DTLB"} -> "STLB"
    [] c = "STLB"             -> "NULL"
    [] c \in {"L1I", "L1D"}   -> "L2C"
    [] c = "L2C"              -> "LLC"
    [] c = "LLC"              -> "DRAM"

UpperInstr(c) == CASE c = "STLB" -> "ITLB" [] c = "L2C" -> "L1I" [] c = "LLC" -> "L2C"
UpperData(c)  == CASE c = "STLB" -> "DTLB" [] c = "L2C" -> "L1D" [] c = "LLC" -> "L2C"

NoAddr == "none"

ASSUME SizeAssumption ==
  /\ Caches \subseteq FirstLevel \cup {"STLB", "L2C", "LLC"}
  /\ \A c \in Caches : /\ WAYS[c] \in Nat \ {0}
                       /\ {RQ_SIZE[c], WQ_SIZE[c], PQ_SIZE[c], MSHR_SIZE[c]} \subseteq Nat
                       /\ Lower(c) \in Caches \cup {"DRAM", "NULL"}
  /\ {PROCESSED_SIZE, DRAM_RQ_SIZE, DRAM_WQ_SIZE, MaxDemand, MaxStore, MaxPrefetch,
      MaxIssued} \subseteq Nat
  /\ CodeAddr \cup DataAddr \subseteq Addr /\ NoAddr \notin Addr
  /\ Word # {}

(***************************************************************************)
(* What the sizes of inc/cache.h have in common: the read queue of a       *)
(* cache has room for every miss the one or two caches above it can have   *)
(* in flight, and a PROCESSED queue, as long as the ROB, for every answer. *)
(***************************************************************************)
ASSUME RoomAssumption ==
  /\ \A u, v \in Caches : Lower(u) = Lower(v) /\ Lower(u) \in Caches =>
       MSHR_SIZE[u] + (IF u = v THEN 0 ELSE MSHR_SIZE[v]) <= RQ_SIZE[Lower(u)]
  /\ MaxDemand + MaxStore <= PROCESSED_SIZE

AnyWord == CHOOSE w \in Word : TRUE
Demand  == 1 .. MaxDemand

(***************************************************************************)
(* A PACKET.  waiters stands for the ROB, LQ and SQ entries that wait for  *)
(* it: its own index and the merged sets rob_, lq_ and sq_index_depend_on_ *)
(* me.  Only the core reads them, from first-level PROCESSED queues.       *)
(***************************************************************************)
Packet ==
  [address : Addr, word : Word, type : {"LOAD", "RFO", "PREFETCH", "WRITEBACK"},
   instruction : BOOLEAN, is_data : BOOLEAN, fill_l1i : BOOLEAN, fill_l1d : BOOLEAN,
   fill_level : {1, 2, 4, 8}, returned : BOOLEAN, waiters : SUBSET Demand]

Block == [tag : Addr \cup {NoAddr}, dirty : BOOLEAN]

VARIABLES
  rq, wq, pq,    \* per cache: the queues, head first
  mshr,          \* per cache: the misses in flight, by address
  block,         \* per cache: the ways of the one set
  processed,     \* per first-level cache: what is handed to the core
  dramRq, dramWq,\* the DRAM controller's queues
  asserts,       \* the assert(0) that were reached
  issued,        \* number of demands, stores and prefetches issued so far
  done           \* demands the core has got an answer for

vars == << rq, wq, pq, mshr, block, processed, dramRq, dramWq, asserts, issued, done >>

State ==
  [rq |-> rq, wq |-> wq, pq |-> pq, mshr |-> mshr, block |-> block,
   processed |-> processed, dramRq |-> dramRq, dramWq |-> dramWq, asserts |-> asserts]

(* The step to the state s.  After a failed assertion there is none.       *)
Becomes(s) ==
  /\ asserts = {}
  /\ rq' = s.rq /\ wq' = s.wq /\ pq' = s.pq /\ mshr' = s.mshr
  /\ block' = s.block /\ processed' = s.processed
  /\ dramRq' = s.dramRq /\ dramWq' = s.dramWq /\ asserts' = s.asserts

Init ==
  /\ rq = [c \in Caches |-> << >>]
  /\ wq = [c \in Caches |-> << >>]
  /\ pq = [c \in Caches |-> << >>]
  /\ mshr = [c \in Caches |-> << >>]
  /\ block = [c \in Caches |-> [w \in 1 .. WAYS[c] |-> [tag |-> NoAddr, dirty |-> FALSE]]]
  /\ processed = [c \in Caches |-> << >>]
  /\ dramRq = {} /\ dramWq = {}
  /\ asserts = {}
  /\ issued = [demand |-> 0, store |-> 0, prefetch |-> 0]
  /\ done = {}

-------------------------------------------------------------------------------
(* Helpers on the state record.                                            *)

Least(a, b) == IF a <= b THEN a ELSE b

(* PACKET_QUEUE::check_queue: L1D's write queue compares whole addresses.  *)
WqHits(s, c, p) ==
  {k \in DOMAIN s.wq[c] : /\ s.wq[c][k].address = p.address
                          /\ c = "L1D" => s.wq[c][k].word = p.word}
QueueHits(q, a) == {k \in DOMAIN q : q[k].address = a}
Only(S) == CHOOSE k \in S : TRUE

(* check_mshr and check_hit.                                               *)
InMshr(s, c, a) == a \in DOMAIN s.mshr[c]
MshrFull(s, c)  == Cardinality(DOMAIN s.mshr[c]) = MSHR_SIZE[c]
HitWays(s, c, a) == {w \in 1 .. WAYS[c] : s.block[c][w].tag = a}

PopRq(s, c) == [s EXCEPT !.rq[c] = Tail(@)]
PopWq(s, c) == [s EXCEPT !.wq[c] = Tail(@)]
PopPq(s, c) == [s EXCEPT !.pq[c] = Tail(@)]

(* A packet on its way down: the lower levels never look at its waiters.   *)
Plain(p) == [p EXCEPT !.waiters = {}, !.word = AnyWord]

(* MSHR.entry[i] = e.                                                      *)
SetMshr(s, c, e) ==
  [s EXCEPT !.mshr[c] =
     [a \in DOMAIN @ \cup {e.address} |-> IF a = e.address THEN e ELSE @[a]]]

AddMshr(s, c, p) == SetMshr(s, c, [p EXCEPT !.returned = FALSE, !.word = AnyWord])

RemoveMshr(s, c, a) == [s EXCEPT !.mshr[c] = [x \in DOMAIN @ \ {a} |-> @[x]]]

(* PROCESSED.add_queue, and nothing at all when the queue is full.         *)
AddProcessed(s, c, p) ==
  IF Len(s.processed[c]) < PROCESSED_SIZE
  THEN [s EXCEPT !.processed[c] = Append(@, p.waiters)]
  ELSE s

(* A demand that hits or fills in a first-level cache goes to the core.    *)
Process(s, c, p) ==
  IF c \in {"ITLB", "DTLB", "L1I"} \/ (c = "L1D" /\ p.type # "PREFETCH")
  THEN AddProcessed(s, c, p) ELSE s

-------------------------------------------------------------------------------
(* return_data, and the test on the fill level every handler ends with.    *)
(* A packet that is both an instruction's and data's, as two merged ones   *)
(* may be, is returned to the one cache above the LLC twice in a row.      *)

ReturnData(s, c, a) ==
  IF ~InMshr(s, c, a)
  THEN [s EXCEPT !.asserts = @ \cup {"return_data: no matching MSHR entry"}]
  ELSE [s EXCEPT !.mshr[c][a].returned = TRUE]

ReturnUp(s, c, p) ==
  LET below   == p.fill_level < FillLevel(c)
      toInstr == IF FillLevel(c) = FILL_L2 THEN p.fill_l1i ELSE p.instruction
      toData  == IF FillLevel(c) = FILL_L2 THEN p.fill_l1d ELSE p.is_data
      s1 == IF below /\ toInstr THEN ReturnData(s, UpperInstr(c), p.address) ELSE s
  IN  IF below /\ toData THEN ReturnData(s1, UpperData(c), p.address) ELSE s1

-------------------------------------------------------------------------------
(* The DRAM controller as the LLC sees it, after the warmup.               *)

DramRqFull(s) == Cardinality(s.dramRq) = DRAM_RQ_SIZE

(* Both upper levels of the controller are the LLC; forwarding from the    *)
(* write queue answers both, process() only upper_level_dcache.            *)
DramReturn(s, p) ==
  LET s1 == IF p.instruction THEN ReturnData(s, "LLC", p.address) ELSE s
  IN  IF p.is_data THEN ReturnData(s1, "LLC", p.address) ELSE s1

DramAddRq(s, p) ==
  CASE p.address \in s.dramWq -> DramReturn(s, p)
    [] p.address \notin s.dramWq /\ p.address \in s.dramRq -> s
    [] OTHER -> IF DramRqFull(s) THEN s ELSE [s EXCEPT !.dramRq = @ \cup {p.address}]

DramAddWq(s, p) ==
  IF Cardinality(s.dramWq) < DRAM_WQ_SIZE
  THEN [s EXCEPT !.dramWq = @ \cup {p.address}]
  ELSE s

-------------------------------------------------------------------------------
(* add_rq, add_wq, add_pq: forward from the write queue, merge, append.    *)

MutMergeRq(e, p) ==
  [e EXCEPT !.instruction = @ \/ p.instruction, !.is_data = @ \/ ~p.instruction,
            !.fill_l1i = @ \/ p.fill_l1i, !.fill_l1d = @ \/ p.fill_l1d]

(* A second request for an address is merged into the one that waits.      *)
MergeRq(e, p) ==
  [e EXCEPT !.instruction = @ \/ p.instruction,
            !.is_data     = @ \/ ~p.instruction,
            !.fill_l1i    = @ \/ p.fill_l1i,
            !.fill_l1d    = @ \/ p.fill_l1d,
            !.waiters     = @ \cup p.waiters]

MergeFill(e, p) ==
  [e EXCEPT !.fill_level = Least(@, p.fill_level),
            !.fill_l1i   = @ \/ p.fill_l1i,
            !.fill_l1d   = @ \/ p.fill_l1d]

MergePq(e, p) ==
  [MergeFill(e, p) EXCEPT !.instruction = @ \/ p.instruction,
                          !.is_data     = @ \/ p.is_data]

AddRq(s, c, p) ==
  LET hits == QueueHits(s.rq[c], p.address)
      forwarded == ReturnUp(s, c, p)
  IN  CASE c = "DRAM" -> DramAddRq(s, p)
        [] c # "DRAM" /\ WqHits(s, c, p) # {} ->
             IF c = "L1D" THEN Process(forwarded, c, p) ELSE forwarded
        [] c # "DRAM" /\ WqHits(s, c, p) = {} /\ hits # {} ->
             [s EXCEPT !.rq[c][Only(hits)] = MergeRq(@, p)]
        [] OTHER ->
             IF Len(s.rq[c]) = RQ_SIZE[c] THEN s
             ELSE [s EXCEPT !.rq[c] = Append(@, [p EXCEPT !.word = AnyWord])]

AddWq(s, c, p) ==
  CASE c = "DRAM" -> DramAddWq(s, p)
    [] c # "DRAM" /\ WqHits(s, c, p) # {} -> s
    [] OTHER ->
         IF Len(s.wq[c]) >= WQ_SIZE[c]
         THEN [s EXCEPT !.asserts = @ \cup {"add_wq: write queue is full"}]
         ELSE [s EXCEPT !.wq[c] = Append(@, p)]

AddPq(s, c, p) ==
  LET hits == QueueHits(s.pq[c], p.address)
  IN  CASE WqHits(s, c, p) # {} -> ReturnUp(s, c, p)
        [] WqHits(s, c, p) = {} /\ hits # {} ->
             [s EXCEPT !.pq[c][Only(hits)] = MergePq(@, p)]
        [] OTHER ->
             IF Len(s.pq[c]) = PQ_SIZE[c] THEN s
             ELSE [s EXCEPT !.pq[c] = Append(@, p)]

-------------------------------------------------------------------------------
(* handle_read: the oldest request of the read queue.                      *)

Handler(s) == Becomes(s) /\ UNCHANGED << issued, done >>

MutMergeRead(e, p) ==
  LET m == [e EXCEPT !.instruction = @ \/ p.instruction,
                     !.is_data     = @ \/ ~p.instruction]
  IN  IF e.type = "PREFETCH" THEN p
      ELSE MergeFill([m EXCEPT !.waiters = @ \cup p.waiters], p)

(* A read that finds its block in flight.  A prefetch's entry becomes the  *)
(* read itself, and only keeps what the lower level already did for it.    *)
MergeRead(e, p) ==
  LET m == IF p.type = "RFO" THEN e
           ELSE [e EXCEPT !.instruction = @ \/ p.instruction,
                          !.is_data     = @ \/ ~p.instruction]
  IN  IF e.type = "PREFETCH"
      THEN [p EXCEPT !.returned = e.returned]
      ELSE MergeFill([m EXCEPT !.waiters = @ \cup p.waiters], p)

(* The level that has none below it walks the page table at once.          *)
SendDown(s, c, p) ==
  IF Lower(c) = "NULL" THEN ReturnData(s, c, p.address) ELSE AddRq(s, Lower(c), Plain(p))

MutHandleRead(c) ==
  /\ rq[c] # << >>
  /\ LET p == Head(rq[c])
         a == p.address
         s == PopRq(State, c)
     IN  \/ /\ HitWays(s, c, a) # {}
            /\ Handler(ReturnUp(Process(s, c, p), c, p))
         \/ /\ HitWays(s, c, a) = {} /\ InMshr(s, c, a)
            /\ Handler(SetMshr(s, c, MergeRead(s.mshr[c][a], p)))
         \/ /\ HitWays(s, c, a) = {} /\ ~InMshr(s, c, a)
            /\ c = "LLC" => ~DramRqFull(s)
            /\ Handler(SendDown(AddMshr(s, c, p), c, p))

HandleRead(c) ==
  /\ rq[c] # << >>
  /\ LET p == Head(rq[c])
         a == p.address
         s == PopRq(State, c)
     IN  \/ /\ HitWays(s, c, a) # {}
            /\ Handler(ReturnUp(Process(s, c, p), c, p))
         \/ /\ HitWays(s, c, a) = {} /\ InMshr(s, c, a)
            /\ Handler(SetMshr(s, c, MergeRead(s.mshr[c][a], p)))
         \/ /\ HitWays(s, c, a) = {} /\ ~InMshr(s, c, a) /\ ~MshrFull(s, c)
            /\ c = "LLC" => ~DramRqFull(s)
            /\ Handler(SendDown(AddMshr(s, c, p), c, p))

-------------------------------------------------------------------------------
(* Victims.  lru_victim takes the first invalid way and else the least     *)
(* recently used one, which may be any.  The policies of the LLC may take  *)
(* any way: those that predict re-references never look at valid.          *)

Victims(s, c) ==
  LET free == {w \in 1 .. WAYS[c] : s.block[c][w].tag = NoAddr}
  IN  IF c = "LLC" \/ free = {} THEN 1 .. WAYS[c]
      ELSE {w \in free : \A v \in free : w <= v}

LowerWqFull(s, c) ==
  IF Lower(c) = "DRAM" THEN Cardinality(s.dramWq) = DRAM_WQ_SIZE
                       ELSE Len(s.wq[Lower(c)]) = WQ_SIZE[Lower(c)]

Writeback(c, a) ==
  [address |-> a, word |-> AnyWord, type |-> "WRITEBACK", instruction |-> FALSE,
   is_data |-> TRUE, fill_l1i |-> FALSE, fill_l1d |-> FALSE,
   fill_level |-> 2 * FillLevel(c), returned |-> FALSE, waiters |-> {}]

MutCanEvict(s, c, w) == TRUE

(* A dirty victim needs a free entry in the write queue below.             *)
CanEvict(s, c, w) == s.block[c][w].dirty /\ Lower(c) # "NULL" => ~LowerWqFull(s, c)

MutEvict(s, c, w) == s

Evict(s, c, w) ==
  IF s.block[c][w].dirty /\ Lower(c) # "NULL"
  THEN AddWq(s, Lower(c), Writeback(c, s.block[c][w].tag))
  ELSE s

(* fill_cache, and the dirty bit its callers set after it.                 *)
FillCache(s, c, w, a, dirty) == [s EXCEPT !.block[c][w] = [tag |-> a, dirty |-> dirty]]

-------------------------------------------------------------------------------
(* handle_writeback: the oldest entry of the write queue.  In L1D it is a  *)
(* store the core retired (RFO), elsewhere a block evicted from above.     *)

MergeStore(e, p) ==
  IF e.type = "PREFETCH"
  THEN [p EXCEPT !.returned = e.returned, !.word = AnyWord]
  ELSE MergeFill(e, p)

WriteMissL1D(s, p) ==
  \/ /\ InMshr(s, "L1D", p.address)
     /\ Handler(SetMshr(s, "L1D", MergeStore(s.mshr["L1D"][p.address], p)))
  \/ /\ ~InMshr(s, "L1D", p.address) /\ ~MshrFull(s, "L1D")
     /\ Handler(SendDown(AddMshr(s, "L1D", p), "L1D", p))

(* A writeback is allocated without a look at the misses in flight.        *)
WriteAllocate(s, c, p) ==
  \E w \in Victims(s, c) :
    /\ CanEvict(s, c, w)
    /\ Handler(ReturnUp(FillCache(Evict(s, c, w), c, w, p.address, TRUE), c, p))

HandleWriteback(c) ==
  /\ wq[c] # << >>
  /\ LET p    == Head(wq[c])
         s    == PopWq(State, c)
         hits == HitWays(s, c, p.address)
         way  == CHOOSE w \in hits : \A v \in hits : w <= v
     IN  \/ /\ hits # {}
            /\ Handler(ReturnUp([s EXCEPT !.block[c][way].dirty = TRUE], c, p))
         \/ hits = {} /\ c = "L1D" /\ WriteMissL1D(s, p)
         \/ hits = {} /\ c # "L1D" /\ WriteAllocate(s, c, p)

-------------------------------------------------------------------------------
(* handle_prefetch: the oldest entry of the prefetch queue.                *)

LowerPqFull(s, c) ==
  IF Lower(c) = "DRAM" THEN DramRqFull(s)
                       ELSE Len(s.pq[Lower(c)]) = PQ_SIZE[Lower(c)]

(* Only a prefetch that fills this level waits in its MSHR.                *)
PrefetchDown(s, c, p) ==
  LET s1 == IF p.fill_level <= FillLevel(c) THEN AddMshr(s, c, p) ELSE s
  IN  IF Lower(c) = "DRAM" THEN DramAddRq(s1, Plain(p)) ELSE AddPq(s1, Lower(c), Plain(p))

MutHandlePrefetch(c) ==
  /\ pq[c] # << >>
  /\ LET p == Head(pq[c])
         a == p.address
         s == PopPq(State, c)
     IN  \/ /\ InMshr(s, c, a)
            /\ Handler(SetMshr(s, c, MergeFill(s.mshr[c][a], p)))
         \/ /\ ~InMshr(s, c, a) /\ ~MshrFull(s, c)
            /\ ~LowerPqFull(s, c)
            /\ Handler(PrefetchDown(s, c, p))

HandlePrefetch(c) ==
  /\ pq[c] # << >>
  /\ LET p == Head(pq[c])
         a == p.address
         s == PopPq(State, c)
     IN  \/ /\ HitWays(s, c, a) # {}
            /\ Handler(ReturnUp(s, c, p))
         \/ /\ HitWays(s, c, a) = {} /\ InMshr(s, c, a)
            /\ Handler(SetMshr(s, c, MergeFill(s.mshr[c][a], p)))
         \/ /\ HitWays(s, c, a) = {} /\ ~InMshr(s, c, a) /\ ~MshrFull(s, c)
            /\ ~LowerPqFull(s, c)
            /\ Handler(PrefetchDown(s, c, p))

-------------------------------------------------------------------------------
(* handle_fill: an MSHR entry the lower level has answered.                *)

FillMshr(c, a) ==
  LET p == mshr[c][a]
  IN  \E w \in Victims(State, c) :
        /\ CanEvict(State, c, w)
        /\ LET s1 == FillCache(Evict(State, c, w), c, w, a, c = "L1D" /\ p.type = "RFO")
               s2 == Process(ReturnUp(s1, c, p), c, p)
           IN  Handler(RemoveMshr(s2, c, a))

(* The replacement policy may let a block pass by the LLC.                 *)
BypassLlc(c, a) ==
  /\ LLC_BYPASS /\ c = "LLC"
  /\ Handler(RemoveMshr(ReturnUp(State, c, mshr[c][a]), c, a))

HandleFill(c) ==
  \E a \in DOMAIN mshr[c] :
    /\ mshr[c][a].returned
    /\ FillMshr(c, a) \/ BypassLlc(c, a)

-------------------------------------------------------------------------------
(* The DRAM controller answers a read and completes a write.               *)

DramRead ==
  \E a \in dramRq : Handler([ReturnData(State, "LLC", a) EXCEPT !.dramRq = @ \ {a}])

DramWrite ==
  \E a \in dramWq : Handler([State EXCEPT !.dramWq = @ \ {a}])

-------------------------------------------------------------------------------
(* The core: complete_instr_fetch, complete_data_fetch and the handling of *)
(* the merged consumers take the head of a PROCESSED queue.                *)

Deliver(c) ==
  /\ processed[c] # << >>
  /\ Becomes([State EXCEPT !.processed[c] = Tail(@)])
  /\ done' = done \cup Head(processed[c])
  /\ UNCHANGED issued

Request(a, w, type, instr, level, waiters) ==
  [address |-> a, word |-> w, type |-> type, instruction |-> instr, is_data |-> ~instr,
   fill_l1i |-> instr, fill_l1d |-> ~instr /\ level = FILL_L1, fill_level |-> level,
   returned |-> FALSE, waiters |-> waiters]

(* What is still to be asked of the hierarchy.                             *)
More == issued.demand + issued.store + issued.prefetch < MaxIssued

(* add_rq would return -2, and the core tries again later.                 *)
Refused(c, p) ==
  /\ WqHits(State, c, p) = {} /\ QueueHits(rq[c], p.address) = {}
  /\ Len(rq[c]) = RQ_SIZE[c]

(* fetch_instruction, execute_load and the translations of both.           *)
Ask(c, a, w, type, instr) ==
  /\ c \in Caches /\ issued.demand < MaxDemand /\ More
  /\ LET p == Request(a, w, type, instr, FILL_L1, {issued.demand + 1})
     IN  /\ ~Refused(c, p)
         /\ Becomes(AddRq(State, c, p))
  /\ issued' = [issued EXCEPT !.demand = @ + 1]
  /\ UNCHANGED done

Fetch ==
  \E a \in CodeAddr : Ask("L1I", a, AnyWord, "LOAD", TRUE) \/ Ask("ITLB", a, AnyWord, "LOAD", TRUE)

Load == \E a \in DataAddr, w \in Word : Ask("L1D", a, w, "LOAD", FALSE)

Translate ==
  \E a \in DataAddr, type \in {"LOAD", "RFO"} : Ask("DTLB", a, AnyWord, type, FALSE)

(* retire_rob: a store leaves the core once the write queue has room.      *)
Store ==
  /\ "L1D" \in Caches /\ issued.store < MaxStore /\ More
  /\ Len(wq["L1D"]) < WQ_SIZE["L1D"]
  /\ \E a \in DataAddr, w \in Word :
       Becomes(AddWq(State, "L1D", Request(a, w, "RFO", FALSE, FILL_L1, {})))
  /\ issued' = [issued EXCEPT !.store = @ + 1]
  /\ UNCHANGED done

(* prefetch_line and prefetch_code_line, with the fill levels the          *)
(* prefetchers of each cache ask for.                                      *)
PrefetchLevels(c) ==
  CASE c \in {"L1I", "L1D"} -> {FILL_L1}
    [] c = "L2C" -> {FILL_L2, FILL_LLC}
    [] c = "LLC" -> {FILL_LLC}
    [] OTHER -> {}

(* The prefetchers of L2C and LLC run on every read, a fetch as well, and  *)
(* what they ask for they ask for as data (the defaults of PACKET).        *)
PrefetchAddr(c) ==
  CASE c = "L1I" -> CodeAddr [] c = "L1D" -> DataAddr [] OTHER -> CodeAddr \cup DataAddr

Prefetch(c) ==
  /\ issued.prefetch < MaxPrefetch /\ More /\ Len(pq[c]) < PQ_SIZE[c]
  /\ \E level \in PrefetchLevels(c), a \in PrefetchAddr(c) :
       Becomes(AddPq(State, c, Request(a, AnyWord, "PREFETCH", c = "L1I", level, {})))
  /\ issued' = [issued EXCEPT !.prefetch = @ + 1]
  /\ UNCHANGED done

-------------------------------------------------------------------------------
(* Nothing is queued, in flight or on its way to the core.                 *)
Quiet ==
  /\ \A c \in Caches : /\ rq[c] = << >> /\ wq[c] = << >> /\ pq[c] = << >>
                        /\ mshr[c] = << >> /\ processed[c] = << >>
  /\ dramRq = {} /\ dramWq = {}

(* The program is over: TLC's deadlock check reports every other standstill. *)
Finished == Quiet /\ UNCHANGED vars

HandlerOf(c) == HandleFill(c) \/ HandleWriteback(c) \/ HandleRead(c) \/ HandlePrefetch(c)

Next ==
  \/ \E c \in Caches : HandlerOf(c) \/ Deliver(c) \/ Prefetch(c)
  \/ DramRead \/ DramWrite
  \/ Fetch \/ Load \/ Translate \/ Store
  \/ Finished

Spec == Init /\ [][Next]_vars

(***************************************************************************)
(* main() calls operate() of every cache and of the DRAM controller, and   *)
(* the core's operate_cache, in every cycle; operate() tries each handler. *)
(* Nothing makes the core or a prefetcher ask for more.                    *)
(***************************************************************************)
Fairness ==
  /\ \A c \in Caches : /\ WF_vars(HandleFill(c)) /\ WF_vars(HandleWriteback(c))
                        /\ WF_vars(HandleRead(c)) /\ WF_vars(HandlePrefetch(c))
                        /\ WF_vars(Deliver(c))
  /\ WF_vars(DramRead) /\ WF_vars(DramWrite)

FairSpec == Spec /\ Fairness

-------------------------------------------------------------------------------
(* Properties.                                                             *)

QueueOk(q, size) == Len(q) <= size /\ \A k \in DOMAIN q : q[k] \in Packet

(* Every queue and every MSHR file keeps to its size, with well-formed     *)
(* packets, each miss filed under its own address (add_rq, add_mshr).      *)
TypeOK ==
  \A c \in Caches :
    /\ QueueOk(rq[c], RQ_SIZE[c]) /\ QueueOk(wq[c], WQ_SIZE[c]) /\ QueueOk(pq[c], PQ_SIZE[c])
    /\ Cardinality(DOMAIN mshr[c]) <= MSHR_SIZE[c]
    /\ \A a \in DOMAIN mshr[c] : mshr[c][a] \in Packet /\ mshr[c][a].address = a
    /\ \A w \in 1 .. WAYS[c] : block[c][w] \in Block
    /\ processed[c] \in Seq(SUBSET Demand)
    /\ issued.demand <= MaxDemand /\ done \subseteq Demand

(* No assert(0) is reached: no answer arrives for a miss that is not in    *)
(* the MSHR file (return_data), and nothing is written back to a full      *)
(* write queue (add_wq).                                                   *)
NoAssert == asserts = {}

(* The caches and the controller below c hold a packet that will answer    *)
(* the miss of c on block a.                                               *)
Answers(p, d, c) ==
  /\ p.fill_level < FillLevel(d)
  /\ IF FillLevel(d) = FILL_L2
     THEN \/ c = UpperInstr(d) /\ p.fill_l1i
          \/ c = UpperData(d) /\ p.fill_l1d
     ELSE p.instruction \/ p.is_data

Awaited(c, a) ==
  IF Lower(c) = "DRAM" THEN a \in dramRq
  ELSE LET d == Lower(c)
       IN  \/ \E k \in QueueHits(rq[d], a) : Answers(rq[d][k], d, c)
           \/ \E k \in QueueHits(pq[d], a) : Answers(pq[d][k], d, c)
           \/ InMshr(State, d, a) /\ Answers(mshr[d][a], d, c)

(* A miss that waits for its data has a packet below it that will bring    *)
(* the data: merging requests in the queues and the MSHRs of the lower     *)
(* levels (add_rq, add_pq, handle_read, handle_prefetch) never drops the   *)
(* obligation to answer the level above.  One that has its data is marked  *)
(* returned, by which update_fill_cycle finds it for handle_fill.          *)
NoOrphan ==
  \A c \in Caches : \A a \in DOMAIN mshr[c] : mshr[c][a].returned \/ Awaited(c, a)

Holders(d) ==
  UNION {{<< "rq", c, k >> : k \in {j \in DOMAIN rq[c] : d \in rq[c][j].waiters}} : c \in Caches}
  \cup UNION {{<< "mshr", c, a >> : a \in {b \in DOMAIN mshr[c] : d \in mshr[c][b].waiters}} : c \in Caches}
  \cup UNION {{<< "processed", c, k >> : k \in {j \in DOMAIN processed[c] : d \in processed[c][j]}} : c \in Caches}
  \cup (IF d \in done THEN {<< "done" >>} ELSE {})

(* An issued demand is in exactly one place, through every merge: it is    *)
(* never dropped and never answered twice (rob_, lq_ and                   *)
(* sq_index_depend_on_me of add_rq and handle_read, PROCESSED).            *)
Conserved == \A d \in 1 .. issued.demand : Cardinality(Holders(d)) = 1

(* No first-level cache, and no TLB, ever holds a block twice, although    *)
(* demand misses, stores and prefetches reach handle_fill on their own.    *)
OneCopy ==
  \A c \in (FirstLevel \cup {"STLB"}) \cap Caches :
    \A v, w \in 1 .. WAYS[c] :
      v # w /\ block[c][v].tag # NoAddr => block[c][v].tag # block[c][w].tag

Dirty(a) ==
  \/ a \in dramWq
  \/ \E c \in Caches : \E w \in 1 .. WAYS[c] : block[c][w] = [tag |-> a, dirty |-> TRUE]
  \/ \E c \in Caches \ {"L1D"} : QueueHits(wq[c], a) # {}

(* A modified block stays in the hierarchy, as a dirty block or a queued   *)
(* writeback, until the controller has written it: no eviction, fill or    *)
(* merge in a write queue loses it (handle_fill, handle_writeback).        *)
DirtyKept ==
  [][\A a \in Addr : Dirty(a) /\ ~Dirty(a)' => a \in dramWq /\ a \notin dramWq']_vars

(* Every demand the core issues is answered, under weak fairness of the    *)
(* handlers operate() calls in every cycle.                                *)
Served == \A d \in Demand : d <= issued.demand ~> d \in done

(* Once the core and the prefetchers ask for nothing more, every queue and *)
(* every MSHR drains: no cycle of full queues and no miss without answer.  *)
Drains == <>[]Quiet
===============================================================================
