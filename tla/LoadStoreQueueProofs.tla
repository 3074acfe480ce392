------------------------- MODULE LoadStoreQueueProofs -------------------------
(***************************************************************************)
(* The memory side of the out-of-order core, for any size of the ROB and   *)
(* of the load and store queues, any addresses and any traces: the core    *)
(* implements the in-order machine, its counters are exact, and every      *)
(* memory operation is in one place.                                       *)
(*                                                                         *)
(* The operators of LoadStoreQueue map a state of the core, a record, to   *)
(* the next, and one action applies several of them in turn.  So the       *)
(* invariant, LsqInv, is a predicate on records, and the lemmas say what   *)
(* one operator does to it:                                                *)
(*   Order, Tables, Entries  the ROB is a ring, with its fields' types;    *)
(*   LoadsHeld, StoresHeld   a slot and the operation in it name each      *)
(*                           other; a store keeps its slot (StoresStay);   *)
(*   Sourced, Awaited        the producer of a load is the last store      *)
(*                           before it, knows it and has yet to execute;   *)
(*   DepsSound               whoever waits for a store reads from it;      *)
(*   MemoryLast, SeenSound,  where data comes from, of memory, of a load   *)
(*   SeenAll                 that is done, and that none is left out;      *)
(*   Rings                   SQ is in program order, and STA after it;     *)
(*   Places                  each list holds the operations of one stage;  *)
(*   Counted, Tallied        the counters.                                 *)
(* R is the set of loads that are about to be served: between execute_store *)
(* and its last load, and for good after an assertion has failed, Awaited  *)
(* does not hold for them.  MemInv is LsqInv of the variables.             *)
(***************************************************************************)
EXTENDS ReorderBufferProofs

(* The entries in use of the ROB, the load queue and the store queue.      *)
Rob(s)   == {i \in Slots : s.ROB[i].id # NoId}
LqSlots  == 0 .. LQ_SIZE - 1
SqSlots  == 0 .. SQ_SIZE - 1
Loads(s)  == {q \in LqSlots : s.LQ[q].id # NoId}
Stores(s) == {x \in SqSlots : s.SQ[x].id # NoId}

(* Ring and the types of what it reads, of a record.                       *)
Count(s) == s.dispatched - s.retired

Order(s) ==
  /\ Shaped(s) /\ s.program \in Programs /\ s.head \in Slots
  /\ s.retired \in Nat /\ s.dispatched \in s.retired .. Len(s.program) /\ Count(s) <= ROB_SIZE
  /\ \A k \in 1 .. Count(s) : s.ROB[At(s.head, k)].id = s.retired + k
  /\ \A k \in 1 .. ROB_SIZE : k > Count(s) => s.ROB[At(s.head, k)].id = NoId

LoadFields  == DOMAIN EmptyLoad
StoreFields == DOMAIN EmptyStore

Tables(s) ==
  /\ DOMAIN s.LQ = LqSlots /\ DOMAIN s.SQ = SqSlots
  /\ \A q \in LqSlots : DOMAIN s.LQ[q] = LoadFields /\ (q \notin Loads(s) => s.LQ[q].producer_id = NoId)
  /\ \A x \in SqSlots : DOMAIN s.SQ[x] = StoreFields
  /\ s.memory \in [Addr -> Nat]
  /\ s.asserts \subseteq {"producer_id"}
  /\ s.wq \in 0 .. WQ_SIZE

(* The entries of the ROB: places of an entry in use, and nothing in one   *)
(* that is not.                                                            *)
Entries(s) ==
  /\ \A i \in Rob(s) :
       /\ s.ROB[i].lq \in [DOMAIN Code(s, i).loads -> LqSlots \cup {NoIndex}]
       /\ s.ROB[i].sq \in [DOMAIN Code(s, i).stores -> SqSlots \cup {NoIndex}]
  /\ \A i \in Slots \ Rob(s) : s.ROB[i].num_mem_ops = 0 /\ s.ROB[i].mem_deps = {}

(* Each entry of a queue is an operation of the instruction it names.      *)
LoadsHeld(s) ==
  \A q \in Loads(s) :
    /\ s.LQ[q].rob_index \in Rob(s) /\ s.ROB[s.LQ[q].rob_index].id = s.LQ[q].id
    /\ s.LQ[q].data_index \in DOMAIN Code(s, s.LQ[q].rob_index).loads
    /\ s.ROB[s.LQ[q].rob_index].lq[s.LQ[q].data_index] = q

StoresHeld(s) ==
  \A x \in Stores(s) :
    /\ s.SQ[x].rob_index \in Rob(s) /\ s.ROB[s.SQ[x].rob_index].id = s.SQ[x].id
    /\ s.SQ[x].data_index \in DOMAIN Code(s, s.SQ[x].rob_index).stores
    /\ s.ROB[s.SQ[x].rob_index].sq[s.SQ[x].data_index] = x

(* A store stays in its queue until its instruction retires.               *)
StoresStay(s) ==
  \A i \in Rob(s) : \A k \in DOMAIN Code(s, i).stores :
    s.ROB[i].sq[k] # NoIndex =>
      s.SQ[s.ROB[i].sq[k]].id = s.ROB[i].id /\ s.SQ[s.ROB[i].sq[k]].data_index = k

(* The producer of a load is the last store before it, or has retired.     *)
Sourced(s) ==
  \A q \in Loads(s) :
    IF s.LQ[q].producer_id = NoId
    THEN \A k \in s.retired + 1 .. s.LQ[q].id - 1 : LoadAddr(s, q) \notin Range(s.program[k].stores)
    ELSE LastStore(s.program, s.LQ[q].producer_id, s.LQ[q].id, LoadAddr(s, q))

Key(s, q) == << s.LQ[q].rob_index, s.LQ[q].data_index >>

Executed(s, p, k) == s.ROB[p].sq[k] # NoIndex /\ s.SQ[s.ROB[p].sq[k]].fetched = COMPLETED

(* A load with a producer is known to it, and waits for a store that has   *)
(* not executed; those in R may wait for one that has.                     *)
Finds(s, q, p, R) ==
  /\ s.ROB[p].id = s.LQ[q].producer_id /\ s.LQ[q].rob_index \in s.ROB[p].mem_deps
  /\ \E k \in DOMAIN Code(s, p).stores :
       Code(s, p).stores[k] = LoadAddr(s, q) /\ (Executed(s, p, k) => Key(s, q) \in R)

Awaited(s, R) ==
  \A q \in Loads(s) : s.LQ[q].producer_id # NoId => \E p \in Rob(s) : Finds(s, q, p, R)

DepsSound(s) ==
  \A p \in Rob(s) : \A i \in s.ROB[p].mem_deps :
    /\ i \in Rob(s)
    /\ \E h \in DOMAIN Code(s, i).loads :
         LastStore(s.program, s.ROB[p].id, s.ROB[i].id, Code(s, i).loads[h])

MemoryLast(s) == \A a \in Addr : LastStore(s.program, s.memory[a], s.retired + 1, a)

SeenSound(s) ==
  \A o \in s.seen :
    /\ o = [id |-> o.id, op |-> o.op, from |-> o.from]
    /\ o.id \in 1 .. s.dispatched /\ o.op \in DOMAIN s.program[o.id].loads
    /\ o.from \in Nat /\ LastStore(s.program, o.from, o.id, s.program[o.id].loads[o.op])

InQueue(s, i, j) == s.LQ[s.ROB[i].lq[j]].id = s.ROB[i].id /\ s.LQ[s.ROB[i].lq[j]].data_index = j

(* What a load that has left its queue has seen is on record.              *)
SeenAll(s) ==
  \A i \in Rob(s) : \A j \in DOMAIN Code(s, i).loads :
    s.ROB[i].lq[j] # NoIndex /\ ~InQueue(s, i, j)
      => \E o \in s.seen : o.id = s.ROB[i].id /\ o.op = j

(* The operations num_mem_ops counts.                                      *)
PendingLoads(s, i) ==
  {j \in DOMAIN Code(s, i).loads : s.ROB[i].lq[j] = NoIndex \/ InQueue(s, i, j)}
PendingStores(s, i) ==
  {k \in DOMAIN Code(s, i).stores : ~Executed(s, i, k)}

Counted(s) ==
  \A i \in Rob(s) :
    s.ROB[i].num_mem_ops = Cardinality(PendingLoads(s, i)) + Cardinality(PendingStores(s, i))

ToComplete(s) == {i \in Rob(s) : IsMemory(s, i) /\ s.ROB[i].num_mem_ops = 0 /\ s.ROB[i].executed # COMPLETED}
Executing(s)  == {i \in Rob(s) : ~IsMemory(s, i) /\ s.ROB[i].executed = INFLIGHT}

Tallied(s) ==
  /\ \A i \in Rob(s) : IsMemory(s, i) /\ s.ROB[i].executed = COMPLETED => s.ROB[i].num_mem_ops = 0
  /\ s.inflight_mem = Cardinality(ToComplete(s)) /\ s.inflight_reg = Cardinality(Executing(s))

(* Every list holds the operations of one stage, once.                     *)
Enumerates(l, S) == l \in Seq(S) /\ IsInjective(l) /\ Range(l) = S

LoadAt(s, tr, fe) ==
  {q \in Loads(s) : s.LQ[q].producer_id = NoId /\ s.LQ[q].translated = tr /\ s.LQ[q].fetched = fe}
StoreAt(s, tr, fe) ==
  {x \in Stores(s) : s.SQ[x].translated = tr /\ s.SQ[x].fetched = fe}

LoadStages(s) ==
  /\ Enumerates(s.RTL0, LoadAt(s, 0, 0)) /\ Enumerates(s.RTL1, LoadAt(s, COMPLETED, 0))
  /\ s.l1d = LoadAt(s, COMPLETED, INFLIGHT)
  /\ \A q \in Loads(s) : s.LQ[q].producer_id = NoId =>
       q \in LoadAt(s, 0, 0) \cup LoadAt(s, INFLIGHT, 0) \cup LoadAt(s, COMPLETED, 0) \cup LoadAt(s, COMPLETED, INFLIGHT)

StoreStages(s) ==
  /\ Enumerates(s.RTS0, StoreAt(s, 0, 0)) /\ Enumerates(s.RTS1, StoreAt(s, COMPLETED, 0))
  /\ \A x \in Stores(s) :
       x \in StoreAt(s, 0, 0) \cup StoreAt(s, INFLIGHT, 0) \cup StoreAt(s, COMPLETED, 0) \cup StoreAt(s, COMPLETED, COMPLETED)

Translating(s) ==
  s.dtlb = {<< "load", q >> : q \in LoadAt(s, INFLIGHT, 0)} \cup {<< "store", x >> : x \in StoreAt(s, INFLIGHT, 0)}

(* The slot of the k-th youngest store.                                    *)
Back(h, k) == IF k <= h THEN h - k ELSE h - k + SQ_SIZE

StoreRing(s) ==
  /\ s.sq_tail \in SqSlots
  /\ \E n \in 0 .. SQ_SIZE :
       /\ Stores(s) = {Back(s.sq_tail, k) : k \in 1 .. n}
       /\ \A k \in 1 .. n, m \in 1 .. n : k <= m => s.SQ[Back(s.sq_tail, m)].id <= s.SQ[Back(s.sq_tail, k)].id

(* The stores that are not in the queue yet are younger than those in it.  *)
StoresWait(s) ==
  /\ s.STA \in Seq(Nat)
  /\ \A k \in DOMAIN s.STA : s.STA[k] <= s.dispatched
  /\ \A k \in DOMAIN s.STA, m \in DOMAIN s.STA : k <= m => s.STA[k] <= s.STA[m]
  /\ \A k \in DOMAIN s.STA, x \in Stores(s) : s.SQ[x].id <= s.STA[k]

Held2(s) == Order(s) /\ Tables(s) /\ Entries(s) /\ LoadsHeld(s) /\ StoresHeld(s) /\ StoresStay(s)
Flow(s) == Sourced(s) /\ DepsSound(s) /\ MemoryLast(s) /\ SeenSound(s) /\ SeenAll(s)
Rings(s) == StoreRing(s) /\ StoresWait(s)
Places(s) == LoadStages(s) /\ StoreStages(s) /\ Translating(s)

LsqInv(s, R) == Held2(s) /\ Flow(s) /\ Awaited(s, R) /\ Rings(s) /\ Counted(s) /\ Places(s) /\ Tallied(s)

(* What a store that finds a load of an instruction it feeds relies on.    *)
SeenExecuted(s) ==
  \A o \in s.seen, p \in Rob(s) : s.ROB[p].id = o.from =>
    \E k \in DOMAIN Code(s, p).stores :
      Code(s, p).stores[k] = s.program[o.id].loads[o.op] /\ Executed(s, p, k)

Excused == IF asserts = {} THEN {} ELSE Slots \X (1 .. NUM_INSTR_SOURCES)

MemInv == LsqInv(State, Excused)
ApartInv == StoresApart => asserts = {} /\ SeenExecuted(State)

-------------------------------------------------------------------------------
(* The order of the entries, in a record.                                  *)

KeepsOrder(s, t) ==
  /\ Shaped(t) /\ t.program = s.program /\ t.head = s.head
  /\ t.retired = s.retired /\ t.dispatched = s.dispatched
  /\ \A p \in Slots : t.ROB[p].id = s.ROB[p].id

LEMMA QueueSizes ==
  /\ LQ_SIZE \in Nat /\ LQ_SIZE >= 1 /\ SQ_SIZE \in Nat /\ SQ_SIZE >= 1 /\ WQ_SIZE \in Nat
  /\ NoIndex \notin LqSlots /\ NoIndex \notin SqSlots
<1>1. LQ_SIZE \in Nat /\ LQ_SIZE >= 1 /\ SQ_SIZE \in Nat /\ SQ_SIZE >= 1 /\ WQ_SIZE \in Nat
  BY SizeAssumption
<1> QED BY <1>1 DEF NoIndex, LqSlots, SqSlots

LEMMA OrderSame ==
  ASSUME NEW s, NEW t, Order(s), KeepsOrder(s, t)
  PROVE  Order(t) /\ Rob(t) = Rob(s) /\ (\A i \in Slots : Code(t, i) = Code(s, i)) /\ Count(t) = Count(s)
<1>1. Rob(t) = Rob(s) /\ (\A i \in Slots : Code(t, i) = Code(s, i)) /\ Count(t) = Count(s)
  BY DEF Rob, Code, Count, KeepsOrder
<1>2. Count(s) \in Nat /\ Count(s) <= ROB_SIZE
  BY DEF Order, Count
<1>3. \A k \in 1 .. ROB_SIZE : At(s.head, k) \in Slots
  <2>1. \A k \in 1 .. ROB_SIZE : k \in 1 .. ROB_SIZE + 1
    BY Size
  <2> QED BY <2>1, AtSlots DEF Order
<1>4. \A k \in 1 .. ROB_SIZE : t.ROB[At(t.head, k)].id = s.ROB[At(s.head, k)].id
  BY <1>3 DEF KeepsOrder
<1>5. \A k \in 1 .. Count(s) : k \in 1 .. ROB_SIZE
  BY <1>2, Size
<1> QED BY <1>1, <1>4, <1>5 DEF Order, KeepsOrder

LEMMA OrderAlike ==
  ASSUME NEW s, NEW t, NEW i, Alike(s, t, i)
  PROVE  KeepsOrder(s, t)
BY DEF Alike, SameCore, SameEntry, KeepsOrder

LEMMA OrderCounts ==
  ASSUME NEW s, Order(s)
  PROVE  /\ Count(s) \in Nat /\ Count(s) <= ROB_SIZE /\ s.retired \in Nat /\ s.dispatched \in Nat
         /\ s.retired + Count(s) = s.dispatched /\ s.head \in Slots
         /\ s.program \in Seq(Instr) /\ s.dispatched <= Len(s.program) /\ Len(s.program) \in Nat
         /\ DOMAIN s.program = 1 .. Len(s.program)
<1>1. s.program \in Seq(Instr)
  BY ProgramAssumption DEF Order
<1>2. Len(s.program) \in Nat /\ DOMAIN s.program = 1 .. Len(s.program)
  BY <1>1, LenProperties
<1> QED BY <1>1, <1>2 DEF Order, Count

(* An instruction of the trace, and one in flight.                         *)
LEMMA InstrIs ==
  ASSUME NEW s, Order(s), NEW n \in DOMAIN s.program
  PROVE  /\ s.program[n] \in Instr
         /\ s.program[n].loads \in Seq(Addr) /\ s.program[n].stores \in Seq(Addr)
         /\ Len(s.program[n].loads) \in Nat /\ Len(s.program[n].stores) \in Nat
         /\ DOMAIN s.program[n].loads = 1 .. Len(s.program[n].loads)
         /\ DOMAIN s.program[n].stores = 1 .. Len(s.program[n].stores)
         /\ DOMAIN s.program[n].loads \subseteq 1 .. NUM_INSTR_SOURCES
<1>1. s.program \in Seq(Instr) /\ DOMAIN s.program = 1 .. Len(s.program)
  BY OrderCounts
<1>2. s.program[n] \in Instr
  BY <1>1, ElementOfSeq
<1>3. s.program[n].loads \in Seq(Addr) /\ s.program[n].stores \in Seq(Addr)
  BY <1>2 DEF Instr
<1>4. /\ Len(s.program[n].loads) \in Nat /\ Len(s.program[n].stores) \in Nat
      /\ DOMAIN s.program[n].loads = 1 .. Len(s.program[n].loads)
      /\ DOMAIN s.program[n].stores = 1 .. Len(s.program[n].stores)
  BY <1>3, LenProperties
<1>5. Len(s.program[n].loads) <= NUM_INSTR_SOURCES
  BY ProgramAssumption DEF Order
<1>6. \A m \in Nat : m <= NUM_INSTR_SOURCES => 1 .. m \subseteq 1 .. NUM_INSTR_SOURCES
  BY DEF NUM_INSTR_SOURCES
<1> QED BY <1>2, <1>3, <1>4, <1>5, <1>6

LEMMA LiveAt ==
  ASSUME NEW s, Order(s), NEW i \in Rob(s)
  PROVE  /\ i \in Slots /\ s.ROB[i].id \in Nat /\ s.ROB[i].id >= s.retired + 1
         /\ s.ROB[i].id <= s.dispatched /\ s.ROB[i].id \in DOMAIN s.program
         /\ Place(s.head, i) \in 1 .. Count(s) /\ s.ROB[i].id = s.retired + Place(s.head, i)
         /\ Code(s, i) = s.program[s.ROB[i].id]
<1>0. /\ Count(s) \in Nat /\ Count(s) <= ROB_SIZE /\ s.retired \in Nat /\ s.dispatched \in Nat
      /\ s.retired + Count(s) = s.dispatched /\ s.head \in Slots
      /\ s.dispatched <= Len(s.program) /\ Len(s.program) \in Nat /\ DOMAIN s.program = 1 .. Len(s.program)
  BY OrderCounts
<1>1. i \in Slots /\ s.ROB[i].id # NoId
  BY DEF Rob
<1> DEFINE k == Place(s.head, i)
<1>2. k \in 1 .. ROB_SIZE /\ At(s.head, k) = i
  BY <1>0, <1>1, PlaceIs
<1> HIDE DEF k
<1>3. k <= Count(s)
  <2>1. ~(k > Count(s))
    BY <1>1, <1>2 DEF Order
  <2> QED BY <1>0, <1>2, <2>1, Size
<1>4. k \in 1 .. Count(s)
  BY <1>0, <1>2, <1>3
<1>5. s.ROB[i].id = s.retired + k
  BY <1>2, <1>4 DEF Order
<1>6. s.ROB[i].id \in Nat /\ s.ROB[i].id >= s.retired + 1 /\ s.ROB[i].id <= s.dispatched
  BY <1>0, <1>4, <1>5
<1>7. s.ROB[i].id \in 1 .. Len(s.program)
  BY <1>0, <1>6
<1> QED BY <1>0, <1>1, <1>4, <1>5, <1>6, <1>7 DEF k, Code

LEMMA LiveHolder ==
  ASSUME NEW s, Order(s), NEW n \in Nat, n >= s.retired + 1, n <= s.dispatched
  PROVE  /\ At(s.head, n - s.retired) \in Rob(s) /\ s.ROB[At(s.head, n - s.retired)].id = n
         /\ n - s.retired \in 1 .. Count(s)
<1>0. /\ Count(s) \in Nat /\ Count(s) <= ROB_SIZE /\ s.retired \in Nat /\ s.dispatched \in Nat
      /\ s.retired + Count(s) = s.dispatched /\ s.head \in Slots
  BY OrderCounts
<1>1. n - s.retired \in 1 .. Count(s) /\ n - s.retired \in 1 .. ROB_SIZE + 1 /\ s.retired + (n - s.retired) = n
  BY <1>0, Size
<1>2. s.ROB[At(s.head, n - s.retired)].id = n
  BY <1>1 DEF Order
<1>3. At(s.head, n - s.retired) \in Slots
  BY <1>0, <1>1, AtSlots
<1>4. n # NoId
  BY <1>0 DEF NoId
<1> QED BY <1>1, <1>2, <1>3, <1>4 DEF Rob

LEMMA LiveOne ==
  ASSUME NEW s, Order(s), NEW i \in Rob(s), NEW p \in Rob(s), s.ROB[i].id = s.ROB[p].id
  PROVE  i = p
<1> DEFINE k == Place(s.head, i)
           m == Place(s.head, p)
<1>1. /\ s.ROB[i].id = s.retired + k /\ k \in 1 .. Count(s) /\ i \in Slots
      /\ s.ROB[p].id = s.retired + m /\ m \in 1 .. Count(s) /\ p \in Slots
  BY LiveAt
<1>2. s.retired \in Nat /\ Count(s) \in Nat /\ s.head \in Slots
  BY OrderCounts
<1>3. At(s.head, k) = i /\ At(s.head, m) = p
  BY <1>1, <1>2, PlaceIs
<1> HIDE DEF k, m
<1>4. s.retired + k = s.retired + m /\ k \in Int /\ m \in Int /\ s.retired \in Int
  <2>1. \A x \in 1 .. Count(s) : x \in Int
    BY <1>2
  <2>2. s.retired + k = s.retired + m
    BY <1>1
  <2> QED BY <1>1, <1>2, <2>1, <2>2
<1>5. k = m
  BY ONLY <1>4
<1> QED BY <1>3, <1>5

LEMMA LastStoreOne ==
  ASSUME NEW t, NEW n \in Nat, NEW a, NEW m \in Nat, NEW k \in Nat,
         LastStore(t, m, n, a), LastStore(t, k, n, a)
  PROVE  m = k
<1>1. ASSUME NEW x \in Nat, NEW y \in Nat, LastStore(t, x, n, a), LastStore(t, y, n, a), x < y PROVE FALSE
  <2>1. y \in x + 1 .. n - 1
    BY <1>1 DEF LastStore
  <2>2. y # NoId
    BY <1>1 DEF NoId
  <2>3. a \in Range(t[y].stores)
    BY <1>1, <2>2 DEF LastStore
  <2> QED BY <1>1, <2>1, <2>3 DEF LastStore
<1> QED BY <1>1

(* As Wrap, below zero.                                                    *)
LEMMA WrapBelow ==
  ASSUME NEW z \in Nat, z >= 1, NEW x \in Int, x < z, 0 - z <= x
  PROVE  x % z = IF x < 0 THEN x + z ELSE x
<1>1. CASE x < 0
  BY <1>1
<1>2. CASE ~(x < 0)
  BY <1>2
<1> QED BY <1>1, <1>2

-------------------------------------------------------------------------------
(* add_load_queue looks for the youngest older store.                      *)

LEMMA BeforeIs ==
  ASSUME NEW s, Order(s), NEW i \in Rob(s)
  PROVE  /\ Distance(s, i) = Place(s.head, i) - 1
         /\ \A d \in 1 .. Place(s.head, i) - 1 :
              /\ Before(i, d) \in Rob(s) /\ s.ROB[Before(i, d)].id = s.ROB[i].id - d
              /\ Code(s, Before(i, d)) = s.program[s.ROB[i].id - d]
<1> DEFINE K == Place(s.head, i)
           h == s.head
<1>1. /\ Count(s) \in Nat /\ Count(s) <= ROB_SIZE /\ s.retired \in Nat /\ h \in Slots
  BY OrderCounts
<1>2. i \in Slots /\ K \in 1 .. Count(s) /\ s.ROB[i].id = s.retired + K
  BY LiveAt
<1>3. K = IF h <= i THEN i - h + 1 ELSE i - h + 1 + ROB_SIZE
  BY DEF Place
<1>4. /\ i \in Int /\ 0 <= i /\ i <= ROB_SIZE - 1 /\ h \in Int /\ 0 <= h /\ h <= ROB_SIZE - 1
      /\ ROB_SIZE \in Nat /\ ROB_SIZE >= 1
  BY <1>1, <1>2, SlotIs, Size
<1> HIDE DEF K, h
<1>5. K \in Int /\ 1 <= K /\ K <= ROB_SIZE /\ K <= Count(s)
  BY <1>1, <1>2, <1>4
<1>6. Distance(s, i) = K - 1
  <2> DEFINE x == i - h
  <2>1. x \in Int /\ x < ROB_SIZE /\ 0 - ROB_SIZE <= x
    BY <1>4
  <2>2. K - 1 = IF x < 0 THEN x + ROB_SIZE ELSE x
    BY <1>3, <1>4
  <2> HIDE DEF x
  <2>3. x % ROB_SIZE = IF x < 0 THEN x + ROB_SIZE ELSE x
    BY <1>4, <2>1, WrapBelow
  <2> QED BY <2>2, <2>3 DEF Distance, x, h
<1>7. ASSUME NEW d \in 1 .. K - 1
      PROVE  Before(i, d) = At(h, K - d) /\ K - d \in 1 .. Count(s) /\ K - d \in 1 .. ROB_SIZE + 1
  <2>0. d \in Int /\ 1 <= d /\ d <= K - 1
    BY <1>5
  <2>1. K - d \in 1 .. Count(s) /\ K - d \in 1 .. ROB_SIZE + 1
    BY <1>1, <1>4, <1>5, <2>0
  <2> DEFINE x == i - d
  <2>2. x \in Int /\ x < ROB_SIZE /\ 0 - ROB_SIZE <= x
    BY <1>4, <1>5, <2>0
  <2>3. At(h, K - d) = IF x < 0 THEN x + ROB_SIZE ELSE x
    BY <1>3, <1>4, <1>5, <2>0 DEF At
  <2> HIDE DEF x
  <2>4. x % ROB_SIZE = IF x < 0 THEN x + ROB_SIZE ELSE x
    BY <1>4, <2>2, WrapBelow
  <2> QED BY <2>1, <2>3, <2>4 DEF Before, x
<1>8. ASSUME NEW d \in 1 .. K - 1
      PROVE  /\ Before(i, d) \in Rob(s) /\ s.ROB[Before(i, d)].id = s.ROB[i].id - d
             /\ Code(s, Before(i, d)) = s.program[s.ROB[i].id - d]
  <2>0. d \in Int /\ 1 <= d /\ d <= K - 1
    BY <1>5
  <2>1. s.ROB[At(h, K - d)].id = s.retired + (K - d)
    BY <1>7 DEF Order, h
  <2>2. s.retired + (K - d) = s.ROB[i].id - d /\ s.ROB[i].id - d # 0
    BY <1>1, <1>2, <1>5, <2>0
  <2>3. At(h, K - d) \in Slots
    BY <1>1, <1>7, AtSlots
  <2> QED BY <1>7, <2>1, <2>2, <2>3 DEF Rob, Code, NoId
<1> QED BY <1>6, <1>8 DEF K

LEMMA ProducerIs ==
  ASSUME NEW s, Order(s), NEW i \in Rob(s), NEW a
  PROVE  /\ Producer(s, i, a) = NoIndex =>
              \A m \in s.retired + 1 .. s.ROB[i].id - 1 : a \notin Range(s.program[m].stores)
         /\ Producer(s, i, a) # NoIndex =>
              /\ Producer(s, i, a) \in Rob(s)
              /\ LastStore(s.program, s.ROB[Producer(s, i, a)].id, s.ROB[i].id, a)
<1> DEFINE K == Place(s.head, i)
           n == s.ROB[i].id
           p == Producer(s, i, a)
           D == {d \in 1 .. Distance(s, i) : a \in Range(Code(s, Before(i, d)).stores)}
           E == {d \in 1 .. K - 1 : a \in Range(s.program[n - d].stores)}
<1>1. Count(s) \in Nat /\ s.retired \in Nat
  BY OrderCounts
<1>2. i \in Slots /\ K \in 1 .. Count(s) /\ n = s.retired + K /\ n \in Nat
  BY LiveAt
<1>3. \A d \in 1 .. K - 1 : /\ Before(i, d) \in Rob(s) /\ s.ROB[Before(i, d)].id = n - d
                            /\ Code(s, Before(i, d)) = s.program[n - d]
  BY BeforeIs
<1>4. D = E
  BY <1>3, BeforeIs
<1>5. p = IF E = {} THEN NoIndex ELSE Before(i, Min(E))
  <2>1. p = IF D = {} THEN NoIndex ELSE Before(i, Min(D))
    BY DEF Producer
  <2> HIDE DEF p, D, E
  <2> QED BY <1>4, <2>1
<1> HIDE DEF D, K, n, p
<1>6. K \in Int /\ 1 <= K /\ n \in Int /\ n = s.retired + K /\ s.retired \in Int
  BY <1>1, <1>2
<1>7. ASSUME NEW m \in s.retired + 1 .. n - 1
      PROVE  n - m \in 1 .. K - 1 /\ n - (n - m) = m /\ m \in Int
  BY <1>6
<1>8. CASE E = {}
  <2>1. ASSUME NEW m \in s.retired + 1 .. n - 1, a \in Range(s.program[m].stores) PROVE FALSE
    <3>1. n - m \in E
      BY <1>7, <2>1
    <3> QED BY <1>8, <3>1
  <2> QED BY <1>5, <1>8, <2>1 DEF n, p
<1>9. CASE E # {}
  <2> DEFINE d == Min(E)
  <2>1. d \in E /\ \A y \in E : d <= y
    <3>1. E \subseteq Nat
      BY <1>6
    <3> HIDE DEF E
    <3> QED BY <1>9, <3>1, LeastIs
  <2> HIDE DEF d
  <2>2. d \in 1 .. K - 1 /\ d \in Int /\ 1 <= d /\ a \in Range(s.program[n - d].stores)
    BY <1>6, <2>1
  <2>3. p = Before(i, d)
    <3> HIDE DEF E
    <3> QED BY <1>5, <1>9 DEF d
  <2>4. p \in Rob(s) /\ s.ROB[p].id = n - d
    BY <1>3, <2>2, <2>3
  <2>5. ASSUME NEW m \in (n - d) + 1 .. n - 1, a \in Range(s.program[m].stores) PROVE FALSE
    <3>1. m \in Int /\ n - m \in 1 .. K - 1 /\ n - (n - m) = m /\ ~(d <= n - m)
      BY <1>6, <2>2
    <3>2. n - m \in E
      BY <2>5, <3>1
    <3> QED BY <2>1, <3>1, <3>2
  <2>6. n - d < n
    BY <1>6, <2>2
  <2>7. LastStore(s.program, n - d, n, a)
    BY <2>2, <2>5, <2>6 DEF LastStore
  <2> HIDE DEF E
  <2>8. p # NoIndex
    BY <2>4 DEF Rob, Slots, NoIndex
  <2> QED BY <2>4, <2>7, <2>8 DEF n, p
<1> QED BY <1>8, <1>9

-------------------------------------------------------------------------------
(* Lists without repetition.                                               *)

LEMMA EmptyList ==
  Enumerates(<< >>, {})
BY DEF Enumerates, IsInjective, Range

LEMMA ListSubset ==
  ASSUME NEW S, NEW l, Enumerates(l, S)
  PROVE  l \in Seq(S) /\ IsInjective(l) /\ Range(l) = S
BY DEF Enumerates

LEMMA ListOf ==
  ASSUME NEW S, NEW T, NEW l \in Seq(T), IsInjective(l), Range(l) = S
  PROVE  Enumerates(l, S)
<1>1. l \in Seq(S)
  <2>1. Len(l) \in Nat /\ DOMAIN l = 1 .. Len(l) /\ l = [k \in 1 .. Len(l) |-> l[k]]
    BY LenProperties, SeqDef
  <2>2. \A k \in 1 .. Len(l) : l[k] \in S
    BY <2>1 DEF Range
  <2> QED BY <2>1, <2>2, SeqDef
<1> QED BY <1>1 DEF Enumerates

LEMMA ListHead ==
  ASSUME NEW S, NEW l, Enumerates(l, S), l # << >>
  PROVE  Head(l) \in S /\ Enumerates(Tail(l), S \ {Head(l)})
<1>1. l \in Seq(S) /\ IsInjective(l) /\ Range(l) = S
  BY DEF Enumerates
<1>2. /\ Tail(l) \in Seq(S) /\ IsInjective(Tail(l)) /\ Head(l) \in S
      /\ Range(Tail(l)) = S \ {Head(l)}
  BY <1>1, TakeHead
<1> QED BY <1>2, ListOf

LEMMA ListAppend ==
  ASSUME NEW S, NEW l, Enumerates(l, S), NEW x, x \notin S
  PROVE  Enumerates(Append(l, x), S \cup {x})
<1> DEFINE T == S \cup {x}
<1>1. l \in Seq(S) /\ IsInjective(l) /\ Range(l) = S
  BY DEF Enumerates
<1>2. l \in Seq(T)
  <2>1. Len(l) \in Nat /\ l \in [1 .. Len(l) -> S]
    BY <1>1, LenProperties
  <2>2. l \in [1 .. Len(l) -> T]
    BY <2>1
  <2> HIDE DEF T
  <2> QED BY <2>1, <2>2, SeqDef
<1>3. x \in T /\ x \notin Range(l)
  BY <1>1
<1> HIDE DEF T
<1>4. Append(l, x) \in Seq(T) /\ IsInjective(Append(l, x)) /\ Range(Append(l, x)) = Range(l) \cup {x}
  BY <1>1, <1>2, <1>3, OneMore
<1> QED BY <1>1, <1>4, ListOf DEF T

-------------------------------------------------------------------------------
(* Steps that move operations on, and change nothing of what they are.     *)

SameLoad(e, f) ==
  /\ DOMAIN f = LoadFields /\ f.id = e.id /\ f.data_index = e.data_index
  /\ f.rob_index = e.rob_index /\ f.producer_id = e.producer_id

SameStore(e, f) ==
  /\ DOMAIN f = StoreFields /\ f.id = e.id /\ f.data_index = e.data_index
  /\ f.rob_index = e.rob_index /\ f.fetched = e.fetched

Calm(s, t) ==
  /\ KeepsOrder(s, t)
  /\ \A p \in Slots : /\ SamePlaces(s.ROB[p], t.ROB[p]) /\ t.ROB[p].mem_deps = s.ROB[p].mem_deps
                      /\ t.ROB[p].num_mem_ops = s.ROB[p].num_mem_ops
  /\ DOMAIN t.LQ = LqSlots /\ \A q \in LqSlots : SameLoad(s.LQ[q], t.LQ[q])
  /\ DOMAIN t.SQ = SqSlots /\ \A x \in SqSlots : SameStore(s.SQ[x], t.SQ[x])
  /\ t.sq_tail = s.sq_tail /\ t.STA = s.STA /\ t.memory = s.memory /\ t.seen = s.seen
  /\ t.asserts = s.asserts

Kept(s, R) == Held2(s) /\ Flow(s) /\ Awaited(s, R) /\ Rings(s) /\ Counted(s)

(* The places of a live entry.                                             *)
LEMMA PlacesAre ==
  ASSUME NEW s, Entries(s), NEW i \in Rob(s)
  PROVE  /\ \A j \in DOMAIN Code(s, i).loads : s.ROB[i].lq[j] \in LqSlots \cup {NoIndex}
         /\ \A k \in DOMAIN Code(s, i).stores : s.ROB[i].sq[k] \in SqSlots \cup {NoIndex}
BY DEF Entries

LEMMA CalmViews ==
  ASSUME NEW s, NEW t, Order(s), Entries(s), LoadsHeld(s), StoresHeld(s), Calm(s, t)
  PROVE  /\ Order(t) /\ Rob(t) = Rob(s) /\ Loads(t) = Loads(s) /\ Stores(t) = Stores(s)
         /\ Rob(s) \subseteq Slots /\ Loads(s) \subseteq LqSlots /\ Stores(s) \subseteq SqSlots
         /\ \A i \in Rob(s) : Code(t, i) = Code(s, i)
         /\ \A q \in Loads(s) : LoadAddr(t, q) = LoadAddr(s, q) /\ Key(t, q) = Key(s, q)
         /\ \A p \in Rob(s) : \A k \in DOMAIN Code(s, p).stores : Executed(t, p, k) <=> Executed(s, p, k)
         /\ \A p \in Rob(s) : \A j \in DOMAIN Code(s, p).loads :
              s.ROB[p].lq[j] # NoIndex => (InQueue(t, p, j) <=> InQueue(s, p, j))
<1>1. /\ Order(t) /\ Rob(t) = Rob(s) /\ \A i \in Slots : Code(t, i) = Code(s, i)
  BY OrderSame DEF Calm
<1>2. Loads(t) = Loads(s) /\ Stores(t) = Stores(s)
  BY DEF Calm, Loads, Stores, SameLoad, SameStore
<1>3. Rob(s) \subseteq Slots /\ Loads(s) \subseteq LqSlots /\ Stores(s) \subseteq SqSlots
  BY DEF Rob, Loads, Stores
<1>4. \A q \in Loads(s) : LoadAddr(t, q) = LoadAddr(s, q) /\ Key(t, q) = Key(s, q)
  BY Zenon, <1>3 DEF LoadAddr, Key, Calm, SameLoad, KeepsOrder
<1>5. ASSUME NEW p \in Rob(s), NEW k \in DOMAIN Code(s, p).stores
      PROVE  Executed(t, p, k) <=> Executed(s, p, k)
  <2>1. s.ROB[p].sq[k] \in SqSlots \cup {NoIndex} /\ t.ROB[p].sq = s.ROB[p].sq
    BY <1>3, PlacesAre DEF Calm, SamePlaces
  <2> QED BY Zenon, <2>1 DEF Executed, Calm, SameStore
<1>6. ASSUME NEW p \in Rob(s), NEW j \in DOMAIN Code(s, p).loads, s.ROB[p].lq[j] # NoIndex
      PROVE  InQueue(t, p, j) <=> InQueue(s, p, j)
  <2>1. s.ROB[p].lq[j] \in LqSlots /\ t.ROB[p].lq = s.ROB[p].lq /\ t.ROB[p].id = s.ROB[p].id
    BY <1>3, <1>6, PlacesAre DEF Calm, SamePlaces, KeepsOrder
  <2> QED BY <2>1 DEF InQueue, Calm, SameLoad
<1> QED BY <1>1, <1>2, <1>3, <1>4, <1>5, <1>6

LEMMA CalmKeeps ==
  ASSUME NEW s, NEW t, NEW R, Kept(s, R), Calm(s, t), t.wq \in 0 .. WQ_SIZE
  PROVE  Kept(t, R) /\ (SeenExecuted(s) => SeenExecuted(t))
<1>0. /\ Order(s) /\ Tables(s) /\ Entries(s) /\ LoadsHeld(s) /\ StoresHeld(s) /\ StoresStay(s)
      /\ Sourced(s) /\ DepsSound(s) /\ MemoryLast(s) /\ SeenSound(s) /\ SeenAll(s)
      /\ Awaited(s, R) /\ StoreRing(s) /\ StoresWait(s) /\ Counted(s)
  BY DEF Kept, Held2, Flow, Rings
<1>1. /\ Order(t) /\ Rob(t) = Rob(s) /\ Loads(t) = Loads(s) /\ Stores(t) = Stores(s)
      /\ Rob(s) \subseteq Slots /\ Loads(s) \subseteq LqSlots /\ Stores(s) \subseteq SqSlots
      /\ \A i \in Rob(s) : Code(t, i) = Code(s, i)
      /\ \A q \in Loads(s) : LoadAddr(t, q) = LoadAddr(s, q) /\ Key(t, q) = Key(s, q)
      /\ \A p \in Rob(s) : \A k \in DOMAIN Code(s, p).stores : Executed(t, p, k) <=> Executed(s, p, k)
      /\ \A p \in Rob(s) : \A j \in DOMAIN Code(s, p).loads :
              s.ROB[p].lq[j] # NoIndex => (InQueue(t, p, j) <=> InQueue(s, p, j))
  BY <1>0, CalmViews
<1>2. /\ \A p \in Slots : /\ t.ROB[p].id = s.ROB[p].id /\ t.ROB[p].lq = s.ROB[p].lq /\ t.ROB[p].sq = s.ROB[p].sq
                          /\ t.ROB[p].mem_deps = s.ROB[p].mem_deps /\ t.ROB[p].num_mem_ops = s.ROB[p].num_mem_ops
      /\ \A q \in LqSlots : /\ DOMAIN t.LQ[q] = LoadFields /\ t.LQ[q].id = s.LQ[q].id
                            /\ t.LQ[q].data_index = s.LQ[q].data_index
                            /\ t.LQ[q].rob_index = s.LQ[q].rob_index /\ t.LQ[q].producer_id = s.LQ[q].producer_id
      /\ \A x \in SqSlots : /\ DOMAIN t.SQ[x] = StoreFields /\ t.SQ[x].id = s.SQ[x].id
                            /\ t.SQ[x].data_index = s.SQ[x].data_index
                            /\ t.SQ[x].rob_index = s.SQ[x].rob_index /\ t.SQ[x].fetched = s.SQ[x].fetched
      /\ t.program = s.program /\ t.retired = s.retired /\ t.dispatched = s.dispatched
      /\ t.sq_tail = s.sq_tail /\ t.STA = s.STA /\ t.memory = s.memory /\ t.seen = s.seen
      /\ t.asserts = s.asserts /\ DOMAIN t.LQ = LqSlots /\ DOMAIN t.SQ = SqSlots
  BY DEF Calm, SamePlaces, SameLoad, SameStore, KeepsOrder
<1>3. Tables(t)
  BY <1>0, <1>1, <1>2 DEF Tables
<1>4. Entries(t)
  BY <1>0, <1>1, <1>2 DEF Entries
<1>5. LoadsHeld(t)
  <2> SUFFICES ASSUME NEW q \in Loads(s)
               PROVE  /\ t.LQ[q].rob_index \in Rob(t) /\ t.ROB[t.LQ[q].rob_index].id = t.LQ[q].id
                      /\ t.LQ[q].data_index \in DOMAIN Code(t, t.LQ[q].rob_index).loads
                      /\ t.ROB[t.LQ[q].rob_index].lq[t.LQ[q].data_index] = q
    BY Zenon, <1>1 DEF LoadsHeld
  <2>1. /\ s.LQ[q].rob_index \in Rob(s) /\ s.ROB[s.LQ[q].rob_index].id = s.LQ[q].id
        /\ s.LQ[q].data_index \in DOMAIN Code(s, s.LQ[q].rob_index).loads
        /\ s.ROB[s.LQ[q].rob_index].lq[s.LQ[q].data_index] = q
    BY Zenon, <1>0 DEF LoadsHeld
  <2> DEFINE i == s.LQ[q].rob_index
  <2>2. q \in LqSlots /\ i \in Slots
    BY Zenon, <1>1, <2>1
  <2>3. t.LQ[q].rob_index = i /\ t.LQ[q].id = s.LQ[q].id /\ t.LQ[q].data_index = s.LQ[q].data_index
    BY <1>2, <2>2
  <2>4. t.ROB[i].id = s.ROB[i].id /\ t.ROB[i].lq = s.ROB[i].lq /\ Code(t, i) = Code(s, i) /\ Rob(t) = Rob(s)
    BY Zenon, <1>1, <1>2, <2>1, <2>2
  <2> QED BY Zenon, <2>1, <2>3, <2>4
<1>6. StoresHeld(t)
  <2> SUFFICES ASSUME NEW x \in Stores(s)
               PROVE  /\ t.SQ[x].rob_index \in Rob(t) /\ t.ROB[t.SQ[x].rob_index].id = t.SQ[x].id
                      /\ t.SQ[x].data_index \in DOMAIN Code(t, t.SQ[x].rob_index).stores
                      /\ t.ROB[t.SQ[x].rob_index].sq[t.SQ[x].data_index] = x
    BY Zenon, <1>1 DEF StoresHeld
  <2>1. /\ s.SQ[x].rob_index \in Rob(s) /\ s.ROB[s.SQ[x].rob_index].id = s.SQ[x].id
        /\ s.SQ[x].data_index \in DOMAIN Code(s, s.SQ[x].rob_index).stores
        /\ s.ROB[s.SQ[x].rob_index].sq[s.SQ[x].data_index] = x
    BY Zenon, <1>0 DEF StoresHeld
  <2> DEFINE i == s.SQ[x].rob_index
  <2>2. x \in SqSlots /\ i \in Slots
    BY <1>1, <2>1
  <2>3. t.SQ[x].rob_index = i /\ t.SQ[x].id = s.SQ[x].id /\ t.SQ[x].data_index = s.SQ[x].data_index
    BY <1>2, <2>2
  <2>4. t.ROB[i].id = s.ROB[i].id /\ t.ROB[i].sq = s.ROB[i].sq /\ Code(t, i) = Code(s, i) /\ Rob(t) = Rob(s)
    BY Zenon, <1>1, <1>2, <2>1, <2>2
  <2> QED BY Zenon, <2>1, <2>3, <2>4
<1>7. StoresStay(t)
  <2> SUFFICES ASSUME NEW i \in Rob(s), NEW k \in DOMAIN Code(s, i).stores, s.ROB[i].sq[k] # NoIndex
               PROVE  t.SQ[s.ROB[i].sq[k]].id = s.ROB[i].id /\ t.SQ[s.ROB[i].sq[k]].data_index = k
    BY <1>1, <1>2 DEF StoresStay
  <2>1. s.ROB[i].sq[k] \in SqSlots
    BY <1>0, PlacesAre
  <2> QED BY Zenon, <1>0, <1>2, <2>1 DEF StoresStay
<1>8. Sourced(t)
  BY <1>0, <1>1, <1>2 DEF Sourced
<1>9. DepsSound(t)
  BY <1>0, <1>1, <1>2 DEF DepsSound
<1>10. MemoryLast(t) /\ SeenSound(t)
  BY <1>0, <1>2 DEF MemoryLast, SeenSound
<1>11. SeenAll(t)
  BY <1>0, <1>1, <1>2 DEF SeenAll
<1>12. Awaited(t, R)
  <2> SUFFICES ASSUME NEW q \in Loads(s), s.LQ[q].producer_id # NoId
               PROVE  \E p \in Rob(s) : Finds(t, q, p, R)
    BY <1>1, <1>2 DEF Awaited
  <2>1. PICK p \in Rob(s) : Finds(s, q, p, R)
    BY <1>0 DEF Awaited
  <2>2. Finds(t, q, p, R)
    BY <1>1, <1>2, <2>1 DEF Finds
  <2> QED BY <2>2
<1>13. StoreRing(t)
  <2>1. \A n \in 0 .. SQ_SIZE : \A k \in 1 .. n :
          Stores(s) = {Back(s.sq_tail, m) : m \in 1 .. n} => Back(s.sq_tail, k) \in SqSlots
    BY <1>1
  <2> QED BY <1>0, <1>1, <1>2, <2>1 DEF StoreRing
<1>14. StoresWait(t)
  BY <1>0, <1>1, <1>2 DEF StoresWait
<1>15. Counted(t)
  <2> SUFFICES ASSUME NEW i \in Rob(s)
               PROVE  s.ROB[i].num_mem_ops = Cardinality(PendingLoads(t, i)) + Cardinality(PendingStores(t, i))
    BY <1>1, <1>2 DEF Counted
  <2>1. PendingLoads(t, i) = PendingLoads(s, i)
    BY <1>1, <1>2 DEF PendingLoads
  <2>2. PendingStores(t, i) = PendingStores(s, i)
    BY <1>1 DEF PendingStores
  <2> QED BY <1>0, <2>1, <2>2 DEF Counted
<1>16. SeenExecuted(s) => SeenExecuted(t)
  BY <1>1, <1>2 DEF SeenExecuted
<1> QED BY <1>1, <1>3, <1>4, <1>5, <1>6, <1>7, <1>8, <1>9, <1>10, <1>11, <1>12, <1>13, <1>14, <1>15, <1>16
        DEF Kept, Held2, Flow, Rings

-------------------------------------------------------------------------------
(* The steps of one operation through the DTLB and L1D.                    *)

Stays(s, t) ==
  Calm(s, t) /\ t.ROB = s.ROB /\ t.inflight_reg = s.inflight_reg /\ t.inflight_mem = s.inflight_mem

LEMMA StaysKeeps ==
  ASSUME NEW s, NEW t, NEW R, Kept(s, R), Tallied(s), Stays(s, t), t.wq = s.wq
  PROVE  Kept(t, R) /\ Tallied(t) /\ (SeenExecuted(s) => SeenExecuted(t))
<1>1. Kept(t, R) /\ (SeenExecuted(s) => SeenExecuted(t))
  BY CalmKeeps DEF Stays, Kept, Held2, Tables
<1>2. Rob(t) = Rob(s) /\ Rob(s) \subseteq Slots /\ \A i \in Slots : Code(t, i) = Code(s, i)
  BY OrderSame DEF Stays, Calm, Kept, Held2, Rob
<1>3. \A i \in Slots : IsMemory(t, i) <=> IsMemory(s, i)
  BY <1>2 DEF IsMemory, Stays
<1>4. ToComplete(t) = ToComplete(s) /\ Executing(t) = Executing(s)
  BY <1>2, <1>3 DEF ToComplete, Executing, Stays
<1> QED BY <1>1, <1>2, <1>3, <1>4 DEF Tallied, Stays

LoadLists  == {"RTL0", "RTL1", "dtlb", "l1d", "LQ"}
StoreLists == {"RTS0", "RTS1", "dtlb", "SQ"}

LEMMA LoadMoves ==
  ASSUME NEW s, Order(s), Tables(s), NEW q \in LqSlots, NEW t, DOMAIN t = StateFields,
         \A g \in StateFields \ LoadLists : t[g] = s[g],
         DOMAIN t.LQ = LqSlots, SameLoad(s.LQ[q], t.LQ[q]), \A r \in LqSlots : r # q => t.LQ[r] = s.LQ[r]
  PROVE  Stays(s, t) /\ t.wq = s.wq
<1>1. /\ t.program = s.program /\ t.ROB = s.ROB /\ t.head = s.head /\ t.SQ = s.SQ /\ t.sq_tail = s.sq_tail
      /\ t.STA = s.STA /\ t.wq = s.wq /\ t.inflight_reg = s.inflight_reg /\ t.inflight_mem = s.inflight_mem
      /\ t.dispatched = s.dispatched /\ t.retired = s.retired /\ t.memory = s.memory /\ t.seen = s.seen
      /\ t.asserts = s.asserts
  BY DEF StateFields, LoadLists
<1>2. \A r \in LqSlots : SameLoad(s.LQ[r], t.LQ[r])
  BY DEF SameLoad, Tables
<1>3. DOMAIN t.SQ = SqSlots /\ \A x \in SqSlots : SameStore(s.SQ[x], t.SQ[x])
  BY <1>1 DEF Tables, SameStore
<1>4. KeepsOrder(s, t) /\ \A p \in Slots : SamePlaces(s.ROB[p], t.ROB[p])
  BY <1>1 DEF KeepsOrder, Order, Shaped, SamePlaces
<1> QED BY <1>1, <1>2, <1>3, <1>4 DEF Stays, Calm

LEMMA StoreMoves ==
  ASSUME NEW s, Order(s), Tables(s), NEW x \in SqSlots, NEW t, DOMAIN t = StateFields,
         \A g \in StateFields \ StoreLists : t[g] = s[g],
         DOMAIN t.SQ = SqSlots, SameStore(s.SQ[x], t.SQ[x]), \A r \in SqSlots : r # x => t.SQ[r] = s.SQ[r]
  PROVE  Stays(s, t) /\ t.wq = s.wq
<1>1. /\ t.program = s.program /\ t.ROB = s.ROB /\ t.head = s.head /\ t.LQ = s.LQ /\ t.sq_tail = s.sq_tail
      /\ t.STA = s.STA /\ t.wq = s.wq /\ t.inflight_reg = s.inflight_reg /\ t.inflight_mem = s.inflight_mem
      /\ t.dispatched = s.dispatched /\ t.retired = s.retired /\ t.memory = s.memory /\ t.seen = s.seen
      /\ t.asserts = s.asserts
  BY DEF StateFields, StoreLists
<1>2. \A r \in SqSlots : SameStore(s.SQ[r], t.SQ[r])
  BY DEF SameStore, Tables
<1>3. DOMAIN t.LQ = LqSlots /\ \A q \in LqSlots : SameLoad(s.LQ[q], t.LQ[q])
  BY <1>1 DEF Tables, SameLoad
<1>4. KeepsOrder(s, t) /\ \A p \in Slots : SamePlaces(s.ROB[p], t.ROB[p])
  BY <1>1 DEF KeepsOrder, Order, Shaped, SamePlaces
<1> QED BY <1>1, <1>2, <1>3, <1>4 DEF Stays, Calm

(* What a move does to the stages.                                         *)
LoadShift(s, t, q) ==
  /\ \A a, b : LoadAt(t, a, b) = IF t.LQ[q].translated = a /\ t.LQ[q].fetched = b
                                THEN LoadAt(s, a, b) \cup {q} ELSE LoadAt(s, a, b) \ {q}
  /\ \A r \in Loads(t) : r # q => r \in Loads(s) /\ t.LQ[r] = s.LQ[r]

StoreShift(s, t, x) ==
  /\ \A a, b : StoreAt(t, a, b) = IF t.SQ[x].translated = a /\ t.SQ[x].fetched = b
                                 THEN StoreAt(s, a, b) \cup {x} ELSE StoreAt(s, a, b) \ {x}
  /\ \A r \in Stores(t) : r # x => r \in Stores(s) /\ t.SQ[r] = s.SQ[r]

LEMMA LoadMoved ==
  ASSUME NEW s, NEW t, Stays(s, t), NEW q \in Loads(s), s.LQ[q].producer_id = NoId,
         \A r \in LqSlots : r # q => t.LQ[r] = s.LQ[r]
  PROVE  LoadShift(s, t, q)
<1>1. Loads(t) = Loads(s) /\ Loads(s) \subseteq LqSlots /\ q \in LqSlots
  BY DEF Stays, Calm, SameLoad, Loads
<1>2. t.LQ[q].producer_id = NoId
  BY <1>1 DEF Stays, Calm, SameLoad
<1> QED BY <1>1, <1>2 DEF LoadAt, LoadShift

LEMMA StoreMoved ==
  ASSUME NEW s, NEW t, Stays(s, t), NEW x \in Stores(s), \A r \in SqSlots : r # x => t.SQ[r] = s.SQ[r]
  PROVE  StoreShift(s, t, x)
<1>1. Stores(t) = Stores(s) /\ Stores(s) \subseteq SqSlots /\ x \in SqSlots
  BY DEF Stays, Calm, SameStore, Stores
<1> QED BY <1>1 DEF StoreAt, StoreShift

(* The stores stay where they are.                                         *)
LEMMA StoresLeft ==
  ASSUME NEW s, NEW t, t.SQ = s.SQ, t.RTS0 = s.RTS0, t.RTS1 = s.RTS1
  PROVE  /\ StoreStages(s) => StoreStages(t)
         /\ \A a, b : StoreAt(t, a, b) = StoreAt(s, a, b)
BY DEF StoreStages, StoreAt, Stores

LEMMA LoadsLeft ==
  ASSUME NEW s, NEW t, t.LQ = s.LQ, t.RTL0 = s.RTL0, t.RTL1 = s.RTL1, t.l1d = s.l1d
  PROVE  /\ LoadStages(s) => LoadStages(t)
         /\ \A a, b : LoadAt(t, a, b) = LoadAt(s, a, b)
BY DEF LoadStages, LoadAt, Loads

LEMMA TranslateLoadLsq ==
  ASSUME NEW s, NEW R, LsqInv(s, R), s.RTL0 # << >>
  PROVE  LsqInv(TranslateLoad(s), R) /\ Calm(s, TranslateLoad(s)) /\ (SeenExecuted(s) => SeenExecuted(TranslateLoad(s)))
<1> DEFINE q == Head(s.RTL0)
           t == TranslateLoad(s)
<1>0. /\ Order(s) /\ Tables(s) /\ Kept(s, R) /\ Tallied(s)
      /\ LoadStages(s) /\ StoreStages(s) /\ Translating(s) /\ Shaped(s) /\ DOMAIN s = StateFields
  BY DEF LsqInv, Kept, Held2, Places, Order, Shaped
<1>1. q \in LoadAt(s, 0, 0) /\ Enumerates(Tail(s.RTL0), LoadAt(s, 0, 0) \ {q})
  BY <1>0, ListHead DEF LoadStages
<1>2. /\ DOMAIN t = StateFields /\ \A g \in StateFields \ LoadLists : t[g] = s[g]
      /\ t.LQ = [s.LQ EXCEPT ![q] = [@ EXCEPT !["translated"] = INFLIGHT]]
      /\ t.RTL0 = Tail(s.RTL0) /\ t.RTL1 = s.RTL1 /\ t.l1d = s.l1d /\ t.dtlb = s.dtlb \cup {<< "load", q >>}
      /\ t.SQ = s.SQ /\ t.RTS0 = s.RTS0 /\ t.RTS1 = s.RTS1
  BY <1>0 DEF TranslateLoad, StateFields, LoadLists
<1> HIDE DEF t, q
<1>3. q \in LqSlots /\ DOMAIN s.LQ[q] = LoadFields /\ DOMAIN s.LQ = LqSlots
  BY <1>0, <1>1 DEF LoadAt, Loads, Tables
<1>13. q \in Loads(s) /\ s.LQ[q].producer_id = NoId /\ s.LQ[q].translated = 0 /\ s.LQ[q].fetched = 0
  BY <1>1 DEF LoadAt
<1>4. /\ t.LQ[q] = [s.LQ[q] EXCEPT !["translated"] = INFLIGHT] /\ DOMAIN t.LQ = LqSlots
      /\ \A r \in LqSlots : r # q => t.LQ[r] = s.LQ[r]
  BY <1>2, <1>3
<1>5. t.LQ[q].translated = INFLIGHT /\ t.LQ[q].fetched = 0 /\ SameLoad(s.LQ[q], t.LQ[q])
  BY <1>1, <1>3, <1>4 DEF LoadAt, LoadFields, EmptyLoad, SameLoad
<1>12. Stays(s, t) /\ t.wq = s.wq
  BY <1>0, <1>2, <1>3, <1>4, <1>5, LoadMoves
<1>6. LoadShift(s, t, q)
  BY <1>4, <1>12, <1>13, LoadMoved
<1>7. /\ LoadAt(t, 0, 0) = LoadAt(s, 0, 0) \ {q} /\ LoadAt(t, INFLIGHT, 0) = LoadAt(s, INFLIGHT, 0) \cup {q}
      /\ LoadAt(t, COMPLETED, 0) = LoadAt(s, COMPLETED, 0) /\ LoadAt(t, COMPLETED, INFLIGHT) = LoadAt(s, COMPLETED, INFLIGHT)
      /\ \A r \in Loads(t) : r # q => r \in Loads(s) /\ t.LQ[r] = s.LQ[r]
  <2>1. /\ LoadAt(s, COMPLETED, 0) \ {q} = LoadAt(s, COMPLETED, 0)
        /\ LoadAt(s, COMPLETED, INFLIGHT) \ {q} = LoadAt(s, COMPLETED, INFLIGHT)
    BY <1>13 DEF LoadAt, COMPLETED
  <2>2. /\ LoadAt(t, COMPLETED, 0) = LoadAt(s, COMPLETED, 0) \ {q}
        /\ LoadAt(t, COMPLETED, INFLIGHT) = LoadAt(s, COMPLETED, INFLIGHT) \ {q}
        /\ LoadAt(t, 0, 0) = LoadAt(s, 0, 0) \ {q} /\ LoadAt(t, INFLIGHT, 0) = LoadAt(s, INFLIGHT, 0) \cup {q}
    BY <1>5, <1>6 DEF LoadShift, INFLIGHT, COMPLETED
  <2>3. \A r \in Loads(t) : r # q => r \in Loads(s) /\ t.LQ[r] = s.LQ[r]
    BY <1>6 DEF LoadShift
  <2> QED BY <2>1, <2>2, <2>3
<1>8. LoadStages(t)
  BY <1>0, <1>1, <1>2, <1>7 DEF LoadStages
<1>9. StoreStages(t) /\ \A a, b : StoreAt(t, a, b) = StoreAt(s, a, b)
  BY <1>0, <1>2, StoresLeft
<1>10. Translating(t)
  BY <1>0, <1>2, <1>7, <1>9 DEF Translating
<1>11. Kept(t, R) /\ Tallied(t) /\ (SeenExecuted(s) => SeenExecuted(t))
  BY <1>0, <1>12, StaysKeeps
<1> QED BY <1>12, <1>8, <1>9, <1>10, <1>11 DEF LsqInv, Kept, Places, Stays, t

LEMMA TranslateStoreLsq ==
  ASSUME NEW s, NEW R, LsqInv(s, R), s.RTS0 # << >>
  PROVE  LsqInv(TranslateStore(s), R) /\ Calm(s, TranslateStore(s)) /\ (SeenExecuted(s) => SeenExecuted(TranslateStore(s)))
<1> DEFINE x == Head(s.RTS0)
           t == TranslateStore(s)
<1>0. /\ Order(s) /\ Tables(s) /\ Kept(s, R) /\ Tallied(s)
      /\ LoadStages(s) /\ StoreStages(s) /\ Translating(s) /\ Shaped(s) /\ DOMAIN s = StateFields
  BY DEF LsqInv, Kept, Held2, Places, Order, Shaped
<1>1. x \in StoreAt(s, 0, 0) /\ Enumerates(Tail(s.RTS0), StoreAt(s, 0, 0) \ {x})
  BY <1>0, ListHead DEF StoreStages
<1>2. /\ DOMAIN t = StateFields /\ \A g \in StateFields \ StoreLists : t[g] = s[g]
      /\ t.SQ = [s.SQ EXCEPT ![x] = [@ EXCEPT !["translated"] = INFLIGHT]]
      /\ t.RTS0 = Tail(s.RTS0) /\ t.RTS1 = s.RTS1 /\ t.dtlb = s.dtlb \cup {<< "store", x >>}
      /\ t.LQ = s.LQ /\ t.RTL0 = s.RTL0 /\ t.RTL1 = s.RTL1 /\ t.l1d = s.l1d
  BY <1>0 DEF TranslateStore, StateFields, StoreLists
<1> HIDE DEF t, x
<1>3. x \in SqSlots /\ DOMAIN s.SQ[x] = StoreFields /\ DOMAIN s.SQ = SqSlots
  BY <1>0, <1>1 DEF StoreAt, Stores, Tables
<1>13. x \in Stores(s) /\ s.SQ[x].translated = 0 /\ s.SQ[x].fetched = 0
  BY <1>1 DEF StoreAt
<1>4. /\ t.SQ[x] = [s.SQ[x] EXCEPT !["translated"] = INFLIGHT] /\ DOMAIN t.SQ = SqSlots
      /\ \A r \in SqSlots : r # x => t.SQ[r] = s.SQ[r]
  BY <1>2, <1>3
<1>5. t.SQ[x].translated = INFLIGHT /\ t.SQ[x].fetched = 0 /\ SameStore(s.SQ[x], t.SQ[x])
  BY <1>1, <1>3, <1>4 DEF StoreAt, StoreFields, EmptyStore, SameStore
<1>12. Stays(s, t) /\ t.wq = s.wq
  BY <1>0, <1>2, <1>3, <1>4, <1>5, StoreMoves
<1>6. StoreShift(s, t, x)
  BY <1>4, <1>12, <1>13, StoreMoved
<1>7. /\ StoreAt(t, 0, 0) = StoreAt(s, 0, 0) \ {x} /\ StoreAt(t, INFLIGHT, 0) = StoreAt(s, INFLIGHT, 0) \cup {x}
      /\ StoreAt(t, COMPLETED, 0) = StoreAt(s, COMPLETED, 0) /\ StoreAt(t, COMPLETED, COMPLETED) = StoreAt(s, COMPLETED, COMPLETED)
      /\ Stores(t) = Stores(s)
  <2>1. /\ StoreAt(s, COMPLETED, 0) \ {x} = StoreAt(s, COMPLETED, 0)
        /\ StoreAt(s, COMPLETED, COMPLETED) \ {x} = StoreAt(s, COMPLETED, COMPLETED)
    BY <1>13 DEF StoreAt, COMPLETED
  <2>2. /\ StoreAt(t, COMPLETED, 0) = StoreAt(s, COMPLETED, 0) \ {x}
        /\ StoreAt(t, COMPLETED, COMPLETED) = StoreAt(s, COMPLETED, COMPLETED) \ {x}
        /\ StoreAt(t, 0, 0) = StoreAt(s, 0, 0) \ {x} /\ StoreAt(t, INFLIGHT, 0) = StoreAt(s, INFLIGHT, 0) \cup {x}
    BY <1>5, <1>6 DEF StoreShift, INFLIGHT, COMPLETED
  <2>3. Stores(t) = Stores(s)
    BY <1>12 DEF Stays, Calm, SameStore, Stores
  <2> QED BY <2>1, <2>2, <2>3
<1>8. StoreStages(t)
  BY <1>0, <1>1, <1>2, <1>7 DEF StoreStages
<1>9. LoadStages(t) /\ \A a, b : LoadAt(t, a, b) = LoadAt(s, a, b)
  BY <1>0, <1>2, LoadsLeft
<1>10. Translating(t)
  BY <1>0, <1>2, <1>7, <1>9 DEF Translating
<1>11. Kept(t, R) /\ Tallied(t) /\ (SeenExecuted(s) => SeenExecuted(t))
  BY <1>0, <1>12, StaysKeeps
<1> QED BY <1>12, <1>8, <1>9, <1>10, <1>11 DEF LsqInv, Kept, Places, Stays, t

LEMMA ExecuteLoadLsq ==
  ASSUME NEW s, NEW R, LsqInv(s, R), s.RTL1 # << >>
  PROVE  LsqInv(ExecuteLoad(s), R) /\ Calm(s, ExecuteLoad(s)) /\ (SeenExecuted(s) => SeenExecuted(ExecuteLoad(s)))
<1> DEFINE q == Head(s.RTL1)
           t == ExecuteLoad(s)
<1>0. /\ Order(s) /\ Tables(s) /\ Kept(s, R) /\ Tallied(s)
      /\ LoadStages(s) /\ StoreStages(s) /\ Translating(s) /\ Shaped(s) /\ DOMAIN s = StateFields
  BY DEF LsqInv, Kept, Held2, Places, Order, Shaped
<1>1. q \in LoadAt(s, COMPLETED, 0) /\ Enumerates(Tail(s.RTL1), LoadAt(s, COMPLETED, 0) \ {q})
  BY <1>0, ListHead DEF LoadStages
<1>2. /\ DOMAIN t = StateFields /\ \A g \in StateFields \ LoadLists : t[g] = s[g]
      /\ t.LQ = [s.LQ EXCEPT ![q] = [@ EXCEPT !["fetched"] = INFLIGHT]]
      /\ t.RTL1 = Tail(s.RTL1) /\ t.RTL0 = s.RTL0 /\ t.l1d = s.l1d \cup {q} /\ t.dtlb = s.dtlb
      /\ t.SQ = s.SQ /\ t.RTS0 = s.RTS0 /\ t.RTS1 = s.RTS1
  BY Zenon, <1>0 DEF ExecuteLoad, StateFields, LoadLists
<1> HIDE DEF t, q
<1>3. q \in LqSlots /\ DOMAIN s.LQ[q] = LoadFields /\ DOMAIN s.LQ = LqSlots
  BY <1>0, <1>1 DEF LoadAt, Loads, Tables
<1>13. q \in Loads(s) /\ s.LQ[q].producer_id = NoId /\ s.LQ[q].translated = COMPLETED /\ s.LQ[q].fetched = 0
  BY <1>1 DEF LoadAt
<1>4. /\ t.LQ[q] = [s.LQ[q] EXCEPT !["fetched"] = INFLIGHT] /\ DOMAIN t.LQ = LqSlots
      /\ \A r \in LqSlots : r # q => t.LQ[r] = s.LQ[r]
  BY <1>2, <1>3
<1>5. t.LQ[q].translated = COMPLETED /\ t.LQ[q].fetched = INFLIGHT /\ SameLoad(s.LQ[q], t.LQ[q])
  BY <1>1, <1>3, <1>4 DEF LoadAt, LoadFields, EmptyLoad, SameLoad
<1>12. Stays(s, t) /\ t.wq = s.wq
  BY <1>0, <1>2, <1>3, <1>4, <1>5, LoadMoves
<1>6. LoadShift(s, t, q)
  BY <1>4, <1>12, <1>13, LoadMoved
<1>7. /\ LoadAt(t, 0, 0) = LoadAt(s, 0, 0) /\ LoadAt(t, INFLIGHT, 0) = LoadAt(s, INFLIGHT, 0)
      /\ LoadAt(t, COMPLETED, 0) = LoadAt(s, COMPLETED, 0) \ {q} /\ LoadAt(t, COMPLETED, INFLIGHT) = LoadAt(s, COMPLETED, INFLIGHT) \cup {q}
      /\ \A r \in Loads(t) : r # q => r \in Loads(s) /\ t.LQ[r] = s.LQ[r]
  <2>1. LoadAt(s, 0, 0) \ {q} = LoadAt(s, 0, 0) /\ LoadAt(s, INFLIGHT, 0) \ {q} = LoadAt(s, INFLIGHT, 0)
    BY <1>13 DEF LoadAt, COMPLETED, INFLIGHT
  <2>2. /\ LoadAt(t, COMPLETED, 0) = LoadAt(s, COMPLETED, 0) \ {q}
        /\ LoadAt(t, COMPLETED, INFLIGHT) = LoadAt(s, COMPLETED, INFLIGHT) \cup {q}
        /\ LoadAt(t, 0, 0) = LoadAt(s, 0, 0) \ {q} /\ LoadAt(t, INFLIGHT, 0) = LoadAt(s, INFLIGHT, 0) \ {q}
    BY <1>5, <1>6 DEF LoadShift, INFLIGHT, COMPLETED
  <2>3. \A r \in Loads(t) : r # q => r \in Loads(s) /\ t.LQ[r] = s.LQ[r]
    BY <1>6 DEF LoadShift
  <2> QED BY <2>1, <2>2, <2>3
<1>8. LoadStages(t)
  BY Zenon, <1>0, <1>1, <1>2, <1>7 DEF LoadStages
<1>9. StoreStages(t) /\ \A a, b : StoreAt(t, a, b) = StoreAt(s, a, b)
  BY <1>0, <1>2, StoresLeft
<1>10. Translating(t)
  BY <1>0, <1>2, <1>7, <1>9 DEF Translating
<1>11. Kept(t, R) /\ Tallied(t) /\ (SeenExecuted(s) => SeenExecuted(t))
  BY <1>0, <1>12, StaysKeeps
<1> QED BY <1>12, <1>8, <1>9, <1>10, <1>11 DEF LsqInv, Kept, Places, Stays, t

(* The DTLB answers.                                                       *)
LEMMA TranslatedLoadLsq ==
  ASSUME NEW s, NEW R, LsqInv(s, R), NEW q, << "load", q >> \in s.dtlb
  PROVE  /\ LsqInv(Translated(s, << "load", q >>), R) /\ Calm(s, Translated(s, << "load", q >>))
         /\ (SeenExecuted(s) => SeenExecuted(Translated(s, << "load", q >>)))
<1> DEFINE t == Translated(s, << "load", q >>)
<1>0. /\ Order(s) /\ Tables(s) /\ Kept(s, R) /\ Tallied(s) /\ LoadsHeld(s)
      /\ LoadStages(s) /\ StoreStages(s) /\ Translating(s) /\ Shaped(s) /\ DOMAIN s = StateFields
  BY DEF LsqInv, Kept, Held2, Places, Order, Shaped
<1>1. q \in LoadAt(s, INFLIGHT, 0)
  BY <1>0 DEF Translating
<1>13. q \in Loads(s) /\ s.LQ[q].producer_id = NoId /\ s.LQ[q].translated = INFLIGHT /\ s.LQ[q].fetched = 0
  BY <1>1 DEF LoadAt
<1>14. CheckRob(s, q) = [s EXCEPT !.asserts = @ \cup {}]
  BY Zenon, <1>0, <1>13 DEF LoadsHeld, CheckRob
<1>2. /\ DOMAIN t = StateFields /\ \A g \in StateFields \ LoadLists : t[g] = s[g]
      /\ t.LQ = [s.LQ EXCEPT ![q] = [@ EXCEPT !["translated"] = COMPLETED]]
      /\ t.RTL0 = s.RTL0 /\ t.RTL1 = Append(s.RTL1, q) /\ t.l1d = s.l1d /\ t.dtlb = s.dtlb \ {<< "load", q >>}
      /\ t.SQ = s.SQ /\ t.RTS0 = s.RTS0 /\ t.RTS1 = s.RTS1
  <2>1. t = [[s EXCEPT !.asserts = @ \cup {}] EXCEPT !.dtlb = @ \ {<< "load", q >>}, !.LQ[q].translated = COMPLETED,
                                 !.RTL1 = Append(@, q)]
    BY <1>14 DEF Translated
  <2> HIDE DEF t
  <2>2. s.asserts \cup {} = s.asserts
    OBVIOUS
  <2> QED BY <1>0, <2>1, <2>2 DEF StateFields, LoadLists
<1> HIDE DEF t
<1>3. q \in LqSlots /\ DOMAIN s.LQ[q] = LoadFields /\ DOMAIN s.LQ = LqSlots
  BY <1>0, <1>1 DEF LoadAt, Loads, Tables
<1>4. /\ t.LQ[q] = [s.LQ[q] EXCEPT !["translated"] = COMPLETED] /\ DOMAIN t.LQ = LqSlots
      /\ \A r \in LqSlots : r # q => t.LQ[r] = s.LQ[r]
  BY <1>2, <1>3
<1>5. t.LQ[q].translated = COMPLETED /\ t.LQ[q].fetched = 0 /\ SameLoad(s.LQ[q], t.LQ[q])
  BY <1>1, <1>3, <1>4 DEF LoadAt, LoadFields, EmptyLoad, SameLoad
<1>12. Stays(s, t) /\ t.wq = s.wq
  BY <1>0, <1>2, <1>3, <1>4, <1>5, LoadMoves
<1>6. LoadShift(s, t, q)
  BY <1>4, <1>12, <1>13, LoadMoved
<1>7. /\ LoadAt(t, 0, 0) = LoadAt(s, 0, 0) /\ LoadAt(t, INFLIGHT, 0) = LoadAt(s, INFLIGHT, 0) \ {q}
      /\ LoadAt(t, COMPLETED, 0) = LoadAt(s, COMPLETED, 0) \cup {q} /\ LoadAt(t, COMPLETED, INFLIGHT) = LoadAt(s, COMPLETED, INFLIGHT)
      /\ \A r \in Loads(t) : r # q => r \in Loads(s) /\ t.LQ[r] = s.LQ[r]
  <2>1. /\ LoadAt(s, 0, 0) \ {q} = LoadAt(s, 0, 0)
        /\ LoadAt(s, COMPLETED, INFLIGHT) \ {q} = LoadAt(s, COMPLETED, INFLIGHT)
    BY <1>13 DEF LoadAt, COMPLETED, INFLIGHT
  <2>2. /\ LoadAt(t, COMPLETED, 0) = LoadAt(s, COMPLETED, 0) \cup {q}
        /\ LoadAt(t, COMPLETED, INFLIGHT) = LoadAt(s, COMPLETED, INFLIGHT) \ {q}
        /\ LoadAt(t, 0, 0) = LoadAt(s, 0, 0) \ {q} /\ LoadAt(t, INFLIGHT, 0) = LoadAt(s, INFLIGHT, 0) \ {q}
    BY <1>5, <1>6 DEF LoadShift, INFLIGHT, COMPLETED
  <2>3. \A r \in Loads(t) : r # q => r \in Loads(s) /\ t.LQ[r] = s.LQ[r]
    BY <1>6 DEF LoadShift
  <2> QED BY <2>1, <2>2, <2>3
<1>15. q \notin LoadAt(s, COMPLETED, 0)
  BY <1>13 DEF LoadAt, INFLIGHT, COMPLETED
<1>16. Enumerates(Append(s.RTL1, q), LoadAt(s, COMPLETED, 0) \cup {q})
  BY <1>0, <1>15, ListAppend DEF LoadStages
<1>8. LoadStages(t)
  BY Zenon, <1>0, <1>16, <1>2, <1>7 DEF LoadStages
<1>9. StoreStages(t) /\ \A a, b : StoreAt(t, a, b) = StoreAt(s, a, b)
  BY <1>0, <1>2, StoresLeft
<1>10. Translating(t)
  BY <1>0, <1>2, <1>7, <1>9 DEF Translating
<1>11. Kept(t, R) /\ Tallied(t) /\ (SeenExecuted(s) => SeenExecuted(t))
  BY <1>0, <1>12, StaysKeeps
<1> QED BY <1>12, <1>8, <1>9, <1>10, <1>11 DEF LsqInv, Kept, Places, Stays, t

LEMMA TranslatedStoreLsq ==
  ASSUME NEW s, NEW R, LsqInv(s, R), NEW x, << "store", x >> \in s.dtlb
  PROVE  /\ LsqInv(Translated(s, << "store", x >>), R) /\ Calm(s, Translated(s, << "store", x >>))
         /\ (SeenExecuted(s) => SeenExecuted(Translated(s, << "store", x >>)))
<1> DEFINE t == Translated(s, << "store", x >>)
<1>0. /\ Order(s) /\ Tables(s) /\ Kept(s, R) /\ Tallied(s)
      /\ LoadStages(s) /\ StoreStages(s) /\ Translating(s) /\ Shaped(s) /\ DOMAIN s = StateFields
  BY DEF LsqInv, Kept, Held2, Places, Order, Shaped
<1>1. x \in StoreAt(s, INFLIGHT, 0)
  BY <1>0 DEF Translating
<1>2. /\ DOMAIN t = StateFields /\ \A g \in StateFields \ StoreLists : t[g] = s[g]
      /\ t.SQ = [s.SQ EXCEPT ![x] = [@ EXCEPT !["translated"] = COMPLETED]]
      /\ t.RTS0 = s.RTS0 /\ t.RTS1 = Append(s.RTS1, x) /\ t.dtlb = s.dtlb \ {<< "store", x >>}
      /\ t.LQ = s.LQ /\ t.RTL0 = s.RTL0 /\ t.RTL1 = s.RTL1 /\ t.l1d = s.l1d
  BY Zenon, <1>0 DEF Translated, StateFields, StoreLists
<1> HIDE DEF t
<1>3. x \in SqSlots /\ DOMAIN s.SQ[x] = StoreFields /\ DOMAIN s.SQ = SqSlots
  BY <1>0, <1>1 DEF StoreAt, Stores, Tables
<1>13. x \in Stores(s) /\ s.SQ[x].translated = INFLIGHT /\ s.SQ[x].fetched = 0
  BY <1>1 DEF StoreAt
<1>4. /\ t.SQ[x] = [s.SQ[x] EXCEPT !["translated"] = COMPLETED] /\ DOMAIN t.SQ = SqSlots
      /\ \A r \in SqSlots : r # x => t.SQ[r] = s.SQ[r]
  BY <1>2, <1>3
<1>5. t.SQ[x].translated = COMPLETED /\ t.SQ[x].fetched = 0 /\ SameStore(s.SQ[x], t.SQ[x])
  BY <1>1, <1>3, <1>4 DEF StoreAt, StoreFields, EmptyStore, SameStore
<1>12. Stays(s, t) /\ t.wq = s.wq
  BY <1>0, <1>2, <1>3, <1>4, <1>5, StoreMoves
<1>6. StoreShift(s, t, x)
  BY <1>4, <1>12, <1>13, StoreMoved
<1>7. /\ StoreAt(t, 0, 0) = StoreAt(s, 0, 0) /\ StoreAt(t, INFLIGHT, 0) = StoreAt(s, INFLIGHT, 0) \ {x}
      /\ StoreAt(t, COMPLETED, 0) = StoreAt(s, COMPLETED, 0) \cup {x} /\ StoreAt(t, COMPLETED, COMPLETED) = StoreAt(s, COMPLETED, COMPLETED)
      /\ Stores(t) = Stores(s)
  <2>1. /\ StoreAt(s, 0, 0) \ {x} = StoreAt(s, 0, 0)
        /\ StoreAt(s, COMPLETED, COMPLETED) \ {x} = StoreAt(s, COMPLETED, COMPLETED)
    BY <1>13 DEF StoreAt, COMPLETED, INFLIGHT
  <2>2. /\ StoreAt(t, COMPLETED, 0) = StoreAt(s, COMPLETED, 0) \cup {x}
        /\ StoreAt(t, COMPLETED, COMPLETED) = StoreAt(s, COMPLETED, COMPLETED) \ {x}
        /\ StoreAt(t, 0, 0) = StoreAt(s, 0, 0) \ {x} /\ StoreAt(t, INFLIGHT, 0) = StoreAt(s, INFLIGHT, 0) \ {x}
    BY <1>5, <1>6 DEF StoreShift, INFLIGHT, COMPLETED
  <2>3. Stores(t) = Stores(s)
    BY <1>12 DEF Stays, Calm, SameStore, Stores
  <2> QED BY <2>1, <2>2, <2>3
<1>15. x \notin StoreAt(s, COMPLETED, 0)
  BY <1>13 DEF StoreAt, INFLIGHT, COMPLETED
<1>16. Enumerates(Append(s.RTS1, x), StoreAt(s, COMPLETED, 0) \cup {x})
  BY <1>0, <1>15, ListAppend DEF StoreStages
<1>8. StoreStages(t)
  BY <1>0, <1>16, <1>2, <1>7 DEF StoreStages
<1>9. LoadStages(t) /\ \A a, b : LoadAt(t, a, b) = LoadAt(s, a, b)
  BY <1>0, <1>2, LoadsLeft
<1>10. Translating(t)
  BY <1>0, <1>2, <1>7, <1>9 DEF Translating
<1>11. Kept(t, R) /\ Tallied(t) /\ (SeenExecuted(s) => SeenExecuted(t))
  BY <1>0, <1>12, StaysKeeps
<1> QED BY <1>12, <1>8, <1>9, <1>10, <1>11 DEF LsqInv, Kept, Places, Stays, t

LEMMA TranslatedLsq ==
  ASSUME NEW s, NEW R, LsqInv(s, R), NEW r \in s.dtlb
  PROVE  /\ LsqInv(Translated(s, r), R) /\ Calm(s, Translated(s, r))
         /\ (SeenExecuted(s) => SeenExecuted(Translated(s, r)))
<1>1. \/ \E q : r = << "load", q >>
      \/ \E x : r = << "store", x >>
  BY DEF LsqInv, Places, Translating
<1>2. CASE \E q : r = << "load", q >>
  BY <1>2, TranslatedLoadLsq
<1>3. CASE \E x : r = << "store", x >>
  BY <1>3, TranslatedStoreLsq
<1> QED BY <1>1, <1>2, <1>3

-------------------------------------------------------------------------------
(* What every step but retirement does, for the whole of the queues.       *)

SameView(s, t) ==
  /\ t.program = s.program /\ t.retired = s.retired /\ t.memory = s.memory
  /\ {o \in t.seen : o.id <= t.retired} = {o \in s.seen : o.id <= s.retired}

ExcusedIn(s) == IF s.asserts = {} THEN {} ELSE Slots \X (1 .. NUM_INSTR_SOURCES)

Follows(s, t) ==
  /\ LsqInv(t, ExcusedIn(t)) /\ SameView(s, t)
  /\ StoresApart /\ SeenExecuted(s) => t.asserts = {} /\ SeenExecuted(t)

LEMMA CalmFollows ==
  ASSUME NEW s, NEW t, s.asserts = {}, LsqInv(t, {}), Calm(s, t), SeenExecuted(s) => SeenExecuted(t)
  PROVE  Follows(s, t)
<1>1. t.asserts = {} /\ SameView(s, t)
  BY DEF Calm, KeepsOrder, SameView
<1> QED BY <1>1 DEF Follows, ExcusedIn

(* Steps of the ROB that leave the operations alone.                       *)
SameOps(e, f) ==
  /\ DOMAIN f = EntryFields /\ f.id = e.id /\ f.lq = e.lq /\ f.sq = e.sq
  /\ f.mem_deps = e.mem_deps /\ f.num_mem_ops = e.num_mem_ops

RobOnly == {"ROB", "inflight_reg", "inflight_mem", "RTE0", "RTE1", "next_schedule", "tail", "wq"}

LEMMA RobKeeps ==
  ASSUME NEW s, NEW R, LsqInv(s, R), NEW t, DOMAIN t = StateFields,
         \A g \in StateFields \ RobOnly : t[g] = s[g],
         DOMAIN t.ROB = Slots, \A p \in Slots : SameOps(s.ROB[p], t.ROB[p]),
         t.wq \in 0 .. WQ_SIZE, Tallied(t)
  PROVE  LsqInv(t, R) /\ Calm(s, t) /\ (SeenExecuted(s) => SeenExecuted(t))
<1>0. /\ Order(s) /\ Tables(s) /\ Kept(s, R) /\ LoadStages(s) /\ StoreStages(s) /\ Translating(s)
  BY DEF LsqInv, Kept, Held2, Places
<1>1. /\ t.program = s.program /\ t.head = s.head /\ t.LQ = s.LQ /\ t.SQ = s.SQ /\ t.sq_tail = s.sq_tail
      /\ t.STA = s.STA /\ t.dispatched = s.dispatched /\ t.retired = s.retired /\ t.memory = s.memory
      /\ t.seen = s.seen /\ t.asserts = s.asserts /\ t.RTL0 = s.RTL0 /\ t.RTL1 = s.RTL1 /\ t.l1d = s.l1d
      /\ t.RTS0 = s.RTS0 /\ t.RTS1 = s.RTS1 /\ t.dtlb = s.dtlb
  BY DEF StateFields, RobOnly
<1>2. /\ DOMAIN t.LQ = LqSlots /\ \A r \in LqSlots : SameLoad(s.LQ[r], t.LQ[r])
      /\ DOMAIN t.SQ = SqSlots /\ \A x \in SqSlots : SameStore(s.SQ[x], t.SQ[x])
  BY <1>0, <1>1 DEF SameLoad, SameStore, Tables
<1>3. KeepsOrder(s, t)
  BY <1>1 DEF KeepsOrder, Shaped, SameOps
<1>4. \A p \in Slots : /\ SamePlaces(s.ROB[p], t.ROB[p]) /\ t.ROB[p].mem_deps = s.ROB[p].mem_deps
                       /\ t.ROB[p].num_mem_ops = s.ROB[p].num_mem_ops
  BY DEF SameOps, SamePlaces
<1>5. Calm(s, t)
  BY <1>1, <1>2, <1>3, <1>4 DEF Calm
<1>6. Kept(t, R) /\ (SeenExecuted(s) => SeenExecuted(t))
  BY <1>0, <1>5, CalmKeeps
<1>7. StoreStages(t) /\ \A a, b : StoreAt(t, a, b) = StoreAt(s, a, b)
  BY <1>0, <1>1, StoresLeft
<1>8. LoadStages(t) /\ \A a, b : LoadAt(t, a, b) = LoadAt(s, a, b)
  BY <1>0, <1>1, LoadsLeft
<1>9. Translating(t)
  BY <1>0, <1>1, <1>7, <1>8 DEF Translating
<1> QED BY <1>5, <1>6, <1>7, <1>8, <1>9 DEF LsqInv, Kept, Places

(* What is counted depends on these fields of the entries only.            *)
LEMMA TalliedSame ==
  ASSUME NEW s, NEW t, Tallied(s), t.program = s.program,
         \A p \in Slots : /\ t.ROB[p].id = s.ROB[p].id /\ t.ROB[p].executed = s.ROB[p].executed
                          /\ t.ROB[p].num_mem_ops = s.ROB[p].num_mem_ops,
         t.inflight_reg = s.inflight_reg, t.inflight_mem = s.inflight_mem
  PROVE  Tallied(t)
<1>1. Rob(t) = Rob(s) /\ Rob(s) \subseteq Slots
  BY DEF Rob
<1>2. \A p \in Slots : IsMemory(t, p) <=> IsMemory(s, p)
  BY Zenon DEF IsMemory, Code
<1>3. ToComplete(t) = ToComplete(s) /\ Executing(t) = Executing(s)
  BY <1>1, <1>2 DEF ToComplete, Executing
<1> QED BY <1>1, <1>2, <1>3 DEF Tallied

(* Two records with the same fields.                                       *)
LEMMA FieldsKeep ==
  ASSUME NEW s, NEW R, LsqInv(s, R), NEW t, DOMAIN t = StateFields, \A g \in StateFields : t[g] = s[g]
  PROVE  LsqInv(t, R) /\ Calm(s, t) /\ (SeenExecuted(s) => SeenExecuted(t))
<1>0. Shaped(s) /\ Tallied(s) /\ Tables(s)
  BY DEF LsqInv, Held2, Order
<1>1. /\ t.program = s.program /\ t.ROB = s.ROB /\ t.wq = s.wq /\ t.inflight_reg = s.inflight_reg
      /\ t.inflight_mem = s.inflight_mem
  BY DEF StateFields
<1>2. DOMAIN t.ROB = Slots /\ \A p \in Slots : SameOps(s.ROB[p], t.ROB[p])
  BY <1>0, <1>1 DEF SameOps, Shaped
<1>3. t.wq \in 0 .. WQ_SIZE
  BY <1>0, <1>1 DEF Tables
<1>4. Tallied(t)
  BY <1>0, <1>1, TalliedSame
<1> QED BY <1>2, <1>3, <1>4, RobKeeps

LEMMA RobFinite ==
  ASSUME NEW s
  PROVE  /\ Rob(s) \subseteq Slots /\ IsFiniteSet(Rob(s)) /\ IsFiniteSet(ToComplete(s)) /\ IsFiniteSet(Executing(s))
         /\ Cardinality(Rob(s)) \in Nat /\ Cardinality(ToComplete(s)) \in Nat /\ Cardinality(Executing(s)) \in Nat
<1>1. Rob(s) \in SUBSET Slots /\ ToComplete(s) \in SUBSET Slots /\ Executing(s) \in SUBSET Slots
  BY DEF Rob, ToComplete, Executing
<1> QED BY <1>1, FiniteSlots

(* do_execution.                                                           *)
LEMMA DoExecutionLsq ==
  ASSUME NEW s, NEW R, LsqInv(s, R), NEW i \in Rob(s), ~IsMemory(s, i), s.ROB[i].executed = 0,
         NEW t, DOMAIN t = StateFields, \A g \in StateFields \ {"ROB", "inflight_reg", "RTE0", "RTE1"} : t[g] = s[g],
         t.ROB = [s.ROB EXCEPT ![i] = [@ EXCEPT !["executed"] = INFLIGHT]],
         t.inflight_reg = s.inflight_reg + 1
  PROVE  LsqInv(t, R) /\ Calm(s, t) /\ (SeenExecuted(s) => SeenExecuted(t))
<1>0. Shaped(s) /\ Tallied(s) /\ Tables(s) /\ DOMAIN s.ROB = Slots /\ \A p \in Slots : DOMAIN s.ROB[p] = EntryFields
  BY DEF LsqInv, Held2, Order, Shaped
<1>1. i \in Slots /\ Rob(s) \subseteq Slots
  BY DEF Rob
<1>2. /\ t.program = s.program /\ t.wq = s.wq /\ t.inflight_mem = s.inflight_mem
      /\ \A g \in StateFields \ RobOnly : t[g] = s[g]
  BY DEF StateFields, RobOnly
<1>3. DOMAIN t.ROB = Slots /\ (\A p \in Slots : p # i => t.ROB[p] = s.ROB[p])
      /\ t.ROB[i] = [s.ROB[i] EXCEPT !["executed"] = INFLIGHT]
  BY <1>0, <1>1
<1>4. t.ROB[i].executed = INFLIGHT /\ SameOps(s.ROB[i], t.ROB[i])
  BY <1>0, <1>1, <1>3 DEF EntryFields, EmptyEntry, SameOps
<1>5. \A p \in Slots : SameOps(s.ROB[p], t.ROB[p])
  BY <1>0, <1>3, <1>4 DEF SameOps
<1>6. Tallied(t)
  <2>1. Rob(t) = Rob(s)
    BY <1>5 DEF Rob, SameOps
  <2>2. \A p \in Slots : IsMemory(t, p) <=> IsMemory(s, p)
    BY Zenon, <1>2, <1>5 DEF IsMemory, Code, SameOps
  <2>3. \A p \in Slots : IsMemory(s, p) => t.ROB[p] = s.ROB[p]
    BY <1>3
  <2>4. ToComplete(t) = ToComplete(s)
    BY <1>1, <2>1, <2>2, <2>3 DEF ToComplete
  <2>5. Executing(t) = Executing(s) \cup {i} /\ i \notin Executing(s)
    BY <1>1, <1>3, <1>4, <2>1, <2>2 DEF Executing, INFLIGHT
  <2>6. Cardinality(Executing(t)) = Cardinality(Executing(s)) + 1
    BY Zenon, <2>5, RobFinite, FS_AddElement
  <2> QED BY <1>0, <1>1, <1>2, <2>1, <2>2, <2>3, <2>4, <2>6 DEF Tallied
<1>7. t.wq \in 0 .. WQ_SIZE
  BY <1>0, <1>2 DEF Tables
<1> QED BY <1>2, <1>3, <1>5, <1>6, <1>7, RobKeeps

(* complete_execution.                                                     *)
LEMMA CompletionLsq ==
  ASSUME NEW s, NEW R, LsqInv(s, R), NEW i \in Rob(s), s.ROB[i].executed = INFLIGHT,
         IsMemory(s, i) => s.ROB[i].num_mem_ops = 0,
         NEW t, DOMAIN t = StateFields, \A g \in StateFields \ RobOnly : t[g] = s[g], t.wq = s.wq,
         DOMAIN t.ROB = Slots,
         \A p \in Slots : /\ SameOps(s.ROB[p], t.ROB[p])
                          /\ t.ROB[p].executed = IF p = i THEN COMPLETED ELSE s.ROB[p].executed,
         t.inflight_mem = s.inflight_mem - (IF IsMemory(s, i) THEN 1 ELSE 0),
         t.inflight_reg = s.inflight_reg - (IF IsMemory(s, i) THEN 0 ELSE 1)
  PROVE  LsqInv(t, R) /\ Calm(s, t) /\ (SeenExecuted(s) => SeenExecuted(t))
<1>0. Tallied(s) /\ Tables(s)
  BY DEF LsqInv, Held2
<1>1. i \in Slots /\ Rob(s) \subseteq Slots
  BY DEF Rob
<1>2. t.program = s.program
  BY DEF StateFields, RobOnly
<1>3. Tallied(t)
  <2>1. Rob(t) = Rob(s)
    BY DEF Rob, SameOps
  <2>2. \A p \in Slots : IsMemory(t, p) <=> IsMemory(s, p)
    BY Zenon, <1>2 DEF IsMemory, Code, SameOps
  <2>3. \A p \in Slots : t.ROB[p].num_mem_ops = s.ROB[p].num_mem_ops
    BY DEF SameOps
  <2>4. \A p \in Rob(t) : IsMemory(t, p) /\ t.ROB[p].executed = COMPLETED => t.ROB[p].num_mem_ops = 0
    BY <1>0, <1>1, <2>1, <2>2, <2>3 DEF Tallied
  <2>5. CASE IsMemory(s, i)
    <3>1. i \in ToComplete(s) /\ ToComplete(t) = ToComplete(s) \ {i}
      BY <1>1, <2>1, <2>2, <2>3, <2>5 DEF ToComplete, INFLIGHT, COMPLETED
    <3>2. Executing(t) = Executing(s)
      BY <1>1, <2>1, <2>2, <2>5 DEF Executing
    <3>3. Cardinality(ToComplete(t)) = Cardinality(ToComplete(s)) - 1
      BY <3>1, RobFinite, FS_RemoveElement
    <3>4. t.inflight_mem = s.inflight_mem - 1 /\ t.inflight_reg = s.inflight_reg - 0
      BY <2>5
    <3>5. Cardinality(ToComplete(s)) \in Nat /\ Cardinality(Executing(s)) \in Nat
      BY RobFinite
    <3> QED BY <1>0, <2>4, <3>2, <3>3, <3>4, <3>5 DEF Tallied
  <2>6. CASE ~IsMemory(s, i)
    <3>1. i \in Executing(s) /\ Executing(t) = Executing(s) \ {i}
      BY <1>1, <2>1, <2>2, <2>6 DEF Executing, INFLIGHT, COMPLETED
    <3>2. ToComplete(t) = ToComplete(s)
      BY <1>1, <2>1, <2>2, <2>3, <2>6 DEF ToComplete
    <3>3. Cardinality(Executing(t)) = Cardinality(Executing(s)) - 1
      BY <3>1, RobFinite, FS_RemoveElement
    <3>4. t.inflight_mem = s.inflight_mem - 0 /\ t.inflight_reg = s.inflight_reg - 1
      BY <2>6
    <3>5. Cardinality(ToComplete(s)) \in Nat /\ Cardinality(Executing(s)) \in Nat
      BY RobFinite
    <3> QED BY <1>0, <2>4, <3>2, <3>3, <3>4, <3>5 DEF Tallied
  <2> QED BY <2>5, <2>6
<1>4. t.wq \in 0 .. WQ_SIZE
  BY <1>0 DEF Tables
<1>5. \A p \in Slots : SameOps(s.ROB[p], t.ROB[p])
  OBVIOUS
<1> QED BY <1>3, <1>4, <1>5, RobKeeps

-------------------------------------------------------------------------------
(* A load completes: it leaves its queue with the data of from.            *)

LoadDone(s, t, q, from) ==
  LET i == s.LQ[q].rob_index
      n == s.ROB[i].num_mem_ops - 1
  IN  /\ DOMAIN t = StateFields
      /\ \A g \in StateFields \ {"ROB", "LQ", "l1d", "inflight_mem", "seen", "asserts"} : t[g] = s[g]
      /\ t.ROB = [s.ROB EXCEPT ![i] = [@ EXCEPT !["num_mem_ops"] = n]]
      /\ t.LQ = [s.LQ EXCEPT ![q] = EmptyLoad]
      /\ t.l1d = s.l1d \ {q}
      /\ t.inflight_mem = s.inflight_mem + (IF n = 0 THEN 1 ELSE 0)
      /\ t.seen = s.seen \cup {[id |-> s.LQ[q].id, op |-> s.LQ[q].data_index, from |-> from]}
      /\ t.asserts = s.asserts \cup (IF n < 0 THEN {"num_mem_ops"} ELSE {})

(* The operations of an instruction in flight are finitely many.           *)
LEMMA PendingFinite ==
  ASSUME NEW s, Order(s), NEW i \in Rob(s)
  PROVE  /\ IsFiniteSet(PendingLoads(s, i)) /\ Cardinality(PendingLoads(s, i)) \in Nat
         /\ IsFiniteSet(PendingStores(s, i)) /\ Cardinality(PendingStores(s, i)) \in Nat
<1>1. /\ DOMAIN Code(s, i).loads = 1 .. Len(Code(s, i).loads) /\ Len(Code(s, i).loads) \in Nat
      /\ DOMAIN Code(s, i).stores = 1 .. Len(Code(s, i).stores) /\ Len(Code(s, i).stores) \in Nat
  BY LiveAt, InstrIs
<1>2. IsFiniteSet(DOMAIN Code(s, i).loads) /\ IsFiniteSet(DOMAIN Code(s, i).stores)
  BY <1>1, FS_Interval
<1>3. PendingLoads(s, i) \subseteq DOMAIN Code(s, i).loads /\ PendingStores(s, i) \subseteq DOMAIN Code(s, i).stores
  BY DEF PendingLoads, PendingStores
<1> QED BY <1>2, <1>3, FS_Subset, FS_CardinalityType

(* The load at q, as its instruction knows it.                             *)
LEMMA LoadIs ==
  ASSUME NEW s, Order(s), LoadsHeld(s), NEW q \in Loads(s)
  PROVE  /\ q \in LqSlots /\ s.LQ[q].rob_index \in Rob(s) /\ s.LQ[q].rob_index \in Slots
         /\ s.ROB[s.LQ[q].rob_index].id = s.LQ[q].id
         /\ s.LQ[q].data_index \in DOMAIN Code(s, s.LQ[q].rob_index).loads
         /\ s.ROB[s.LQ[q].rob_index].lq[s.LQ[q].data_index] = q
         /\ LoadAddr(s, q) = Code(s, s.LQ[q].rob_index).loads[s.LQ[q].data_index]
         /\ InQueue(s, s.LQ[q].rob_index, s.LQ[q].data_index)
         /\ IsMemory(s, s.LQ[q].rob_index)
         /\ s.LQ[q].id \in Nat /\ s.LQ[q].id >= s.retired + 1 /\ s.LQ[q].id <= s.dispatched
         /\ s.LQ[q].data_index \in 1 .. NUM_INSTR_SOURCES
<1> DEFINE i == s.LQ[q].rob_index
           j == s.LQ[q].data_index
<1>1. /\ i \in Rob(s) /\ s.ROB[i].id = s.LQ[q].id /\ j \in DOMAIN Code(s, i).loads /\ s.ROB[i].lq[j] = q
  BY Zenon DEF LoadsHeld
<1> HIDE DEF i, j
<1>2. q \in LqSlots /\ i \in Slots /\ s.ROB[i].id # NoId
  BY <1>1 DEF Loads, Rob
<1>3. /\ s.ROB[i].id \in Nat /\ s.ROB[i].id >= s.retired + 1 /\ s.ROB[i].id <= s.dispatched
      /\ s.ROB[i].id \in DOMAIN s.program /\ Code(s, i) = s.program[s.ROB[i].id]
  BY <1>1, LiveAt
<1>4. /\ Len(Code(s, i).loads) \in Nat /\ Len(Code(s, i).stores) \in Nat
      /\ DOMAIN Code(s, i).loads = 1 .. Len(Code(s, i).loads)
      /\ DOMAIN Code(s, i).loads \subseteq 1 .. NUM_INSTR_SOURCES
  BY Zenon, <1>3, InstrIs
<1>5. Len(Code(s, i).loads) + Len(Code(s, i).stores) > 0
  <2> DEFINE n == Len(Code(s, i).loads)
             m == Len(Code(s, i).stores)
  <2>1. n \in Nat /\ m \in Nat /\ j \in 1 .. n
    BY <1>1, <1>4
  <2> HIDE DEF n, m
  <2>2. n + m > 0
    BY ONLY <2>1
  <2> QED BY <2>2 DEF n, m
<1>6. IsMemory(s, i)
  BY <1>2, <1>5 DEF IsMemory
<1>7. LoadAddr(s, q) = Code(s, i).loads[j]
  BY <1>1, <1>3 DEF LoadAddr, j
<1>8. InQueue(s, i, j)
  BY <1>1 DEF InQueue, j
<1> QED BY Zenon, <1>1, <1>2, <1>3, <1>4, <1>6, <1>7, <1>8 DEF i, j

(* What a completed load leaves behind.                                    *)
LEMMA LoadDoneViews ==
  ASSUME NEW s, Order(s), Entries(s), LoadsHeld(s), Counted(s), Tallied(s), Tables(s),
         NEW q \in Loads(s), NEW from, NEW t, LoadDone(s, t, q, from)
  PROVE  /\ Order(t) /\ KeepsOrder(s, t) /\ Rob(t) = Rob(s) /\ Loads(t) = Loads(s) \ {q} /\ Stores(t) = Stores(s)
         /\ \A i \in Slots : Code(t, i) = Code(s, i)
         /\ \A p \in Slots : /\ t.ROB[p].id = s.ROB[p].id /\ t.ROB[p].lq = s.ROB[p].lq /\ t.ROB[p].sq = s.ROB[p].sq
                             /\ t.ROB[p].mem_deps = s.ROB[p].mem_deps /\ t.ROB[p].executed = s.ROB[p].executed
                             /\ (p # s.LQ[q].rob_index => t.ROB[p].num_mem_ops = s.ROB[p].num_mem_ops)
         /\ t.ROB[s.LQ[q].rob_index].num_mem_ops = s.ROB[s.LQ[q].rob_index].num_mem_ops - 1
         /\ DOMAIN t.LQ = LqSlots /\ t.LQ[q] = EmptyLoad
         /\ \A r \in LqSlots : r # q => t.LQ[r] = s.LQ[r]
         /\ \A p \in Rob(s) : \A j \in DOMAIN Code(s, p).loads :
              s.ROB[p].lq[j] # NoIndex =>
                (InQueue(t, p, j) <=> InQueue(s, p, j) /\ ~(p = s.LQ[q].rob_index /\ j = s.LQ[q].data_index))
         /\ \A p \in Rob(s) : \A k \in DOMAIN Code(s, p).stores : Executed(t, p, k) <=> Executed(s, p, k)
<1> DEFINE i == s.LQ[q].rob_index
           j == s.LQ[q].data_index
<1>1. /\ q \in LqSlots /\ i \in Rob(s) /\ i \in Slots /\ s.ROB[i].id = s.LQ[q].id
  BY Zenon, LoadIs
<1>2. /\ t.program = s.program /\ t.head = s.head /\ t.retired = s.retired /\ t.dispatched = s.dispatched
      /\ t.SQ = s.SQ /\ DOMAIN t = StateFields
  BY Zenon DEF LoadDone, StateFields
<1>3. /\ DOMAIN s.ROB = Slots /\ \A p \in Slots : DOMAIN s.ROB[p] = EntryFields
  BY DEF Order, Shaped
<1>4. /\ DOMAIN t.ROB = Slots /\ (\A p \in Slots : p # i => t.ROB[p] = s.ROB[p])
      /\ t.ROB[i] = [s.ROB[i] EXCEPT !["num_mem_ops"] = s.ROB[i].num_mem_ops - 1]
  BY Zenon, <1>1, <1>3 DEF LoadDone
<1>5. /\ t.ROB[i].num_mem_ops = s.ROB[i].num_mem_ops - 1 /\ DOMAIN t.ROB[i] = EntryFields
      /\ t.ROB[i].id = s.ROB[i].id /\ t.ROB[i].lq = s.ROB[i].lq /\ t.ROB[i].sq = s.ROB[i].sq
      /\ t.ROB[i].mem_deps = s.ROB[i].mem_deps /\ t.ROB[i].executed = s.ROB[i].executed
  BY Zenon, <1>1, <1>3, <1>4 DEF EntryFields, EmptyEntry
<1>6. DOMAIN t.LQ = LqSlots /\ t.LQ[q] = EmptyLoad /\ \A r \in LqSlots : r # q => t.LQ[r] = s.LQ[r]
  BY Zenon, <1>1 DEF LoadDone, Tables
<1> HIDE DEF i, j
<1>7. KeepsOrder(s, t)
  BY Zenon, <1>2, <1>3, <1>4, <1>5 DEF KeepsOrder, Shaped
<1>8. Order(t) /\ Rob(t) = Rob(s) /\ \A p \in Slots : Code(t, p) = Code(s, p)
  BY <1>7, OrderSame
<1>9. Loads(t) = Loads(s) \ {q} /\ Stores(t) = Stores(s)
  BY <1>2, <1>6 DEF Loads, Stores, EmptyLoad
<1>10. ASSUME NEW p \in Rob(s), NEW h \in DOMAIN Code(s, p).loads, s.ROB[p].lq[h] # NoIndex
       PROVE  InQueue(t, p, h) <=> InQueue(s, p, h) /\ ~(p = i /\ h = j)
  <2>0. p \in Slots /\ s.ROB[p].id # NoId /\ s.ROB[p].lq[h] \in LqSlots
    BY <1>10, PlacesAre DEF Rob
  <2>1. t.ROB[p].id = s.ROB[p].id /\ t.ROB[p].lq = s.ROB[p].lq
    BY Zenon, <1>4, <1>5, <2>0
  <2>2. CASE s.ROB[p].lq[h] = q
    <3>1. ~InQueue(t, p, h)
      BY <1>6, <2>0, <2>1, <2>2 DEF InQueue, EmptyLoad
    <3>2. ASSUME InQueue(s, p, h) PROVE p = i /\ h = j
      <4>1. s.ROB[p].id = s.LQ[q].id /\ s.LQ[q].data_index = h
        BY <2>2, <3>2 DEF InQueue
      <4> QED BY <1>1, <4>1, LiveOne DEF j
    <3> QED BY <3>1, <3>2
  <2>3. CASE s.ROB[p].lq[h] # q
    <3>1. InQueue(t, p, h) <=> InQueue(s, p, h)
      BY Zenon, <1>6, <2>0, <2>1, <2>3 DEF InQueue
    <3>2. ~(p = i /\ h = j)
      BY <2>3, LoadIs DEF i, j
    <3> QED BY <3>1, <3>2
  <2> QED BY <2>2, <2>3
<1>11. ASSUME NEW p \in Rob(s), NEW k \in DOMAIN Code(s, p).stores PROVE Executed(t, p, k) <=> Executed(s, p, k)
  <2>1. p \in Slots
    BY DEF Rob
  <2> QED BY Zenon, <1>2, <1>4, <1>5, <2>1 DEF Executed
<1>12. \A p \in Slots : /\ t.ROB[p].id = s.ROB[p].id /\ t.ROB[p].lq = s.ROB[p].lq /\ t.ROB[p].sq = s.ROB[p].sq
                        /\ t.ROB[p].mem_deps = s.ROB[p].mem_deps /\ t.ROB[p].executed = s.ROB[p].executed
                        /\ (p # i => t.ROB[p].num_mem_ops = s.ROB[p].num_mem_ops)
  BY Zenon, <1>4, <1>5
<1> QED BY Zenon, <1>5, <1>6, <1>7, <1>8, <1>9, <1>10, <1>11, <1>12 DEF i, j

(* An operation of the instruction at i is done, and counted.              *)
LEMMA OpDoneTallied ==
  ASSUME NEW s, Tallied(s), NEW i \in Rob(s), IsMemory(s, i),
         s.ROB[i].num_mem_ops \in Nat, s.ROB[i].num_mem_ops >= 1,
         NEW t, t.program = s.program,
         \A p \in Slots : t.ROB[p].id = s.ROB[p].id /\ t.ROB[p].executed = s.ROB[p].executed,
         \A p \in Slots : p # i => t.ROB[p].num_mem_ops = s.ROB[p].num_mem_ops,
         t.ROB[i].num_mem_ops = s.ROB[i].num_mem_ops - 1,
         t.inflight_reg = s.inflight_reg,
         t.inflight_mem = s.inflight_mem + (IF s.ROB[i].num_mem_ops - 1 = 0 THEN 1 ELSE 0)
  PROVE  Tallied(t)
<1> DEFINE n == s.ROB[i].num_mem_ops
<1>1. Rob(t) = Rob(s) /\ Rob(s) \subseteq Slots /\ i \in Slots
  BY DEF Rob
<1>2. /\ n \in Nat /\ n >= 1 /\ t.ROB[i].num_mem_ops = n - 1
      /\ t.inflight_mem = s.inflight_mem + (IF n - 1 = 0 THEN 1 ELSE 0)
  OBVIOUS
<1> HIDE DEF n
<1>3. \A p \in Slots : IsMemory(t, p) <=> IsMemory(s, p)
  BY Zenon DEF IsMemory, Code
<1>4. Executing(t) = Executing(s)
  BY <1>1, <1>3 DEF Executing
<1>5. s.ROB[i].executed # COMPLETED /\ i \notin ToComplete(s)
  <2>1. s.ROB[i].num_mem_ops # 0
    BY <1>2 DEF n
  <2> QED BY <2>1 DEF Tallied, ToComplete
<1>6. ToComplete(t) = IF n - 1 = 0 THEN ToComplete(s) \cup {i} ELSE ToComplete(s)
  <2>1. \A p \in Rob(s) : p # i => (p \in ToComplete(t) <=> p \in ToComplete(s))
    BY <1>1, <1>3 DEF ToComplete
  <2>2. i \in ToComplete(t) <=> n - 1 = 0
    BY <1>1, <1>2, <1>3, <1>5 DEF ToComplete
  <2>3. ToComplete(t) \subseteq Rob(s) /\ ToComplete(s) \subseteq Rob(s)
    BY <1>1 DEF ToComplete
  <2>4. CASE n - 1 = 0
    BY <1>5, <2>1, <2>2, <2>3, <2>4
  <2>5. CASE ~(n - 1 = 0)
    <3>1. \A p : p \in ToComplete(t) <=> p \in ToComplete(s)
      BY <1>5, <2>1, <2>2, <2>3, <2>5
    <3> QED BY <2>5, <3>1
  <2> QED BY <2>4, <2>5
<1>7. Cardinality(ToComplete(t)) = Cardinality(ToComplete(s)) + (IF n - 1 = 0 THEN 1 ELSE 0)
  <2>1. Cardinality(ToComplete(s) \cup {i}) = Cardinality(ToComplete(s)) + 1
    BY Zenon, <1>5, RobFinite, FS_AddElement
  <2>2. Cardinality(ToComplete(s)) \in Nat
    BY RobFinite
  <2> QED BY <1>6, <2>1, <2>2
<1>8. ASSUME NEW p \in Rob(t), IsMemory(t, p), t.ROB[p].executed = COMPLETED PROVE t.ROB[p].num_mem_ops = 0
  <2>1. p \in Rob(s) /\ p \in Slots /\ IsMemory(s, p) /\ s.ROB[p].executed = COMPLETED
    BY <1>1, <1>3, <1>8
  <2>2. p # i
    BY <1>5, <2>1
  <2> QED BY <2>1, <2>2 DEF Tallied
<1> QED BY <1>2, <1>4, <1>7, <1>8 DEF Tallied

(* The counters.                                                           *)
LEMMA LoadDoneCounts ==
  ASSUME NEW s, Order(s), Entries(s), LoadsHeld(s), Counted(s), Tallied(s), Tables(s),
         NEW q \in Loads(s), NEW from, NEW t, LoadDone(s, t, q, from)
  PROVE  Counted(t) /\ Tallied(t) /\ t.asserts = s.asserts
<1> DEFINE i == s.LQ[q].rob_index
           j == s.LQ[q].data_index
           n == s.ROB[i].num_mem_ops
<1>1. /\ Rob(t) = Rob(s) /\ Rob(s) \subseteq Slots
      /\ \A p \in Slots : Code(t, p) = Code(s, p)
      /\ \A p \in Slots : /\ t.ROB[p].id = s.ROB[p].id /\ t.ROB[p].lq = s.ROB[p].lq /\ t.ROB[p].executed = s.ROB[p].executed
                          /\ (p # i => t.ROB[p].num_mem_ops = s.ROB[p].num_mem_ops)
      /\ t.ROB[i].num_mem_ops = n - 1
      /\ \A p \in Rob(s) : \A h \in DOMAIN Code(s, p).loads :
              s.ROB[p].lq[h] # NoIndex => (InQueue(t, p, h) <=> InQueue(s, p, h) /\ ~(p = i /\ h = j))
      /\ \A p \in Rob(s) : \A k \in DOMAIN Code(s, p).stores : Executed(t, p, k) <=> Executed(s, p, k)
  BY LoadDoneViews DEF Rob
<1>2. /\ q \in LqSlots /\ i \in Rob(s) /\ i \in Slots /\ j \in DOMAIN Code(s, i).loads /\ s.ROB[i].lq[j] = q
      /\ InQueue(s, i, j) /\ IsMemory(s, i)
  BY Zenon, LoadIs
<1>3. /\ t.inflight_mem = s.inflight_mem + (IF n - 1 = 0 THEN 1 ELSE 0) /\ t.inflight_reg = s.inflight_reg
      /\ t.asserts = s.asserts \cup (IF n - 1 < 0 THEN {"num_mem_ops"} ELSE {}) /\ t.program = s.program
  BY Zenon DEF LoadDone, StateFields
<1> HIDE DEF i, j, n
<1>4. PendingLoads(t, i) = PendingLoads(s, i) \ {j} /\ j \in PendingLoads(s, i)
  <2>1. q # NoIndex
    BY <1>2, QueueSizes
  <2> QED BY <1>1, <1>2, <2>1 DEF PendingLoads
<1>5. \A p \in Rob(s) : p # i => PendingLoads(t, p) = PendingLoads(s, p)
  BY <1>1 DEF PendingLoads
<1>6. \A p \in Rob(s) : PendingStores(t, p) = PendingStores(s, p)
  BY <1>1 DEF PendingStores
<1>7. /\ Cardinality(PendingLoads(t, i)) = Cardinality(PendingLoads(s, i)) - 1
      /\ Cardinality(PendingLoads(s, i)) \in Nat /\ Cardinality(PendingStores(s, i)) \in Nat
      /\ Cardinality(PendingLoads(t, i)) \in Nat
  <2>1. /\ IsFiniteSet(PendingLoads(s, i)) /\ Cardinality(PendingLoads(s, i)) \in Nat
        /\ Cardinality(PendingStores(s, i)) \in Nat
    BY <1>2, PendingFinite
  <2>2. IsFiniteSet(PendingLoads(t, i))
    BY <1>4, <2>1, FS_Subset
  <2> QED BY <1>4, <2>1, <2>2, FS_RemoveElement, FS_CardinalityType
<1>8. n = Cardinality(PendingLoads(s, i)) + Cardinality(PendingStores(s, i)) /\ n \in Nat /\ n >= 1
  <2>1. n = Cardinality(PendingLoads(s, i)) + Cardinality(PendingStores(s, i))
    BY <1>2 DEF Counted, n
  <2> QED BY <1>7, <2>1
<1>9. t.asserts = s.asserts
  BY <1>3, <1>8
<1>10. Counted(t)
  <2> SUFFICES ASSUME NEW p \in Rob(s)
               PROVE  t.ROB[p].num_mem_ops = Cardinality(PendingLoads(t, p)) + Cardinality(PendingStores(t, p))
    BY <1>1 DEF Counted
  <2>1. CASE p = i
    <3>1. n - 1 = (Cardinality(PendingLoads(s, i)) - 1) + Cardinality(PendingStores(s, i))
      BY <1>7, <1>8
    <3> QED BY <1>1, <1>2, <1>6, <1>7, <2>1, <3>1
  <2>2. CASE p # i
    <3>1. p \in Slots
      BY <1>1
    <3> QED BY <1>1, <1>5, <1>6, <2>2, <3>1 DEF Counted
  <2> QED BY <2>1, <2>2
<1>11. Tallied(t)
  <2>1. /\ t.ROB[i].num_mem_ops = s.ROB[i].num_mem_ops - 1 /\ s.ROB[i].num_mem_ops \in Nat /\ s.ROB[i].num_mem_ops >= 1
        /\ t.inflight_mem = s.inflight_mem + (IF s.ROB[i].num_mem_ops - 1 = 0 THEN 1 ELSE 0)
    BY <1>1, <1>3, <1>8 DEF n
  <2>2. \A p \in Slots : p # i => t.ROB[p].num_mem_ops = s.ROB[p].num_mem_ops
    BY <1>1
  <2>3. \A p \in Slots : t.ROB[p].id = s.ROB[p].id /\ t.ROB[p].executed = s.ROB[p].executed
    BY <1>1
  <2> QED BY <1>2, <1>3, <2>1, <2>2, <2>3, OpDoneTallied
<1> QED BY <1>9, <1>10, <1>11

LEMMA LoadDoneLsq ==
  ASSUME NEW s, NEW R, LsqInv(s, R), NEW q \in Loads(s), NEW from \in Nat,
         LastStore(s.program, from, s.LQ[q].id, LoadAddr(s, q)),
         s.LQ[q].producer_id # NoId \/ q \in s.l1d,
         NEW t, LoadDone(s, t, q, from)
  PROVE  /\ LsqInv(t, R \ {Key(s, q)}) /\ SameView(s, t) /\ t.asserts = s.asserts
         /\ Loads(t) = Loads(s) \ {q}
<1> DEFINE i == s.LQ[q].rob_index
           j == s.LQ[q].data_index
<1>0. /\ Order(s) /\ Tables(s) /\ Entries(s) /\ LoadsHeld(s) /\ StoresHeld(s) /\ StoresStay(s)
      /\ Sourced(s) /\ DepsSound(s) /\ MemoryLast(s) /\ SeenSound(s) /\ SeenAll(s)
      /\ Awaited(s, R) /\ StoreRing(s) /\ StoresWait(s) /\ Counted(s) /\ Tallied(s)
      /\ LoadStages(s) /\ StoreStages(s) /\ Translating(s)
  BY DEF LsqInv, Held2, Flow, Rings, Places
<1>1. /\ Order(t) /\ KeepsOrder(s, t) /\ Rob(t) = Rob(s) /\ Loads(t) = Loads(s) \ {q} /\ Stores(t) = Stores(s)
      /\ \A p \in Slots : Code(t, p) = Code(s, p)
      /\ \A p \in Slots : /\ t.ROB[p].id = s.ROB[p].id /\ t.ROB[p].lq = s.ROB[p].lq /\ t.ROB[p].sq = s.ROB[p].sq
                          /\ t.ROB[p].mem_deps = s.ROB[p].mem_deps
                          /\ (p # i => t.ROB[p].num_mem_ops = s.ROB[p].num_mem_ops)
      /\ DOMAIN t.LQ = LqSlots /\ t.LQ[q] = EmptyLoad
      /\ \A r \in LqSlots : r # q => t.LQ[r] = s.LQ[r]
      /\ \A p \in Rob(s) : \A h \in DOMAIN Code(s, p).loads :
              s.ROB[p].lq[h] # NoIndex => (InQueue(t, p, h) <=> InQueue(s, p, h) /\ ~(p = i /\ h = j))
      /\ \A p \in Rob(s) : \A k \in DOMAIN Code(s, p).stores : Executed(t, p, k) <=> Executed(s, p, k)
  BY <1>0, LoadDoneViews
<1>2. Counted(t) /\ Tallied(t) /\ t.asserts = s.asserts
  BY <1>0, LoadDoneCounts
<1>3. /\ q \in LqSlots /\ i \in Rob(s) /\ i \in Slots /\ s.ROB[i].id = s.LQ[q].id
      /\ j \in DOMAIN Code(s, i).loads /\ s.ROB[i].lq[j] = q /\ LoadAddr(s, q) = Code(s, i).loads[j]
      /\ s.LQ[q].id \in Nat /\ s.LQ[q].id >= s.retired + 1 /\ s.LQ[q].id <= s.dispatched
  BY Zenon, <1>0, LoadIs
<1>4. Rob(s) \subseteq Slots /\ Loads(s) \subseteq LqSlots /\ Stores(s) \subseteq SqSlots
  BY DEF Rob, Loads, Stores
<1>5. /\ t.program = s.program /\ t.retired = s.retired /\ t.dispatched = s.dispatched /\ t.SQ = s.SQ
      /\ t.sq_tail = s.sq_tail /\ t.STA = s.STA /\ t.memory = s.memory /\ t.wq = s.wq
      /\ t.RTL0 = s.RTL0 /\ t.RTL1 = s.RTL1 /\ t.RTS0 = s.RTS0 /\ t.RTS1 = s.RTS1 /\ t.dtlb = s.dtlb
      /\ t.l1d = s.l1d \ {q}
      /\ t.seen = s.seen \cup {[id |-> s.LQ[q].id, op |-> j, from |-> from]}
  BY Zenon DEF LoadDone, StateFields
<1>6. /\ \A r \in Loads(t) : r \in Loads(s) /\ r # q /\ t.LQ[r] = s.LQ[r]
      /\ \A r \in Loads(t) : LoadAddr(t, r) = LoadAddr(s, r) /\ Key(t, r) = Key(s, r)
  <2>1. \A r \in Loads(t) : r \in Loads(s) /\ r # q /\ t.LQ[r] = s.LQ[r]
    BY <1>1, <1>4
  <2> QED BY Zenon, <1>5, <2>1 DEF LoadAddr, Key
<1> HIDE DEF i, j
<1>7. Tables(t)
  <2>1. ASSUME NEW r \in LqSlots
        PROVE  DOMAIN t.LQ[r] = LoadFields /\ (r \notin Loads(t) => t.LQ[r].producer_id = NoId)
    <3>1. CASE r = q
      BY <1>1, <3>1 DEF EmptyLoad, LoadFields
    <3>2. CASE r # q
      BY <1>0, <1>1, <3>2 DEF Tables
    <3> QED BY <3>1, <3>2
  <2> QED BY Zenon, <1>0, <1>1, <1>2, <1>5, <2>1 DEF Tables
<1>8. Entries(t)
  <2>1. \A p \in Slots \ Rob(s) : p # i
    BY <1>3
  <2> QED BY <1>0, <1>1, <1>4, <2>1 DEF Entries
<1>9. LoadsHeld(t)
  <2> SUFFICES ASSUME NEW r \in Loads(t)
               PROVE  /\ t.LQ[r].rob_index \in Rob(t) /\ t.ROB[t.LQ[r].rob_index].id = t.LQ[r].id
                      /\ t.LQ[r].data_index \in DOMAIN Code(t, t.LQ[r].rob_index).loads
                      /\ t.ROB[t.LQ[r].rob_index].lq[t.LQ[r].data_index] = r
    BY Zenon DEF LoadsHeld
  <2>1. r \in Loads(s) /\ t.LQ[r] = s.LQ[r]
    BY <1>6
  <2>2. /\ s.LQ[r].rob_index \in Rob(s) /\ s.ROB[s.LQ[r].rob_index].id = s.LQ[r].id
        /\ s.LQ[r].data_index \in DOMAIN Code(s, s.LQ[r].rob_index).loads
        /\ s.ROB[s.LQ[r].rob_index].lq[s.LQ[r].data_index] = r
    BY Zenon, <1>0, <2>1 DEF LoadsHeld
  <2>3. s.LQ[r].rob_index \in Slots
    BY Zenon, <1>4, <2>2
  <2> QED BY <1>1, <2>1, <2>2, <2>3
<1>10. StoresHeld(t)
  BY <1>0, <1>1, <1>4, <1>5 DEF StoresHeld
<1>11. StoresStay(t)
  BY <1>0, <1>1, <1>4, <1>5 DEF StoresStay
<1>12. Sourced(t)
  BY <1>0, <1>5, <1>6 DEF Sourced
<1>13. DepsSound(t)
  BY <1>0, <1>1, <1>4, <1>5 DEF DepsSound
<1>14. MemoryLast(t)
  BY <1>0, <1>5 DEF MemoryLast
<1>15. SeenSound(t)
  <2> DEFINE o == [id |-> s.LQ[q].id, op |-> j, from |-> from]
  <2>1. /\ o = [id |-> o.id, op |-> o.op, from |-> o.from]
        /\ o.id = s.LQ[q].id /\ o.op = j /\ o.from = from
    OBVIOUS
  <2>2. s.program[s.LQ[q].id] = Code(s, i) /\ s.retired \in Nat /\ s.dispatched \in Nat
    BY Zenon, <1>0, <1>3, OrderCounts DEF Code
  <2>3. s.LQ[q].id \in 1 .. s.dispatched
    BY <1>3, <2>2
  <2> HIDE DEF o
  <2>4. /\ o = [id |-> o.id, op |-> o.op, from |-> o.from]
        /\ o.id \in 1 .. s.dispatched /\ o.op \in DOMAIN s.program[o.id].loads
        /\ o.from \in Nat /\ LastStore(s.program, o.from, o.id, s.program[o.id].loads[o.op])
    BY <1>3, <2>1, <2>2, <2>3
  <2>5. t.seen = s.seen \cup {o}
    BY <1>5 DEF o
  <2> QED BY Zenon, <1>0, <1>5, <2>4, <2>5 DEF SeenSound
<1>16. SeenAll(t)
  <2> SUFFICES ASSUME NEW p \in Rob(s), NEW h \in DOMAIN Code(s, p).loads,
                      s.ROB[p].lq[h] # NoIndex, ~InQueue(t, p, h)
               PROVE  \E o \in t.seen : o.id = s.ROB[p].id /\ o.op = h
    BY <1>1, <1>4 DEF SeenAll
  <2>1. CASE InQueue(s, p, h)
    <3>1. p = i /\ h = j
      BY <1>1, <2>1
    <3>2. [id |-> s.LQ[q].id, op |-> j, from |-> from] \in t.seen
      BY <1>5
    <3> QED BY <1>3, <3>1, <3>2
  <2>2. CASE ~InQueue(s, p, h)
    BY <1>0, <1>5, <2>2 DEF SeenAll
  <2> QED BY <2>1, <2>2
<1>17. Awaited(t, R \ {Key(s, q)})
  <2> SUFFICES ASSUME NEW r \in Loads(t), s.LQ[r].producer_id # NoId
               PROVE  \E p \in Rob(s) : Finds(t, r, p, R \ {Key(s, q)})
    BY Zenon, <1>1, <1>6 DEF Awaited
  <2>1. r \in Loads(s) /\ t.LQ[r] = s.LQ[r] /\ r # q
    BY <1>6
  <2>2. PICK p \in Rob(s) : Finds(s, r, p, R)
    BY <1>0, <2>1 DEF Awaited
  <2>3. Key(s, r) # Key(s, q)
    <3>1. s.ROB[s.LQ[r].rob_index].lq[s.LQ[r].data_index] = r /\ s.ROB[i].lq[j] = q
      BY Zenon, <1>0, <1>3, <2>1, LoadIs
    <3> QED BY Zenon, <2>1, <3>1 DEF Key, i, j
  <2>4. LoadAddr(t, r) = LoadAddr(s, r) /\ Key(t, r) = Key(s, r)
    BY <1>6
  <2>5. /\ p \in Slots /\ Code(t, p) = Code(s, p) /\ t.ROB[p].id = s.ROB[p].id /\ t.ROB[p].mem_deps = s.ROB[p].mem_deps
        /\ \A k \in DOMAIN Code(s, p).stores : Executed(t, p, k) <=> Executed(s, p, k)
    BY <1>1, <1>4
  <2>6. Finds(t, r, p, R \ {Key(s, q)})
    BY <2>1, <2>2, <2>3, <2>4, <2>5 DEF Finds
  <2> QED BY <2>6
<1>18. StoreRing(t) /\ StoresWait(t)
  BY <1>0, <1>1, <1>5 DEF StoreRing, StoresWait
<1>19. StoreStages(t) /\ \A a, b : StoreAt(t, a, b) = StoreAt(s, a, b)
  BY <1>0, <1>5, StoresLeft
<1>20. \A a, b : LoadAt(t, a, b) = LoadAt(s, a, b) \ {q}
  BY <1>1, <1>6 DEF LoadAt
<1>21. /\ LoadAt(s, 0, 0) \ {q} = LoadAt(s, 0, 0) /\ LoadAt(s, INFLIGHT, 0) \ {q} = LoadAt(s, INFLIGHT, 0)
       /\ LoadAt(s, COMPLETED, 0) \ {q} = LoadAt(s, COMPLETED, 0)
  <2>1. s.LQ[q].producer_id = NoId => q \in LoadAt(s, COMPLETED, INFLIGHT)
    BY <1>0 DEF LoadStages
  <2>2. /\ q \notin LoadAt(s, 0, 0) /\ q \notin LoadAt(s, INFLIGHT, 0) /\ q \notin LoadAt(s, COMPLETED, 0)
    BY <2>1 DEF LoadAt, INFLIGHT, COMPLETED
  <2> QED BY <2>2
<1>22. LoadStages(t)
  <2>1. /\ LoadAt(t, 0, 0) = LoadAt(s, 0, 0) /\ LoadAt(t, COMPLETED, 0) = LoadAt(s, COMPLETED, 0)
        /\ LoadAt(t, INFLIGHT, 0) = LoadAt(s, INFLIGHT, 0)
        /\ LoadAt(t, COMPLETED, INFLIGHT) = LoadAt(s, COMPLETED, INFLIGHT) \ {q}
    BY <1>20, <1>21
  <2>2. t.l1d = LoadAt(t, COMPLETED, INFLIGHT)
    BY <1>0, <1>5, <2>1 DEF LoadStages
  <2>3. ASSUME NEW r \in Loads(t), t.LQ[r].producer_id = NoId
        PROVE  r \in LoadAt(t, 0, 0) \cup LoadAt(t, INFLIGHT, 0) \cup LoadAt(t, COMPLETED, 0) \cup LoadAt(t, COMPLETED, INFLIGHT)
    <3>1. r \in Loads(s) /\ r # q /\ s.LQ[r].producer_id = NoId
      BY <1>6, <2>3
    <3>2. r \in LoadAt(s, 0, 0) \cup LoadAt(s, INFLIGHT, 0) \cup LoadAt(s, COMPLETED, 0) \cup LoadAt(s, COMPLETED, INFLIGHT)
      BY <1>0, <3>1 DEF LoadStages
    <3> QED BY <2>1, <3>1, <3>2
  <2> QED BY <1>0, <1>5, <2>1, <2>2, <2>3 DEF LoadStages
<1>23. Translating(t)
  <2>1. LoadAt(t, INFLIGHT, 0) = LoadAt(s, INFLIGHT, 0)
    BY <1>20, <1>21
  <2> QED BY <1>0, <1>5, <1>19, <2>1 DEF Translating
<1>24. SameView(s, t)
  <2>1. s.retired \in Nat /\ ~(s.LQ[q].id <= s.retired)
    BY <1>0, <1>3, OrderCounts
  <2> QED BY <1>5, <2>1 DEF SameView
<1> QED BY <1>1, <1>2, <1>7, <1>8, <1>9, <1>10, <1>11, <1>12, <1>13, <1>14, <1>15, <1>16, <1>17, <1>18, <1>19, <1>22, <1>23, <1>24
        DEF LsqInv, Held2, Flow, Rings, Places

(* Its producer is a store that has executed.                              *)
LEMMA LoadDoneSeen ==
  ASSUME NEW s, NEW R, LsqInv(s, R), SeenExecuted(s), NEW q \in Loads(s), NEW from,
         \A p \in Rob(s) : s.ROB[p].id = from =>
           \E k \in DOMAIN Code(s, p).stores : Code(s, p).stores[k] = LoadAddr(s, q) /\ Executed(s, p, k),
         NEW t, LoadDone(s, t, q, from)
  PROVE  SeenExecuted(t)
<1>0. Order(s) /\ Tables(s) /\ Entries(s) /\ LoadsHeld(s) /\ Counted(s) /\ Tallied(s)
  BY DEF LsqInv, Held2
<1>1. /\ Rob(t) = Rob(s) /\ Rob(s) \subseteq Slots
      /\ \A p \in Slots : Code(t, p) = Code(s, p)
      /\ \A p \in Slots : t.ROB[p].id = s.ROB[p].id
      /\ \A p \in Rob(s) : \A k \in DOMAIN Code(s, p).stores : Executed(t, p, k) <=> Executed(s, p, k)
  BY <1>0, LoadDoneViews DEF Rob
<1> DEFINE o == [id |-> s.LQ[q].id, op |-> s.LQ[q].data_index, from |-> from]
<1>2. t.seen = s.seen \cup {o} /\ t.program = s.program
  BY Zenon DEF LoadDone, StateFields
<1>3. o.id = s.LQ[q].id /\ o.op = s.LQ[q].data_index /\ o.from = from
  OBVIOUS
<1> HIDE DEF o
<1>4. s.program[o.id].loads[o.op] = LoadAddr(s, q)
  BY Zenon, <1>3 DEF LoadAddr
<1> SUFFICES ASSUME NEW u \in t.seen, NEW p \in Rob(s), s.ROB[p].id = u.from
             PROVE  \E k \in DOMAIN Code(s, p).stores :
                      Code(s, p).stores[k] = s.program[u.id].loads[u.op] /\ Executed(s, p, k)
  BY <1>1, <1>2 DEF SeenExecuted
<1>5. CASE u \in s.seen
  BY <1>5 DEF SeenExecuted
<1>6. CASE u = o
  BY Zenon, <1>3, <1>4, <1>6
<1> QED BY <1>2, <1>5, <1>6

LEMMA LsqShape ==
  ASSUME NEW s, NEW R, LsqInv(s, R)
  PROVE  /\ Order(s) /\ Tables(s) /\ Entries(s) /\ LoadsHeld(s) /\ StoresHeld(s) /\ StoresStay(s)
         /\ Sourced(s) /\ DepsSound(s) /\ MemoryLast(s) /\ SeenSound(s) /\ SeenAll(s)
         /\ Awaited(s, R) /\ StoreRing(s) /\ StoresWait(s) /\ Counted(s) /\ Tallied(s)
         /\ LoadStages(s) /\ StoreStages(s) /\ Translating(s) /\ Shaped(s)
         /\ DOMAIN s = StateFields /\ DOMAIN s.ROB = Slots /\ \A p \in Slots : DOMAIN s.ROB[p] = EntryFields
         /\ Rob(s) \subseteq Slots /\ Loads(s) \subseteq LqSlots /\ Stores(s) \subseteq SqSlots
BY DEF LsqInv, Held2, Flow, Rings, Places, Order, Shaped, Rob, Loads, Stores

LEMMA LsqMore ==
  ASSUME NEW s, NEW R, NEW S, LsqInv(s, R), R \subseteq S
  PROVE  LsqInv(s, S)
<1>1. Awaited(s, S)
  BY DEF LsqInv, Awaited, Finds
<1> QED BY <1>1 DEF LsqInv

LEMMA ForwardIs ==
  ASSUME NEW s, Shaped(s), NEW q, q \notin s.l1d, NEW from
  PROVE  LoadDone(s, Forward(s, q, from), q, from)
<1> DEFINE o == [id |-> s.LQ[q].id, op |-> s.LQ[q].data_index, from |-> from]
           i == s.LQ[q].rob_index
           n == s.ROB[i].num_mem_ops - 1
           t == Forward(s, q, from)
           a == Sees(s, q, from)
           b == OpsDone(a, i, 1)
<1>1. t = ReleaseLoadQueue(b, q)
  BY DEF Forward
<1>2. /\ DOMAIN a = StateFields /\ \A g \in StateFields \ {"seen"} : a[g] = s[g]
      /\ a.seen = s.seen \cup {o}
  BY DEF Sees, Shaped, StateFields
<1> HIDE DEF a, o
<1>3. a.ROB[i].num_mem_ops - 1 = n /\ a.ROB = s.ROB /\ a.inflight_mem = s.inflight_mem /\ a.asserts = s.asserts
  BY <1>2 DEF StateFields
<1>4. /\ DOMAIN b = StateFields /\ \A g \in StateFields \ {"ROB", "inflight_mem", "asserts"} : b[g] = a[g]
      /\ b.ROB = [a.ROB EXCEPT ![i] = [@ EXCEPT !["num_mem_ops"] = a.ROB[i].num_mem_ops - 1]]
      /\ b.inflight_mem = a.inflight_mem + (IF a.ROB[i].num_mem_ops - 1 = 0 THEN 1 ELSE 0)
      /\ b.asserts = a.asserts \cup (IF a.ROB[i].num_mem_ops - 1 < 0 THEN {"num_mem_ops"} ELSE {})
  BY Zenon, <1>2 DEF OpsDone, StateFields
<1> HIDE DEF b
<1>5. /\ DOMAIN t = StateFields /\ \A g \in StateFields \ {"LQ"} : t[g] = b[g]
      /\ t.LQ = [b.LQ EXCEPT ![q] = EmptyLoad]
  BY Zenon, <1>1, <1>4 DEF ReleaseLoadQueue, StateFields
<1> HIDE DEF t
<1>6. /\ t.ROB = b.ROB /\ t.inflight_mem = b.inflight_mem /\ t.asserts = b.asserts /\ t.seen = b.seen /\ b.seen = a.seen
      /\ b.LQ = a.LQ /\ a.LQ = s.LQ /\ t.l1d = b.l1d /\ b.l1d = a.l1d /\ a.l1d = s.l1d
  BY Zenon, <1>2, <1>4, <1>5 DEF StateFields
<1>7. \A g \in StateFields \ {"ROB", "LQ", "l1d", "inflight_mem", "seen", "asserts"} : t[g] = s[g]
  BY Zenon, <1>2, <1>4, <1>5
<1>8. s.l1d = s.l1d \ {q}
  OBVIOUS
<1> QED BY Zenon, <1>2, <1>3, <1>4, <1>5, <1>6, <1>7, <1>8 DEF LoadDone, t, o

LEMMA FetchedIs ==
  ASSUME NEW s, Shaped(s), NEW q, s.ROB[s.LQ[q].rob_index].id = s.LQ[q].id
  PROVE  LoadDone(s, Fetched(s, q), q, s.memory[LoadAddr(s, q)])
<1> DEFINE from == s.memory[LoadAddr(s, q)]
           o == [id |-> s.LQ[q].id, op |-> s.LQ[q].data_index, from |-> from]
           i == s.LQ[q].rob_index
           n == s.ROB[i].num_mem_ops - 1
           t == Fetched(s, q)
           c == [CheckRob(s, q) EXCEPT !.l1d = @ \ {q}]
           a == Sees(c, q, from)
           b == OpsDone(a, i, 1)
<1>1. t = ReleaseLoadQueue(b, q)
  BY DEF Fetched
<1>9. DOMAIN c = StateFields /\ (\A g \in StateFields \ {"l1d"} : c[g] = s[g]) /\ c.l1d = s.l1d \ {q}
  <2>1. s.asserts \cup {} = s.asserts
    OBVIOUS
  <2> QED BY Zenon, <2>1 DEF CheckRob, Shaped, StateFields
<1> HIDE DEF c, from
<1>2. /\ DOMAIN a = StateFields /\ \A g \in StateFields \ {"seen"} : a[g] = c[g]
      /\ a.seen = c.seen \cup {[id |-> c.LQ[q].id, op |-> c.LQ[q].data_index, from |-> from]}
  BY <1>9 DEF Sees, StateFields
<1>10. c.LQ = s.LQ /\ c.seen = s.seen /\ c.ROB = s.ROB
  BY <1>9 DEF StateFields
<1>11. a.seen = s.seen \cup {o}
  BY <1>2, <1>10
<1> HIDE DEF a, o
<1>3. a.ROB[i].num_mem_ops - 1 = n /\ a.ROB = s.ROB /\ a.inflight_mem = s.inflight_mem /\ a.asserts = s.asserts
  BY <1>2, <1>9 DEF StateFields
<1>4. /\ DOMAIN b = StateFields /\ \A g \in StateFields \ {"ROB", "inflight_mem", "asserts"} : b[g] = a[g]
      /\ b.ROB = [a.ROB EXCEPT ![i] = [@ EXCEPT !["num_mem_ops"] = a.ROB[i].num_mem_ops - 1]]
      /\ b.inflight_mem = a.inflight_mem + (IF a.ROB[i].num_mem_ops - 1 = 0 THEN 1 ELSE 0)
      /\ b.asserts = a.asserts \cup (IF a.ROB[i].num_mem_ops - 1 < 0 THEN {"num_mem_ops"} ELSE {})
  BY Zenon, <1>2 DEF OpsDone, StateFields
<1> HIDE DEF b
<1>5. /\ DOMAIN t = StateFields /\ \A g \in StateFields \ {"LQ"} : t[g] = b[g]
      /\ t.LQ = [b.LQ EXCEPT ![q] = EmptyLoad]
  BY Zenon, <1>1, <1>4 DEF ReleaseLoadQueue, StateFields
<1> HIDE DEF t
<1>6. /\ t.ROB = b.ROB /\ t.inflight_mem = b.inflight_mem /\ t.asserts = b.asserts /\ t.seen = b.seen /\ b.seen = a.seen
      /\ b.LQ = a.LQ /\ a.LQ = s.LQ /\ t.l1d = b.l1d /\ b.l1d = a.l1d /\ a.l1d = s.l1d \ {q}
  BY Zenon, <1>2, <1>4, <1>5, <1>9 DEF StateFields
<1>7. \A g \in StateFields \ {"ROB", "LQ", "l1d", "inflight_mem", "seen", "asserts"} : t[g] = s[g]
  BY <1>2, <1>4, <1>5, <1>9
<1> QED BY Zenon, <1>3, <1>4, <1>5, <1>6, <1>7, <1>11 DEF LoadDone, t, o, from

(* L1D answers.                                                            *)
LEMMA FetchedLsq ==
  ASSUME NEW s, s.asserts = {}, LsqInv(s, {}), NEW q \in s.l1d
  PROVE  Follows(s, Fetched(s, q))
<1> DEFINE a == LoadAddr(s, q)
           m == s.memory[a]
           t == Fetched(s, q)
           n == s.LQ[q].id
<1>0. /\ Order(s) /\ Tables(s) /\ LoadsHeld(s) /\ Sourced(s) /\ MemoryLast(s) /\ LoadStages(s) /\ Shaped(s)
      /\ Rob(s) \subseteq Slots
  BY LsqShape
<1>1. q \in Loads(s) /\ s.LQ[q].producer_id = NoId
  BY <1>0 DEF LoadStages, LoadAt
<1>2. /\ s.LQ[q].rob_index \in Rob(s) /\ s.ROB[s.LQ[q].rob_index].id = n
      /\ s.LQ[q].data_index \in DOMAIN Code(s, s.LQ[q].rob_index).loads
      /\ a = Code(s, s.LQ[q].rob_index).loads[s.LQ[q].data_index]
      /\ n \in Nat /\ n >= s.retired + 1
  BY <1>0, <1>1, LoadIs
<1>3. a \in Addr
  <2>1. Code(s, s.LQ[q].rob_index).loads \in Seq(Addr)
    BY <1>0, <1>2, LiveAt, InstrIs
  <2> HIDE DEF a
  <2> QED BY <1>2, <2>1, ElementOfSeq, LenProperties
<1> HIDE DEF a, t
<1>4. m \in Nat /\ LastStore(s.program, m, s.retired + 1, a)
  BY <1>0, <1>3 DEF Tables, MemoryLast
<1>5. s.retired \in Nat
  BY <1>0, OrderCounts
<1>6. \A k \in s.retired + 1 .. n - 1 : a \notin Range(s.program[k].stores)
  BY <1>0, <1>1 DEF Sourced, a
<1> HIDE DEF n, m
<1>7. LastStore(s.program, m, n, a)
  <2>1. m < n
    BY <1>2, <1>4, <1>5 DEF LastStore
  <2>2. ASSUME NEW k \in m + 1 .. n - 1 PROVE a \notin Range(s.program[k].stores)
    <3>1. k \in m + 1 .. (s.retired + 1) - 1 \/ k \in s.retired + 1 .. n - 1
      BY <1>2, <1>4, <1>5
    <3> QED BY <1>4, <1>6, <3>1 DEF LastStore
  <2> QED BY <1>4, <2>1, <2>2 DEF LastStore
<1>8. LoadDone(s, t, q, m)
  BY Zenon, <1>0, <1>2, FetchedIs DEF t, m, a, n
<1>9. /\ LsqInv(t, {} \ {Key(s, q)}) /\ SameView(s, t) /\ t.asserts = s.asserts
  <2>1. LastStore(s.program, m, s.LQ[q].id, LoadAddr(s, q))
    BY <1>7 DEF a, n
  <2>2. ASSUME NEW R, LsqInv(s, R)
        PROVE  LsqInv(t, R \ {Key(s, q)}) /\ SameView(s, t) /\ t.asserts = s.asserts
    <3>1. q \in Loads(s) /\ m \in Nat /\ LastStore(s.program, m, s.LQ[q].id, LoadAddr(s, q))
      BY <1>1, <1>4, <2>1
    <3>2. s.LQ[q].producer_id # NoId \/ q \in s.l1d
      OBVIOUS
    <3>3. LoadDone(s, t, q, m)
      BY <1>8
    <3>4. LsqInv(s, R)
      BY <2>2
    <3> QED BY <3>1, <3>2, <3>3, <3>4, LoadDoneLsq
  <2> QED BY <2>2
<1>10. \A p \in Rob(s) : s.ROB[p].id # m
  <2>1. \A p \in Rob(s) : s.ROB[p].id \in Nat /\ s.ROB[p].id >= s.retired + 1
    BY <1>0, LiveAt
  <2>2. m < s.retired + 1
    BY <1>4 DEF LastStore
  <2> QED BY <1>4, <1>5, <2>1, <2>2
<1>11. SeenExecuted(s) => SeenExecuted(t)
  BY <1>1, <1>8, <1>10, LoadDoneSeen
<1>12. LsqInv(t, {})
  <2>1. {} \ {Key(s, q)} = {}
    OBVIOUS
  <2> QED BY <1>9, <2>1
<1> QED BY <1>9, <1>11, <1>12 DEF Follows, ExcusedIn, t

-------------------------------------------------------------------------------
(* A store executes.                                                       *)

StoreDone(s, t, x) ==
  LET i == s.SQ[x].rob_index
      n == s.ROB[i].num_mem_ops - 1
  IN  /\ DOMAIN t = StateFields
      /\ \A g \in StateFields \ {"ROB", "SQ", "RTS1", "inflight_mem", "asserts"} : t[g] = s[g]
      /\ t.ROB = [s.ROB EXCEPT ![i] = [@ EXCEPT !["num_mem_ops"] = n]]
      /\ t.SQ = [s.SQ EXCEPT ![x] = [@ EXCEPT !["fetched"] = COMPLETED]]
      /\ t.RTS1 = Tail(s.RTS1)
      /\ t.inflight_mem = s.inflight_mem + (IF n = 0 THEN 1 ELSE 0)
      /\ t.asserts = s.asserts \cup (IF n < 0 THEN {"num_mem_ops"} ELSE {})

LEMMA StoreIs ==
  ASSUME NEW s, Order(s), StoresHeld(s), NEW x \in Stores(s)
  PROVE  /\ x \in SqSlots /\ s.SQ[x].rob_index \in Rob(s) /\ s.SQ[x].rob_index \in Slots
         /\ s.ROB[s.SQ[x].rob_index].id = s.SQ[x].id
         /\ s.SQ[x].data_index \in DOMAIN Code(s, s.SQ[x].rob_index).stores
         /\ s.ROB[s.SQ[x].rob_index].sq[s.SQ[x].data_index] = x
         /\ StoreAddr(s, x) = Code(s, s.SQ[x].rob_index).stores[s.SQ[x].data_index]
         /\ IsMemory(s, s.SQ[x].rob_index)
         /\ s.SQ[x].id \in Nat /\ s.SQ[x].id >= s.retired + 1 /\ s.SQ[x].id <= s.dispatched
<1> DEFINE i == s.SQ[x].rob_index
           k == s.SQ[x].data_index
<1>1. /\ i \in Rob(s) /\ s.ROB[i].id = s.SQ[x].id /\ k \in DOMAIN Code(s, i).stores /\ s.ROB[i].sq[k] = x
  BY Zenon DEF StoresHeld
<1> HIDE DEF i, k
<1>2. x \in SqSlots /\ i \in Slots /\ s.ROB[i].id # NoId
  BY <1>1 DEF Stores, Rob
<1>3. /\ s.ROB[i].id \in Nat /\ s.ROB[i].id >= s.retired + 1 /\ s.ROB[i].id <= s.dispatched
      /\ s.ROB[i].id \in DOMAIN s.program /\ Code(s, i) = s.program[s.ROB[i].id]
  BY <1>1, LiveAt
<1>4. /\ Len(Code(s, i).loads) \in Nat /\ Len(Code(s, i).stores) \in Nat
      /\ DOMAIN Code(s, i).stores = 1 .. Len(Code(s, i).stores)
  BY Zenon, <1>3, InstrIs
<1>5. Len(Code(s, i).loads) + Len(Code(s, i).stores) > 0
  <2> DEFINE n == Len(Code(s, i).loads)
             m == Len(Code(s, i).stores)
  <2>1. n \in Nat /\ m \in Nat /\ k \in 1 .. m
    BY <1>1, <1>4
  <2> HIDE DEF n, m
  <2>2. n + m > 0
    BY ONLY <2>1
  <2> QED BY <2>2 DEF n, m
<1>6. IsMemory(s, i)
  BY <1>2, <1>5 DEF IsMemory
<1>7. StoreAddr(s, x) = Code(s, i).stores[k]
  BY <1>1, <1>3 DEF StoreAddr, k
<1> QED BY <1>1, <1>2, <1>3, <1>6, <1>7 DEF i, k

LEMMA StoreDoneViews ==
  ASSUME NEW s, NEW R, LsqInv(s, R), NEW x \in StoreAt(s, COMPLETED, 0), NEW t, StoreDone(s, t, x)
  PROVE  /\ Order(t) /\ KeepsOrder(s, t) /\ Rob(t) = Rob(s) /\ Loads(t) = Loads(s) /\ Stores(t) = Stores(s)
         /\ \A p \in Slots : Code(t, p) = Code(s, p)
         /\ \A p \in Slots : /\ t.ROB[p].id = s.ROB[p].id /\ t.ROB[p].lq = s.ROB[p].lq /\ t.ROB[p].sq = s.ROB[p].sq
                             /\ t.ROB[p].mem_deps = s.ROB[p].mem_deps /\ t.ROB[p].executed = s.ROB[p].executed
                             /\ (p # s.SQ[x].rob_index => t.ROB[p].num_mem_ops = s.ROB[p].num_mem_ops)
         /\ t.ROB[s.SQ[x].rob_index].num_mem_ops = s.ROB[s.SQ[x].rob_index].num_mem_ops - 1
         /\ DOMAIN t.SQ = SqSlots /\ t.SQ[x].fetched = COMPLETED
         /\ \A r \in SqSlots : /\ DOMAIN t.SQ[r] = StoreFields /\ t.SQ[r].id = s.SQ[r].id
                               /\ t.SQ[r].data_index = s.SQ[r].data_index /\ t.SQ[r].rob_index = s.SQ[r].rob_index
                               /\ t.SQ[r].translated = s.SQ[r].translated
                               /\ r # x => t.SQ[r] = s.SQ[r]
         /\ \A p \in Rob(s) : \A k \in DOMAIN Code(s, p).stores :
              Executed(t, p, k) <=> Executed(s, p, k) \/ (p = s.SQ[x].rob_index /\ k = s.SQ[x].data_index)
         /\ ~Executed(s, s.SQ[x].rob_index, s.SQ[x].data_index)
         /\ \A p \in Slots : \A h : InQueue(t, p, h) <=> InQueue(s, p, h)
<1> DEFINE i == s.SQ[x].rob_index
           k == s.SQ[x].data_index
<1>0. /\ Order(s) /\ Tables(s) /\ Entries(s) /\ StoresHeld(s) /\ StoresStay(s) /\ Shaped(s)
      /\ DOMAIN s.ROB = Slots /\ \A p \in Slots : DOMAIN s.ROB[p] = EntryFields
  BY LsqShape
<1>1. x \in Stores(s) /\ s.SQ[x].translated = COMPLETED /\ s.SQ[x].fetched = 0
  BY DEF StoreAt
<1>2. /\ x \in SqSlots /\ i \in Rob(s) /\ i \in Slots /\ s.ROB[i].id = s.SQ[x].id
      /\ k \in DOMAIN Code(s, i).stores /\ s.ROB[i].sq[k] = x
  BY Zenon, <1>0, <1>1, StoreIs
<1>3. /\ t.program = s.program /\ t.head = s.head /\ t.retired = s.retired /\ t.dispatched = s.dispatched
      /\ t.LQ = s.LQ /\ DOMAIN t = StateFields
  BY Zenon DEF StoreDone, StateFields
<1>4. /\ DOMAIN t.ROB = Slots /\ (\A p \in Slots : p # i => t.ROB[p] = s.ROB[p])
      /\ t.ROB[i] = [s.ROB[i] EXCEPT !["num_mem_ops"] = s.ROB[i].num_mem_ops - 1]
  BY Zenon, <1>0, <1>2 DEF StoreDone
<1>5. /\ t.ROB[i].num_mem_ops = s.ROB[i].num_mem_ops - 1 /\ DOMAIN t.ROB[i] = EntryFields
      /\ t.ROB[i].id = s.ROB[i].id /\ t.ROB[i].lq = s.ROB[i].lq /\ t.ROB[i].sq = s.ROB[i].sq
      /\ t.ROB[i].mem_deps = s.ROB[i].mem_deps /\ t.ROB[i].executed = s.ROB[i].executed
  BY Zenon, <1>0, <1>2, <1>4 DEF EntryFields, EmptyEntry
<1>6. /\ DOMAIN s.SQ = SqSlots /\ \A r \in SqSlots : DOMAIN s.SQ[r] = StoreFields
  BY <1>0 DEF Tables
<1>7. /\ DOMAIN t.SQ = SqSlots /\ t.SQ[x] = [s.SQ[x] EXCEPT !["fetched"] = COMPLETED]
      /\ \A r \in SqSlots : r # x => t.SQ[r] = s.SQ[r]
  BY Zenon, <1>2, <1>6 DEF StoreDone
<1>8. /\ DOMAIN t.SQ[x] = StoreFields /\ t.SQ[x].id = s.SQ[x].id /\ t.SQ[x].fetched = COMPLETED
      /\ t.SQ[x].data_index = s.SQ[x].data_index /\ t.SQ[x].rob_index = s.SQ[x].rob_index
      /\ t.SQ[x].translated = s.SQ[x].translated
  BY Zenon, <1>2, <1>6, <1>7 DEF StoreFields, EmptyStore
<1>9. \A r \in SqSlots : /\ DOMAIN t.SQ[r] = StoreFields /\ t.SQ[r].id = s.SQ[r].id
                         /\ t.SQ[r].data_index = s.SQ[r].data_index /\ t.SQ[r].rob_index = s.SQ[r].rob_index
                         /\ t.SQ[r].translated = s.SQ[r].translated
                         /\ r # x => t.SQ[r] = s.SQ[r]
  BY Zenon, <1>6, <1>7, <1>8
<1> HIDE DEF i, k
<1>10. KeepsOrder(s, t)
  BY Zenon, <1>0, <1>3, <1>4, <1>5 DEF KeepsOrder, Shaped
<1>11. Order(t) /\ Rob(t) = Rob(s) /\ \A p \in Slots : Code(t, p) = Code(s, p)
  BY <1>0, <1>10, OrderSame
<1>12. Loads(t) = Loads(s) /\ Stores(t) = Stores(s)
  BY <1>3, <1>9 DEF Loads, Stores
<1>13. \A p \in Slots : /\ t.ROB[p].id = s.ROB[p].id /\ t.ROB[p].lq = s.ROB[p].lq /\ t.ROB[p].sq = s.ROB[p].sq
                        /\ t.ROB[p].mem_deps = s.ROB[p].mem_deps /\ t.ROB[p].executed = s.ROB[p].executed
                        /\ (p # i => t.ROB[p].num_mem_ops = s.ROB[p].num_mem_ops)
  BY Zenon, <1>4, <1>5
<1>14. ~Executed(s, i, k)
  BY <1>1, <1>2 DEF Executed, COMPLETED
<1>15. ASSUME NEW p \in Rob(s), NEW h \in DOMAIN Code(s, p).stores
       PROVE  Executed(t, p, h) <=> Executed(s, p, h) \/ (p = i /\ h = k)
  <2>1. p \in Slots /\ s.ROB[p].sq[h] \in SqSlots \cup {NoIndex} /\ t.ROB[p].sq = s.ROB[p].sq
    BY <1>0, <1>13, PlacesAre DEF Rob
  <2>2. CASE s.ROB[p].sq[h] = x
    <3>1. x # NoIndex
      BY <1>2, QueueSizes
    <3>2. s.SQ[x].id = s.ROB[p].id /\ s.SQ[x].data_index = h
      BY Zenon, <1>0, <2>2, <3>1 DEF StoresStay
    <3>3. p = i /\ h = k
      BY <1>0, <1>2, <3>2, LiveOne DEF k
    <3>4. Executed(t, p, h)
      BY <1>8, <2>1, <2>2, <3>1 DEF Executed
    <3> QED BY <3>3, <3>4
  <2>3. CASE s.ROB[p].sq[h] # x
    <3>1. Executed(t, p, h) <=> Executed(s, p, h)
      BY Zenon, <1>9, <2>1, <2>3 DEF Executed
    <3>2. ~(p = i /\ h = k)
      BY <1>2, <2>3
    <3> QED BY <3>1, <3>2
  <2> QED BY <2>2, <2>3
<1>16. \A p \in Slots : \A h : InQueue(t, p, h) <=> InQueue(s, p, h)
  BY Zenon, <1>3, <1>13 DEF InQueue
<1> QED BY Zenon, <1>5, <1>8, <1>7, <1>9, <1>10, <1>11, <1>12, <1>13, <1>14, <1>15, <1>16 DEF i, k

LEMMA StoreDoneCounts ==
  ASSUME NEW s, NEW R, LsqInv(s, R), NEW x \in StoreAt(s, COMPLETED, 0), NEW t, StoreDone(s, t, x)
  PROVE  Counted(t) /\ Tallied(t) /\ t.asserts = s.asserts
<1> DEFINE i == s.SQ[x].rob_index
           k == s.SQ[x].data_index
           n == s.ROB[i].num_mem_ops
<1>0. Order(s) /\ StoresHeld(s) /\ Counted(s) /\ Tallied(s) /\ Rob(s) \subseteq Slots
  BY LsqShape
<1>1. /\ Rob(t) = Rob(s)
      /\ \A p \in Slots : Code(t, p) = Code(s, p)
      /\ \A p \in Slots : /\ t.ROB[p].id = s.ROB[p].id /\ t.ROB[p].lq = s.ROB[p].lq /\ t.ROB[p].executed = s.ROB[p].executed
                          /\ (p # i => t.ROB[p].num_mem_ops = s.ROB[p].num_mem_ops)
      /\ t.ROB[i].num_mem_ops = n - 1
      /\ \A p \in Rob(s) : \A h \in DOMAIN Code(s, p).stores :
           Executed(t, p, h) <=> Executed(s, p, h) \/ (p = i /\ h = k)
      /\ ~Executed(s, i, k)
      /\ \A p \in Slots : \A h : InQueue(t, p, h) <=> InQueue(s, p, h)
  BY StoreDoneViews
<1>2. x \in Stores(s)
  BY DEF StoreAt
<1>3. i \in Rob(s) /\ i \in Slots /\ k \in DOMAIN Code(s, i).stores /\ IsMemory(s, i)
  BY Zenon, <1>0, <1>2, StoreIs
<1>4. /\ t.inflight_mem = s.inflight_mem + (IF n - 1 = 0 THEN 1 ELSE 0) /\ t.inflight_reg = s.inflight_reg
      /\ t.asserts = s.asserts \cup (IF n - 1 < 0 THEN {"num_mem_ops"} ELSE {}) /\ t.program = s.program
  BY Zenon DEF StoreDone, StateFields
<1> HIDE DEF i, k, n
<1>5. PendingStores(t, i) = PendingStores(s, i) \ {k} /\ k \in PendingStores(s, i)
  BY <1>1, <1>3 DEF PendingStores
<1>6. \A p \in Rob(s) : p # i => PendingStores(t, p) = PendingStores(s, p)
  BY <1>0, <1>1 DEF PendingStores
<1>7. \A p \in Rob(s) : PendingLoads(t, p) = PendingLoads(s, p)
  BY <1>0, <1>1 DEF PendingLoads
<1>8. /\ Cardinality(PendingStores(t, i)) = Cardinality(PendingStores(s, i)) - 1
      /\ Cardinality(PendingLoads(s, i)) \in Nat /\ Cardinality(PendingStores(s, i)) \in Nat
      /\ Cardinality(PendingStores(t, i)) \in Nat
  <2>1. /\ IsFiniteSet(PendingStores(s, i)) /\ Cardinality(PendingLoads(s, i)) \in Nat
        /\ Cardinality(PendingStores(s, i)) \in Nat
    BY <1>0, <1>3, PendingFinite
  <2>2. IsFiniteSet(PendingStores(t, i))
    BY <1>5, <2>1, FS_Subset
  <2> QED BY <1>5, <2>1, <2>2, FS_RemoveElement, FS_CardinalityType
<1>9. n = Cardinality(PendingLoads(s, i)) + Cardinality(PendingStores(s, i)) /\ n \in Nat /\ n >= 1
  <2>1. n = Cardinality(PendingLoads(s, i)) + Cardinality(PendingStores(s, i))
    BY <1>0, <1>3 DEF Counted, n
  <2> QED BY <1>8, <2>1
<1>10. t.asserts = s.asserts
  BY <1>4, <1>9
<1>11. Counted(t)
  <2> SUFFICES ASSUME NEW p \in Rob(s)
               PROVE  t.ROB[p].num_mem_ops = Cardinality(PendingLoads(t, p)) + Cardinality(PendingStores(t, p))
    BY <1>1 DEF Counted
  <2>1. CASE p = i
    <3>1. n - 1 = Cardinality(PendingLoads(s, i)) + (Cardinality(PendingStores(s, i)) - 1)
      BY <1>8, <1>9
    <3> QED BY <1>1, <1>3, <1>7, <1>8, <2>1, <3>1
  <2>2. CASE p # i
    <3>1. p \in Slots
      BY <1>0
    <3> QED BY <1>0, <1>1, <1>6, <1>7, <2>2, <3>1 DEF Counted
  <2> QED BY <2>1, <2>2
<1>12. Tallied(t)
  <2>1. /\ t.ROB[i].num_mem_ops = s.ROB[i].num_mem_ops - 1 /\ s.ROB[i].num_mem_ops \in Nat /\ s.ROB[i].num_mem_ops >= 1
        /\ t.inflight_mem = s.inflight_mem + (IF s.ROB[i].num_mem_ops - 1 = 0 THEN 1 ELSE 0)
    BY <1>1, <1>4, <1>9 DEF n
  <2>2. \A p \in Slots : p # i => t.ROB[p].num_mem_ops = s.ROB[p].num_mem_ops
    BY <1>1
  <2>3. \A p \in Slots : t.ROB[p].id = s.ROB[p].id /\ t.ROB[p].executed = s.ROB[p].executed
    BY <1>1
  <2> QED BY <1>0, <1>3, <1>4, <2>1, <2>2, <2>3, OpDoneTallied
<1> QED BY <1>10, <1>11, <1>12

LEMMA StoreDoneLsq ==
  ASSUME NEW s, NEW R, LsqInv(s, R), NEW x, s.RTS1 # << >>, x = Head(s.RTS1), NEW t, StoreDone(s, t, x)
  PROVE  /\ LsqInv(t, R \cup Waiting(s, x)) /\ SameView(s, t) /\ t.asserts = s.asserts
         /\ SeenExecuted(s) => SeenExecuted(t)
<1> DEFINE i == s.SQ[x].rob_index
           k == s.SQ[x].data_index
           W == R \cup Waiting(s, x)
<1>0. /\ Order(s) /\ Tables(s) /\ Entries(s) /\ LoadsHeld(s) /\ StoresHeld(s) /\ StoresStay(s)
      /\ Sourced(s) /\ DepsSound(s) /\ MemoryLast(s) /\ SeenSound(s) /\ SeenAll(s)
      /\ Awaited(s, R) /\ StoreRing(s) /\ StoresWait(s)
      /\ LoadStages(s) /\ StoreStages(s) /\ Translating(s)
      /\ Rob(s) \subseteq Slots /\ Loads(s) \subseteq LqSlots /\ Stores(s) \subseteq SqSlots
  BY LsqShape
<1>1. x \in StoreAt(s, COMPLETED, 0) /\ Enumerates(Tail(s.RTS1), StoreAt(s, COMPLETED, 0) \ {x})
  BY <1>0, ListHead DEF StoreStages
<1>2. /\ Order(t) /\ KeepsOrder(s, t) /\ Rob(t) = Rob(s) /\ Loads(t) = Loads(s) /\ Stores(t) = Stores(s)
      /\ \A p \in Slots : Code(t, p) = Code(s, p)
      /\ \A p \in Slots : /\ t.ROB[p].id = s.ROB[p].id /\ t.ROB[p].lq = s.ROB[p].lq /\ t.ROB[p].sq = s.ROB[p].sq
                          /\ t.ROB[p].mem_deps = s.ROB[p].mem_deps
                          /\ (p # i => t.ROB[p].num_mem_ops = s.ROB[p].num_mem_ops)
      /\ DOMAIN t.SQ = SqSlots /\ t.SQ[x].fetched = COMPLETED
      /\ \A r \in SqSlots : /\ DOMAIN t.SQ[r] = StoreFields /\ t.SQ[r].id = s.SQ[r].id
                            /\ t.SQ[r].data_index = s.SQ[r].data_index /\ t.SQ[r].rob_index = s.SQ[r].rob_index
                            /\ t.SQ[r].translated = s.SQ[r].translated
                            /\ r # x => t.SQ[r] = s.SQ[r]
      /\ \A p \in Rob(s) : \A h \in DOMAIN Code(s, p).stores :
           Executed(t, p, h) <=> Executed(s, p, h) \/ (p = i /\ h = k)
      /\ \A p \in Slots : \A h : InQueue(t, p, h) <=> InQueue(s, p, h)
  BY <1>1, StoreDoneViews
<1>3. Counted(t) /\ Tallied(t) /\ t.asserts = s.asserts
  BY <1>1, StoreDoneCounts
<1>4. x \in Stores(s) /\ s.SQ[x].translated = COMPLETED /\ s.SQ[x].fetched = 0
  BY <1>1 DEF StoreAt
<1>5. /\ x \in SqSlots /\ i \in Rob(s) /\ i \in Slots /\ s.ROB[i].id = s.SQ[x].id
      /\ k \in DOMAIN Code(s, i).stores /\ StoreAddr(s, x) = Code(s, i).stores[k]
  BY <1>0, <1>4, StoreIs
<1>6. /\ t.program = s.program /\ t.retired = s.retired /\ t.dispatched = s.dispatched /\ t.LQ = s.LQ
      /\ t.sq_tail = s.sq_tail /\ t.STA = s.STA /\ t.memory = s.memory /\ t.wq = s.wq /\ t.seen = s.seen
      /\ t.RTL0 = s.RTL0 /\ t.RTL1 = s.RTL1 /\ t.RTS0 = s.RTS0 /\ t.RTS1 = Tail(s.RTS1) /\ t.dtlb = s.dtlb
      /\ t.l1d = s.l1d
  BY Zenon DEF StoreDone, StateFields
<1>7. \A r \in Loads(s) : LoadAddr(t, r) = LoadAddr(s, r) /\ Key(t, r) = Key(s, r)
  BY <1>6 DEF LoadAddr, Key
<1> HIDE DEF i, k, W
<1>8. Tables(t)
  BY <1>0, <1>2, <1>3, <1>6 DEF Tables
<1>9. Entries(t)
  <2>1. \A p \in Slots \ Rob(s) : p # i
    BY <1>5
  <2> QED BY <1>0, <1>2, <2>1 DEF Entries
<1>10. LoadsHeld(t)
  BY <1>0, <1>2, <1>6 DEF LoadsHeld
<1>11. StoresHeld(t)
  <2> SUFFICES ASSUME NEW y \in Stores(s)
               PROVE  /\ t.SQ[y].rob_index \in Rob(t) /\ t.ROB[t.SQ[y].rob_index].id = t.SQ[y].id
                      /\ t.SQ[y].data_index \in DOMAIN Code(t, t.SQ[y].rob_index).stores
                      /\ t.ROB[t.SQ[y].rob_index].sq[t.SQ[y].data_index] = y
    BY Zenon, <1>2 DEF StoresHeld
  <2>1. /\ s.SQ[y].rob_index \in Rob(s) /\ s.ROB[s.SQ[y].rob_index].id = s.SQ[y].id
        /\ s.SQ[y].data_index \in DOMAIN Code(s, s.SQ[y].rob_index).stores
        /\ s.ROB[s.SQ[y].rob_index].sq[s.SQ[y].data_index] = y
    BY Zenon, <1>0 DEF StoresHeld
  <2>2. y \in SqSlots /\ s.SQ[y].rob_index \in Slots
    BY Zenon, <1>0, <2>1
  <2>3. /\ t.SQ[y].rob_index = s.SQ[y].rob_index /\ t.SQ[y].id = s.SQ[y].id /\ t.SQ[y].data_index = s.SQ[y].data_index
    BY <1>2, <2>2
  <2> QED BY <1>2, <2>1, <2>2, <2>3
<1>12. StoresStay(t)
  <2> SUFFICES ASSUME NEW p \in Rob(s), NEW h \in DOMAIN Code(s, p).stores, s.ROB[p].sq[h] # NoIndex
               PROVE  t.SQ[s.ROB[p].sq[h]].id = s.ROB[p].id /\ t.SQ[s.ROB[p].sq[h]].data_index = h
    BY <1>0, <1>2 DEF StoresStay
  <2>1. s.ROB[p].sq[h] \in SqSlots
    BY <1>0, PlacesAre
  <2>2. s.SQ[s.ROB[p].sq[h]].id = s.ROB[p].id /\ s.SQ[s.ROB[p].sq[h]].data_index = h
    BY Zenon, <1>0 DEF StoresStay
  <2> QED BY Zenon, <1>2, <2>1, <2>2
<1>13. Sourced(t)
  BY <1>0, <1>2, <1>6, <1>7 DEF Sourced
<1>14. DepsSound(t) 
  BY <1>0, <1>2, <1>6 DEF DepsSound
<1>15. MemoryLast(t) /\ SeenSound(t)
  BY <1>0, <1>6 DEF MemoryLast, SeenSound
<1>16. SeenAll(t)
  BY <1>0, <1>2, <1>6 DEF SeenAll
<1>17. Awaited(t, W)
  <2> SUFFICES ASSUME NEW q \in Loads(s), s.LQ[q].producer_id # NoId
               PROVE  \E p \in Rob(s) : Finds(t, q, p, W)
    BY <1>2, <1>6 DEF Awaited
  <2>1. PICK p \in Rob(s) : Finds(s, q, p, R)
    BY <1>0 DEF Awaited
  <2>2. /\ p \in Slots /\ s.ROB[p].id = s.LQ[q].producer_id /\ s.LQ[q].rob_index \in s.ROB[p].mem_deps
    BY <1>0, <2>1 DEF Finds
  <2>3. PICK h \in DOMAIN Code(s, p).stores :
          Code(s, p).stores[h] = LoadAddr(s, q) /\ (Executed(s, p, h) => Key(s, q) \in R)
    BY <2>1 DEF Finds
  <2>4. Executed(t, p, h) => Key(s, q) \in W
    <3>1. CASE p = i /\ h = k
      <4>1. /\ s.LQ[q].rob_index \in Slots /\ s.LQ[q].rob_index \in Rob(s)
            /\ s.LQ[q].data_index \in DOMAIN Code(s, s.LQ[q].rob_index).loads
            /\ s.ROB[s.LQ[q].rob_index].lq[s.LQ[q].data_index] = q /\ q \in LqSlots
            /\ LoadAddr(s, q) = Code(s, s.LQ[q].rob_index).loads[s.LQ[q].data_index]
            /\ s.LQ[q].data_index \in 1 .. NUM_INSTR_SOURCES
        BY Zenon, <1>0, LoadIs
      <4>2. q # NoIndex /\ s.ROB[s.LQ[q].rob_index].id # NoId
        BY Zenon, <4>1, QueueSizes DEF Rob
      <4>3. << s.LQ[q].rob_index, s.LQ[q].data_index >> \in Waiting(s, x)
        BY Zenon, <1>5, <2>2, <2>3, <3>1, <4>1, <4>2 DEF Waiting, i
      <4> QED BY <4>3 DEF Key, W
    <3>2. CASE ~(p = i /\ h = k)
      BY <1>2, <2>3, <3>2 DEF W
    <3> QED BY <3>1, <3>2
  <2>5. Code(t, p) = Code(s, p) /\ t.ROB[p].id = s.ROB[p].id /\ t.ROB[p].mem_deps = s.ROB[p].mem_deps
    BY <1>2, <2>2
  <2>6. Finds(t, q, p, W)
    BY <1>6, <1>7, <2>2, <2>3, <2>4, <2>5 DEF Finds
  <2> QED BY <2>6
<1>18. StoreRing(t)
  <2>1. \A n \in 0 .. SQ_SIZE : \A m \in 1 .. n :
          Stores(s) = {Back(s.sq_tail, y) : y \in 1 .. n} => Back(s.sq_tail, m) \in SqSlots
    BY <1>0
  <2> QED BY <1>0, <1>2, <1>6, <2>1 DEF StoreRing
<1>19. StoresWait(t)
  BY <1>0, <1>2, <1>6 DEF StoresWait
<1>20. LoadStages(t) /\ \A a, b : LoadAt(t, a, b) = LoadAt(s, a, b)
  BY <1>0, <1>6, LoadsLeft
<1>21. /\ StoreAt(t, 0, 0) = StoreAt(s, 0, 0) /\ StoreAt(t, INFLIGHT, 0) = StoreAt(s, INFLIGHT, 0)
       /\ StoreAt(t, COMPLETED, 0) = StoreAt(s, COMPLETED, 0) \ {x}
       /\ StoreAt(t, COMPLETED, COMPLETED) = StoreAt(s, COMPLETED, COMPLETED) \cup {x}
  <2>1. \A y \in Stores(s) : y # x => t.SQ[y] = s.SQ[y]
    BY <1>0, <1>2
  <2>2. t.SQ[x].translated = COMPLETED /\ t.SQ[x].fetched = COMPLETED
    BY <1>2, <1>4, <1>5
  <2> QED BY <1>2, <1>4, <2>1, <2>2 DEF StoreAt, INFLIGHT, COMPLETED
<1>22. StoreStages(t)
  BY Zenon, <1>0, <1>1, <1>2, <1>6, <1>21 DEF StoreStages
<1>23. Translating(t)
  BY <1>0, <1>6, <1>20, <1>21 DEF Translating
<1>24. SameView(s, t)
  BY <1>6 DEF SameView
<1>25. SeenExecuted(s) => SeenExecuted(t)
  BY <1>0, <1>2, <1>6 DEF SeenExecuted
<1> QED BY <1>2, <1>3, <1>8, <1>9, <1>10, <1>11, <1>12, <1>13, <1>14, <1>15, <1>16, <1>17, <1>18, <1>19, <1>20, <1>22, <1>23, <1>24, <1>25
        DEF LsqInv, Held2, Flow, Rings, Places, W

-------------------------------------------------------------------------------
(* A store executes and gives its data to the loads it finds.              *)

StoreIds == {"producer_id"}
AllKeys == Slots \X (1 .. NUM_INSTR_SOURCES)

LEMMA AssertLsq ==
  ASSUME NEW s, NEW R, LsqInv(s, R), NEW t, DOMAIN t = StateFields,
         \A g \in StateFields \ {"asserts"} : t[g] = s[g], t.asserts \subseteq StoreIds
  PROVE  LsqInv(t, R)
<1>0. /\ Order(s) /\ Tables(s) /\ Entries(s) /\ LoadsHeld(s) /\ StoresHeld(s) /\ StoresStay(s)
      /\ Sourced(s) /\ DepsSound(s) /\ MemoryLast(s) /\ SeenSound(s) /\ SeenAll(s)
      /\ Awaited(s, R) /\ StoreRing(s) /\ StoresWait(s) /\ Counted(s) /\ Tallied(s)
      /\ LoadStages(s) /\ StoreStages(s) /\ Translating(s) /\ Shaped(s)
  BY LsqShape
<1>1. /\ t.program = s.program /\ t.ROB = s.ROB /\ t.head = s.head /\ t.LQ = s.LQ /\ t.SQ = s.SQ
      /\ t.sq_tail = s.sq_tail /\ t.STA = s.STA /\ t.dispatched = s.dispatched /\ t.retired = s.retired
      /\ t.memory = s.memory /\ t.seen = s.seen /\ t.RTL0 = s.RTL0 /\ t.RTL1 = s.RTL1 /\ t.l1d = s.l1d
      /\ t.RTS0 = s.RTS0 /\ t.RTS1 = s.RTS1 /\ t.dtlb = s.dtlb /\ t.wq = s.wq
      /\ t.inflight_reg = s.inflight_reg /\ t.inflight_mem = s.inflight_mem
  BY DEF StateFields
<1>2. KeepsOrder(s, t)
  BY <1>0, <1>1 DEF KeepsOrder, Shaped
<1>3. Order(t) /\ Rob(t) = Rob(s) /\ Loads(t) = Loads(s) /\ Stores(t) = Stores(s)
  BY <1>0, <1>1, <1>2, OrderSame DEF Loads, Stores
<1>4. /\ \A p : Code(t, p) = Code(s, p)
      /\ \A q : LoadAddr(t, q) = LoadAddr(s, q) /\ Key(t, q) = Key(s, q)
      /\ \A p, k : Executed(t, p, k) <=> Executed(s, p, k)
      /\ \A p, k : InQueue(t, p, k) <=> InQueue(s, p, k)
  BY <1>1 DEF Code, LoadAddr, Key, Executed, InQueue
<1>5. Tables(t)
  BY <1>0, <1>1, <1>3 DEF Tables, StoreIds
<1>6. Entries(t) /\ LoadsHeld(t) /\ StoresHeld(t) /\ StoresStay(t)
  <2>1. Entries(t)
    BY <1>0, <1>1, <1>3, <1>4 DEF Entries
  <2>2. LoadsHeld(t)
    BY <1>0, <1>1, <1>3, <1>4 DEF LoadsHeld
  <2>3. StoresHeld(t)
    BY <1>0, <1>1, <1>3, <1>4 DEF StoresHeld
  <2>4. StoresStay(t)
    BY <1>0, <1>1, <1>3, <1>4 DEF StoresStay
  <2> QED BY <2>1, <2>2, <2>3, <2>4
<1>7. Sourced(t) /\ DepsSound(t)
  BY <1>0, <1>1, <1>3, <1>4 DEF Sourced, DepsSound
<1>8. MemoryLast(t) /\ SeenSound(t) /\ SeenAll(t)
  BY <1>0, <1>1, <1>3, <1>4 DEF MemoryLast, SeenSound, SeenAll
<1>9. Awaited(t, R)
  <2>1. \A q, p : Finds(t, q, p, R) <=> Finds(s, q, p, R)
    BY <1>1, <1>4 DEF Finds
  <2> QED BY <1>0, <1>1, <1>3, <2>1 DEF Awaited
<1>10. StoreRing(t) /\ StoresWait(t)
  BY <1>0, <1>1, <1>3 DEF StoreRing, StoresWait
<1>11. Counted(t)
  <2>1. \A p : PendingLoads(t, p) = PendingLoads(s, p) /\ PendingStores(t, p) = PendingStores(s, p)
    BY <1>1, <1>4 DEF PendingLoads, PendingStores
  <2> QED BY <1>0, <1>1, <1>3, <2>1 DEF Counted
<1>12. Tallied(t)
  BY <1>0, <1>1, TalliedSame
<1>13. LoadStages(t) /\ (\A a, b : LoadAt(t, a, b) = LoadAt(s, a, b))
       /\ StoreStages(t) /\ (\A a, b : StoreAt(t, a, b) = StoreAt(s, a, b))
  BY <1>0, <1>1, LoadsLeft, StoresLeft
<1>14. Translating(t)
  BY <1>0, <1>1, <1>13 DEF Translating
<1> QED BY <1>3, <1>5, <1>6, <1>7, <1>8, <1>9, <1>10, <1>11, <1>12, <1>13, <1>14 DEF LsqInv, Held2, Flow, Rings, Places

LEMMA LsqLess ==
  ASSUME NEW s, NEW R, LsqInv(s, R), NEW w, \A q \in Loads(s) : Key(s, q) # w
  PROVE  LsqInv(s, R \ {w})
<1>1. Awaited(s, R \ {w})
  BY DEF LsqInv, Awaited, Finds
<1> QED BY <1>1 DEF LsqInv

(* The loads that the store at x found are those of W; V are left to do.   *)
Finding(s, t, x, V) ==
  StoresApart /\ SeenExecuted(s) =>
    /\ t.asserts = {} /\ SeenExecuted(t)
    /\ \A w \in V : /\ InQueue(t, w[1], w[2])
                    /\ t.LQ[t.ROB[w[1]].lq[w[2]]].producer_id = t.SQ[x].id

Served(s, d, t, x, V) ==
  /\ LsqInv(t, IF t.asserts = {} THEN V ELSE AllKeys) /\ SameView(s, t)
  /\ t.SQ = d.SQ
  /\ \A p \in Slots : t.ROB[p].id = d.ROB[p].id /\ t.ROB[p].lq = d.ROB[p].lq /\ t.ROB[p].sq = d.ROB[p].sq
  /\ t.program = d.program
  /\ Finding(s, t, x, V)

LEMMA WaitingIn ==
  ASSUME NEW s, NEW x
  PROVE  Waiting(s, x) \subseteq AllKeys
BY DEF Waiting, AllKeys

LEMMA PairIs ==
  ASSUME NEW A, NEW B, NEW v \in A \X B
  PROVE  v = << v[1], v[2] >> /\ v[1] \in A /\ v[2] \in B
OBVIOUS

(* The load at q is released by the store at x.                            *)
LEMMA ForwardServed ==
  ASSUME NEW s, NEW d, NEW x \in Stores(d), d.SQ[x].fetched = COMPLETED,
         NEW V, V \subseteq Waiting(d, x), NEW t, Served(s, d, t, x, V), NEW w \in V,
         NEW q, q = t.ROB[w[1]].lq[w[2]], t.LQ[q].producer_id = t.SQ[x].id
  PROVE  Served(s, d, Forward(t, q, t.SQ[x].id), x, V \ {w})
<1> DEFINE R == IF t.asserts = {} THEN V ELSE AllKeys
           u == Forward(t, q, t.SQ[x].id)
           n == t.SQ[x].id
<1>0. /\ LsqInv(t, R) /\ SameView(s, t) /\ t.SQ = d.SQ /\ t.program = d.program /\ Finding(s, t, x, V)
      /\ \A p \in Slots : t.ROB[p].id = d.ROB[p].id /\ t.ROB[p].lq = d.ROB[p].lq /\ t.ROB[p].sq = d.ROB[p].sq
  BY Zenon DEF Served
<1> HIDE DEF R, u
<1>1. /\ Order(t) /\ Tables(t) /\ Entries(t) /\ LoadsHeld(t) /\ StoresHeld(t) /\ Sourced(t) /\ LoadStages(t)
      /\ Shaped(t) /\ Rob(t) \subseteq Slots /\ Loads(t) \subseteq LqSlots /\ Counted(t) /\ Tallied(t)
  BY Zenon, <1>0, LsqShape
<1>2. x \in Stores(t) /\ n # NoId
  BY Zenon, <1>0 DEF Stores
<1>3. /\ t.SQ[x].rob_index \in Rob(t) /\ t.ROB[t.SQ[x].rob_index].id = n /\ n \in Nat
      /\ t.SQ[x].data_index \in DOMAIN Code(t, t.SQ[x].rob_index).stores
      /\ t.ROB[t.SQ[x].rob_index].sq[t.SQ[x].data_index] = x
      /\ StoreAddr(t, x) = Code(t, t.SQ[x].rob_index).stores[t.SQ[x].data_index] /\ x \in SqSlots
  BY Zenon, <1>1, <1>2, StoreIs
<1>4. /\ w \in AllKeys /\ w = << w[1], w[2] >> /\ w[1] \in Slots /\ t.ROB[w[1]].id # NoId
      /\ w[2] \in DOMAIN Code(t, w[1]).loads /\ t.ROB[w[1]].lq[w[2]] # NoIndex
      /\ Code(t, w[1]).loads[w[2]] = StoreAddr(t, x)
  <2>1. w \in Waiting(d, x) /\ w \in Slots \X (1 .. NUM_INSTR_SOURCES)
    BY Zenon DEF Waiting
  <2>2. /\ w[1] \in Slots /\ d.ROB[w[1]].id # NoId /\ w[2] \in DOMAIN Code(d, w[1]).loads
        /\ d.ROB[w[1]].lq[w[2]] # NoIndex /\ Code(d, w[1]).loads[w[2]] = StoreAddr(d, x)
    BY Zenon, <2>1 DEF Waiting
  <2>3. Code(t, w[1]) = Code(d, w[1]) /\ StoreAddr(t, x) = StoreAddr(d, x)
    BY Zenon, <1>0, <2>2 DEF Code, StoreAddr
  <2> QED BY <1>0, <2>1, <2>2, <2>3 DEF AllKeys
<1>5. w[1] \in Rob(t) /\ q \in LqSlots
  <2>1. w[1] \in Rob(t)
    BY Zenon, <1>4 DEF Rob
  <2> QED BY <1>1, <1>4, <2>1, PlacesAre
<1>6. q \in Loads(t)
  BY Zenon, <1>1, <1>2, <1>5 DEF Tables
<1>7. q \notin t.l1d
  BY Zenon, <1>1, <1>2 DEF LoadStages, LoadAt
<1>8. LoadDone(t, u, q, n)
  BY Zenon, <1>1, <1>7, ForwardIs DEF u
<1>9. LastStore(t.program, n, t.LQ[q].id, LoadAddr(t, q))
  <2>1. t.LQ[q].producer_id # NoId
    BY Zenon, <1>2
  <2> QED BY Zenon, <1>1, <1>6, <2>1 DEF Sourced
<1>10. /\ LsqInv(u, R \ {Key(t, q)}) /\ SameView(t, u) /\ u.asserts = t.asserts /\ Loads(u) = Loads(t) \ {q}
  <2> HIDE DEF n
  <2>1. n \in Nat /\ LsqInv(t, R) /\ q \in Loads(t)
    BY Zenon, <1>0, <1>3, <1>6
  <2>2. LastStore(t.program, n, t.LQ[q].id, LoadAddr(t, q)) /\ LoadDone(t, u, q, n)
    BY Zenon, <1>8, <1>9
  <2>3. t.LQ[q].producer_id # NoId \/ q \in t.l1d
    BY Zenon, <1>2 DEF n
  <2> QED BY ONLY Zenon, <2>1, <2>2, <2>3, LoadDoneLsq
<1>11. /\ \A p \in Slots : u.ROB[p].id = t.ROB[p].id /\ u.ROB[p].lq = t.ROB[p].lq /\ u.ROB[p].sq = t.ROB[p].sq
       /\ \A r \in LqSlots : r # q => u.LQ[r] = t.LQ[r]
       /\ \A p \in Rob(t) : \A h \in DOMAIN Code(t, p).loads :
              t.ROB[p].lq[h] # NoIndex =>
                (InQueue(u, p, h) <=> InQueue(t, p, h) /\ ~(p = t.LQ[q].rob_index /\ h = t.LQ[q].data_index))
       /\ u.SQ = t.SQ /\ u.program = t.program
  <2>1. u.SQ = t.SQ /\ u.program = t.program
    BY Zenon, <1>8 DEF LoadDone, StateFields
  <2> HIDE DEF n
  <2>2. Order(t) /\ Entries(t) /\ LoadsHeld(t) /\ Counted(t) /\ Tallied(t) /\ Tables(t) /\ q \in Loads(t)
    BY Zenon, <1>1, <1>6
  <2>3. LoadDone(t, u, q, n)
    BY Zenon, <1>8
  <2>4. /\ \A p \in Slots : u.ROB[p].id = t.ROB[p].id /\ u.ROB[p].lq = t.ROB[p].lq /\ u.ROB[p].sq = t.ROB[p].sq
        /\ \A r \in LqSlots : r # q => u.LQ[r] = t.LQ[r]
    BY ONLY <2>2, <2>3, LoadDoneViews
  <2>5. \A p \in Rob(t) : \A h \in DOMAIN Code(t, p).loads :
           t.ROB[p].lq[h] # NoIndex =>
             (InQueue(u, p, h) <=> InQueue(t, p, h) /\ ~(p = t.LQ[q].rob_index /\ h = t.LQ[q].data_index))
    BY ONLY <2>2, <2>3, LoadDoneViews
  <2> QED BY Zenon, <2>1, <2>4, <2>5
<1>12. \A r \in Loads(u) : Key(u, r) # w
  <2> SUFFICES ASSUME NEW r \in Loads(u), Key(u, r) = w PROVE FALSE
    OBVIOUS
  <2>1. LoadsHeld(u)
    BY Zenon, <1>10, LsqShape
  <2>2. r = u.ROB[w[1]].lq[w[2]]
    BY Zenon, <2>1 DEF LoadsHeld, Key
  <2> QED BY Zenon, <1>4, <1>10, <1>11, <2>2
<1>13. LsqInv(u, IF u.asserts = {} THEN V \ {w} ELSE AllKeys)
  <2>1. LsqInv(u, (R \ {Key(t, q)}) \ {w})
    BY Zenon, <1>10, <1>12, LsqLess
  <2>2. (R \ {Key(t, q)}) \ {w} \subseteq IF u.asserts = {} THEN V \ {w} ELSE AllKeys
    BY Zenon, <1>10 DEF R
  <2> QED BY Zenon, <2>1, <2>2, LsqMore
<1>14. SameView(s, u)
  BY Zenon, <1>0, <1>10 DEF SameView
<1>15. Finding(s, u, x, V \ {w})
  <2> SUFFICES ASSUME StoresApart, SeenExecuted(s)
               PROVE  /\ u.asserts = {} /\ SeenExecuted(u)
                      /\ \A v \in V \ {w} : /\ InQueue(u, v[1], v[2])
                                            /\ u.LQ[u.ROB[v[1]].lq[v[2]]].producer_id = u.SQ[x].id
    BY Zenon DEF Finding
  <2>1. /\ t.asserts = {} /\ SeenExecuted(t)
        /\ \A v \in V : InQueue(t, v[1], v[2]) /\ t.LQ[t.ROB[v[1]].lq[v[2]]].producer_id = t.SQ[x].id
    BY Zenon, <1>0 DEF Finding
  <2>2. t.LQ[q].id = t.ROB[w[1]].id /\ t.LQ[q].data_index = w[2]
    BY Zenon, <2>1 DEF InQueue
  <2>3. LoadAddr(t, q) = StoreAddr(t, x)
    BY Zenon, <1>4, <2>2 DEF LoadAddr, Code
  <2>4. \A p \in Rob(t) : t.ROB[p].id = n =>
          \E k \in DOMAIN Code(t, p).stores : Code(t, p).stores[k] = LoadAddr(t, q) /\ Executed(t, p, k)
    <3> SUFFICES ASSUME NEW p \in Rob(t), t.ROB[p].id = n
                 PROVE  \E k \in DOMAIN Code(t, p).stores : Code(t, p).stores[k] = LoadAddr(t, q) /\ Executed(t, p, k)
      BY Zenon
    <3>1. p = t.SQ[x].rob_index
      BY Zenon, <1>1, <1>3, LiveOne
    <3>2. x # NoIndex
      BY Zenon, <1>3, QueueSizes
    <3>3. Executed(t, p, t.SQ[x].data_index)
      BY Zenon, <1>0, <1>3, <3>1, <3>2 DEF Executed
    <3> QED BY Zenon, <1>3, <2>3, <3>1, <3>3
  <2>5. SeenExecuted(u)
    <3> HIDE DEF n
    <3> QED BY Zenon, <1>0, <1>6, <1>8, <2>1, <2>4, LoadDoneSeen
  <2>6. ASSUME NEW v \in V \ {w}
        PROVE  InQueue(u, v[1], v[2]) /\ u.LQ[u.ROB[v[1]].lq[v[2]]].producer_id = u.SQ[x].id
    <3>1. InQueue(t, v[1], v[2]) /\ t.LQ[t.ROB[v[1]].lq[v[2]]].producer_id = t.SQ[x].id
      BY Zenon, <2>1
    <3>2. /\ v = << v[1], v[2] >> /\ v[1] \in Slots /\ t.ROB[v[1]].id # NoId
          /\ v[2] \in DOMAIN Code(t, v[1]).loads /\ t.ROB[v[1]].lq[v[2]] # NoIndex
      <4>1. v \in Waiting(d, x) /\ v \in Slots \X (1 .. NUM_INSTR_SOURCES)
        BY Zenon DEF Waiting
      <4>2. /\ v[1] \in Slots /\ d.ROB[v[1]].id # NoId /\ v[2] \in DOMAIN Code(d, v[1]).loads
            /\ d.ROB[v[1]].lq[v[2]] # NoIndex
        BY Zenon, <4>1 DEF Waiting
      <4>3. Code(t, v[1]) = Code(d, v[1])
        BY Zenon, <1>0, <4>2 DEF Code
      <4>4. v = << v[1], v[2] >>
        BY <4>1, PairIs
      <4>5. t.ROB[v[1]].id = d.ROB[v[1]].id /\ t.ROB[v[1]].lq = d.ROB[v[1]].lq
        BY Zenon, <1>0, <4>2
      <4> QED BY Zenon, <4>2, <4>3, <4>4, <4>5
    <3>3. v[1] \in Rob(t)
      BY Zenon, <3>2 DEF Rob
    <3>4. t.ROB[v[1]].lq[v[2]] \in LqSlots
      BY <1>1, <3>2, <3>3, PlacesAre
    <3>5. ASSUME t.LQ[q].id = t.ROB[v[1]].id, t.LQ[q].data_index = v[2] PROVE FALSE
      <4>1. v[1] = w[1]
        BY Zenon, <1>1, <1>5, <2>2, <3>3, <3>5, LiveOne
      <4>2. v[2] = w[2]
        BY Zenon, <2>2, <3>5
      <4> QED BY Zenon, <1>4, <3>2, <4>1, <4>2
    <3>6. t.ROB[v[1]].lq[v[2]] # q
      BY Zenon, <3>1, <3>5 DEF InQueue
    <3>7. ~(v[1] = t.LQ[q].rob_index /\ v[2] = t.LQ[q].data_index)
      BY Zenon, <1>1, <1>6, <3>5 DEF LoadsHeld
    <3>8. InQueue(u, v[1], v[2])
      BY Zenon, <1>11, <3>1, <3>2, <3>3, <3>7
    <3>9. u.ROB[v[1]].lq = t.ROB[v[1]].lq /\ u.SQ = t.SQ
      BY Zenon, <1>11, <3>2
    <3>10. u.LQ[t.ROB[v[1]].lq[v[2]]] = t.LQ[t.ROB[v[1]].lq[v[2]]]
      BY Zenon, <1>11, <3>4, <3>6
    <3> QED BY Zenon, <3>1, <3>8, <3>9, <3>10
  <2> QED BY Zenon, <1>10, <2>1, <2>5, <2>6
<1>16. u.SQ = d.SQ /\ u.program = d.program
       /\ \A p \in Slots : u.ROB[p].id = d.ROB[p].id /\ u.ROB[p].lq = d.ROB[p].lq /\ u.ROB[p].sq = d.ROB[p].sq
  BY Zenon, <1>0, <1>11
<1> QED BY Zenon, <1>13, <1>14, <1>15, <1>16 DEF Served, u

LEMMA ForwardToServed ==
  ASSUME NEW s, NEW d, NEW x \in Stores(d), d.SQ[x].fetched = COMPLETED,
         NEW V, V \subseteq Waiting(d, x), NEW t, Served(s, d, t, x, V), NEW w \in V
  PROVE  Served(s, d, ForwardTo(t, x, w[1], w[2]), x, V \ {w})
<1> DEFINE q == t.ROB[w[1]].lq[w[2]]
           u == ForwardTo(t, x, w[1], w[2])
<1>1. CASE t.LQ[q].producer_id = t.SQ[x].id
  <2>1. u = Forward(t, q, t.SQ[x].id)
    BY Zenon, <1>1 DEF ForwardTo
  <2> HIDE DEF q, u
  <2>2. q = t.ROB[w[1]].lq[w[2]]
    BY DEF q
  <2>3. Served(s, d, Forward(t, q, t.SQ[x].id), x, V \ {w})
    BY Zenon, <1>1, <2>2, ForwardServed
  <2> QED BY <2>1, <2>3 DEF u
<1>2. CASE t.LQ[q].producer_id # t.SQ[x].id
  <2>1. u = [t EXCEPT !.asserts = @ \cup {"producer_id"}]
    BY Zenon, <1>2 DEF ForwardTo
  <2> DEFINE R == IF t.asserts = {} THEN V ELSE AllKeys
  <2>2. LsqInv(t, R) /\ SameView(s, t) /\ Finding(s, t, x, V)
    BY DEF Served
  <2>3. DOMAIN t = StateFields /\ t.asserts \subseteq StoreIds
    BY <2>2, LsqShape DEF Tables, StoreIds
  <2>4. /\ DOMAIN u = StateFields /\ (\A g \in StateFields \ {"asserts"} : u[g] = t[g])
        /\ u.asserts = t.asserts \cup {"producer_id"}
    BY <2>1, <2>3 DEF StateFields
  <2> HIDE DEF u
  <2>5. u.asserts \subseteq StoreIds /\ u.asserts # {}
    BY <2>3, <2>4 DEF StoreIds
  <2>6. LsqInv(u, R)
    BY <2>2, <2>4, <2>5, AssertLsq
  <2>7. LsqInv(u, AllKeys)
    <3>1. R \subseteq AllKeys
      BY WaitingIn
    <3> HIDE DEF R
    <3> QED BY <2>6, <3>1, LsqMore
  <2>8. /\ u.program = t.program /\ u.retired = t.retired /\ u.memory = t.memory /\ u.seen = t.seen
        /\ u.SQ = t.SQ /\ u.ROB = t.ROB
    BY <2>4 DEF StateFields
  <2>9. SameView(s, u)
    BY <2>2, <2>8 DEF SameView
  <2>10. Finding(s, u, x, V \ {w})
    BY Zenon, <1>2, <2>2 DEF Finding
  <2>11. Served(s, d, u, x, V \ {w})
    BY <2>5, <2>7, <2>8, <2>9, <2>10 DEF Served
  <2> QED BY <2>11 DEF u
<1> QED BY Zenon, <1>1, <1>2

(* execute_store before it looks for loads.                                *)
StoreDoneOf(s) ==
  LET x == Head(s.RTS1) IN
  OpsDone([s EXCEPT !.RTS1 = Tail(@), !.SQ[x].fetched = COMPLETED], s.SQ[x].rob_index, 1)

LEMMA StoreDoneIs ==
  ASSUME NEW s, Shaped(s)
  PROVE  StoreDone(s, StoreDoneOf(s), Head(s.RTS1))
<1> DEFINE x == Head(s.RTS1)
           i == s.SQ[x].rob_index
           a == [s EXCEPT !.RTS1 = Tail(@), !.SQ[x].fetched = COMPLETED]
           b == OpsDone(a, i, 1)
<1>1. /\ DOMAIN a = StateFields /\ \A g \in StateFields \ {"RTS1", "SQ"} : a[g] = s[g]
      /\ a.RTS1 = Tail(s.RTS1) /\ a.SQ = [s.SQ EXCEPT ![x] = [@ EXCEPT !["fetched"] = COMPLETED]]
  BY Zenon DEF Shaped, StateFields
<1> HIDE DEF a
<1>2. /\ DOMAIN b = StateFields /\ \A g \in StateFields \ {"ROB", "inflight_mem", "asserts"} : b[g] = a[g]
      /\ b.ROB = [a.ROB EXCEPT ![i] = [@ EXCEPT !["num_mem_ops"] = a.ROB[i].num_mem_ops - 1]]
      /\ b.inflight_mem = a.inflight_mem + (IF a.ROB[i].num_mem_ops - 1 = 0 THEN 1 ELSE 0)
      /\ b.asserts = a.asserts \cup (IF a.ROB[i].num_mem_ops - 1 < 0 THEN {"num_mem_ops"} ELSE {})
  BY Zenon, <1>1 DEF OpsDone, StateFields
<1>3. b = StoreDoneOf(s)
  BY DEF StoreDoneOf, a
<1> HIDE DEF b
<1>4. /\ a.ROB = s.ROB /\ a.inflight_mem = s.inflight_mem /\ a.asserts = s.asserts
      /\ b.SQ = a.SQ /\ b.RTS1 = a.RTS1
  BY Zenon, <1>1, <1>2 DEF StateFields
<1>5. \A g \in StateFields \ {"ROB", "SQ", "RTS1", "inflight_mem", "asserts"} : b[g] = s[g]
  BY Zenon, <1>1, <1>2
<1>6. StoreDone(s, b, x)
  BY Zenon, <1>1, <1>2, <1>4, <1>5 DEF StoreDone
<1> QED BY <1>3, <1>6

(* If the stores are apart, the loads that execute_store finds wait for it.*)
LEMMA FindsItsOwn ==
  ASSUME NEW s, LsqInv(s, {}), StoresApart, SeenExecuted(s), NEW x \in StoreAt(s, COMPLETED, 0), NEW w \in Waiting(s, x)
  PROVE  InQueue(s, w[1], w[2]) /\ s.LQ[s.ROB[w[1]].lq[w[2]]].producer_id = s.SQ[x].id
<1> DEFINE p == s.SQ[x].rob_index
           k == s.SQ[x].data_index
           i == w[1]
           j == w[2]
           a == StoreAddr(s, x)
           m == s.ROB[p].id
           n == s.ROB[i].id
           q == s.ROB[i].lq[j]
<1>0. /\ Order(s) /\ Tables(s) /\ Entries(s) /\ LoadsHeld(s) /\ StoresHeld(s) /\ StoresStay(s)
      /\ Sourced(s) /\ DepsSound(s) /\ SeenSound(s) /\ SeenAll(s) /\ Awaited(s, {})
      /\ Rob(s) \subseteq Slots
  BY LsqShape
<1>1. x \in Stores(s) /\ s.SQ[x].fetched = 0
  BY DEF StoreAt
<1>2. /\ p \in Rob(s) /\ m = s.SQ[x].id /\ k \in DOMAIN Code(s, p).stores /\ s.ROB[p].sq[k] = x
      /\ a = Code(s, p).stores[k] /\ m \in Nat /\ m >= s.retired + 1
  BY <1>0, <1>1, StoreIs
<1>3. /\ i \in s.ROB[p].mem_deps /\ s.ROB[i].id # NoId /\ j \in DOMAIN Code(s, i).loads
      /\ s.ROB[i].lq[j] # NoIndex /\ Code(s, i).loads[j] = a
  BY DEF Waiting
<1> HIDE DEF p, k, i, j, a
<1>4. /\ i \in Rob(s)
      /\ \E h \in DOMAIN Code(s, i).loads : LastStore(s.program, m, n, Code(s, i).loads[h])
  BY <1>0, <1>2, <1>3 DEF DepsSound
<1>5. /\ i \in Slots /\ n \in Nat /\ n >= s.retired + 1 /\ n \in DOMAIN s.program /\ Code(s, i) = s.program[n]
      /\ m \in DOMAIN s.program /\ Code(s, p) = s.program[m] /\ n <= s.dispatched
      /\ m <= s.dispatched
  BY Zenon, <1>0, <1>2, <1>4, LiveAt
<1>6. s.retired \in Nat /\ s.dispatched \in Nat /\ s.program \in Programs
  BY <1>0, OrderCounts DEF Order
<1>7. m < n
  BY <1>4 DEF LastStore
<1> HIDE DEF m, n, q
<1>8. Apart(s.program)
  BY <1>6 DEF StoresApart
<1>9. m \in 1 .. n - 1
  BY <1>2, <1>5, <1>6, <1>7
<1>10. a \in Range(s.program[m].stores)
  BY Zenon, <1>2, <1>5 DEF Range
<1>11. LastStore(s.program, m, n, a)
  <2>1. PICK h \in DOMAIN s.program[n].loads : LastStore(s.program, m, n, s.program[n].loads[h])
    BY <1>4, <1>5
  <2>2. j \in DOMAIN s.program[n].loads /\ s.program[n].loads[j] = a
    BY <1>3, <1>5
  <2>3. LastStore(s.program, m, n, s.program[n].loads[j])
    BY <1>5, <1>8, <1>9, <1>10, <2>1, <2>2 DEF Apart
  <2> QED BY <2>2, <2>3
<1>12. InQueue(s, i, j)
  <2> SUFFICES ASSUME ~InQueue(s, i, j) PROVE FALSE
    OBVIOUS
  <2>1. PICK o \in s.seen : o.id = n /\ o.op = j
    BY <1>0, <1>3, <1>4 DEF SeenAll, n
  <2>2. o.from \in Nat /\ LastStore(s.program, o.from, n, a)
    BY <1>0, <1>3, <1>5, <2>1 DEF SeenSound
  <2>3. o.from = m
    BY Zenon, <1>2, <1>5, <1>11, <2>2, LastStoreOne
  <2>4. PICK h \in DOMAIN Code(s, p).stores :
          Code(s, p).stores[h] = s.program[o.id].loads[o.op] /\ Executed(s, p, h)
    BY <1>2, <2>3 DEF SeenExecuted, m
  <2>5. Code(s, p).stores[h] = Code(s, p).stores[k]
    BY Zenon, <1>2, <1>3, <1>5, <2>1, <2>4
  <2>6. h = k
    BY Zenon, <1>2, <1>5, <1>8, <2>4, <2>5 DEF Apart, IsInjective
  <2> QED BY <1>1, <1>2, <2>4, <2>6 DEF Executed, COMPLETED
<1>13. /\ q \in Loads(s) /\ s.LQ[q].id = n /\ LoadAddr(s, q) = a
  <2>1. q \in LqSlots
    BY <1>0, <1>3, <1>4, PlacesAre DEF q
  <2>2. s.LQ[q].id = n /\ s.LQ[q].data_index = j
    BY <1>12 DEF InQueue, q, n
  <2>3. n # NoId
    BY <1>3 DEF n
  <2> QED BY <1>3, <1>5, <2>1, <2>2, <2>3 DEF LoadAddr, Loads
<1>14. s.LQ[q].producer_id # NoId
  <2> SUFFICES ASSUME s.LQ[q].producer_id = NoId PROVE FALSE
    OBVIOUS
  <2>1. \A h \in s.retired + 1 .. n - 1 : a \notin Range(s.program[h].stores)
    BY <1>0, <1>13 DEF Sourced
  <2>2. m \in s.retired + 1 .. n - 1
    BY <1>2, <1>5, <1>6, <1>7
  <2> QED BY <1>10, <2>1, <2>2
<1>15. s.LQ[q].producer_id \in Nat
  <2>1. PICK r \in Rob(s) : Finds(s, q, r, {})
    BY <1>0, <1>13, <1>14 DEF Awaited
  <2>2. s.ROB[r].id \in Nat
    BY <1>0, LiveAt
  <2> QED BY <2>1, <2>2 DEF Finds
<1>16. LastStore(s.program, s.LQ[q].producer_id, n, a)
  BY <1>0, <1>13, <1>14 DEF Sourced
<1>17. s.LQ[q].producer_id = m
  BY Zenon, <1>2, <1>5, <1>11, <1>15, <1>16, LastStoreOne
<1> QED BY Zenon, <1>2, <1>12, <1>17 DEF i, j, q, m

LEMMA StoreDoneServed ==
  ASSUME NEW s, s.asserts = {}, LsqInv(s, {}), s.RTS1 # << >>, NEW x, x = Head(s.RTS1), NEW d, StoreDone(s, d, x)
  PROVE  /\ Waiting(d, x) = Waiting(s, x) /\ Served(s, d, d, x, Waiting(s, x))
         /\ x \in Stores(d) /\ d.SQ[x].fetched = COMPLETED
<1>0. /\ Order(s) /\ Tables(s) /\ Entries(s) /\ LoadsHeld(s) /\ StoresHeld(s) /\ StoreStages(s)
      /\ Rob(s) \subseteq Slots
  BY LsqShape
<1>1. x \in StoreAt(s, COMPLETED, 0)
  BY <1>0, ListHead DEF StoreStages
<1>2. /\ Rob(d) = Rob(s) /\ Stores(d) = Stores(s)
      /\ \A p \in Slots : Code(d, p) = Code(s, p)
      /\ \A p \in Slots : /\ d.ROB[p].id = s.ROB[p].id /\ d.ROB[p].lq = s.ROB[p].lq /\ d.ROB[p].sq = s.ROB[p].sq
                          /\ d.ROB[p].mem_deps = s.ROB[p].mem_deps
      /\ d.SQ[x].fetched = COMPLETED
      /\ \A r \in SqSlots : /\ d.SQ[r].id = s.SQ[r].id
                            /\ d.SQ[r].data_index = s.SQ[r].data_index /\ d.SQ[r].rob_index = s.SQ[r].rob_index
      /\ \A p \in Slots : \A h : InQueue(d, p, h) <=> InQueue(s, p, h)
  BY ONLY <1>1, StoreDoneViews, LsqInv(s, {}), StoreDone(s, d, x)
<1>3. /\ LsqInv(d, {} \cup Waiting(s, x)) /\ SameView(s, d) /\ d.asserts = s.asserts
      /\ SeenExecuted(s) => SeenExecuted(d)
  <2> DEFINE R == {}
  <2>1. LsqInv(s, R)
    OBVIOUS
  <2>2. s.RTS1 # << >> /\ x = Head(s.RTS1) /\ StoreDone(s, d, x)
    OBVIOUS
  <2> HIDE DEF R
  <2>3. LsqInv(d, R \cup Waiting(s, x)) /\ SameView(s, d) /\ d.asserts = s.asserts
        /\ (SeenExecuted(s) => SeenExecuted(d))
    BY ONLY <2>1, <2>2, StoreDoneLsq
  <2> QED BY <2>3 DEF R
<1>4. /\ x \in Stores(s) /\ x \in SqSlots /\ s.SQ[x].rob_index \in Slots
  <2>1. x \in Stores(s)
    BY <1>1 DEF StoreAt
  <2> QED BY Zenon, <1>0, <2>1, StoreIs
<1>5. d.program = s.program /\ d.LQ = s.LQ
  BY Zenon DEF StoreDone, StateFields
<1>6. StoreAddr(d, x) = StoreAddr(s, x) /\ d.SQ[x].rob_index = s.SQ[x].rob_index /\ d.SQ[x].id = s.SQ[x].id
  BY Zenon, <1>2, <1>4, <1>5 DEF StoreAddr
<1>7. Waiting(d, x) = Waiting(s, x)
  <2>1. ASSUME NEW w \in AllKeys PROVE w \in Waiting(d, x) <=> w \in Waiting(s, x)
    <3>1. w[1] \in Slots
      BY DEF AllKeys
    <3>2. /\ d.ROB[w[1]].id = s.ROB[w[1]].id /\ d.ROB[w[1]].lq = s.ROB[w[1]].lq
          /\ Code(d, w[1]) = Code(s, w[1])
          /\ d.ROB[d.SQ[x].rob_index].mem_deps = s.ROB[s.SQ[x].rob_index].mem_deps
      BY Zenon, <1>2, <1>4, <1>6, <3>1
    <3> QED BY Zenon, <1>6, <3>2 DEF Waiting
  <2>2. Waiting(d, x) \subseteq AllKeys /\ Waiting(s, x) \subseteq AllKeys
    BY WaitingIn
  <2> QED BY Zenon, <2>1, <2>2
<1>8. Finding(s, d, x, Waiting(s, x))
  <2> SUFFICES ASSUME StoresApart, SeenExecuted(s)
               PROVE  /\ d.asserts = {} /\ SeenExecuted(d)
                      /\ \A w \in Waiting(s, x) : /\ InQueue(d, w[1], w[2])
                                                  /\ d.LQ[d.ROB[w[1]].lq[w[2]]].producer_id = d.SQ[x].id
    BY Zenon DEF Finding
  <2>1. ASSUME NEW w \in Waiting(s, x)
        PROVE  InQueue(d, w[1], w[2]) /\ d.LQ[d.ROB[w[1]].lq[w[2]]].producer_id = d.SQ[x].id
    <3>1. InQueue(s, w[1], w[2]) /\ s.LQ[s.ROB[w[1]].lq[w[2]]].producer_id = s.SQ[x].id
      BY Zenon, <1>1, FindsItsOwn
    <3>2. w[1] \in Slots
      BY Zenon DEF Waiting
    <3> QED BY Zenon, <1>2, <1>5, <1>6, <3>1, <3>2
  <2> QED BY Zenon, <1>3, <2>1
<1>9. LsqInv(d, IF d.asserts = {} THEN Waiting(s, x) ELSE AllKeys)
  <2>1. {} \cup Waiting(s, x) = Waiting(s, x)
    OBVIOUS
  <2> QED BY <1>3, <2>1
<1>10. Served(s, d, d, x, Waiting(s, x))
  BY <1>3, <1>8, <1>9 DEF Served
<1> QED BY <1>2, <1>4, <1>7, <1>10

LEMMA WaitingFinite ==
  ASSUME NEW s, NEW x
  PROVE  IsFiniteSet(Waiting(s, x))
<1>1. IsFiniteSet(Slots) /\ IsFiniteSet(1 .. NUM_INSTR_SOURCES)
  <2>1. ROB_SIZE - 1 \in Int /\ 0 \in Int /\ 1 \in Int /\ NUM_INSTR_SOURCES \in Int
    BY SizeAssumption DEF NUM_INSTR_SOURCES
  <2> QED BY <2>1, FS_Interval DEF Slots
<1>2. IsFiniteSet(Slots \X (1 .. NUM_INSTR_SOURCES))
  BY <1>1, FS_Product
<1>3. Waiting(s, x) \subseteq Slots \X (1 .. NUM_INSTR_SOURCES)
  BY DEF Waiting
<1> QED BY <1>2, <1>3, FS_Subset

LEMMA ExecuteStoreLsq ==
  ASSUME NEW s, s.asserts = {}, LsqInv(s, {}), s.RTS1 # << >>, NEW u \in ExecuteStore(s)
  PROVE  Follows(s, u)
<1> DEFINE x == Head(s.RTS1)
           done == StoreDoneOf(s)
           W == Waiting(s, x)
           n == Cardinality(W)
           g == CHOOSE g : ForwardsUpto(g, {done}, x, SUBSET W)
<1>1. u \in g[W]
  BY Zenon DEF ExecuteStore, FoldSet, MapThenFoldSet, ForwardsUpto, Forwarded, StoreDoneOf
<1>2. /\ Waiting(done, x) = W /\ Served(s, done, done, x, W)
      /\ x \in Stores(done) /\ done.SQ[x].fetched = COMPLETED
  <2>1. StoreDone(s, done, x)
    BY LsqShape, StoreDoneIs
  <2>2. x = Head(s.RTS1)
    OBVIOUS
  <2> HIDE DEF done, x
  <2> QED BY <2>1, <2>2, StoreDoneServed DEF W
<1> HIDE DEF done
<1>3. IsFiniteSet(W)
  BY WaitingFinite
<1> HIDE DEF W, x
<1>4. n \in Nat /\ SUBSET W = Small(W, n)
  <2>1. n \in Nat /\ \A S \in SUBSET W : Cardinality(S) <= n
    BY <1>3, FS_CardinalityType, FS_Subset
  <2> QED BY <2>1 DEF Small
<1>5. ForwardsUpto(g, {done}, x, SUBSET W)
  <2> DEFINE R == {done}
  <2>1. \E h : ForwardsUpto(h, R, x, Small(W, n))
    <3> HIDE DEF R, n
    <3> QED BY <1>3, <1>4, ForwardsExist
  <2>2. \E h : ForwardsUpto(h, {done}, x, SUBSET W)
    BY <1>4, <2>1
  <2> QED BY <2>2
<1> HIDE DEF g, n
<1> DEFINE Good(S) == \A t \in g[S] : Served(s, done, t, x, W \ S)
           B == {m \in Nat : \E S \in Small(W, m) : ~Good(S)}
<1>6. ASSUME NEW m \in B PROVE m - 1 \in B
  <2>1. PICK S \in Small(W, m) : ~\A t \in g[S] : Served(s, done, t, x, W \ S)
    OBVIOUS
  <2>2. S \in SUBSET W /\ g[S] = IF S = {} THEN {done} ELSE Forwarded(g, x, S)
    BY <1>5 DEF ForwardsUpto, Small
  <2>3. S # {}
    <3>1. W \ {} = W
      OBVIOUS
    <3> QED BY <1>2, <2>1, <2>2, <3>1
  <2> DEFINE w == CHOOSE w \in S : TRUE
  <2>4. w \in S
    BY <2>3
  <2>5. g[S] = {ForwardTo(t, x, w[1], w[2]) : t \in g[S \ {w}]}
    BY <2>2, <2>3 DEF Forwarded
  <2> HIDE DEF w
  <2>6. m - 1 \in Nat /\ S \ {w} \in Small(W, m - 1)
    <3>1. m \in Nat /\ S \in Small(W, m)
      OBVIOUS
    <3>2. m # 0 /\ S \ {w} \in Small(W, m - 1)
      BY ONLY <1>3, <2>3, <2>4, <3>1, SmallLess
    <3>3. m - 1 \in Nat
      BY ONLY <3>1, <3>2
    <3> QED BY ONLY <3>2, <3>3
  <2>7. PICK t \in g[S \ {w}] : ~Served(s, done, ForwardTo(t, x, w[1], w[2]), x, W \ S)
    BY <2>1, <2>5
  <2> DEFINE V == W \ (S \ {w})
  <2>8. ASSUME Served(s, done, t, x, V) PROVE FALSE
    <3>1. w \in V /\ V \subseteq Waiting(done, x) /\ V \ {w} = W \ S
      BY <1>2, <2>2, <2>4
    <3>2. x \in Stores(done) /\ done.SQ[x].fetched = COMPLETED
      BY <1>2
    <3> HIDE DEF V
    <3>3. Served(s, done, ForwardTo(t, x, w[1], w[2]), x, V \ {w})
      BY ONLY <2>8, <3>1, <3>2, ForwardToServed
    <3> QED BY <2>7, <3>1, <3>3
  <2>9. ~Good(S \ {w})
    BY <2>8
  <2> HIDE DEF Good
  <2> QED BY <2>6, <2>9
<1>7. B = {}
  <2>1. B \subseteq Nat
    OBVIOUS
  <2> HIDE DEF B
  <2> QED BY <1>6, <2>1, Descent
<1>8. Served(s, done, u, x, W \ W)
  BY <1>1, <1>4, <1>7
<1>9. W \ W = {}
  OBVIOUS
<1>10. LsqInv(u, ExcusedIn(u)) /\ SameView(s, u) /\ Finding(s, u, x, {})
  BY <1>8, <1>9 DEF Served, ExcusedIn, AllKeys
<1> QED BY <1>10 DEF Follows, Finding
===============================================================================
