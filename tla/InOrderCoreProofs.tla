--------------------------- MODULE InOrderCoreProofs --------------------------
(***************************************************************************)
(* Operations enter the queues with their instruction and leave with it,   *)
(* in any order in between; the core as a whole implements InOrderCore,    *)
(* for any size of its queues, any addresses and any traces.  The lemmas   *)
(* up to the actions are about records, as in LoadStoreQueueProofs; the    *)
(* actions then keep MemInv, and the properties of the core follow.        *)
(***************************************************************************)
EXTENDS LoadStoreQueueProofs

(* A load takes its slot, in the loop of check_and_add_lsq.                *)

LoadEntry(s, i, j, p) ==
  [id |-> s.ROB[i].id, data_index |-> j, rob_index |-> i,
   producer_id |-> IF p = NoIndex THEN NoId ELSE s.ROB[p].id,
   translated |-> IF p = NoIndex THEN 0 ELSE INFLIGHT, fetched |-> 0]

LoadPlaced(s, t, i, j, q, p) ==
  /\ DOMAIN t = StateFields
  /\ \A g \in StateFields \ {"ROB", "LQ", "RTL0"} : t[g] = s[g]
  /\ DOMAIN t.ROB = Slots
  /\ \A d \in Slots :
       /\ DOMAIN t.ROB[d] = EntryFields
       /\ t.ROB[d].id = s.ROB[d].id /\ t.ROB[d].sq = s.ROB[d].sq /\ t.ROB[d].executed = s.ROB[d].executed
       /\ t.ROB[d].num_mem_ops = s.ROB[d].num_mem_ops
       /\ t.ROB[d].lq = IF d = i THEN [s.ROB[i].lq EXCEPT ![j] = q] ELSE s.ROB[d].lq
       /\ t.ROB[d].mem_deps = IF d = p THEN s.ROB[d].mem_deps \cup {i} ELSE s.ROB[d].mem_deps
  /\ t.LQ = [s.LQ EXCEPT ![q] = LoadEntry(s, i, j, p)]
  /\ t.RTL0 = IF p = NoIndex THEN Append(s.RTL0, q) ELSE s.RTL0

(* Where it goes: j is a load of i that has no slot, q a free slot.        *)
LoadRoom(s, i, j, q) ==
  /\ i \in Rob(s) /\ j \in DOMAIN Code(s, i).loads /\ s.ROB[i].lq[j] = NoIndex
  /\ q \in LqSlots /\ q \notin Loads(s)

LEMMA LoadPlacedViews ==
  ASSUME NEW s, Order(s), Tables(s), Entries(s), NEW i, NEW j, NEW q, LoadRoom(s, i, j, q),
         NEW p, NEW t, LoadPlaced(s, t, i, j, q, p)
  PROVE  /\ Order(t) /\ Rob(t) = Rob(s) /\ Loads(t) = Loads(s) \cup {q} /\ Stores(t) = Stores(s)
         /\ \A d \in Slots : Code(t, d) = Code(s, d)
         /\ DOMAIN t.LQ = LqSlots /\ t.LQ[q] = LoadEntry(s, i, j, p) /\ \A r \in LqSlots : r # q => t.LQ[r] = s.LQ[r]
         /\ DOMAIN t.ROB[i].lq = DOMAIN Code(s, i).loads /\ t.ROB[i].lq[j] = q
         /\ \A h \in DOMAIN Code(s, i).loads : h # j => t.ROB[i].lq[h] = s.ROB[i].lq[h]
         /\ \A d \in Slots : d # i => t.ROB[d].lq = s.ROB[d].lq
         /\ \A d \in Rob(s) : \A h \in DOMAIN Code(s, d).loads :
              s.ROB[d].lq[h] # NoIndex => (InQueue(t, d, h) <=> InQueue(s, d, h))
         /\ InQueue(t, i, j)
         /\ \A d \in Rob(s) : \A k \in DOMAIN Code(s, d).stores : Executed(t, d, k) <=> Executed(s, d, k)
<1>1. /\ i \in Rob(s) /\ i \in Slots /\ s.ROB[i].id # NoId /\ j \in DOMAIN Code(s, i).loads /\ s.ROB[i].lq[j] = NoIndex
      /\ q \in LqSlots /\ s.LQ[q].id = NoId
  BY DEF LoadRoom, Rob, Loads
<1>2. /\ t.program = s.program /\ t.head = s.head /\ t.retired = s.retired /\ t.dispatched = s.dispatched
      /\ t.SQ = s.SQ /\ DOMAIN t = StateFields
  BY DEF LoadPlaced, StateFields
<1>3. KeepsOrder(s, t)
  BY Zenon, <1>2 DEF LoadPlaced, KeepsOrder, Shaped
<1>4. Order(t) /\ Rob(t) = Rob(s) /\ \A d \in Slots : Code(t, d) = Code(s, d)
  BY <1>3, OrderSame
<1>5. DOMAIN t.LQ = LqSlots /\ t.LQ[q] = LoadEntry(s, i, j, p) /\ \A r \in LqSlots : r # q => t.LQ[r] = s.LQ[r]
  BY <1>1 DEF LoadPlaced, Tables
<1>6. t.LQ[q].id = s.ROB[i].id /\ t.LQ[q].data_index = j
  BY <1>5 DEF LoadEntry
<1>7. Loads(t) = Loads(s) \cup {q} /\ Stores(t) = Stores(s)
  BY <1>1, <1>2, <1>5, <1>6 DEF Loads, Stores
<1>8. DOMAIN s.ROB[i].lq = DOMAIN Code(s, i).loads
  BY <1>1 DEF Entries
<1>9. t.ROB[i].lq = [s.ROB[i].lq EXCEPT ![j] = q] /\ \A d \in Slots : d # i => t.ROB[d].lq = s.ROB[d].lq
  BY Zenon, <1>1 DEF LoadPlaced
<1>10. /\ DOMAIN t.ROB[i].lq = DOMAIN Code(s, i).loads /\ t.ROB[i].lq[j] = q
       /\ \A h \in DOMAIN Code(s, i).loads : h # j => t.ROB[i].lq[h] = s.ROB[i].lq[h]
  BY <1>1, <1>8, <1>9
<1>11. \A d \in Slots : t.ROB[d].id = s.ROB[d].id /\ t.ROB[d].sq = s.ROB[d].sq
  BY Zenon DEF LoadPlaced
<1>12. InQueue(t, i, j)
  BY <1>1, <1>6, <1>10, <1>11 DEF InQueue
<1>13. ASSUME NEW d \in Rob(s), NEW h \in DOMAIN Code(s, d).loads, s.ROB[d].lq[h] # NoIndex
       PROVE  InQueue(t, d, h) <=> InQueue(s, d, h)
  <2>1. d \in Slots /\ s.ROB[d].lq[h] \in LqSlots /\ s.ROB[d].id # NoId
    BY <1>13, PlacesAre DEF Rob
  <2>2. ~(d = i /\ h = j)
    BY <1>1, <1>13
  <2>3. t.ROB[d].lq[h] = s.ROB[d].lq[h] /\ t.ROB[d].id = s.ROB[d].id
    BY <1>9, <1>10, <1>11, <2>1, <2>2
  <2>4. CASE s.ROB[d].lq[h] = q
    <3>1. ~InQueue(s, d, h)
      BY <1>1, <2>1, <2>4 DEF InQueue
    <3>2. ~InQueue(t, d, h)
      <4> SUFFICES ASSUME InQueue(t, d, h) PROVE FALSE
        OBVIOUS
      <4>1. s.ROB[i].id = s.ROB[d].id /\ h = j
        BY <1>6, <2>3, <2>4 DEF InQueue
      <4> QED BY <1>1, <2>2, <4>1, LiveOne
    <3> QED BY <3>1, <3>2
  <2>5. CASE s.ROB[d].lq[h] # q
    BY Zenon, <1>5, <2>1, <2>3, <2>5 DEF InQueue
  <2> QED BY <2>4, <2>5
<1>14. \A d \in Rob(s) : \A k \in DOMAIN Code(s, d).stores : Executed(t, d, k) <=> Executed(s, d, k)
  BY Zenon, <1>2, <1>11 DEF Executed, Rob
<1> QED BY <1>4, <1>5, <1>7, <1>9, <1>10, <1>12, <1>13, <1>14

(* The producer that add_load_queue finds is in the ROB and is older.      *)
LEMMA ProducerOlder ==
  ASSUME NEW s, Order(s), NEW i \in Rob(s), NEW a, NEW p, p = Producer(s, i, a), p # NoIndex
  PROVE  /\ p \in Rob(s) /\ p \in Slots /\ s.ROB[p].id # NoId /\ p # i
         /\ LastStore(s.program, s.ROB[p].id, s.ROB[i].id, a)
<1>1. p \in Rob(s) /\ LastStore(s.program, s.ROB[p].id, s.ROB[i].id, a)
  BY ProducerIs
<1>2. s.ROB[p].id < s.ROB[i].id /\ s.ROB[p].id \in Nat
  BY <1>1, LiveAt DEF LastStore
<1> QED BY <1>1, <1>2 DEF Rob

(* The load at (i, j) may find that its producer has executed.             *)
LEMMA LoadPlacedLsq ==
  ASSUME NEW s, NEW R, LsqInv(s, R), NEW i, NEW j, NEW q, LoadRoom(s, i, j, q),
         NEW p, p = Producer(s, i, Code(s, i).loads[j]), NEW t, LoadPlaced(s, t, i, j, q, p)
  PROVE  /\ LsqInv(t, R \cup {<< i, j >>}) /\ SameView(s, t) /\ t.asserts = s.asserts
         /\ SeenExecuted(s) => SeenExecuted(t)
<1> DEFINE e == LoadEntry(s, i, j, p)
           a == Code(s, i).loads[j]
           W == R \cup {<< i, j >>}
<1>0. /\ Order(s) /\ Tables(s) /\ Entries(s) /\ LoadsHeld(s) /\ StoresHeld(s) /\ StoresStay(s)
      /\ Sourced(s) /\ DepsSound(s) /\ MemoryLast(s) /\ SeenSound(s) /\ SeenAll(s)
      /\ Awaited(s, R) /\ StoreRing(s) /\ StoresWait(s) /\ Counted(s) /\ Tallied(s)
      /\ LoadStages(s) /\ StoreStages(s) /\ Translating(s)
      /\ Rob(s) \subseteq Slots /\ Loads(s) \subseteq LqSlots /\ Stores(s) \subseteq SqSlots
  BY LsqShape
<1>1. /\ i \in Rob(s) /\ i \in Slots /\ s.ROB[i].id # NoId /\ j \in DOMAIN Code(s, i).loads
      /\ s.ROB[i].lq[j] = NoIndex /\ q \in LqSlots /\ q \notin Loads(s) /\ s.LQ[q].id = NoId
  BY DEF LoadRoom, Rob, Loads
<1>2. /\ Order(t) /\ Rob(t) = Rob(s) /\ Loads(t) = Loads(s) \cup {q} /\ Stores(t) = Stores(s)
      /\ \A d \in Slots : Code(t, d) = Code(s, d)
      /\ DOMAIN t.LQ = LqSlots /\ t.LQ[q] = e /\ \A r \in LqSlots : r # q => t.LQ[r] = s.LQ[r]
      /\ DOMAIN t.ROB[i].lq = DOMAIN Code(s, i).loads /\ t.ROB[i].lq[j] = q
      /\ \A h \in DOMAIN Code(s, i).loads : h # j => t.ROB[i].lq[h] = s.ROB[i].lq[h]
      /\ \A d \in Slots : d # i => t.ROB[d].lq = s.ROB[d].lq
      /\ \A d \in Rob(s) : \A h \in DOMAIN Code(s, d).loads :
           s.ROB[d].lq[h] # NoIndex => (InQueue(t, d, h) <=> InQueue(s, d, h))
      /\ InQueue(t, i, j)
      /\ \A d \in Rob(s) : \A k \in DOMAIN Code(s, d).stores : Executed(t, d, k) <=> Executed(s, d, k)
  BY <1>0, LoadPlacedViews
<1>3. /\ t.program = s.program /\ t.retired = s.retired /\ t.dispatched = s.dispatched /\ t.SQ = s.SQ
      /\ t.sq_tail = s.sq_tail /\ t.STA = s.STA /\ t.memory = s.memory /\ t.wq = s.wq /\ t.seen = s.seen
      /\ t.RTL1 = s.RTL1 /\ t.RTS0 = s.RTS0 /\ t.RTS1 = s.RTS1 /\ t.dtlb = s.dtlb /\ t.l1d = s.l1d
      /\ t.asserts = s.asserts /\ t.inflight_reg = s.inflight_reg /\ t.inflight_mem = s.inflight_mem
      /\ t.RTL0 = IF p = NoIndex THEN Append(s.RTL0, q) ELSE s.RTL0
  BY Zenon DEF LoadPlaced, StateFields
<1>4. \A d \in Slots : /\ t.ROB[d].id = s.ROB[d].id /\ t.ROB[d].sq = s.ROB[d].sq /\ t.ROB[d].executed = s.ROB[d].executed
                       /\ t.ROB[d].num_mem_ops = s.ROB[d].num_mem_ops
                       /\ t.ROB[d].mem_deps = IF d = p THEN s.ROB[d].mem_deps \cup {i} ELSE s.ROB[d].mem_deps
  BY Zenon DEF LoadPlaced
<1>28. /\ Rob(t) = Rob(s) /\ Stores(t) = Stores(s) /\ Rob(s) \subseteq Slots
       /\ \A d \in Slots : Code(t, d) = Code(s, d) /\ t.ROB[d].id = s.ROB[d].id /\ t.ROB[d].sq = s.ROB[d].sq
       /\ \A d \in Rob(s) : \A k \in DOMAIN Code(s, d).stores : Executed(t, d, k) <=> Executed(s, d, k)
  BY Zenon, <1>0, <1>2, <1>4
<1>5. /\ DOMAIN e = LoadFields /\ e.id = s.ROB[i].id /\ e.data_index = j /\ e.rob_index = i /\ e.fetched = 0
      /\ e.producer_id = (IF p = NoIndex THEN NoId ELSE s.ROB[p].id)
      /\ e.translated = (IF p = NoIndex THEN 0 ELSE INFLIGHT)
  BY DEF LoadEntry, LoadFields, EmptyLoad
<1>6. p # NoIndex => /\ p \in Rob(s) /\ p \in Slots /\ s.ROB[p].id # NoId /\ p # i
                     /\ LastStore(s.program, s.ROB[p].id, s.ROB[i].id, a)
  BY <1>0, <1>1, ProducerOlder
<1>7. p = NoIndex => \A m \in s.retired + 1 .. s.ROB[i].id - 1 : a \notin Range(s.program[m].stores)
  BY Zenon, <1>0, <1>1, ProducerIs
<1>8. /\ LoadAddr(t, q) = a /\ Key(t, q) = << i, j >>
      /\ \A r \in Loads(s) : r # q /\ t.LQ[r] = s.LQ[r] /\ LoadAddr(t, r) = LoadAddr(s, r) /\ Key(t, r) = Key(s, r)
  <2>1. \A r \in Loads(s) : r # q /\ t.LQ[r] = s.LQ[r]
    BY <1>0, <1>1, <1>2
  <2> HIDE DEF e
  <2>2. LoadAddr(t, q) = a
    BY Zenon, <1>2, <1>3, <1>5 DEF LoadAddr, Code
  <2>3. Key(t, q) = << i, j >>
    BY <1>2, <1>5 DEF Key
  <2> QED BY Zenon, <1>3, <2>1, <2>2, <2>3 DEF LoadAddr, Key
<1> HIDE DEF e, a
<1>9. Tables(t)
  <2>1. ASSUME NEW r \in LqSlots
        PROVE  DOMAIN t.LQ[r] = LoadFields /\ (r \notin Loads(t) => t.LQ[r].producer_id = NoId)
    <3>1. CASE r = q
      BY <1>2, <1>5, <3>1
    <3>2. CASE r # q
      BY <1>0, <1>2, <3>2 DEF Tables
    <3> QED BY <3>1, <3>2
  <2> QED BY <1>0, <1>2, <1>3, <2>1 DEF Tables
<1>10. Entries(t)
  <2>1. ASSUME NEW d \in Rob(s) PROVE t.ROB[d].lq \in [DOMAIN Code(s, d).loads -> LqSlots \cup {NoIndex}]
    <3>1. CASE d = i
      <4>1. t.ROB[i].lq = [s.ROB[i].lq EXCEPT ![j] = q] /\ s.ROB[i].lq \in [DOMAIN Code(s, i).loads -> LqSlots \cup {NoIndex}]
        BY Zenon, <1>0, <1>1 DEF Entries, LoadPlaced
      <4> QED BY <1>1, <3>1, <4>1
    <3>2. CASE d # i
      BY <1>0, <1>2, <3>2 DEF Entries
    <3> QED BY <3>1, <3>2
  <2>2. ASSUME NEW d \in Slots \ Rob(s) PROVE t.ROB[d].num_mem_ops = 0 /\ t.ROB[d].mem_deps = {}
    <3>1. d # p
      BY <1>6, QueueSizes DEF Slots, NoIndex
    <3> QED BY Zenon, <1>0, <1>4, <3>1 DEF Entries
  <2> QED BY Zenon, <1>0, <1>2, <1>4, <2>1, <2>2 DEF Entries
<1>11. LoadsHeld(t)
  <2> SUFFICES ASSUME NEW r \in Loads(t)
               PROVE  /\ t.LQ[r].rob_index \in Rob(t) /\ t.ROB[t.LQ[r].rob_index].id = t.LQ[r].id
                      /\ t.LQ[r].data_index \in DOMAIN Code(t, t.LQ[r].rob_index).loads
                      /\ t.ROB[t.LQ[r].rob_index].lq[t.LQ[r].data_index] = r
    BY Zenon DEF LoadsHeld
  <2>1. CASE r = q
    <3>1. t.LQ[r].rob_index = i /\ t.LQ[r].id = s.ROB[i].id /\ t.LQ[r].data_index = j
      BY <1>2, <1>5, <2>1
    <3>2. t.ROB[i].lq[j] = r /\ j \in DOMAIN Code(t, i).loads /\ i \in Rob(t) /\ t.ROB[i].id = s.ROB[i].id
      BY <1>1, <1>2, <1>28, <2>1
    <3> QED BY <3>1, <3>2
  <2>2. CASE r \in Loads(s)
    <3>1. t.LQ[r] = s.LQ[r] /\ r # NoIndex
      BY <1>0, <1>8, <2>2, QueueSizes
    <3> DEFINE d == s.LQ[r].rob_index
               h == s.LQ[r].data_index
    <3>2. d \in Rob(s) /\ s.ROB[d].id = s.LQ[r].id /\ h \in DOMAIN Code(s, d).loads /\ s.ROB[d].lq[h] = r
      BY Zenon, <1>0, <2>2 DEF LoadsHeld
    <3> HIDE DEF d, h
    <3>3. d \in Slots /\ ~(d = i /\ h = j)
      BY <1>0, <1>1, <3>1, <3>2
    <3>4. t.ROB[d].lq[h] = r
      BY <1>2, <3>2, <3>3
    <3>5. d \in Rob(t) /\ t.ROB[d].id = s.LQ[r].id /\ h \in DOMAIN Code(t, d).loads
      BY Zenon, <1>2, <1>4, <3>2, <3>3
    <3> QED BY <3>1, <3>4, <3>5 DEF d, h
  <2> QED BY Zenon, <1>2, <2>1, <2>2
<1>12. StoresHeld(t)
  BY <1>0, <1>3, <1>28 DEF StoresHeld
<1>13. StoresStay(t)
  BY <1>0, <1>3, <1>28 DEF StoresStay
<1>14. Sourced(t)
  <2> SUFFICES ASSUME NEW r \in Loads(t)
               PROVE  IF t.LQ[r].producer_id = NoId
                      THEN \A k \in s.retired + 1 .. t.LQ[r].id - 1 : LoadAddr(t, r) \notin Range(s.program[k].stores)
                      ELSE LastStore(s.program, t.LQ[r].producer_id, t.LQ[r].id, LoadAddr(t, r))
    BY <1>3 DEF Sourced
  <2>1. CASE r = q
    <3>1. CASE p = NoIndex
      BY <1>2, <1>5, <1>7, <1>8, <2>1, <3>1
    <3>2. CASE p # NoIndex
      BY Zenon, <1>2, <1>5, <1>6, <1>8, <2>1, <3>2
    <3> QED BY <3>1, <3>2
  <2>2. CASE r \in Loads(s)
    BY <1>0, <1>8, <2>2 DEF Sourced
  <2> QED BY <1>2, <2>1, <2>2
<1>15. DepsSound(t)
  <2> SUFFICES ASSUME NEW d \in Rob(s), NEW c \in t.ROB[d].mem_deps
               PROVE  /\ c \in Rob(s)
                      /\ \E h \in DOMAIN Code(s, c).loads :
                           LastStore(s.program, s.ROB[d].id, s.ROB[c].id, Code(s, c).loads[h])
    BY <1>3, <1>28 DEF DepsSound
  <2>1. CASE c \in s.ROB[d].mem_deps
    BY <1>0, <2>1 DEF DepsSound
  <2>2. CASE d = p /\ c = i
    <3>1. p # NoIndex
      BY <1>0, <2>2, QueueSizes DEF Slots, NoIndex
    <3> QED BY Zenon, <1>1, <1>6, <2>2, <3>1 DEF a
  <2> QED BY <1>0, <1>4, <2>1, <2>2
<1>16. MemoryLast(t) /\ SeenSound(t)
  BY <1>0, <1>3 DEF MemoryLast, SeenSound
<1>17. SeenAll(t)
  <2> SUFFICES ASSUME NEW d \in Rob(s), NEW h \in DOMAIN Code(s, d).loads,
                      t.ROB[d].lq[h] # NoIndex, ~InQueue(t, d, h)
               PROVE  \E o \in s.seen : o.id = s.ROB[d].id /\ o.op = h
    BY <1>3, <1>28 DEF SeenAll
  <2>1. ~(d = i /\ h = j)
    BY <1>2
  <2>2. t.ROB[d].lq[h] = s.ROB[d].lq[h]
    BY <1>0, <1>2, <2>1
  <2>3. ~InQueue(s, d, h)
    BY <1>2, <2>2
  <2> QED BY <1>0, <2>2, <2>3 DEF SeenAll
<1>18. Awaited(t, W)
  <2> SUFFICES ASSUME NEW r \in Loads(t), t.LQ[r].producer_id # NoId
               PROVE  \E d \in Rob(s) : Finds(t, r, d, W)
    BY Zenon, <1>2 DEF Awaited
  <2>1. CASE r = q
    <3>1. p # NoIndex /\ t.LQ[r].producer_id = s.ROB[p].id /\ t.LQ[r].rob_index = i
      BY <1>2, <1>5, <2>1
    <3>2. p \in Rob(s) /\ p \in Slots /\ LastStore(s.program, s.ROB[p].id, s.ROB[i].id, a)
      BY Zenon, <1>6, <3>1
    <3>3. Code(t, p) = s.program[s.ROB[p].id] /\ s.ROB[p].id # NoId
      BY Zenon, <1>2, <1>6, <3>1, <3>2 DEF Code
    <3>4. \E k \in DOMAIN Code(t, p).stores : Code(t, p).stores[k] = LoadAddr(t, r)
      <4>1. a \in Range(Code(t, p).stores)
        BY Zenon, <1>6, <3>1, <3>2, <3>3 DEF LastStore
      <4> QED BY <1>8, <2>1, <4>1 DEF Range
    <3>5. t.ROB[p].id = s.ROB[p].id /\ i \in t.ROB[p].mem_deps
      BY Zenon, <1>4, <3>2
    <3>6. Key(t, r) \in W
      BY <1>8, <2>1
    <3>7. Finds(t, r, p, W)
      BY Zenon, <3>1, <3>4, <3>5, <3>6 DEF Finds
    <3> QED BY <3>2, <3>7
  <2>2. CASE r \in Loads(s)
    <3>1. PICK d \in Rob(s) : Finds(s, r, d, R)
      BY <1>0, <1>8, <2>2 DEF Awaited
    <3>2. /\ d \in Slots /\ Code(t, d) = Code(s, d) /\ t.ROB[d].id = s.ROB[d].id
          /\ s.ROB[d].mem_deps \subseteq t.ROB[d].mem_deps
      BY Zenon, <1>0, <1>2, <1>4
    <3>3. t.LQ[r] = s.LQ[r] /\ LoadAddr(t, r) = LoadAddr(s, r) /\ Key(t, r) = Key(s, r)
      BY <1>8, <2>2
    <3>4. Finds(t, r, d, W)
      BY <1>2, <3>1, <3>2, <3>3 DEF Finds
    <3> QED BY <3>4
  <2> QED BY Zenon, <1>2, <2>1, <2>2
<1>19. StoreRing(t) /\ StoresWait(t)
  BY <1>0, <1>2, <1>3 DEF StoreRing, StoresWait
<1>20. Counted(t)
  <2>1. ASSUME NEW d \in Rob(s) PROVE PendingLoads(t, d) = PendingLoads(s, d) /\ PendingStores(t, d) = PendingStores(s, d)
    <3>1. PendingStores(t, d) = PendingStores(s, d)
      BY <1>0, <1>2 DEF PendingStores
    <3>2. ASSUME NEW h \in DOMAIN Code(s, d).loads
          PROVE  t.ROB[d].lq[h] = NoIndex \/ InQueue(t, d, h) <=> s.ROB[d].lq[h] = NoIndex \/ InQueue(s, d, h)
      <4>1. CASE d = i /\ h = j
        BY <1>1, <1>2, <4>1
      <4>2. CASE ~(d = i /\ h = j)
        <5>1. t.ROB[d].lq[h] = s.ROB[d].lq[h]
          BY <1>0, <1>2, <4>2
        <5> QED BY <1>2, <5>1
      <4> QED BY <4>1, <4>2
    <3>3. Code(t, d) = Code(s, d)
      BY <1>0, <1>2
    <3> QED BY <3>1, <3>2, <3>3 DEF PendingLoads
  <2> QED BY Zenon, <1>0, <1>2, <1>4, <2>1 DEF Counted
<1>21. Tallied(t)
  <2>1. \A d \in Slots : /\ t.ROB[d].id = s.ROB[d].id /\ t.ROB[d].executed = s.ROB[d].executed
                         /\ t.ROB[d].num_mem_ops = s.ROB[d].num_mem_ops
    BY Zenon, <1>4
  <2> QED BY <1>0, <1>3, <2>1, TalliedSame
<1>22. StoreStages(t) /\ \A x, y : StoreAt(t, x, y) = StoreAt(s, x, y)
  BY <1>0, <1>3, StoresLeft
<1>23. \A x, y : LoadAt(t, x, y) = IF p = NoIndex /\ x = 0 /\ y = 0 THEN LoadAt(s, x, y) \cup {q} ELSE LoadAt(s, x, y)
  <2>1. t.LQ[q].producer_id = NoId <=> p = NoIndex
    BY <1>2, <1>5, <1>6
  <2>2. p = NoIndex => t.LQ[q].translated = 0 /\ t.LQ[q].fetched = 0
    BY <1>2, <1>5
  <2>3. ASSUME NEW x, NEW y, NEW r
        PROVE  r \in LoadAt(t, x, y) <=> r \in LoadAt(s, x, y) \/ (r = q /\ p = NoIndex /\ x = 0 /\ y = 0)
    <3>1. CASE r = q
      <4>1. r \notin LoadAt(s, x, y)
        BY <1>1, <3>1 DEF LoadAt
      <4>2. r \in Loads(t)
        BY <1>2, <3>1
      <4> QED BY <2>1, <2>2, <3>1, <4>1, <4>2 DEF LoadAt
    <3>2. CASE r # q
      BY <1>2, <1>8, <3>2 DEF LoadAt
    <3> QED BY <3>1, <3>2
  <2> QED BY <2>3
<1>24. LoadStages(t)
  <2>1. /\ LoadAt(t, INFLIGHT, 0) = LoadAt(s, INFLIGHT, 0) /\ LoadAt(t, COMPLETED, 0) = LoadAt(s, COMPLETED, 0)
        /\ LoadAt(t, COMPLETED, INFLIGHT) = LoadAt(s, COMPLETED, INFLIGHT)
    BY <1>23 DEF INFLIGHT, COMPLETED
  <2>2. Enumerates(t.RTL0, LoadAt(t, 0, 0)) /\ (t.LQ[q].producer_id = NoId => q \in LoadAt(t, 0, 0))
        /\ LoadAt(s, 0, 0) \subseteq LoadAt(t, 0, 0)
    <3>1. CASE p = NoIndex
      <4>1. LoadAt(t, 0, 0) = LoadAt(s, 0, 0) \cup {q} /\ t.RTL0 = Append(s.RTL0, q)
        BY <1>3, <1>23, <3>1
      <4>2. q \notin LoadAt(s, 0, 0) /\ Enumerates(s.RTL0, LoadAt(s, 0, 0))
        BY <1>0, <1>1 DEF LoadAt, LoadStages
      <4>3. Enumerates(Append(s.RTL0, q), LoadAt(s, 0, 0) \cup {q})
        BY <4>2, ListAppend
      <4> QED BY <4>1, <4>3
    <3>2. CASE p # NoIndex
      <4>1. LoadAt(t, 0, 0) = LoadAt(s, 0, 0) /\ t.RTL0 = s.RTL0
        BY <1>3, <1>23, <3>2
      <4>2. t.LQ[q].producer_id # NoId
        BY Zenon, <1>2, <1>5, <1>6, <3>2
      <4> QED BY <1>0, <4>1, <4>2 DEF LoadStages
    <3> QED BY <3>1, <3>2
  <2>3. ASSUME NEW r \in Loads(t), t.LQ[r].producer_id = NoId
        PROVE  r \in LoadAt(t, 0, 0) \cup LoadAt(t, INFLIGHT, 0) \cup LoadAt(t, COMPLETED, 0) \cup LoadAt(t, COMPLETED, INFLIGHT)
    <3>1. CASE r = q
      BY <2>2, <2>3, <3>1
    <3>2. CASE r \in Loads(s)
      <4>1. s.LQ[r].producer_id = NoId
        BY <1>8, <2>3, <3>2
      <4>2. r \in LoadAt(s, 0, 0) \cup LoadAt(s, INFLIGHT, 0) \cup LoadAt(s, COMPLETED, 0) \cup LoadAt(s, COMPLETED, INFLIGHT)
        BY <1>0, <3>2, <4>1 DEF LoadStages
      <4> QED BY <2>1, <2>2, <4>2
    <3> QED BY <1>2, <3>1, <3>2
  <2>4. Enumerates(t.RTL1, LoadAt(t, COMPLETED, 0)) /\ t.l1d = LoadAt(t, COMPLETED, INFLIGHT)
    BY <1>0, <1>3, <2>1 DEF LoadStages
  <2> QED BY <2>2, <2>3, <2>4 DEF LoadStages
<1>25. Translating(t)
  <2>1. LoadAt(t, INFLIGHT, 0) = LoadAt(s, INFLIGHT, 0)
    BY <1>23 DEF INFLIGHT
  <2> QED BY <1>0, <1>3, <1>22, <2>1 DEF Translating
<1>26. SameView(s, t)
  BY <1>3 DEF SameView
<1>27. SeenExecuted(s) => SeenExecuted(t)
  BY <1>0, <1>3, <1>28 DEF SeenExecuted
<1> QED BY <1>2, <1>3, <1>9, <1>10, <1>11, <1>12, <1>13, <1>14, <1>15, <1>16, <1>17, <1>18, <1>19, <1>20, <1>21, <1>22, <1>24, <1>25, <1>26, <1>27
        DEF LsqInv, Held2, Flow, Rings, Places, W

(* An entry of the load queue, as add_load_queue fills it.                 *)
LEMMA NewLoad ==
  ASSUME NEW a, NEW b, NEW c
  PROVE  [EmptyLoad EXCEPT !.id = a, !.data_index = b, !.rob_index = c]
           = [id |-> a, data_index |-> b, rob_index |-> c, producer_id |-> NoId, translated |-> 0, fetched |-> 0]
<1> DEFINE F == {"id", "data_index", "rob_index", "producer_id", "translated", "fetched"}
           e == [EmptyLoad EXCEPT !.id = a, !.data_index = b, !.rob_index = c]
           d == [id |-> a, data_index |-> b, rob_index |-> c, producer_id |-> NoId, translated |-> 0, fetched |-> 0]
<1>1. e = [f \in F |-> e[f]]
  BY Zenon DEF EmptyLoad
<1>2. d = [f \in F |-> d[f]]
  OBVIOUS
<1>3. e.id = a /\ e.data_index = b /\ e.rob_index = c /\ e.producer_id = NoId /\ e.translated = 0 /\ e.fetched = 0
  BY DEF EmptyLoad
<1>4. d.id = a /\ d.data_index = b /\ d.rob_index = c /\ d.producer_id = NoId /\ d.translated = 0 /\ d.fetched = 0
  OBVIOUS
<1> HIDE DEF e, d
<1>5. \A f \in F : e[f] = d[f]
  BY <1>3, <1>4
<1> HIDE DEF F
<1>6. [f \in F |-> e[f]] = [f \in F |-> d[f]]
  BY <1>5
<1>7. e = d
  BY <1>1, <1>2, <1>6
<1> QED BY <1>7 DEF e, d

LEMMA ProducerSame ==
  ASSUME NEW s, Order(s), NEW i \in Rob(s), NEW u, u.head = s.head, \A d \in Slots : Code(u, d) = Code(s, d), NEW a
  PROVE  Producer(u, i, a) = Producer(s, i, a)
<1> DEFINE D(r) == {d \in 1 .. Distance(r, i) : a \in Range(Code(r, Before(i, d)).stores)}
<1>1. Distance(u, i) = Distance(s, i)
  BY DEF Distance
<1>2. \A d \in 1 .. Distance(s, i) : Before(i, d) \in Slots
  BY BeforeIs DEF Rob
<1>3. D(u) = D(s)
  BY <1>1, <1>2
<1> QED BY <1>3 DEF Producer

(* What add_load_queue does before it may forward.                         *)
Added1(s, i, j, q) ==
  MarkProducer([s EXCEPT !.LQ[q] = [EmptyLoad EXCEPT !.id = s.ROB[i].id, !.data_index = j, !.rob_index = i],
                         !.ROB[i].lq[j] = q], i, j, q)

Added2(s, i, j, q) ==
  LET t == Added1(s, i, j, q) IN
  IF t.LQ[q].producer_id = NoId THEN [t EXCEPT !.RTL0 = Append(@, q)] ELSE t

LEMMA Added1Is ==
  ASSUME NEW s, Order(s), Tables(s), Entries(s), NEW i, NEW j, NEW q, LoadRoom(s, i, j, q),
         NEW p, p = Producer(s, i, Code(s, i).loads[j])
  PROVE  LoadPlaced(s, Added2(s, i, j, q), i, j, q, p)
<1> DEFINE e0 == [EmptyLoad EXCEPT !.id = s.ROB[i].id, !.data_index = j, !.rob_index = i]
           u == [s EXCEPT !.LQ[q] = e0, !.ROB[i].lq[j] = q]
           t == Added1(s, i, j, q)
           r == Added2(s, i, j, q)
           e == LoadEntry(s, i, j, p)
<1>0. /\ Shaped(s) /\ DOMAIN s = StateFields /\ DOMAIN s.ROB = Slots /\ \A d \in Slots : DOMAIN s.ROB[d] = EntryFields
      /\ DOMAIN s.LQ = LqSlots
  BY DEF Order, Shaped, Tables
<1>1. i \in Rob(s) /\ i \in Slots /\ s.ROB[i].id # NoId /\ q \in LqSlots
  BY DEF LoadRoom, Rob
<1>2. e0 = [id |-> s.ROB[i].id, data_index |-> j, rob_index |-> i, producer_id |-> NoId, translated |-> 0, fetched |-> 0]
  BY Zenon, NewLoad
<1>3. /\ DOMAIN u = StateFields /\ (\A g \in StateFields \ {"LQ", "ROB"} : u[g] = s[g])
      /\ u.LQ = [s.LQ EXCEPT ![q] = e0]
      /\ u.ROB = [s.ROB EXCEPT ![i] = [@ EXCEPT !["lq"] = [s.ROB[i].lq EXCEPT ![j] = q]]]
  <2> HIDE DEF e0
  <2> QED BY Zenon, <1>0 DEF StateFields
<1>4. t = MarkProducer(u, i, j, q)
  BY DEF Added1
<1> HIDE DEF u, e0
<1>5. /\ DOMAIN u.ROB = Slots /\ (\A d \in Slots : d # i => u.ROB[d] = s.ROB[d])
      /\ u.ROB[i] = [s.ROB[i] EXCEPT !["lq"] = [s.ROB[i].lq EXCEPT ![j] = q]]
  BY <1>0, <1>1, <1>3
<1>6. /\ DOMAIN u.ROB[i] = EntryFields /\ u.ROB[i].lq = [s.ROB[i].lq EXCEPT ![j] = q]
      /\ u.ROB[i].id = s.ROB[i].id /\ u.ROB[i].sq = s.ROB[i].sq /\ u.ROB[i].executed = s.ROB[i].executed
      /\ u.ROB[i].num_mem_ops = s.ROB[i].num_mem_ops /\ u.ROB[i].mem_deps = s.ROB[i].mem_deps
  BY <1>0, <1>1, <1>5 DEF EntryFields, EmptyEntry
<1>7. \A d \in Slots : /\ DOMAIN u.ROB[d] = EntryFields
                       /\ u.ROB[d].id = s.ROB[d].id /\ u.ROB[d].sq = s.ROB[d].sq /\ u.ROB[d].executed = s.ROB[d].executed
                       /\ u.ROB[d].num_mem_ops = s.ROB[d].num_mem_ops /\ u.ROB[d].mem_deps = s.ROB[d].mem_deps
                       /\ u.ROB[d].lq = IF d = i THEN [s.ROB[i].lq EXCEPT ![j] = q] ELSE s.ROB[d].lq
  BY Zenon, <1>0, <1>5, <1>6
<1>8. /\ u.program = s.program /\ u.head = s.head /\ u.RTL0 = s.RTL0
  BY <1>3 DEF StateFields
<1>9. \A d \in Slots : Code(u, d) = Code(s, d)
  BY Zenon, <1>7, <1>8 DEF Code
<1>10. Producer(u, i, Code(u, i).loads[j]) = p
  <2>1. \A a : Producer(u, i, a) = Producer(s, i, a)
    BY <1>1, <1>8, <1>9, ProducerSame
  <2> QED BY <1>1, <1>9, <2>1
<1>11. DOMAIN u.LQ = LqSlots /\ u.LQ[q] = e0
  BY <1>0, <1>1, <1>3
<1>12. e0.producer_id = NoId
  BY <1>2
<1>13. CASE p = NoIndex
  <2>1. t = u
    BY <1>4, <1>10, <1>13 DEF MarkProducer
  <2>2. r = [u EXCEPT !.RTL0 = Append(@, q)]
    BY <1>11, <1>12, <2>1 DEF Added2
  <2>3. /\ DOMAIN r = StateFields /\ (\A g \in StateFields \ {"RTL0"} : r[g] = u[g]) /\ r.RTL0 = Append(s.RTL0, q)
    BY <1>3, <1>8, <2>2 DEF StateFields
  <2>4. \A d \in Slots : d # p
    BY <1>13, QueueSizes DEF Slots, NoIndex
  <2>5. r.ROB = u.ROB /\ r.LQ = u.LQ
    BY <2>3 DEF StateFields
  <2>6. e = e0
    BY <1>2, <1>13 DEF LoadEntry
  <2> HIDE DEF r, e
  <2>7. r.LQ = [s.LQ EXCEPT ![q] = LoadEntry(s, i, j, p)]
    BY <1>3, <2>5, <2>6 DEF e
  <2>8. \A g \in StateFields \ {"ROB", "LQ", "RTL0"} : r[g] = s[g]
    BY <1>3, <2>3
  <2>9. LoadPlaced(s, r, i, j, q, p)
    BY <1>5, <1>7, <1>13, <2>3, <2>4, <2>5, <2>7, <2>8 DEF LoadPlaced
  <2> QED BY <2>9 DEF r
<1>14. CASE p # NoIndex
  <2>0. p \in Rob(s) /\ p \in Slots /\ s.ROB[p].id # NoId /\ p # i
    BY <1>1, <1>14, ProducerOlder
  <2> DEFINE v == [u EXCEPT !.ROB[p].mem_deps = @ \cup {i},
                            !.LQ[q].producer_id = u.ROB[p].id, !.LQ[q].translated = INFLIGHT]
  <2>1. t = v
    BY Zenon, <1>4, <1>10, <1>14 DEF MarkProducer
  <2>2. /\ DOMAIN v = StateFields /\ (\A g \in StateFields \ {"LQ", "ROB"} : v[g] = u[g])
        /\ v.ROB = [u.ROB EXCEPT ![p] = [@ EXCEPT !["mem_deps"] = u.ROB[p].mem_deps \cup {i}]]
        /\ v.LQ = [[u.LQ EXCEPT ![q] = [@ EXCEPT !["producer_id"] = u.ROB[p].id]]
                     EXCEPT ![q] = [@ EXCEPT !["translated"] = INFLIGHT]]
    BY Zenon, <1>3 DEF StateFields
  <2> HIDE DEF v
  <2>3. v.LQ = [u.LQ EXCEPT ![q] = [[e0 EXCEPT !["producer_id"] = u.ROB[p].id] EXCEPT !["translated"] = INFLIGHT]]
    BY Zenon, <1>1, <1>11, <2>2
  <2>4. [[e0 EXCEPT !["producer_id"] = u.ROB[p].id] EXCEPT !["translated"] = INFLIGHT] = e
    BY <1>2, <1>7, <1>14, <2>0 DEF LoadEntry
  <2> HIDE DEF e
  <2>5. v.LQ = [s.LQ EXCEPT ![q] = e] /\ v.LQ[q] = e
    <3>1. v.LQ = [u.LQ EXCEPT ![q] = e]
      BY <2>3, <2>4
    <3> QED BY <1>1, <1>3, <1>11, <3>1
  <2>6. e.producer_id # NoId
    BY <1>14, <2>0 DEF LoadEntry, e
  <2>7. r = v
    BY <2>1, <2>5, <2>6 DEF Added2
  <2>8. /\ DOMAIN v.ROB = Slots /\ (\A d \in Slots : d # p => v.ROB[d] = u.ROB[d])
        /\ v.ROB[p] = [u.ROB[p] EXCEPT !["mem_deps"] = u.ROB[p].mem_deps \cup {i}]
    BY Zenon, <1>5, <2>0, <2>2
  <2>9. /\ DOMAIN v.ROB[p] = EntryFields /\ v.ROB[p].mem_deps = u.ROB[p].mem_deps \cup {i} /\ v.ROB[p].lq = u.ROB[p].lq
        /\ v.ROB[p].id = u.ROB[p].id /\ v.ROB[p].sq = u.ROB[p].sq /\ v.ROB[p].executed = u.ROB[p].executed
        /\ v.ROB[p].num_mem_ops = u.ROB[p].num_mem_ops
    BY Zenon, <1>7, <2>0, <2>8 DEF EntryFields, EmptyEntry
  <2>10. v.RTL0 = u.RTL0
    BY Zenon, <2>2 DEF StateFields
  <2>11. \A g \in StateFields \ {"ROB", "LQ", "RTL0"} : v[g] = s[g]
    BY Zenon, <1>3, <2>2
  <2>12. ASSUME NEW d \in Slots
         PROVE  /\ DOMAIN v.ROB[d] = EntryFields
                /\ v.ROB[d].id = s.ROB[d].id /\ v.ROB[d].sq = s.ROB[d].sq /\ v.ROB[d].executed = s.ROB[d].executed
                /\ v.ROB[d].num_mem_ops = s.ROB[d].num_mem_ops
                /\ v.ROB[d].lq = IF d = i THEN [s.ROB[i].lq EXCEPT ![j] = q] ELSE s.ROB[d].lq
                /\ v.ROB[d].mem_deps = IF d = p THEN s.ROB[d].mem_deps \cup {i} ELSE s.ROB[d].mem_deps
    <3>1. CASE d = p
      BY Zenon, <1>7, <2>0, <2>9, <3>1
    <3>2. CASE d # p
      BY <1>7, <2>8, <3>2
    <3> QED BY <3>1, <3>2
  <2>13. LoadPlaced(s, v, i, j, q, p)
    BY Zenon, <1>8, <1>14, <2>2, <2>5, <2>8, <2>10, <2>11, <2>12 DEF LoadPlaced, e
  <2> QED BY <2>7, <2>13
<1> QED BY <1>13, <1>14

(* A free slot, when the queue is not full.                                *)
LEMMA SlotFree ==
  ASSUME NEW n \in Nat, NEW Q, DOMAIN Q = 0 .. n - 1, Occupancy(Q) # n
  PROVE  Free(Q) # {}
<1> SUFFICES ASSUME Free(Q) = {} PROVE FALSE
  OBVIOUS
<1>1. DOMAIN Q \ Free(Q) = 0 .. n - 1
  OBVIOUS
<1>2. Cardinality(0 .. n - 1) = n
  <2>1. 0 \in Int /\ n - 1 \in Int
    OBVIOUS
  <2>2. Cardinality(0 .. n - 1) = IF 0 > n - 1 THEN 0 ELSE (n - 1) - 0 + 1
    BY <2>1, FS_Interval
  <2> QED BY <2>2
<1> QED BY <1>1, <1>2 DEF Occupancy

LEMMA LoadRoomIs ==
  ASSUME NEW s, Tables(s), Occupancy(s.LQ) # LQ_SIZE
  PROVE  Min(Free(s.LQ)) \in LqSlots /\ Min(Free(s.LQ)) \notin Loads(s)
<1>1. LQ_SIZE \in Nat /\ DOMAIN s.LQ = 0 .. LQ_SIZE - 1
  BY QueueSizes DEF Tables, LqSlots
<1>2. Free(s.LQ) # {} /\ Free(s.LQ) \subseteq LqSlots /\ Free(s.LQ) \in SUBSET Nat
  <2>1. Free(s.LQ) # {}
    BY <1>1, SlotFree
  <2>2. Free(s.LQ) \subseteq LqSlots
    BY <1>1 DEF Free, LqSlots
  <2>3. LqSlots \subseteq Nat
    BY <1>1 DEF LqSlots
  <2> QED BY <2>1, <2>2, <2>3
<1>3. Min(Free(s.LQ)) \in Free(s.LQ)
  BY <1>2, LeastIs
<1> QED BY <1>2, <1>3 DEF Free, Loads

Grown(s, t) ==
  /\ LsqInv(t, {}) /\ t.asserts = {} /\ SameView(s, t) /\ Rob(t) = Rob(s)
  /\ \A d \in Slots : Code(t, d) = Code(s, d)
  /\ SeenExecuted(s) => SeenExecuted(t)

(* The same, of a load that had a producer.                                *)
LEMMA LoadGivenLsq ==
  ASSUME NEW s, NEW R, LsqInv(s, R), NEW q \in Loads(s), NEW from \in Nat,
         LastStore(s.program, from, s.LQ[q].id, LoadAddr(s, q)), s.LQ[q].producer_id # NoId,
         NEW t, LoadDone(s, t, q, from)
  PROVE  LsqInv(t, R \ {Key(s, q)}) /\ SameView(s, t) /\ t.asserts = s.asserts
<1>1. LsqInv(s, R) /\ q \in Loads(s) /\ from \in Nat
  OBVIOUS
<1>2. LastStore(s.program, from, s.LQ[q].id, LoadAddr(s, q)) /\ LoadDone(s, t, q, from)
  OBVIOUS
<1>3. s.LQ[q].producer_id # NoId \/ q \in s.l1d
  OBVIOUS
<1>4. /\ LsqInv(t, R \ {Key(s, q)}) /\ SameView(s, t) /\ t.asserts = s.asserts /\ Loads(t) = Loads(s) \ {q}
  BY ONLY Zenon, <1>1, <1>2, <1>3, LoadDoneLsq
<1> QED BY <1>4

LEMMA AddLoadGrown ==
  ASSUME NEW s, s.asserts = {}, LsqInv(s, {}), NEW i \in Rob(s), NEW j \in DOMAIN Code(s, i).loads
  PROVE  Grown(s, AddLoad(s, i, j))
<1> DEFINE q == Min(Free(s.LQ))
           a == Code(s, i).loads[j]
           p == Producer(s, i, a)
           t == Added2(s, i, j, q)
           v == Added1(s, i, j, q)
           F == ForwardingSlot(v, q)
<1>0. Order(s) /\ Tables(s) /\ Entries(s) /\ Rob(s) \subseteq Slots
  BY LsqShape
<1>1. CASE s.ROB[i].lq[j] # NoIndex \/ Occupancy(s.LQ) = LQ_SIZE
  <2>1. AddLoad(s, i, j) = s
    BY <1>1 DEF AddLoad
  <2> QED BY <2>1 DEF Grown, SameView
<1>2. CASE ~(s.ROB[i].lq[j] # NoIndex \/ Occupancy(s.LQ) = LQ_SIZE)
  <2>1. AddLoad(s, i, j) = AddLoadQueue(s, i, j)
    BY <1>2 DEF AddLoad
  <2>2. LoadRoom(s, i, j, q)
    BY <1>0, <1>2, LoadRoomIs DEF LoadRoom
  <2>3. AddLoadQueue(s, i, j) =
          IF v.LQ[q].producer_id # NoId /\ \E x \in F : v.SQ[x].fetched = COMPLETED
          THEN Forward(v, q, v.LQ[q].producer_id) ELSE t
    <3> DEFINE m == MarkProducer([s EXCEPT !.LQ[q] = [EmptyLoad EXCEPT !.id = s.ROB[i].id, !.data_index = j, !.rob_index = i],
                                           !.ROB[i].lq[j] = q], i, j, q)
    <3>1. v = m
      BY Zenon DEF Added1
    <3>2. t = IF m.LQ[q].producer_id = NoId THEN [m EXCEPT !.RTL0 = Append(@, q)] ELSE m
      BY Zenon DEF Added1, Added2
    <3>3. AddLoadQueue(s, i, j) =
            IF m.LQ[q].producer_id = NoId THEN [m EXCEPT !.RTL0 = Append(@, q)]
            ELSE IF \E x \in ForwardingSlot(m, q) : m.SQ[x].fetched = COMPLETED
                 THEN Forward(m, q, m.LQ[q].producer_id) ELSE m
      BY Zenon DEF AddLoadQueue
    <3> HIDE DEF m, v, t
    <3> QED BY Zenon, <3>1, <3>2, <3>3
  <2> HIDE DEF q, p, v, t, F
  <2>4. LoadPlaced(s, t, i, j, q, p)
    BY <1>0, <2>2, Added1Is DEF p, t
  <2> DEFINE W == {<< i, j >>}
  <2>5. LsqInv(t, W) /\ SameView(s, t) /\ t.asserts = s.asserts /\ (SeenExecuted(s) => SeenExecuted(t))
    <3> DEFINE R == {}
    <3>1. LsqInv(s, R)
      OBVIOUS
    <3>2. R \cup {<< i, j >>} = W
      OBVIOUS
    <3> HIDE DEF R
    <3>3. p = Producer(s, i, Code(s, i).loads[j])
      BY DEF p
    <3>4. LsqInv(t, R \cup {<< i, j >>}) /\ SameView(s, t) /\ t.asserts = s.asserts /\ (SeenExecuted(s) => SeenExecuted(t))
      BY ONLY <2>2, <2>4, <3>1, <3>3, LoadPlacedLsq
    <3> QED BY <3>2, <3>4
  <2>6. /\ Rob(t) = Rob(s) /\ Loads(t) = Loads(s) \cup {q} /\ (\A d \in Slots : Code(t, d) = Code(s, d))
        /\ t.LQ[q] = LoadEntry(s, i, j, p)
    BY ONLY <1>0, <2>2, <2>4, LoadPlacedViews
  <2>7. /\ t.LQ[q].id = s.ROB[i].id /\ t.LQ[q].data_index = j /\ t.LQ[q].rob_index = i
        /\ t.LQ[q].producer_id = IF p = NoIndex THEN NoId ELSE s.ROB[p].id
    BY <2>6 DEF LoadEntry
  <2>8. /\ Order(t) /\ Tables(t) /\ Entries(t) /\ LoadsHeld(t) /\ StoresHeld(t) /\ StoresStay(t) /\ Sourced(t)
        /\ LoadStages(t) /\ Shaped(t) /\ Awaited(t, W) /\ Stores(t) \subseteq SqSlots
    BY <2>5, LsqShape
  <2>9. \A d \in Slots : t.ROB[d].id = s.ROB[d].id
    BY Zenon, <2>4 DEF LoadPlaced
  <2>10. q \in Loads(t) /\ Key(t, q) = << i, j >> /\ LoadAddr(t, q) = a /\ i \in Slots
    BY <1>0, <2>6, <2>7, <2>9 DEF Key, LoadAddr, Code
  <2>11. CASE v.LQ[q].producer_id # NoId /\ \E x \in F : v.SQ[x].fetched = COMPLETED
    <3>1. t = v
      BY <2>11 DEF Added2, t, v
    <3> DEFINE n == t.LQ[q].producer_id
               u == Forward(t, q, n)
    <3>2. PICK x \in F : t.SQ[x].fetched = COMPLETED
      BY <2>11, <3>1
    <3>3. x \in Stores(t) /\ n = t.SQ[x].id /\ StoreAddr(t, x) = LoadAddr(t, q)
      <4>1. DOMAIN t.SQ = SqSlots
        BY <2>8 DEF Tables
      <4> QED BY <3>1, <3>2, <4>1 DEF F, ForwardingSlot, Free, Stores
    <3>4. /\ t.SQ[x].rob_index \in Rob(t) /\ t.ROB[t.SQ[x].rob_index].id = t.SQ[x].id /\ t.SQ[x].id \in Nat
          /\ t.SQ[x].data_index \in DOMAIN Code(t, t.SQ[x].rob_index).stores
          /\ t.ROB[t.SQ[x].rob_index].sq[t.SQ[x].data_index] = x
          /\ StoreAddr(t, x) = Code(t, t.SQ[x].rob_index).stores[t.SQ[x].data_index] /\ x \in SqSlots
      BY <2>8, <3>3, StoreIs
    <3>5. n \in Nat /\ t.LQ[q].producer_id # NoId
      BY Zenon, <2>11, <3>1, <3>3, <3>4
    <3> HIDE DEF n, u
    <3>6. q \notin t.l1d
      BY <2>8, <3>5 DEF LoadStages, LoadAt
    <3>7. LoadDone(t, u, q, n)
      BY <2>8, <3>6, ForwardIs DEF u
    <3>8. LastStore(t.program, n, t.LQ[q].id, LoadAddr(t, q))
      BY <2>8, <2>10, <3>5 DEF Sourced, n
    <3>9. LsqInv(u, W \ {Key(t, q)}) /\ SameView(t, u) /\ u.asserts = t.asserts
      <4>1. n \in Nat /\ q \in Loads(t) /\ LsqInv(t, W)
        BY <2>5, <2>10, <3>5
      <4>2. t.LQ[q].producer_id # NoId
        BY <3>5
      <4> HIDE DEF W
      <4>3. LastStore(t.program, n, t.LQ[q].id, LoadAddr(t, q)) /\ LoadDone(t, u, q, n)
        BY <3>7, <3>8
      <4> QED BY ONLY <4>1, <4>2, <4>3, LoadGivenLsq
    <3>10. Rob(u) = Rob(t) /\ \A d \in Slots : Code(u, d) = Code(t, d)
      <4>1. Counted(t) /\ Tallied(t)
        BY <2>5, LsqShape
      <4> QED BY ONLY <2>8, <2>10, <3>7, <4>1, LoadDoneViews
    <3>11. SeenExecuted(t) => SeenExecuted(u)
      <4>1. ASSUME NEW d \in Rob(t), t.ROB[d].id = n
            PROVE  \E k \in DOMAIN Code(t, d).stores : Code(t, d).stores[k] = LoadAddr(t, q) /\ Executed(t, d, k)
        <5>1. d = t.SQ[x].rob_index
          BY <2>8, <3>3, <3>4, <4>1, LiveOne
        <5>2. x # NoIndex
          BY Zenon, <3>4, QueueSizes
        <5>3. Executed(t, d, t.SQ[x].data_index)
          BY Zenon, <3>2, <3>4, <5>1, <5>2 DEF Executed
        <5> QED BY Zenon, <3>3, <3>4, <5>1, <5>3
      <4>2. LsqInv(t, W) /\ q \in Loads(t)
        BY <2>5, <2>10
      <4> HIDE DEF W
      <4> QED BY ONLY <3>7, <4>1, <4>2, LoadDoneSeen
    <3>12. LsqInv(u, {})
      <4>1. W \ {Key(t, q)} = {}
        BY <2>10
      <4> QED BY <3>9, <4>1
    <3>13. Grown(s, u)
      BY <2>5, <2>6, <3>9, <3>10, <3>11, <3>12 DEF Grown, SameView
    <3>14. AddLoad(s, i, j) = u
      BY <2>1, <2>3, <2>11, <3>1 DEF u, n
    <3> QED BY <3>13, <3>14
  <2>12. CASE ~(v.LQ[q].producer_id # NoId /\ \E x \in F : v.SQ[x].fetched = COMPLETED)
    <3>1. t.LQ[q].producer_id # NoId => t = v
      <4>1. t = IF v.LQ[q].producer_id = NoId THEN [v EXCEPT !.RTL0 = Append(@, q)] ELSE v
        BY DEF Added2, t, v
      <4>2. CASE v.LQ[q].producer_id = NoId
        <5>1. t = [v EXCEPT !.RTL0 = Append(@, q)]
          BY <4>1, <4>2
        <5>2. t.LQ = v.LQ
          BY <5>1, <2>8 DEF Shaped, StateFields
        <5> QED BY <4>2, <5>2
      <4> QED BY <4>1, <4>2
    <3>2. Awaited(t, {})
      <4> SUFFICES ASSUME NEW r \in Loads(t), t.LQ[r].producer_id # NoId
                   PROVE  \E d \in Rob(t) : Finds(t, r, d, {})
        BY DEF Awaited
      <4>1. PICK d \in Rob(t) : Finds(t, r, d, W)
        BY <2>8 DEF Awaited
      <4>2. PICK k \in DOMAIN Code(t, d).stores :
              Code(t, d).stores[k] = LoadAddr(t, r) /\ (Executed(t, d, k) => Key(t, r) \in W)
        BY <4>1 DEF Finds
      <4>3. ASSUME Executed(t, d, k) PROVE FALSE
        <5>1. Key(t, r) = << i, j >>
          BY <4>2, <4>3
        <5>2. r = q
          <6>1. r = t.ROB[i].lq[j] /\ q = t.ROB[i].lq[j]
            BY Zenon, <2>8, <2>10, <5>1 DEF LoadsHeld, Key
          <6> QED BY <6>1
        <5> DEFINE x == t.ROB[d].sq[k]
        <5>3. x # NoIndex /\ t.SQ[x].fetched = COMPLETED /\ x \in SqSlots
          BY <2>8, <4>3, PlacesAre DEF Executed
        <5>4. t.SQ[x].id = t.ROB[d].id /\ t.SQ[x].data_index = k /\ t.ROB[d].id # NoId
          BY Zenon, <2>8, <5>3 DEF StoresStay, Rob
        <5> HIDE DEF x
        <5>5. StoreAddr(t, x) = LoadAddr(t, q) /\ t.LQ[q].producer_id = t.SQ[x].id
          BY Zenon, <4>1, <4>2, <5>2, <5>4 DEF StoreAddr, Code, Finds
        <5>6. t = v
          BY <3>1, <5>2
        <5>7. x \in F
          BY <2>8, <5>3, <5>4, <5>5, <5>6 DEF F, ForwardingSlot, Free, Tables
        <5> QED BY <2>12, <5>2, <5>3, <5>6, <5>7
      <4>4. Finds(t, r, d, {})
        BY <4>1, <4>2, <4>3 DEF Finds
      <4> QED BY <4>4
    <3>3. LsqInv(t, {})
      BY <2>5, <3>2 DEF LsqInv
    <3>4. Grown(s, t)
      BY <2>5, <2>6, <3>3 DEF Grown
    <3>5. AddLoad(s, i, j) = t
      BY <2>1, <2>3, <2>12
    <3> QED BY <3>4, <3>5
  <2> QED BY <2>11, <2>12
<1> QED BY <1>1, <1>2

-------------------------------------------------------------------------------
(* A store takes its slot, in the loop of check_and_add_lsq.               *)
StoreEntry(s, i, k) ==
  [id |-> s.ROB[i].id, data_index |-> k, rob_index |-> i, translated |-> 0, fetched |-> 0]

StorePlaced(s, t, i, k, x) ==
  /\ DOMAIN t = StateFields
  /\ \A g \in StateFields \ {"ROB", "SQ", "sq_tail", "STA", "RTS0"} : t[g] = s[g]
  /\ DOMAIN t.ROB = Slots
  /\ \A d \in Slots :
       /\ DOMAIN t.ROB[d] = EntryFields
       /\ t.ROB[d].id = s.ROB[d].id /\ t.ROB[d].lq = s.ROB[d].lq /\ t.ROB[d].executed = s.ROB[d].executed
       /\ t.ROB[d].num_mem_ops = s.ROB[d].num_mem_ops /\ t.ROB[d].mem_deps = s.ROB[d].mem_deps
       /\ t.ROB[d].sq = IF d = i THEN [s.ROB[i].sq EXCEPT ![k] = x] ELSE s.ROB[d].sq
  /\ t.SQ = [s.SQ EXCEPT ![x] = StoreEntry(s, i, k)]
  /\ t.sq_tail = (x + 1) % SQ_SIZE /\ t.STA = Tail(s.STA) /\ t.RTS0 = Append(s.RTS0, x)

(* Where it goes: k is a store of i that has no slot and is the next one   *)
(* in STA, and the slot at sq_tail is free.                                *)
StoreRoom(s, i, k, x) ==
  /\ i \in Rob(s) /\ k \in DOMAIN Code(s, i).stores /\ s.ROB[i].sq[k] = NoIndex
  /\ x = s.sq_tail /\ x \in SqSlots /\ x \notin Stores(s)
  /\ s.STA # << >> /\ Head(s.STA) = s.ROB[i].id

(* The ring of the store queue, when it grows.                             *)
LEMMA NextTail ==
  ASSUME NEW x \in SqSlots
  PROVE  /\ (x + 1) % SQ_SIZE \in SqSlots
         /\ Back((x + 1) % SQ_SIZE, 1) = x
         /\ \A k \in 1 .. SQ_SIZE - 1 : Back((x + 1) % SQ_SIZE, k + 1) = Back(x, k)
<1> DEFINE y == (x + 1) % SQ_SIZE
<1>1. SQ_SIZE \in Nat /\ SQ_SIZE >= 1 /\ x \in Nat /\ x < SQ_SIZE
  BY QueueSizes DEF SqSlots
<1>2. y = IF x + 1 = SQ_SIZE THEN 0 ELSE x + 1
  <2>1. CASE x + 1 = SQ_SIZE
    BY ONLY <1>1, <2>1
  <2>2. CASE x + 1 # SQ_SIZE
    <3>1. x + 1 \in Int /\ x + 1 < SQ_SIZE /\ 0 - SQ_SIZE <= x + 1 /\ ~(x + 1 < 0)
      BY ONLY <1>1, <2>2
    <3> DEFINE m == x + 1
    <3>2. m \in Int /\ m < SQ_SIZE /\ 0 - SQ_SIZE <= m /\ ~(m < 0)
      BY <3>1
    <3> HIDE DEF m
    <3>3. m % SQ_SIZE = IF m < 0 THEN m + SQ_SIZE ELSE m
      BY ONLY <1>1, <3>2, WrapBelow
    <3>4. m % SQ_SIZE = m
      BY <3>2, <3>3
    <3> QED BY <2>2, <3>4 DEF m
  <2> QED BY <2>1, <2>2
<1> HIDE DEF y
<1>3. y \in SqSlots
  BY <1>1, <1>2 DEF SqSlots
<1>4. Back(y, 1) = x
  BY <1>1, <1>2 DEF Back
<1>5. ASSUME NEW k \in 1 .. SQ_SIZE - 1 PROVE Back(y, k + 1) = Back(x, k)
  <2>1. k \in Int /\ 1 <= k /\ k <= SQ_SIZE - 1
    BY <1>1
  <2>2. CASE x + 1 = SQ_SIZE
    BY <1>1, <1>2, <2>1, <2>2 DEF Back
  <2>3. CASE x + 1 # SQ_SIZE
    BY <1>1, <1>2, <2>1, <2>3 DEF Back
  <2> QED BY <2>2, <2>3
<1> QED BY <1>3, <1>4, <1>5 DEF y

(* While the queue is not full, the slot at sq_tail is free.               *)
LEMMA TailFree ==
  ASSUME NEW s, Tables(s), Occupancy(s.SQ) # SQ_SIZE, NEW n \in 0 .. SQ_SIZE, s.sq_tail \in SqSlots,
         Stores(s) = {Back(s.sq_tail, k) : k \in 1 .. n}
  PROVE  n < SQ_SIZE /\ s.sq_tail \notin Stores(s)
<1> DEFINE x == s.sq_tail
<1>1. SQ_SIZE \in Nat /\ SQ_SIZE >= 1 /\ x \in Nat /\ x < SQ_SIZE /\ n \in Nat /\ n <= SQ_SIZE
  BY QueueSizes DEF SqSlots
<1>2. Free(s.SQ) # {} /\ Free(s.SQ) \subseteq SqSlots /\ Free(s.SQ) \cap Stores(s) = {}
  <2>1. DOMAIN s.SQ = 0 .. SQ_SIZE - 1 /\ SQ_SIZE \in Nat
    BY <1>1 DEF Tables, SqSlots
  <2>2. Free(s.SQ) # {}
    BY <2>1, SlotFree
  <2> QED BY <2>1, <2>2 DEF Free, Stores, SqSlots
<1> HIDE DEF x
<1>3. n # SQ_SIZE
  <2> SUFFICES ASSUME n = SQ_SIZE PROVE FALSE
    OBVIOUS
  <2>1. PICK f : f \in Free(s.SQ)
    BY <1>2
  <2>2. f \in Int /\ 0 <= f /\ f < SQ_SIZE
    BY <1>1, <1>2, <2>1 DEF SqSlots
  <2> DEFINE m == IF f < x THEN x - f ELSE x - f + SQ_SIZE
  <2>3. m \in 1 .. SQ_SIZE
    BY <1>1, <2>2
  <2>4. Back(x, m) = f
    BY <1>1, <2>2 DEF Back
  <2> HIDE DEF m
  <2>5. f \in Stores(s)
    BY <2>3, <2>4 DEF x
  <2> QED BY <1>2, <2>1, <2>5
<1>4. ASSUME NEW k \in 1 .. n, Back(x, k) = x PROVE FALSE
  <2>1. k \in Int /\ 1 <= k /\ k <= n /\ n < SQ_SIZE
    BY <1>1, <1>3
  <2> QED BY <1>1, <1>4, <2>1 DEF Back
<1> QED BY <1>1, <1>3, <1>4 DEF x

LEMMA NewStore ==
  ASSUME NEW a, NEW b, NEW c
  PROVE  [EmptyStore EXCEPT !.id = a, !.data_index = b, !.rob_index = c]
           = [id |-> a, data_index |-> b, rob_index |-> c, translated |-> 0, fetched |-> 0]
<1> DEFINE F == {"id", "data_index", "rob_index", "translated", "fetched"}
           e == [EmptyStore EXCEPT !.id = a, !.data_index = b, !.rob_index = c]
           d == [id |-> a, data_index |-> b, rob_index |-> c, translated |-> 0, fetched |-> 0]
<1>1. e = [f \in F |-> e[f]]
  BY DEF EmptyStore
<1>2. d = [f \in F |-> d[f]]
  OBVIOUS
<1>3. e.id = a /\ e.data_index = b /\ e.rob_index = c /\ e.translated = 0 /\ e.fetched = 0
  BY DEF EmptyStore
<1>4. d.id = a /\ d.data_index = b /\ d.rob_index = c /\ d.translated = 0 /\ d.fetched = 0
  OBVIOUS
<1> HIDE DEF e, d
<1>5. \A f \in F : e[f] = d[f]
  BY <1>3, <1>4
<1> HIDE DEF F
<1>6. [f \in F |-> e[f]] = [f \in F |-> d[f]]
  BY <1>5
<1>7. e = d
  BY <1>1, <1>2, <1>6
<1> QED BY <1>7 DEF e, d

LEMMA AddStoreIs ==
  ASSUME NEW s, Shaped(s), DOMAIN s.ROB = Slots, \A d \in Slots : DOMAIN s.ROB[d] = EntryFields,
         NEW i \in Slots, NEW k, s.SQ[s.sq_tail].id = NoId
  PROVE  StorePlaced(s, AddStoreQueue(s, i, k), i, k, s.sq_tail)
<1> DEFINE e0 == [EmptyStore EXCEPT !.id = s.ROB[i].id, !.data_index = k, !.rob_index = i]
           e  == StoreEntry(s, i, k)
           x  == s.sq_tail
           A  == s.asserts \cup (IF s.SQ[x].id # NoId THEN {"add_store_queue"} ELSE {})
           t  == AddStoreQueue(s, i, k)
<1>1. e0 = e
  BY Zenon, NewStore DEF StoreEntry
<1>2. A = s.asserts
  OBVIOUS
<1> HIDE DEF e0, e, A
<1>3. DOMAIN s = StateFields
  BY DEF Shaped
<1>4. /\ DOMAIN t = StateFields
      /\ \A g \in StateFields \ {"ROB", "SQ", "sq_tail", "STA", "RTS0", "asserts"} : t[g] = s[g]
      /\ t.ROB = [s.ROB EXCEPT ![i] = [@ EXCEPT !["sq"] = [s.ROB[i].sq EXCEPT ![k] = x]]]
      /\ t.SQ = [s.SQ EXCEPT ![x] = e0] /\ t.sq_tail = (x + 1) % SQ_SIZE
      /\ t.STA = Tail(s.STA) /\ t.RTS0 = Append(s.RTS0, x) /\ t.asserts = A
  BY <1>3 DEF AddStoreQueue, StateFields, e0, A
<1> HIDE DEF t, x
<1>5. /\ DOMAIN t.ROB = Slots /\ (\A d \in Slots : d # i => t.ROB[d] = s.ROB[d])
      /\ t.ROB[i] = [s.ROB[i] EXCEPT !["sq"] = [s.ROB[i].sq EXCEPT ![k] = x]]
  BY <1>4
<1>6. /\ DOMAIN t.ROB[i] = EntryFields /\ t.ROB[i].sq = [s.ROB[i].sq EXCEPT ![k] = x]
      /\ t.ROB[i].id = s.ROB[i].id /\ t.ROB[i].lq = s.ROB[i].lq /\ t.ROB[i].executed = s.ROB[i].executed
      /\ t.ROB[i].num_mem_ops = s.ROB[i].num_mem_ops /\ t.ROB[i].mem_deps = s.ROB[i].mem_deps
  BY <1>5 DEF EntryFields, EmptyEntry
<1>7. \A d \in Slots :
        /\ DOMAIN t.ROB[d] = EntryFields
        /\ t.ROB[d].id = s.ROB[d].id /\ t.ROB[d].lq = s.ROB[d].lq /\ t.ROB[d].executed = s.ROB[d].executed
        /\ t.ROB[d].num_mem_ops = s.ROB[d].num_mem_ops /\ t.ROB[d].mem_deps = s.ROB[d].mem_deps
        /\ t.ROB[d].sq = IF d = i THEN [s.ROB[i].sq EXCEPT ![k] = x] ELSE s.ROB[d].sq
  BY <1>5, <1>6
<1>8. \A g \in StateFields \ {"ROB", "SQ", "sq_tail", "STA", "RTS0"} : t[g] = s[g]
  BY <1>2, <1>4 DEF StateFields
<1>9. t.SQ = [s.SQ EXCEPT ![x] = e]
  BY <1>1, <1>4
<1> QED BY <1>4, <1>5, <1>7, <1>8, <1>9 DEF StorePlaced, t, x, e

LEMMA StorePlacedViews ==
  ASSUME NEW s, Order(s), Tables(s), Entries(s), StoresStay(s), NEW i, NEW k, NEW x, StoreRoom(s, i, k, x),
         NEW t, StorePlaced(s, t, i, k, x)
  PROVE  /\ Order(t) /\ Rob(t) = Rob(s) /\ Loads(t) = Loads(s) /\ Stores(t) = Stores(s) \cup {x}
         /\ \A d \in Slots : Code(t, d) = Code(s, d)
         /\ DOMAIN t.SQ = SqSlots /\ t.SQ[x] = StoreEntry(s, i, k) /\ \A r \in SqSlots : r # x => t.SQ[r] = s.SQ[r]
         /\ DOMAIN t.ROB[i].sq = DOMAIN Code(s, i).stores /\ t.ROB[i].sq[k] = x
         /\ \A m \in DOMAIN Code(s, i).stores : m # k => t.ROB[i].sq[m] = s.ROB[i].sq[m]
         /\ \A d \in Slots : d # i => t.ROB[d].sq = s.ROB[d].sq
         /\ \A d \in Rob(s) : \A m \in DOMAIN Code(s, d).stores :
              s.ROB[d].sq[m] # NoIndex => s.ROB[d].sq[m] # x /\ t.ROB[d].sq[m] = s.ROB[d].sq[m]
         /\ \A d \in Slots : \A h : InQueue(t, d, h) <=> InQueue(s, d, h)
         /\ \A d \in Rob(s) : \A m \in DOMAIN Code(s, d).stores : Executed(t, d, m) <=> Executed(s, d, m)
<1>1. /\ i \in Rob(s) /\ i \in Slots /\ s.ROB[i].id # NoId /\ k \in DOMAIN Code(s, i).stores
      /\ s.ROB[i].sq[k] = NoIndex /\ x \in SqSlots /\ x \notin Stores(s) /\ s.SQ[x].id = NoId
  BY DEF StoreRoom, Rob, Stores
<1>2. /\ t.program = s.program /\ t.head = s.head /\ t.retired = s.retired /\ t.dispatched = s.dispatched
      /\ t.LQ = s.LQ /\ DOMAIN t = StateFields
  BY DEF StorePlaced, StateFields
<1>3. KeepsOrder(s, t)
  BY <1>2 DEF StorePlaced, KeepsOrder, Shaped
<1>4. Order(t) /\ Rob(t) = Rob(s) /\ \A d \in Slots : Code(t, d) = Code(s, d)
  BY <1>3, OrderSame
<1>5. DOMAIN t.SQ = SqSlots /\ t.SQ[x] = StoreEntry(s, i, k) /\ \A r \in SqSlots : r # x => t.SQ[r] = s.SQ[r]
  BY <1>1 DEF StorePlaced, Tables
<1>6. t.SQ[x].id = s.ROB[i].id /\ t.SQ[x].fetched = 0
  BY <1>5 DEF StoreEntry
<1>7. Stores(t) = Stores(s) \cup {x} /\ Loads(t) = Loads(s)
  BY <1>1, <1>2, <1>5, <1>6 DEF Loads, Stores
<1>8. DOMAIN s.ROB[i].sq = DOMAIN Code(s, i).stores
  BY <1>1 DEF Entries
<1>9. t.ROB[i].sq = [s.ROB[i].sq EXCEPT ![k] = x] /\ \A d \in Slots : d # i => t.ROB[d].sq = s.ROB[d].sq
  BY <1>1 DEF StorePlaced
<1>10. /\ DOMAIN t.ROB[i].sq = DOMAIN Code(s, i).stores /\ t.ROB[i].sq[k] = x
       /\ \A m \in DOMAIN Code(s, i).stores : m # k => t.ROB[i].sq[m] = s.ROB[i].sq[m]
  BY <1>1, <1>8, <1>9
<1>11. \A d \in Slots : t.ROB[d].id = s.ROB[d].id /\ t.ROB[d].lq = s.ROB[d].lq
  BY DEF StorePlaced
<1>12. \A d \in Slots : \A h : InQueue(t, d, h) <=> InQueue(s, d, h)
  BY Zenon, <1>2, <1>11 DEF InQueue
<1>13. ASSUME NEW d \in Rob(s), NEW m \in DOMAIN Code(s, d).stores
       PROVE  /\ s.ROB[d].sq[m] # NoIndex => s.ROB[d].sq[m] # x /\ t.ROB[d].sq[m] = s.ROB[d].sq[m]
              /\ Executed(t, d, m) <=> Executed(s, d, m)
  <2>1. d \in Slots /\ s.ROB[d].sq[m] \in SqSlots \cup {NoIndex} /\ s.ROB[d].id # NoId
    BY PlacesAre DEF Rob
  <2>2. CASE d = i /\ m = k
    <3>1. t.ROB[d].sq[m] = x /\ s.ROB[d].sq[m] = NoIndex
      BY <1>1, <1>10, <2>2
    <3>2. ~Executed(t, d, m)
      BY <1>6, <3>1 DEF Executed, COMPLETED
    <3>3. ~Executed(s, d, m)
      BY <3>1 DEF Executed
    <3> QED BY <3>1, <3>2, <3>3
  <2>3. CASE ~(d = i /\ m = k)
    <3>1. t.ROB[d].sq[m] = s.ROB[d].sq[m]
      BY <1>9, <1>10, <2>1, <2>3
    <3>2. s.ROB[d].sq[m] # NoIndex => s.ROB[d].sq[m] # x
      <4> SUFFICES ASSUME s.ROB[d].sq[m] # NoIndex, s.ROB[d].sq[m] = x PROVE FALSE
        OBVIOUS
      <4>1. s.SQ[x].id = s.ROB[d].id
        BY DEF StoresStay
      <4> QED BY <1>1, <2>1, <4>1
    <3>3. Executed(t, d, m) <=> Executed(s, d, m)
      BY Zenon, <1>5, <2>1, <3>1, <3>2 DEF Executed
    <3> QED BY <3>1, <3>2, <3>3
  <2> QED BY <2>2, <2>3
<1> QED BY <1>4, <1>5, <1>7, <1>9, <1>10, <1>12, <1>13

LEMMA StorePlacedLsq ==
  ASSUME NEW s, NEW R, LsqInv(s, R), Occupancy(s.SQ) # SQ_SIZE, NEW i, NEW k, NEW x, StoreRoom(s, i, k, x),
         NEW t, StorePlaced(s, t, i, k, x)
  PROVE  /\ LsqInv(t, R) /\ SameView(s, t) /\ t.asserts = s.asserts
         /\ SeenExecuted(s) => SeenExecuted(t)
<1> DEFINE e == StoreEntry(s, i, k)
<1>0. /\ Order(s) /\ Tables(s) /\ Entries(s) /\ LoadsHeld(s) /\ StoresHeld(s) /\ StoresStay(s)
      /\ Sourced(s) /\ DepsSound(s) /\ MemoryLast(s) /\ SeenSound(s) /\ SeenAll(s)
      /\ Awaited(s, R) /\ StoreRing(s) /\ StoresWait(s) /\ Counted(s) /\ Tallied(s)
      /\ LoadStages(s) /\ StoreStages(s) /\ Translating(s)
      /\ Rob(s) \subseteq Slots /\ Loads(s) \subseteq LqSlots /\ Stores(s) \subseteq SqSlots
  BY LsqShape
<1>1. /\ i \in Rob(s) /\ i \in Slots /\ s.ROB[i].id # NoId /\ k \in DOMAIN Code(s, i).stores
      /\ s.ROB[i].sq[k] = NoIndex /\ x \in SqSlots /\ x \notin Stores(s) /\ s.SQ[x].id = NoId
      /\ x = s.sq_tail /\ s.STA # << >> /\ Head(s.STA) = s.ROB[i].id
  BY DEF StoreRoom, Rob, Stores
<1>2. /\ Order(t) /\ Rob(t) = Rob(s) /\ Loads(t) = Loads(s) /\ Stores(t) = Stores(s) \cup {x}
      /\ \A d \in Slots : Code(t, d) = Code(s, d)
      /\ DOMAIN t.SQ = SqSlots /\ t.SQ[x] = e /\ \A r \in SqSlots : r # x => t.SQ[r] = s.SQ[r]
      /\ DOMAIN t.ROB[i].sq = DOMAIN Code(s, i).stores /\ t.ROB[i].sq[k] = x
      /\ \A m \in DOMAIN Code(s, i).stores : m # k => t.ROB[i].sq[m] = s.ROB[i].sq[m]
      /\ \A d \in Slots : d # i => t.ROB[d].sq = s.ROB[d].sq
      /\ \A d \in Rob(s) : \A m \in DOMAIN Code(s, d).stores :
           s.ROB[d].sq[m] # NoIndex => s.ROB[d].sq[m] # x /\ t.ROB[d].sq[m] = s.ROB[d].sq[m]
      /\ \A d \in Slots : \A h : InQueue(t, d, h) <=> InQueue(s, d, h)
      /\ \A d \in Rob(s) : \A m \in DOMAIN Code(s, d).stores : Executed(t, d, m) <=> Executed(s, d, m)
  BY <1>0, StorePlacedViews
<1>3. /\ t.program = s.program /\ t.retired = s.retired /\ t.dispatched = s.dispatched /\ t.LQ = s.LQ
      /\ t.memory = s.memory /\ t.wq = s.wq /\ t.seen = s.seen
      /\ t.RTL0 = s.RTL0 /\ t.RTL1 = s.RTL1 /\ t.RTS1 = s.RTS1 /\ t.dtlb = s.dtlb /\ t.l1d = s.l1d
      /\ t.asserts = s.asserts /\ t.inflight_reg = s.inflight_reg /\ t.inflight_mem = s.inflight_mem
      /\ t.sq_tail = (x + 1) % SQ_SIZE /\ t.STA = Tail(s.STA) /\ t.RTS0 = Append(s.RTS0, x)
  BY DEF StorePlaced, StateFields
<1>4. \A d \in Slots : /\ t.ROB[d].id = s.ROB[d].id /\ t.ROB[d].lq = s.ROB[d].lq /\ t.ROB[d].executed = s.ROB[d].executed
                       /\ t.ROB[d].num_mem_ops = s.ROB[d].num_mem_ops /\ t.ROB[d].mem_deps = s.ROB[d].mem_deps
  BY DEF StorePlaced
<1>5. /\ DOMAIN e = StoreFields /\ e.id = s.ROB[i].id /\ e.data_index = k /\ e.rob_index = i
      /\ e.fetched = 0 /\ e.translated = 0
  BY DEF StoreEntry, StoreFields, EmptyStore
<1> HIDE DEF e
<1>6. \A r \in Stores(s) : r # x /\ t.SQ[r] = s.SQ[r]
  BY <1>0, <1>1, <1>2
<1>7. /\ Rob(t) = Rob(s) /\ Loads(t) = Loads(s) /\ Rob(s) \subseteq Slots
      /\ t.LQ = s.LQ /\ t.program = s.program
      /\ \A d \in Slots : /\ Code(t, d) = Code(s, d) /\ t.ROB[d].id = s.ROB[d].id /\ t.ROB[d].lq = s.ROB[d].lq
                          /\ t.ROB[d].mem_deps = s.ROB[d].mem_deps
      /\ \A d \in Slots : \A h : InQueue(t, d, h) <=> InQueue(s, d, h)
      /\ \A d \in Rob(s) : \A m \in DOMAIN Code(s, d).stores : Executed(t, d, m) <=> Executed(s, d, m)
      /\ \A r : LoadAddr(t, r) = LoadAddr(s, r) /\ Key(t, r) = Key(s, r)
  BY <1>0, <1>2, <1>3, <1>4 DEF LoadAddr, Key
<1>8. Tables(t)
  <2>1. \A r \in SqSlots : DOMAIN t.SQ[r] = StoreFields
    BY <1>0, <1>2, <1>5 DEF Tables
  <2>2. DOMAIN t.LQ = LqSlots /\ \A q \in LqSlots : DOMAIN t.LQ[q] = LoadFields /\ (q \notin Loads(t) => t.LQ[q].producer_id = NoId)
    BY <1>0, <1>2, <1>3 DEF Tables
  <2>3. t.memory \in [Addr -> Nat] /\ t.asserts \subseteq {"producer_id"} /\ t.wq \in 0 .. WQ_SIZE
    BY <1>0, <1>3 DEF Tables
  <2> QED BY <1>2, <2>1, <2>2, <2>3 DEF Tables
<1>9. Entries(t)
  <2>1. ASSUME NEW d \in Rob(s) PROVE t.ROB[d].sq \in [DOMAIN Code(s, d).stores -> SqSlots \cup {NoIndex}]
    <3>1. CASE d = i
      <4>1. t.ROB[i].sq = [s.ROB[i].sq EXCEPT ![k] = x] /\ s.ROB[i].sq \in [DOMAIN Code(s, i).stores -> SqSlots \cup {NoIndex}]
        BY Zenon, <1>0, <1>1 DEF Entries, StorePlaced
      <4> QED BY <1>1, <3>1, <4>1
    <3>2. CASE d # i
      BY <1>0, <1>2, <3>2 DEF Entries
    <3> QED BY <3>1, <3>2
  <2>2. \A d \in Slots \ Rob(s) : t.ROB[d].num_mem_ops = 0 /\ t.ROB[d].mem_deps = {}
    BY <1>0, <1>4 DEF Entries
  <2>3. \A d \in Rob(s) : t.ROB[d].lq \in [DOMAIN Code(s, d).loads -> LqSlots \cup {NoIndex}]
    BY <1>0, <1>4 DEF Entries
  <2> QED BY <1>7, <2>1, <2>2, <2>3 DEF Entries
<1>10. LoadsHeld(t)
  BY <1>0, <1>7 DEF LoadsHeld
<1>11. StoresHeld(t)
  <2> SUFFICES ASSUME NEW r \in Stores(t)
               PROVE  /\ t.SQ[r].rob_index \in Rob(t) /\ t.ROB[t.SQ[r].rob_index].id = t.SQ[r].id
                      /\ t.SQ[r].data_index \in DOMAIN Code(t, t.SQ[r].rob_index).stores
                      /\ t.ROB[t.SQ[r].rob_index].sq[t.SQ[r].data_index] = r
    BY Zenon DEF StoresHeld
  <2>1. CASE r = x
    <3>1. t.SQ[r].rob_index = i /\ t.SQ[r].id = s.ROB[i].id /\ t.SQ[r].data_index = k
      BY <1>2, <1>5, <2>1
    <3>2. t.ROB[i].sq[k] = r /\ k \in DOMAIN Code(t, i).stores /\ i \in Rob(t) /\ t.ROB[i].id = s.ROB[i].id
      BY <1>1, <1>2, <1>7, <2>1
    <3> QED BY <3>1, <3>2
  <2>2. CASE r \in Stores(s)
    <3>1. t.SQ[r] = s.SQ[r] /\ r # NoIndex
      BY <1>0, <1>6, <2>2, QueueSizes
    <3> DEFINE d == s.SQ[r].rob_index
               m == s.SQ[r].data_index
    <3>2. d \in Rob(s) /\ s.ROB[d].id = s.SQ[r].id /\ m \in DOMAIN Code(s, d).stores /\ s.ROB[d].sq[m] = r
      BY Zenon, <1>0, <2>2 DEF StoresHeld
    <3> HIDE DEF d, m
    <3>3. t.ROB[d].sq[m] = r
      BY <1>2, <3>1, <3>2
    <3>4. d \in Rob(t) /\ t.ROB[d].id = s.SQ[r].id /\ m \in DOMAIN Code(t, d).stores
      BY <1>7, <3>2
    <3> QED BY Zenon, <3>1, <3>3, <3>4 DEF d, m
  <2> QED BY Zenon, <1>2, <2>1, <2>2
<1>12. StoresStay(t)
  <2> SUFFICES ASSUME NEW d \in Rob(s), NEW m \in DOMAIN Code(s, d).stores, t.ROB[d].sq[m] # NoIndex
               PROVE  t.SQ[t.ROB[d].sq[m]].id = s.ROB[d].id /\ t.SQ[t.ROB[d].sq[m]].data_index = m
    BY <1>7 DEF StoresStay
  <2>1. CASE d = i /\ m = k
    BY Zenon, <1>2, <1>5, <2>1
  <2>2. CASE ~(d = i /\ m = k)
    <3>1. t.ROB[d].sq[m] = s.ROB[d].sq[m]
      BY <1>0, <1>2, <2>2
    <3>2. s.ROB[d].sq[m] # x /\ s.ROB[d].sq[m] \in SqSlots
      BY <1>0, <1>2, <3>1, PlacesAre
    <3>3. s.SQ[s.ROB[d].sq[m]].id = s.ROB[d].id /\ s.SQ[s.ROB[d].sq[m]].data_index = m
      BY Zenon, <1>0, <3>1 DEF StoresStay
    <3> QED BY <1>2, <3>1, <3>2, <3>3
  <2> QED BY Zenon, <2>1, <2>2
<1>13. Sourced(t) /\ DepsSound(t) /\ MemoryLast(t) /\ SeenSound(t) /\ SeenAll(t)
  <2>1. Sourced(t)
    BY <1>0, <1>3, <1>7 DEF Sourced
  <2>2. DepsSound(t)
    BY <1>0, <1>7 DEF DepsSound
  <2>3. MemoryLast(t) /\ SeenSound(t)
    BY <1>0, <1>3 DEF MemoryLast, SeenSound
  <2>4. SeenAll(t)
    BY <1>0, <1>3, <1>7 DEF SeenAll
  <2> QED BY <2>1, <2>2, <2>3, <2>4
<1>14. Awaited(t, R)
  <2>1. ASSUME NEW r \in Loads(s), NEW d \in Rob(s), Finds(s, r, d, R) PROVE Finds(t, r, d, R)
    BY <1>7, <2>1 DEF Finds
  <2> QED BY <1>0, <1>7, <2>1 DEF Awaited
<1>15. StoreRing(t)
  <2>1. PICK n \in 0 .. SQ_SIZE :
          /\ Stores(s) = {Back(s.sq_tail, m) : m \in 1 .. n}
          /\ \A m \in 1 .. n, l \in 1 .. n : m <= l => s.SQ[Back(s.sq_tail, l)].id <= s.SQ[Back(s.sq_tail, m)].id
    BY <1>0 DEF StoreRing
  <2>2. n < SQ_SIZE
    BY <1>0, <1>1, <2>1, TailFree
  <2> DEFINE y == (x + 1) % SQ_SIZE
             N == n + 1
  <2>3. y \in SqSlots /\ Back(y, 1) = x /\ \A m \in 1 .. SQ_SIZE - 1 : Back(y, m + 1) = Back(x, m)
    BY <1>1, NextTail
  <2> HIDE DEF y
  <2>4. n \in Nat /\ SQ_SIZE \in Nat /\ N \in 0 .. SQ_SIZE
    BY <2>1, <2>2, QueueSizes
  <2>5. \A l \in 1 .. N : l = 1 \/ (l - 1 \in 1 .. n /\ Back(y, l) = Back(x, l - 1))
    <3> SUFFICES ASSUME NEW l \in 1 .. N, l # 1 PROVE l - 1 \in 1 .. n /\ Back(y, l) = Back(x, l - 1)
      OBVIOUS
    <3>1. l \in Int /\ l - 1 \in 1 .. n /\ l - 1 \in 1 .. SQ_SIZE - 1 /\ (l - 1) + 1 = l
      BY <2>2, <2>4
    <3> DEFINE m == l - 1
    <3>2. m \in 1 .. SQ_SIZE - 1 /\ m + 1 = l
      BY <3>1
    <3> HIDE DEF m
    <3>3. Back(y, l) = Back(x, m)
      BY <2>3, <3>2
    <3> QED BY <3>1, <3>3 DEF m
  <2>6. Stores(t) = {Back(y, l) : l \in 1 .. N}
    <3>1. ASSUME NEW l \in 1 .. N PROVE Back(y, l) \in Stores(t)
      <4>1. CASE l = 1
        BY <1>2, <2>3, <4>1
      <4>2. CASE l # 1
        <5>1. l - 1 \in 1 .. n /\ Back(y, l) = Back(x, l - 1)
          BY <2>5, <4>2
        <5>2. Back(x, l - 1) \in Stores(s)
          BY <1>1, <2>1, <5>1
        <5> QED BY <1>2, <5>1, <5>2
      <4> QED BY <4>1, <4>2
    <3>2. ASSUME NEW r \in Stores(t) PROVE \E l \in 1 .. N : r = Back(y, l)
      <4>1. CASE r = x
        <5>1. 1 \in 1 .. N
          BY <2>4
        <5> QED BY <2>3, <4>1, <5>1
      <4>2. CASE r \in Stores(s)
        <5>1. PICK m \in 1 .. n : r = Back(x, m)
          BY <1>1, <2>1, <4>2
        <5>2. m + 1 \in 1 .. N /\ m \in 1 .. SQ_SIZE - 1
          BY <2>2, <2>4
        <5>3. Back(y, m + 1) = r
          BY <2>3, <5>1, <5>2
        <5> QED BY <5>2, <5>3
      <4> QED BY <1>2, <4>1, <4>2
    <3> QED BY <3>1, <3>2
  <2>7. ASSUME NEW m \in 1 .. N, NEW l \in 1 .. N, m <= l
        PROVE  t.SQ[Back(y, l)].id <= t.SQ[Back(y, m)].id
    <3>1. \A z \in Stores(s) : s.SQ[z].id \in Nat /\ s.SQ[z].id <= s.ROB[i].id /\ t.SQ[z].id = s.SQ[z].id
      <4>1. 1 \in DOMAIN s.STA /\ s.STA[1] = s.ROB[i].id
        BY <1>0, <1>1 DEF StoresWait
      <4>2. \A z \in Stores(s) : s.SQ[z].id <= s.ROB[i].id
        BY <1>0, <4>1 DEF StoresWait
      <4>3. \A z \in Stores(s) : s.SQ[z].id \in Nat
        BY Zenon, <1>0, StoreIs
      <4> QED BY <1>6, <4>2, <4>3
    <3>2. t.SQ[x].id = s.ROB[i].id /\ s.ROB[i].id \in Nat
      BY Zenon, <1>0, <1>1, <1>2, <1>5, LiveAt
    <3>3. CASE m = 1
      <4>1. Back(y, l) \in Stores(t)
        BY <2>6
      <4>2. t.SQ[Back(y, l)].id <= s.ROB[i].id
        BY <1>2, <3>1, <3>2, <4>1
      <4> QED BY <2>3, <3>2, <3>3, <4>2
    <3>4. CASE m # 1
      <4>1. m - 1 \in 1 .. n /\ Back(y, m) = Back(x, m - 1)
        BY <2>5, <3>4
      <4>2. l # 1
        BY <2>4, <2>7, <3>4
      <4>3. l - 1 \in 1 .. n /\ Back(y, l) = Back(x, l - 1)
        BY <2>5, <4>2
      <4>4. m - 1 <= l - 1
        BY <2>4, <2>7
      <4>5. s.SQ[Back(x, l - 1)].id <= s.SQ[Back(x, m - 1)].id
        BY <1>1, <2>1, <4>1, <4>3, <4>4
      <4>6. Back(x, l - 1) \in Stores(s) /\ Back(x, m - 1) \in Stores(s)
        BY <1>1, <2>1, <4>1, <4>3
      <4> QED BY <3>1, <4>1, <4>3, <4>5, <4>6
    <3> QED BY <3>3, <3>4
  <2>8. t.sq_tail = y
    BY <1>3 DEF y
  <2> HIDE DEF N
  <2>9. StoreRing(t)
    BY <2>3, <2>4, <2>6, <2>7, <2>8 DEF StoreRing
  <2> QED BY <2>9
<1>16. StoresWait(t)
  <2>1. s.STA \in Seq(Nat) /\ Len(s.STA) \in Nat /\ Len(s.STA) >= 1 /\ DOMAIN s.STA = 1 .. Len(s.STA)
    BY <1>0, <1>1 DEF StoresWait
  <2>2. /\ t.STA \in Seq(Nat) /\ DOMAIN t.STA = 1 .. Len(s.STA) - 1
        /\ \A m \in 1 .. Len(s.STA) - 1 : t.STA[m] = s.STA[m + 1]
    BY <1>3, <2>1
  <2>3. \A m \in 1 .. Len(s.STA) - 1 : m + 1 \in DOMAIN s.STA /\ m \in Int
    BY <2>1
  <2>4. \A m \in DOMAIN t.STA : t.STA[m] <= t.dispatched
    BY Zenon, <1>0, <1>3, <2>2, <2>3 DEF StoresWait
  <2>5. \A m \in DOMAIN t.STA, l \in DOMAIN t.STA : m <= l => t.STA[m] <= t.STA[l]
    <3> SUFFICES ASSUME NEW m \in DOMAIN t.STA, NEW l \in DOMAIN t.STA, m <= l PROVE t.STA[m] <= t.STA[l]
      OBVIOUS
    <3>1. t.STA[m] = s.STA[m + 1] /\ t.STA[l] = s.STA[l + 1] /\ m + 1 \in DOMAIN s.STA /\ l + 1 \in DOMAIN s.STA
      BY <2>2, <2>3
    <3>2. m + 1 <= l + 1
      BY <2>2, <2>3
    <3>3. s.STA[m + 1] <= s.STA[l + 1]
      BY <1>0, <3>1, <3>2 DEF StoresWait
    <3> QED BY <3>1, <3>3
  <2>6. ASSUME NEW m \in DOMAIN t.STA, NEW r \in Stores(t) PROVE t.SQ[r].id <= t.STA[m]
    <3>1. t.STA[m] = s.STA[m + 1] /\ m + 1 \in DOMAIN s.STA /\ 1 \in DOMAIN s.STA /\ 1 <= m + 1
      <4>1. m \in 1 .. Len(s.STA) - 1
        BY <2>2
      <4>2. t.STA[m] = s.STA[m + 1] /\ m + 1 \in DOMAIN s.STA
        BY <2>2, <2>3, <4>1
      <4>3. 1 <= m + 1
        BY <2>1, <4>1
      <4>4. 1 \in DOMAIN s.STA
        BY <2>1
      <4> QED BY <4>2, <4>3, <4>4
    <3>2. CASE r = x
      <4>1. t.SQ[r].id = s.STA[1]
        BY <1>1, <1>2, <1>5, <2>1, <3>2
      <4>2. s.STA[1] <= s.STA[m + 1]
        BY <1>0, <3>1 DEF StoresWait
      <4> QED BY <3>1, <4>1, <4>2
    <3>3. CASE r \in Stores(s)
      BY <1>0, <1>6, <3>1, <3>3 DEF StoresWait
    <3> QED BY <1>2, <3>2, <3>3
  <2> QED BY <2>2, <2>4, <2>5, <2>6 DEF StoresWait
<1>17. Counted(t)
  <2>1. \A d \in Rob(s) : PendingLoads(t, d) = PendingLoads(s, d)
    BY <1>7 DEF PendingLoads
  <2>2. \A d \in Rob(s) : PendingStores(t, d) = PendingStores(s, d)
    BY <1>7 DEF PendingStores
  <2> QED BY <1>0, <1>4, <1>7, <2>1, <2>2 DEF Counted
<1>18. Tallied(t)
  <2>1. \A d \in Slots : /\ t.ROB[d].id = s.ROB[d].id /\ t.ROB[d].executed = s.ROB[d].executed
                         /\ t.ROB[d].num_mem_ops = s.ROB[d].num_mem_ops
    BY <1>4
  <2> QED BY <1>0, <1>3, <2>1, TalliedSame
<1>19. LoadStages(t) /\ \A a, b : LoadAt(t, a, b) = LoadAt(s, a, b)
  BY <1>0, <1>3, LoadsLeft
<1>20. \A a, b : StoreAt(t, a, b) = IF a = 0 /\ b = 0 THEN StoreAt(s, a, b) \cup {x} ELSE StoreAt(s, a, b)
  <2>1. t.SQ[x].translated = 0 /\ t.SQ[x].fetched = 0
    BY <1>2, <1>5
  <2>2. ASSUME NEW a, NEW b, NEW r
        PROVE  r \in StoreAt(t, a, b) <=> r \in StoreAt(s, a, b) \/ (r = x /\ a = 0 /\ b = 0)
    <3>1. CASE r = x
      <4>1. r \notin StoreAt(s, a, b)
        BY <1>1, <3>1 DEF StoreAt
      <4>2. r \in Stores(t)
        BY <1>2, <3>1
      <4> QED BY <2>1, <3>1, <4>1, <4>2 DEF StoreAt
    <3>2. CASE r # x
      BY <1>2, <1>6, <3>2 DEF StoreAt
    <3> QED BY <3>1, <3>2
  <2> QED BY <2>2
<1>21. StoreStages(t) /\ StoreAt(t, INFLIGHT, 0) = StoreAt(s, INFLIGHT, 0)
  <2>1. /\ StoreAt(t, INFLIGHT, 0) = StoreAt(s, INFLIGHT, 0) /\ StoreAt(t, COMPLETED, 0) = StoreAt(s, COMPLETED, 0)
        /\ StoreAt(t, COMPLETED, COMPLETED) = StoreAt(s, COMPLETED, COMPLETED)
        /\ StoreAt(t, 0, 0) = StoreAt(s, 0, 0) \cup {x}
    BY <1>20 DEF INFLIGHT, COMPLETED
  <2>2. x \notin StoreAt(s, 0, 0) /\ Enumerates(s.RTS0, StoreAt(s, 0, 0))
    BY <1>0, <1>1 DEF StoreAt, StoreStages
  <2>3. Enumerates(t.RTS0, StoreAt(t, 0, 0))
    BY <1>3, <2>1, <2>2, ListAppend
  <2>4. Enumerates(t.RTS1, StoreAt(t, COMPLETED, 0))
    BY <1>0, <1>3, <2>1 DEF StoreStages
  <2>5. \A r \in Stores(t) :
          r \in StoreAt(t, 0, 0) \cup StoreAt(t, INFLIGHT, 0) \cup StoreAt(t, COMPLETED, 0) \cup StoreAt(t, COMPLETED, COMPLETED)
    BY <1>0, <1>2, <2>1 DEF StoreStages
  <2> QED BY <2>1, <2>3, <2>4, <2>5 DEF StoreStages
<1>22. Translating(t)
  BY <1>0, <1>3, <1>19, <1>21 DEF Translating
<1>23. SameView(s, t)
  BY <1>3 DEF SameView
<1>24. SeenExecuted(s) => SeenExecuted(t)
  BY <1>0, <1>3, <1>7 DEF SeenExecuted
<1> QED BY <1>2, <1>3, <1>8, <1>9, <1>10, <1>11, <1>12, <1>13, <1>14, <1>15, <1>16, <1>17, <1>18, <1>19, <1>21, <1>22, <1>23, <1>24
        DEF LsqInv, Held2, Flow, Rings, Places

LEMMA AddStoreGrown ==
  ASSUME NEW s, s.asserts = {}, LsqInv(s, {}), NEW i \in Rob(s), NEW k \in DOMAIN Code(s, i).stores
  PROVE  Grown(s, AddStore(s, i, k))
<1> DEFINE x == s.sq_tail
           t == AddStoreQueue(s, i, k)
<1>0. /\ Order(s) /\ Tables(s) /\ Entries(s) /\ StoresStay(s) /\ StoreRing(s) /\ Shaped(s) /\ Rob(s) \subseteq Slots
      /\ DOMAIN s.ROB = Slots /\ \A p \in Slots : DOMAIN s.ROB[p] = EntryFields
  BY LsqShape
<1>1. CASE \/ s.ROB[i].sq[k] # NoIndex
           \/ Occupancy(s.SQ) = SQ_SIZE
           \/ s.STA = << >> \/ Head(s.STA) # s.ROB[i].id
  <2>1. AddStore(s, i, k) = s
    BY <1>1 DEF AddStore
  <2> QED BY <2>1 DEF Grown, SameView
<1>2. CASE ~(\/ s.ROB[i].sq[k] # NoIndex
             \/ Occupancy(s.SQ) = SQ_SIZE
             \/ s.STA = << >> \/ Head(s.STA) # s.ROB[i].id)
  <2>1. AddStore(s, i, k) = t
    BY <1>2 DEF AddStore
  <2>2. x \in SqSlots /\ x \notin Stores(s) /\ s.SQ[x].id = NoId
    <3>1. PICK n \in 0 .. SQ_SIZE : s.sq_tail \in SqSlots /\ Stores(s) = {Back(s.sq_tail, m) : m \in 1 .. n}
      BY <1>0 DEF StoreRing
    <3>2. s.sq_tail \notin Stores(s)
      BY <1>0, <1>2, <3>1, TailFree
    <3> QED BY <3>1, <3>2 DEF Stores
  <2>3. StoreRoom(s, i, k, x)
    BY <1>2, <2>2 DEF StoreRoom
  <2>4. StorePlaced(s, t, i, k, x)
    BY <1>0, <2>2, AddStoreIs
  <2> HIDE DEF x, t
  <2>5. Rob(t) = Rob(s) /\ \A d \in Slots : Code(t, d) = Code(s, d)
    BY <1>0, <2>3, <2>4, StorePlacedViews
  <2>6. ASSUME NEW R, LsqInv(s, R)
        PROVE  LsqInv(t, R) /\ SameView(s, t) /\ t.asserts = s.asserts /\ (SeenExecuted(s) => SeenExecuted(t))
    <3>1. Occupancy(s.SQ) # SQ_SIZE
      BY <1>2
    <3>2. LsqInv(s, R)
      BY <2>6
    <3> QED BY ONLY <2>3, <2>4, <3>1, <3>2, StorePlacedLsq
  <2>7. LsqInv(t, {}) /\ SameView(s, t) /\ t.asserts = s.asserts /\ (SeenExecuted(s) => SeenExecuted(t))
    BY <2>6
  <2>8. Grown(s, t)
    BY <2>5, <2>7 DEF Grown
  <2> QED BY <2>1, <2>8
<1> QED BY <1>1, <1>2

LEMMA GrownSelf ==
  ASSUME NEW s, s.asserts = {}, LsqInv(s, {})
  PROVE  Grown(s, s)
BY DEF Grown, SameView

LEMMA GrownNext ==
  ASSUME NEW s, NEW t, NEW u, Grown(s, t), Grown(t, u)
  PROVE  Grown(s, u)
BY DEF Grown, SameView

LEMMA LoadsAddedGrown ==
  ASSUME NEW s, NEW R, NEW i \in Rob(s), i \in Slots, NEW n \in Nat, 1 .. n \subseteq DOMAIN Code(s, i).loads,
         \A t \in R : Grown(s, t)
  PROVE  \A t \in LoadsAdded(R, i, n) : Grown(s, t)
<1> DEFINE S == CHOOSE S : LoadsAddedUpto(S, R, i, n)
<1>1. LoadsAdded(R, i, n) = S[n]
  BY DEF LoadsAdded, LoadsAddedUpto
<1>2. LoadsAddedUpto(S, R, i, n)
  BY LoadsAddedExists
<1> HIDE DEF S
<1> DEFINE B == {m \in 0 .. n : ~\A t \in S[m] : Grown(s, t)}
<1>3. ASSUME NEW m \in B PROVE m - 1 \in B
  <2>1. S[m] = IF m = 0 THEN R ELSE {AddLoad(t, i, m) : t \in S[m - 1]}
    BY <1>2 DEF LoadsAddedUpto
  <2>2. m # 0 /\ m - 1 \in 0 .. n /\ m \in 1 .. n
    BY <2>1
  <2>3. PICK t \in S[m - 1] : ~Grown(s, AddLoad(t, i, m))
    BY <2>1, <2>2
  <2>4. ASSUME Grown(s, t) PROVE FALSE
    <3>1. t.asserts = {} /\ LsqInv(t, {}) /\ i \in Rob(t) /\ Code(t, i) = Code(s, i)
      BY <2>4 DEF Grown
    <3>2. m \in DOMAIN Code(t, i).loads
      BY <2>2, <3>1
    <3>3. Grown(t, AddLoad(t, i, m))
      BY <3>1, <3>2, AddLoadGrown
    <3> QED BY <2>3, <2>4, <3>3, GrownNext
  <2> QED BY <2>2, <2>4
<1>4. B \subseteq Nat
  OBVIOUS
<1>5. B = {}
  <2> HIDE DEF B
  <2> QED BY <1>3, <1>4, Descent
<1> QED BY <1>1, <1>5

LEMMA StoresAddedGrown ==
  ASSUME NEW s, NEW R, NEW i \in Rob(s), i \in Slots, NEW n \in Nat, 1 .. n \subseteq DOMAIN Code(s, i).stores,
         \A t \in R : Grown(s, t)
  PROVE  \A t \in StoresAdded(R, i, n) : Grown(s, t)
<1> DEFINE S == CHOOSE S : StoresAddedUpto(S, R, i, n)
<1>1. StoresAdded(R, i, n) = S[n]
  BY DEF StoresAdded, StoresAddedUpto
<1>2. StoresAddedUpto(S, R, i, n)
  BY StoresAddedExists
<1> HIDE DEF S
<1> DEFINE B == {m \in 0 .. n : ~\A t \in S[m] : Grown(s, t)}
<1>3. ASSUME NEW m \in B PROVE m - 1 \in B
  <2>1. S[m] = IF m = 0 THEN R ELSE {AddStore(t, i, m) : t \in S[m - 1]}
    BY <1>2 DEF StoresAddedUpto
  <2>2. m # 0 /\ m - 1 \in 0 .. n /\ m \in 1 .. n
    BY <2>1
  <2>3. PICK t \in S[m - 1] : ~Grown(s, AddStore(t, i, m))
    BY <2>1, <2>2
  <2>4. ASSUME Grown(s, t) PROVE FALSE
    <3>1. t.asserts = {} /\ LsqInv(t, {}) /\ i \in Rob(t) /\ Code(t, i) = Code(s, i)
      BY <2>4 DEF Grown
    <3>2. m \in DOMAIN Code(t, i).stores
      BY <2>2, <3>1
    <3>3. Grown(t, AddStore(t, i, m))
      BY <3>1, <3>2, AddStoreGrown
    <3> QED BY <2>3, <2>4, <3>3, GrownNext
  <2> QED BY <2>2, <2>4
<1>4. B \subseteq Nat
  OBVIOUS
<1>5. B = {}
  <2> HIDE DEF B
  <2> QED BY <1>3, <1>4, Descent
<1> QED BY <1>1, <1>5

LEMMA CheckAndAddGrown ==
  ASSUME NEW s, s.asserts = {}, LsqInv(s, {}), NEW i \in Rob(s), NEW t \in CheckAndAddLsq(s, i)
  PROVE  Grown(s, t)
<1> DEFINE L == LoadsAdded({s}, i, Len(Code(s, i).loads))
<1>1. Order(s) /\ i \in Slots /\ s.ROB[i].id \in DOMAIN s.program
  BY LsqShape, LiveAt
<1>2. /\ Len(Code(s, i).loads) \in Nat /\ Len(Code(s, i).stores) \in Nat
      /\ DOMAIN Code(s, i).loads = 1 .. Len(Code(s, i).loads)
      /\ DOMAIN Code(s, i).stores = 1 .. Len(Code(s, i).stores)
  BY Zenon, <1>1, InstrIs DEF Code
<1>3. \A u \in {s} : Grown(s, u)
  BY GrownSelf
<1>4. \A u \in L : Grown(s, u)
  BY <1>1, <1>2, <1>3, LoadsAddedGrown
<1> HIDE DEF L
<1>5. \A u \in StoresAdded(L, i, Len(Code(s, i).stores)) : Grown(s, u)
  BY <1>1, <1>2, <1>4, StoresAddedGrown
<1> QED BY Zenon, <1>5 DEF CheckAndAddLsq, L

(* The last part of do_memory_scheduling.                                  *)
AllAdded(s, i) ==
  [s EXCEPT !.ROB[i].scheduled = COMPLETED, !.ROB[i].executed = IF @ = 0 THEN INFLIGHT ELSE @]

LEMMA ScheduledLsq ==
  ASSUME NEW s, NEW R, LsqInv(s, R), NEW i \in Rob(s), IsMemory(s, i), NEW t, t = AllAdded(s, i)
  PROVE  LsqInv(t, R) /\ Calm(s, t) /\ (SeenExecuted(s) => SeenExecuted(t))
<1> DEFINE v == IF s.ROB[i].executed = 0 THEN INFLIGHT ELSE s.ROB[i].executed
<1>0. /\ Order(s) /\ Tables(s) /\ Shaped(s) /\ Tallied(s) /\ Rob(s) \subseteq Slots /\ DOMAIN s = StateFields
      /\ DOMAIN s.ROB = Slots /\ \A p \in Slots : DOMAIN s.ROB[p] = EntryFields
  BY LsqShape
<1>1. i \in Slots
  BY <1>0
<1>2. /\ DOMAIN t = StateFields /\ (\A g \in StateFields \ {"ROB"} : t[g] = s[g]) /\ DOMAIN t.ROB = Slots
      /\ \A p \in Slots : p # i => t.ROB[p] = s.ROB[p]
      /\ DOMAIN t.ROB[i] = EntryFields
      /\ \A f \in EntryFields \ {"scheduled", "executed"} : t.ROB[i][f] = s.ROB[i][f]
      /\ t.ROB[i].executed = v
  BY <1>0, <1>1 DEF AllAdded, StateFields, EntryFields, EmptyEntry
<1> HIDE DEF v
<1>3. \A p \in Slots : SameOps(s.ROB[p], t.ROB[p])
  <2>1. SameOps(s.ROB[i], t.ROB[i])
    BY <1>2 DEF SameOps, EntryFields, EmptyEntry
  <2>2. \A p \in Slots : p # i => SameOps(s.ROB[p], t.ROB[p])
    BY <1>0, <1>2 DEF SameOps
  <2> QED BY <2>1, <2>2
<1>4. t.program = s.program /\ t.wq = s.wq /\ t.inflight_mem = s.inflight_mem /\ t.inflight_reg = s.inflight_reg
  BY <1>2 DEF StateFields
<1>5. \A p \in Slots : /\ t.ROB[p].id = s.ROB[p].id /\ t.ROB[p].num_mem_ops = s.ROB[p].num_mem_ops
                       /\ (t.ROB[p].executed = COMPLETED <=> s.ROB[p].executed = COMPLETED)
                       /\ (p # i => t.ROB[p].executed = s.ROB[p].executed)
  <2>1. v = COMPLETED <=> s.ROB[i].executed = COMPLETED
    BY DEF v, COMPLETED, INFLIGHT
  <2> QED BY <1>2, <1>3, <2>1 DEF SameOps
<1>6. \A p \in Slots : IsMemory(t, p) <=> IsMemory(s, p)
  BY Zenon, <1>4, <1>5 DEF IsMemory, Code
<1>7. Rob(t) = Rob(s)
  BY <1>5 DEF Rob
<1>8. ToComplete(t) = ToComplete(s)
  BY <1>0, <1>5, <1>6, <1>7 DEF ToComplete
<1>9. Executing(t) = Executing(s)
  BY <1>0, <1>5, <1>6, <1>7 DEF Executing
<1>10. Tallied(t)
  BY <1>0, <1>4, <1>5, <1>6, <1>7, <1>8, <1>9 DEF Tallied
<1>11. \A g \in StateFields \ RobOnly : t[g] = s[g]
  BY <1>2 DEF RobOnly
<1>12. t.wq \in 0 .. WQ_SIZE
  BY <1>0, <1>4 DEF Tables
<1> QED BY <1>2, <1>3, <1>10, <1>11, <1>12, RobKeeps

LEMMA DoMemorySchedulingLsq ==
  ASSUME NEW s, s.asserts = {}, LsqInv(s, {}), NEW i \in Rob(s), IsMemory(s, i), NEW u \in DoMemoryScheduling(s, i)
  PROVE  Follows(s, u)
<1>1. PICK t \in CheckAndAddLsq(s, i) :
        u = IF ~Added(t, i) THEN t
            ELSE [t EXCEPT !.ROB[i].scheduled = COMPLETED, !.ROB[i].executed = IF @ = 0 THEN INFLIGHT ELSE @]
  BY Zenon DEF DoMemoryScheduling
<1>2. Grown(s, t)
  BY CheckAndAddGrown
<1>3. LsqInv(t, {}) /\ t.asserts = {} /\ SameView(s, t) /\ (SeenExecuted(s) => SeenExecuted(t)) /\ i \in Rob(t)
  BY <1>2 DEF Grown
<1>4. CASE ~Added(t, i)
  BY <1>1, <1>3, <1>4 DEF Follows, ExcusedIn
<1>5. CASE Added(t, i)
  <2>1. u = AllAdded(t, i)
    BY <1>1, <1>5 DEF AllAdded
  <2>2. IsMemory(t, i)
    <3>1. t.ROB[i].id # NoId /\ i \in Slots /\ s.ROB[i].id # NoId
      BY <1>3 DEF Rob
    <3>2. Code(t, i) = Code(s, i)
      BY <1>2, <3>1 DEF Grown
    <3> QED BY <3>1, <3>2 DEF IsMemory
  <2>3. ASSUME NEW R, LsqInv(t, R) PROVE LsqInv(u, R) /\ Calm(t, u) /\ (SeenExecuted(t) => SeenExecuted(u))
    <3>1. LsqInv(t, R) /\ i \in Rob(t)
      BY <1>3, <2>3
    <3> QED BY ONLY <2>1, <2>2, <3>1, ScheduledLsq
  <2>4. LsqInv(u, {}) /\ Calm(t, u) /\ (SeenExecuted(t) => SeenExecuted(u))
    BY <1>3, <2>3
  <2>5. u.asserts = {} /\ SameView(t, u)
    BY <1>3, <2>4 DEF Calm, KeepsOrder, SameView
  <2>6. SameView(s, u)
    BY <1>3, <2>5 DEF SameView
  <2> QED BY <1>3, <2>4, <2>5, <2>6 DEF Follows, ExcusedIn
<1> QED BY <1>4, <1>5

-------------------------------------------------------------------------------
(* An instruction enters the ROB.                                          *)
Entered(s, t, k, n, c) ==
  /\ DOMAIN t = StateFields
  /\ \A g \in StateFields \ {"ROB", "tail", "dispatched", "STA"} : t[g] = s[g]
  /\ DOMAIN t.ROB = Slots /\ \A p \in Slots : DOMAIN t.ROB[p] = EntryFields
  /\ \A p \in Slots : p # k => t.ROB[p] = s.ROB[p]
  /\ t.ROB[k].id = n /\ t.ROB[k].executed = 0 /\ t.ROB[k].mem_deps = {}
  /\ t.ROB[k].num_mem_ops = Len(c.loads) + Len(c.stores)
  /\ t.ROB[k].lq = [j \in DOMAIN c.loads |-> NoIndex] /\ t.ROB[k].sq = [j \in DOMAIN c.stores |-> NoIndex]
  /\ t.dispatched = n /\ t.STA = s.STA \o [j \in DOMAIN c.stores |-> n]

LEMMA AddToRobIs ==
  ASSUME NEW s, Shaped(s), s.tail \in Slots
  PROVE  Entered(s, AddToRob(s), s.tail, s.dispatched + 1, s.program[s.dispatched + 1])
<1> DEFINE k == s.tail
           n == s.dispatched + 1
           c == s.program[n]
           m == Len(c.loads) + Len(c.stores)
           l == [j \in DOMAIN c.loads |-> NoIndex]
           x == [j \in DOMAIN c.stores |-> NoIndex]
           a == [j \in DOMAIN c.stores |-> n]
           e == [EmptyEntry EXCEPT !.id = n, !.num_mem_ops = m, !.lq = l, !.sq = x]
           y == (k + 1) % ROB_SIZE
           t == [s EXCEPT !.ROB[k] = e, !.tail = y, !.dispatched = n, !.STA = @ \o a]
<1>1. AddToRob(s) = t
  BY DEF AddToRob
<1> HIDE DEF n, c, m, l, x, a, y
<1>2. /\ DOMAIN e = EntryFields /\ e.id = n /\ e.executed = 0 /\ e.mem_deps = {} /\ e.num_mem_ops = m
      /\ e.lq = l /\ e.sq = x
  BY DEF EmptyEntry, EntryFields
<1> HIDE DEF e
<1>3. DOMAIN s = StateFields /\ DOMAIN s.ROB = Slots /\ \A p \in Slots : DOMAIN s.ROB[p] = EntryFields
  BY DEF Shaped
<1>4. /\ DOMAIN t = StateFields /\ (\A g \in StateFields \ {"ROB", "tail", "dispatched", "STA"} : t[g] = s[g])
      /\ t.ROB = [s.ROB EXCEPT ![k] = e] /\ t.dispatched = n /\ t.STA = s.STA \o a
  BY Zenon, <1>3 DEF StateFields
<1> HIDE DEF t
<1>5. /\ DOMAIN t.ROB = Slots /\ t.ROB[k] = e /\ \A p \in Slots : p # k => t.ROB[p] = s.ROB[p]
  BY <1>3, <1>4
<1>6. \A p \in Slots : DOMAIN t.ROB[p] = EntryFields
  BY <1>2, <1>3, <1>5
<1>7. Entered(s, t, k, n, c)
  BY Zenon, <1>2, <1>4, <1>5, <1>6 DEF Entered, m, l, x, a
<1> QED BY <1>1, <1>7 DEF n, c

(* The slot at tail is the one after the last, while it is empty.          *)
LEMMA EnteredViews ==
  ASSUME NEW s, Order(s), s.dispatched < Len(s.program), NEW k, k = At(s.head, Count(s) + 1), s.ROB[k].id = NoId,
         NEW n, n = s.dispatched + 1, NEW c, c = s.program[n], NEW t, Entered(s, t, k, n, c)
  PROVE  /\ Order(t) /\ k \in Slots /\ k \notin Rob(s) /\ Rob(t) = Rob(s) \cup {k} /\ Rob(s) \subseteq Slots
         /\ \A p \in Rob(s) : t.ROB[p] = s.ROB[p] /\ Code(t, p) = Code(s, p) /\ p # k
         /\ Code(t, k) = c /\ n \in DOMAIN s.program /\ n \in Nat /\ n # NoId /\ s.dispatched < n
         /\ \A p \in Rob(s) : s.ROB[p].id < n
<1>0. /\ Count(s) \in Nat /\ Count(s) <= ROB_SIZE /\ s.retired \in Nat /\ s.dispatched \in Nat
      /\ s.retired + Count(s) = s.dispatched /\ s.head \in Slots
      /\ s.program \in Seq(Instr) /\ s.dispatched <= Len(s.program) /\ Len(s.program) \in Nat
      /\ DOMAIN s.program = 1 .. Len(s.program)
  BY OrderCounts
<1> DEFINE h == Count(s)
<1>1. h # ROB_SIZE
  <2> SUFFICES ASSUME h = ROB_SIZE PROVE FALSE
    OBVIOUS
  <2>1. k = At(s.head, 1) /\ 1 \in 1 .. Count(s)
    BY <1>0, FirstAt, Size
  <2>2. s.ROB[k].id = s.retired + 1
    BY <2>1 DEF Order
  <2> QED BY <1>0, <2>2 DEF NoId
<1> HIDE DEF h
<1>2. h \in Nat /\ h < ROB_SIZE /\ h + 1 \in 1 .. ROB_SIZE /\ h + 1 \in 1 .. ROB_SIZE + 1 /\ s.retired + h = s.dispatched
  BY <1>0, <1>1, Size DEF h
<1>3. k = At(s.head, h + 1) /\ k \in Slots
  BY <1>0, <1>2, AtSlots DEF h
<1>4. n \in Nat /\ n # NoId /\ n \in DOMAIN s.program /\ s.dispatched < n /\ n = s.retired + (h + 1)
  <2> DEFINE d == s.dispatched
             l == Len(s.program)
  <2>1. d \in Nat /\ l \in Nat /\ d < l /\ n = d + 1 /\ d = s.retired + h /\ s.retired \in Nat
    BY <1>0, <1>2
  <2> HIDE DEF d, l
  <2>2. n \in Nat /\ n # 0 /\ n \in 1 .. l /\ d < n /\ n = s.retired + (h + 1)
    BY ONLY <1>2, <2>1
  <2> QED BY <1>0, <2>2 DEF NoId, d, l
<1>5. /\ t.program = s.program /\ t.head = s.head /\ t.retired = s.retired /\ t.dispatched = n
      /\ \A p \in Slots : p # k => t.ROB[p] = s.ROB[p]
      /\ t.ROB[k].id = n /\ Shaped(t)
  BY Zenon DEF Entered, StateFields, Shaped
<1>6. Rob(t) = Rob(s) \cup {k} /\ k \notin Rob(s) /\ Rob(s) \subseteq Slots
  BY <1>3, <1>4, <1>5 DEF Rob
<1>7. \A m \in 1 .. ROB_SIZE : At(s.head, m) \in Slots /\ (m # h + 1 => At(s.head, m) # k)
  <2> SUFFICES ASSUME NEW m \in 1 .. ROB_SIZE
               PROVE  At(s.head, m) \in Slots /\ (m # h + 1 => At(s.head, m) # k)
    OBVIOUS
  <2>1. m \in 1 .. ROB_SIZE + 1
    BY Size
  <2>2. At(s.head, m) \in Slots
    BY <1>0, <2>1, AtSlots
  <2> QED BY Zenon, <1>0, <1>2, <1>3, <2>2, AtInjective
<1>8. Count(t) = h + 1
  BY <1>0, <1>2, <1>4, <1>5 DEF Count
<1>9. Order(t)
  <2>1. \A m \in 1 .. h + 1 : t.ROB[At(s.head, m)].id = s.retired + m
    <3> SUFFICES ASSUME NEW m \in 1 .. h + 1 PROVE t.ROB[At(s.head, m)].id = s.retired + m
      OBVIOUS
    <3>1. CASE m = h + 1
      BY <1>3, <1>4, <1>5, <3>1
    <3>2. CASE m # h + 1
      <4>1. m \in 1 .. h /\ m \in 1 .. ROB_SIZE
        BY <1>2, <3>2, Size
      <4>2. s.ROB[At(s.head, m)].id = s.retired + m
        BY <4>1 DEF Order, h
      <4> QED BY <1>5, <1>7, <3>2, <4>1, <4>2
    <3> QED BY <3>1, <3>2
  <2>2. \A m \in 1 .. ROB_SIZE : m > h + 1 => t.ROB[At(s.head, m)].id = NoId
    <3> SUFFICES ASSUME NEW m \in 1 .. ROB_SIZE, m > h + 1 PROVE t.ROB[At(s.head, m)].id = NoId
      OBVIOUS
    <3>1. m > h /\ m # h + 1
      BY <1>2, Size
    <3>2. s.ROB[At(s.head, m)].id = NoId
      BY <3>1 DEF Order, h
    <3> QED BY <1>5, <1>7, <3>1, <3>2
  <2>3. n \in s.retired .. Len(s.program) /\ h + 1 <= ROB_SIZE
    BY <1>0, <1>2, <1>4
  <2>4. s.program \in Programs /\ s.head \in Slots /\ s.retired \in Nat
    BY DEF Order
  <2> QED BY <1>5, <1>8, <2>1, <2>2, <2>3, <2>4 DEF Order
<1>10. \A p \in Rob(s) : t.ROB[p] = s.ROB[p] /\ Code(t, p) = Code(s, p) /\ p # k
  <2>1. \A p \in Rob(s) : t.ROB[p] = s.ROB[p] /\ p # k
    BY <1>5, <1>6
  <2> QED BY <1>5, <2>1 DEF Code
<1>11. Code(t, k) = c
  BY <1>5 DEF Code
<1>12. \A p \in Rob(s) : s.ROB[p].id < n
  <2> SUFFICES ASSUME NEW p \in Rob(s) PROVE s.ROB[p].id < n
    OBVIOUS
  <2>1. s.ROB[p].id \in Nat /\ s.ROB[p].id <= s.dispatched
    BY LiveAt
  <2> QED BY <1>0, <1>4, <2>1
<1> QED BY <1>3, <1>4, <1>6, <1>9, <1>10, <1>11, <1>12

LEMMA EnteredLsq ==
  ASSUME NEW s, NEW R, LsqInv(s, R), s.dispatched < Len(s.program),
         NEW k, k = At(s.head, Count(s) + 1), s.ROB[k].id = NoId,
         NEW n, n = s.dispatched + 1, NEW c, c = s.program[n], NEW t, Entered(s, t, k, n, c)
  PROVE  /\ LsqInv(t, R) /\ SameView(s, t) /\ t.asserts = s.asserts
         /\ SeenExecuted(s) => SeenExecuted(t)
<1>0. /\ Order(s) /\ Tables(s) /\ Entries(s) /\ LoadsHeld(s) /\ StoresHeld(s) /\ StoresStay(s)
      /\ Sourced(s) /\ DepsSound(s) /\ MemoryLast(s) /\ SeenSound(s) /\ SeenAll(s)
      /\ Awaited(s, R) /\ StoreRing(s) /\ StoresWait(s) /\ Counted(s) /\ Tallied(s)
      /\ LoadStages(s) /\ StoreStages(s) /\ Translating(s)
  BY LsqShape
<1>1. /\ Order(t) /\ k \in Slots /\ k \notin Rob(s) /\ Rob(t) = Rob(s) \cup {k} /\ Rob(s) \subseteq Slots
      /\ \A p \in Rob(s) : t.ROB[p] = s.ROB[p] /\ Code(t, p) = Code(s, p) /\ p # k
      /\ Code(t, k) = c /\ n \in DOMAIN s.program /\ n \in Nat /\ n # NoId /\ s.dispatched < n
      /\ \A p \in Rob(s) : s.ROB[p].id < n
  BY <1>0, EnteredViews
<1>2. /\ t.program = s.program /\ t.retired = s.retired /\ t.LQ = s.LQ /\ t.SQ = s.SQ /\ t.sq_tail = s.sq_tail
      /\ t.memory = s.memory /\ t.wq = s.wq /\ t.seen = s.seen
      /\ t.RTL0 = s.RTL0 /\ t.RTL1 = s.RTL1 /\ t.RTS0 = s.RTS0 /\ t.RTS1 = s.RTS1 /\ t.dtlb = s.dtlb /\ t.l1d = s.l1d
      /\ t.asserts = s.asserts /\ t.inflight_reg = s.inflight_reg /\ t.inflight_mem = s.inflight_mem
      /\ t.dispatched = n /\ t.STA = s.STA \o [j \in DOMAIN c.stores |-> n]
  BY Zenon DEF Entered, StateFields
<1>3. /\ t.ROB[k].id = n /\ t.ROB[k].executed = 0 /\ t.ROB[k].mem_deps = {}
      /\ t.ROB[k].num_mem_ops = Len(c.loads) + Len(c.stores)
      /\ t.ROB[k].lq = [j \in DOMAIN c.loads |-> NoIndex] /\ t.ROB[k].sq = [j \in DOMAIN c.stores |-> NoIndex]
      /\ \A p \in Slots : p # k => t.ROB[p] = s.ROB[p]
  BY Zenon DEF Entered
<1>4. /\ \A j \in DOMAIN c.loads : t.ROB[k].lq[j] = NoIndex
      /\ \A j \in DOMAIN c.stores : t.ROB[k].sq[j] = NoIndex
  BY Zenon, <1>3
<1>5. Loads(t) = Loads(s) /\ Stores(t) = Stores(s) /\ \A r : LoadAddr(t, r) = LoadAddr(s, r) /\ Key(t, r) = Key(s, r)
  BY Zenon, <1>2 DEF Loads, Stores, LoadAddr, Key
<1>6. \A p \in Rob(s) : /\ \A h : InQueue(t, p, h) <=> InQueue(s, p, h)
                        /\ \A h : Executed(t, p, h) <=> Executed(s, p, h)
  BY Zenon, <1>1, <1>2 DEF InQueue, Executed
<1>7. \A j \in DOMAIN c.stores : ~Executed(t, k, j)
  BY Zenon, <1>4 DEF Executed
<1>8. Tables(t)
  BY Zenon, <1>0, <1>2, <1>5 DEF Tables
<1>9. Entries(t)
  <2>1. /\ t.ROB[k].lq \in [DOMAIN c.loads -> LqSlots \cup {NoIndex}]
        /\ t.ROB[k].sq \in [DOMAIN c.stores -> SqSlots \cup {NoIndex}]
    BY Zenon, <1>3
  <2>2. \A p \in Slots \ Rob(t) : t.ROB[p].num_mem_ops = 0 /\ t.ROB[p].mem_deps = {}
    BY <1>0, <1>1, <1>3 DEF Entries
  <2> QED BY Zenon, <1>0, <1>1, <2>1, <2>2 DEF Entries
<1>10. LoadsHeld(t)
  <2> SUFFICES ASSUME NEW q \in Loads(s)
               PROVE  /\ s.LQ[q].rob_index \in Rob(t) /\ t.ROB[s.LQ[q].rob_index].id = s.LQ[q].id
                      /\ s.LQ[q].data_index \in DOMAIN Code(t, s.LQ[q].rob_index).loads
                      /\ t.ROB[s.LQ[q].rob_index].lq[s.LQ[q].data_index] = q
    BY Zenon, <1>2, <1>5 DEF LoadsHeld
  <2>1. /\ s.LQ[q].rob_index \in Rob(s) /\ s.ROB[s.LQ[q].rob_index].id = s.LQ[q].id
        /\ s.LQ[q].data_index \in DOMAIN Code(s, s.LQ[q].rob_index).loads
        /\ s.ROB[s.LQ[q].rob_index].lq[s.LQ[q].data_index] = q
    BY Zenon, <1>0 DEF LoadsHeld
  <2> QED BY Zenon, <1>1, <2>1
<1>11. StoresHeld(t)
  <2> SUFFICES ASSUME NEW x \in Stores(s)
               PROVE  /\ s.SQ[x].rob_index \in Rob(t) /\ t.ROB[s.SQ[x].rob_index].id = s.SQ[x].id
                      /\ s.SQ[x].data_index \in DOMAIN Code(t, s.SQ[x].rob_index).stores
                      /\ t.ROB[s.SQ[x].rob_index].sq[s.SQ[x].data_index] = x
    BY <1>2, <1>5 DEF StoresHeld
  <2>1. /\ s.SQ[x].rob_index \in Rob(s) /\ s.ROB[s.SQ[x].rob_index].id = s.SQ[x].id
        /\ s.SQ[x].data_index \in DOMAIN Code(s, s.SQ[x].rob_index).stores
        /\ s.ROB[s.SQ[x].rob_index].sq[s.SQ[x].data_index] = x
    BY Zenon, <1>0 DEF StoresHeld
  <2> QED BY Zenon, <1>1, <2>1
<1>12. StoresStay(t)
  <2>1. ASSUME NEW p \in Rob(t), NEW h \in DOMAIN Code(t, p).stores, t.ROB[p].sq[h] # NoIndex
        PROVE  t.SQ[t.ROB[p].sq[h]].id = t.ROB[p].id /\ t.SQ[t.ROB[p].sq[h]].data_index = h
    <3>1. CASE p = k
      BY Zenon, <1>1, <1>4, <2>1, <3>1
    <3>2. CASE p # k
      <4>1. p \in Rob(s) /\ t.ROB[p] = s.ROB[p] /\ Code(t, p) = Code(s, p)
        BY Zenon, <1>1, <2>1, <3>2
      <4>2. h \in DOMAIN Code(s, p).stores /\ s.ROB[p].sq[h] # NoIndex
        BY Zenon, <2>1, <4>1
      <4>3. s.SQ[s.ROB[p].sq[h]].id = s.ROB[p].id /\ s.SQ[s.ROB[p].sq[h]].data_index = h
        BY Zenon, <1>0, <4>1, <4>2 DEF StoresStay
      <4> QED BY Zenon, <1>2, <4>1, <4>3
    <3> QED BY Zenon, <3>1, <3>2
  <2> QED BY Zenon, <2>1 DEF StoresStay
<1>13. Sourced(t)
  BY <1>0, <1>2, <1>5 DEF Sourced
<1>14. DepsSound(t)
  <2> SUFFICES ASSUME NEW p \in Rob(t), NEW d \in t.ROB[p].mem_deps
               PROVE  /\ d \in Rob(t)
                      /\ \E h \in DOMAIN Code(t, d).loads :
                           LastStore(s.program, t.ROB[p].id, t.ROB[d].id, Code(t, d).loads[h])
    BY Zenon, <1>2 DEF DepsSound
  <2>1. p \in Rob(s) /\ d \in s.ROB[p].mem_deps
    BY Zenon, <1>1, <1>3
  <2>2. /\ d \in Rob(s)
        /\ \E h \in DOMAIN Code(s, d).loads : LastStore(s.program, s.ROB[p].id, s.ROB[d].id, Code(s, d).loads[h])
    BY <1>0, <2>1 DEF DepsSound
  <2> QED BY <1>1, <2>1, <2>2
<1>15. MemoryLast(t)
  BY Zenon, <1>0, <1>2 DEF MemoryLast
<1>16. SeenSound(t)
  <2>1. \A m \in 1 .. s.dispatched : m \in 1 .. n
    BY <1>0, <1>1, OrderCounts
  <2> QED BY Zenon, <1>0, <1>2, <2>1 DEF SeenSound
<1>17. SeenAll(t)
  <2> SUFFICES ASSUME NEW p \in Rob(t), NEW j \in DOMAIN Code(t, p).loads, t.ROB[p].lq[j] # NoIndex, ~InQueue(t, p, j)
               PROVE  \E o \in s.seen : o.id = t.ROB[p].id /\ o.op = j
    BY <1>2 DEF SeenAll
  <2>1. p \in Rob(s)
    BY Zenon, <1>1, <1>4
  <2>2. t.ROB[p] = s.ROB[p] /\ Code(t, p) = Code(s, p) /\ ~InQueue(s, p, j)
    BY <1>1, <1>6, <2>1
  <2> QED BY <1>0, <2>1, <2>2 DEF SeenAll
<1>18. Awaited(t, R)
  <2>1. ASSUME NEW q \in Loads(s), NEW p \in Rob(s), Finds(s, q, p, R) PROVE Finds(t, q, p, R)
    BY <1>1, <1>2, <1>5, <1>6, <2>1 DEF Finds
  <2> QED BY <1>0, <1>1, <1>2, <1>5, <2>1 DEF Awaited
<1>19. StoreRing(t)
  BY <1>0, <1>2, <1>5 DEF StoreRing
<1>20. StoresWait(t)
  <2> DEFINE a == [j \in DOMAIN c.stores |-> n]
  <2>1. c.stores \in Seq(Addr) /\ DOMAIN c.stores = 1 .. Len(c.stores) /\ Len(c.stores) \in Nat
    BY <1>0, <1>1, InstrIs
  <2>2. a \in Seq(Nat) /\ \A j \in DOMAIN a : a[j] = n
    BY <1>1, <2>1
  <2>3. s.STA \in Seq(Nat)
    BY <1>0 DEF StoresWait
  <2> HIDE DEF a
  <2>4. t.STA = s.STA \o a
    BY Zenon, <1>2 DEF a
  <2>5. /\ t.STA \in Seq(Nat) /\ DOMAIN t.STA = 1 .. Len(s.STA) + Len(a) /\ Len(s.STA) \in Nat /\ Len(a) \in Nat
        /\ DOMAIN s.STA = 1 .. Len(s.STA) /\ DOMAIN a = 1 .. Len(a)
    BY <2>2, <2>3, <2>4
  <2>6. ASSUME NEW m \in DOMAIN t.STA
        PROVE  (m \in DOMAIN s.STA /\ t.STA[m] = s.STA[m]) \/ (m \notin DOMAIN s.STA /\ t.STA[m] = n)
    <3>1. m \in Int /\ 1 <= m /\ m <= Len(s.STA) + Len(a)
      BY <2>5
    <3>2. CASE m <= Len(s.STA)
      BY <2>2, <2>3, <2>4, <2>5, <3>1, <3>2
    <3>3. CASE ~(m <= Len(s.STA))
      <4>1. m - Len(s.STA) \in DOMAIN a
        BY <2>5, <3>1, <3>3
      <4>2. t.STA[m] = a[m - Len(s.STA)]
        BY <2>2, <2>3, <2>4, <2>5, <3>1, <3>3
      <4> QED BY <2>2, <2>5, <3>3, <4>1, <4>2
    <3> QED BY <3>2, <3>3
  <2>7. \A m \in DOMAIN s.STA : s.STA[m] \in Nat /\ s.STA[m] <= n
    <3> SUFFICES ASSUME NEW m \in DOMAIN s.STA PROVE s.STA[m] \in Nat /\ s.STA[m] <= n
      OBVIOUS
    <3>1. s.STA[m] \in Nat
      BY <2>3
    <3>2. s.STA[m] <= s.dispatched
      BY <1>0 DEF StoresWait
    <3> QED BY <1>0, <1>1, <3>1, <3>2, OrderCounts
  <2>8. \A m \in DOMAIN t.STA : t.STA[m] <= n
    BY <1>1, <2>6, <2>7
  <2>9. \A m \in DOMAIN t.STA, l \in DOMAIN t.STA : m <= l => t.STA[m] <= t.STA[l]
    <3> SUFFICES ASSUME NEW m \in DOMAIN t.STA, NEW l \in DOMAIN t.STA, m <= l PROVE t.STA[m] <= t.STA[l]
      OBVIOUS
    <3>1. CASE l \in DOMAIN s.STA
      <4>1. m \in DOMAIN s.STA
        BY <2>5, <3>1
      <4>2. s.STA[m] <= s.STA[l]
        BY <1>0, <3>1, <4>1 DEF StoresWait
      <4> QED BY <2>6, <3>1, <4>1, <4>2
    <3>2. CASE l \notin DOMAIN s.STA
      BY <2>6, <2>8, <3>2
    <3> QED BY <3>1, <3>2
  <2>10. \A m \in DOMAIN t.STA, x \in Stores(s) : s.SQ[x].id <= t.STA[m]
    <3> SUFFICES ASSUME NEW m \in DOMAIN t.STA, NEW x \in Stores(s) PROVE s.SQ[x].id <= t.STA[m]
      OBVIOUS
    <3>1. s.SQ[x].id \in Nat /\ s.SQ[x].id <= s.dispatched
      BY Zenon, <1>0, StoreIs
    <3>2. s.SQ[x].id <= n
      BY <1>0, <1>1, <3>1, OrderCounts
    <3>3. m \in DOMAIN s.STA => s.SQ[x].id <= s.STA[m]
      BY <1>0 DEF StoresWait
    <3> QED BY <2>6, <3>2, <3>3
  <2> QED BY Zenon, <1>2, <1>5, <2>5, <2>8, <2>9, <2>10 DEF StoresWait
<1>21. Counted(t)
  <2>1. \A p \in Rob(s) : PendingLoads(t, p) = PendingLoads(s, p)
    BY <1>1, <1>6 DEF PendingLoads
  <2>2. \A p \in Rob(s) : PendingStores(t, p) = PendingStores(s, p)
    BY <1>1, <1>6 DEF PendingStores
  <2>3. PendingLoads(t, k) = DOMAIN c.loads /\ PendingStores(t, k) = DOMAIN c.stores
    BY Zenon, <1>1, <1>4, <1>7 DEF PendingLoads, PendingStores
  <2>4. /\ Len(c.loads) \in Nat /\ Len(c.stores) \in Nat
        /\ DOMAIN c.loads = 1 .. Len(c.loads) /\ DOMAIN c.stores = 1 .. Len(c.stores)
    BY <1>0, <1>1, InstrIs
  <2>5. \A m \in Nat : Cardinality(1 .. m) = m
    <3> SUFFICES ASSUME NEW m \in Nat PROVE Cardinality(1 .. m) = m
      OBVIOUS
    <3>1. 1 \in Int /\ m \in Int
      OBVIOUS
    <3>2. Cardinality(1 .. m) = IF 1 > m THEN 0 ELSE m - 1 + 1
      BY <3>1, FS_Interval
    <3> QED BY <3>2
  <2>6. t.ROB[k].num_mem_ops = Cardinality(PendingLoads(t, k)) + Cardinality(PendingStores(t, k))
    <3>1. Cardinality(PendingLoads(t, k)) = Len(c.loads) /\ Cardinality(PendingStores(t, k)) = Len(c.stores)
      BY <2>3, <2>4, <2>5
    <3> QED BY Zenon, <1>3, <3>1
  <2> QED BY <1>0, <1>1, <2>1, <2>2, <2>6 DEF Counted
<1>22. Tallied(t)
  <2>1. \A p \in Rob(s) : (IsMemory(t, p) <=> IsMemory(s, p)) /\ t.ROB[p] = s.ROB[p]
    BY Zenon, <1>1 DEF IsMemory
  <2>2. t.ROB[k].executed # COMPLETED /\ t.ROB[k].executed # INFLIGHT
    BY <1>3 DEF COMPLETED, INFLIGHT
  <2>3. IsMemory(t, k) => t.ROB[k].num_mem_ops # 0
    <3>1. IsMemory(t, k) => Len(c.loads) + Len(c.stores) > 0
      BY Zenon, <1>1 DEF IsMemory
    <3>2. Len(c.loads) \in Nat /\ Len(c.stores) \in Nat
      BY <1>0, <1>1, InstrIs
    <3> DEFINE a == Len(c.loads)
               b == Len(c.stores)
    <3>3. a \in Nat /\ b \in Nat /\ t.ROB[k].num_mem_ops = a + b /\ (IsMemory(t, k) => a + b > 0)
      BY Zenon, <1>3, <3>1, <3>2
    <3> HIDE DEF a, b
    <3>4. a + b > 0 => a + b # 0
      BY <3>3
    <3> QED BY <3>3, <3>4
  <2>4. ToComplete(t) = ToComplete(s)
    BY <1>1, <2>1, <2>3 DEF ToComplete
  <2>5. Executing(t) = Executing(s)
    BY <1>1, <2>1, <2>2 DEF Executing
  <2> QED BY <1>0, <1>1, <1>2, <2>1, <2>2, <2>4, <2>5 DEF Tallied
<1>23. LoadStages(t) /\ StoreStages(t) /\ \A a, b : LoadAt(t, a, b) = LoadAt(s, a, b) /\ StoreAt(t, a, b) = StoreAt(s, a, b)
  BY <1>0, <1>2, LoadsLeft, StoresLeft
<1>24. Translating(t)
  BY <1>0, <1>2, <1>23 DEF Translating
<1>25. SameView(s, t)
  BY Zenon, <1>2 DEF SameView
<1>26. ASSUME SeenExecuted(s) PROVE SeenExecuted(t)
  <2> SUFFICES ASSUME NEW o \in s.seen, NEW p \in Rob(t), t.ROB[p].id = o.from
               PROVE  \E m \in DOMAIN Code(t, p).stores :
                        Code(t, p).stores[m] = s.program[o.id].loads[o.op] /\ Executed(t, p, m)
    BY <1>2 DEF SeenExecuted
  <2>1. p # k
    <3> SUFFICES ASSUME p = k PROVE FALSE
      OBVIOUS
    <3>1. o.from < o.id /\ o.id \in 1 .. s.dispatched /\ o.from \in Nat
      BY Zenon, <1>0 DEF SeenSound, LastStore
    <3>2. o.from = n
      BY Zenon, <1>3
    <3> QED BY <1>0, <1>1, <3>1, <3>2, OrderCounts
  <2>2. p \in Rob(s) /\ s.ROB[p].id = o.from
    BY <1>1, <2>1
  <2>3. PICK m \in DOMAIN Code(s, p).stores : Code(s, p).stores[m] = s.program[o.id].loads[o.op] /\ Executed(s, p, m)
    BY <1>26, <2>2 DEF SeenExecuted
  <2> QED BY Zenon, <1>1, <1>6, <2>2, <2>3
<1> QED BY Zenon, <1>1, <1>2, <1>8, <1>9, <1>10, <1>11, <1>12, <1>13, <1>14, <1>15, <1>16, <1>17, <1>18, <1>19, <1>20, <1>21, <1>22, <1>23, <1>24, <1>25, <1>26
        DEF LsqInv, Held2, Flow, Rings, Places

-------------------------------------------------------------------------------
(* The instruction at head retires.                                        *)
Left(s, t, h, n, c) ==
  /\ DOMAIN t = StateFields
  /\ \A g \in StateFields \ {"wq", "memory", "SQ", "ROB", "head", "retired"} : t[g] = s[g]
  /\ t.wq = s.wq + Len(c.stores)
  /\ t.memory = [a \in Addr |-> IF a \in Range(c.stores) THEN n ELSE s.memory[a]]
  /\ t.SQ = [x \in SqSlots |-> IF x \in Range(s.ROB[h].sq) THEN EmptyStore ELSE s.SQ[x]]
  /\ DOMAIN t.ROB = Slots /\ t.ROB[h] = EmptyEntry /\ \A p \in Slots : p # h => t.ROB[p] = s.ROB[p]
  /\ t.head = (h + 1) % ROB_SIZE /\ t.retired = n

(* h is the head, n its instruction, of the code c, and it has executed.   *)
Leaves(s, h, n, c) ==
  /\ h = s.head /\ n = s.retired + 1 /\ c = s.program[n]
  /\ s.ROB[h].id # NoId /\ s.ROB[h].executed = COMPLETED

LEMMA HeadIs ==
  ASSUME NEW s, Order(s), s.ROB[s.head].id # NoId
  PROVE  /\ s.head \in Rob(s) /\ s.head \in Slots /\ s.ROB[s.head].id = s.retired + 1
         /\ Count(s) \in Nat /\ Count(s) >= 1 /\ Count(s) <= ROB_SIZE
         /\ s.retired \in Nat /\ s.retired + 1 \in DOMAIN s.program /\ s.retired < Len(s.program)
         /\ s.retired + 1 <= s.dispatched
<1>0. /\ Count(s) \in Nat /\ Count(s) <= ROB_SIZE /\ s.retired \in Nat /\ s.dispatched \in Nat
      /\ s.retired + Count(s) = s.dispatched /\ s.head \in Slots
      /\ s.dispatched <= Len(s.program) /\ Len(s.program) \in Nat
      /\ DOMAIN s.program = 1 .. Len(s.program)
  BY OrderCounts
<1>1. s.head \in Rob(s)
  BY <1>0 DEF Rob
<1>2. Place(s.head, s.head) \in 1 .. Count(s)
  BY <1>1, LiveAt
<1> DEFINE m == Count(s)
<1>3. m >= 1
  BY <1>0, <1>2
<1>4. 1 \in 1 .. m /\ At(s.head, 1) = s.head
  BY <1>0, <1>3, FirstAt
<1>5. s.ROB[s.head].id = s.retired + 1
  BY <1>4 DEF Order
<1> DEFINE l == Len(s.program)
           r == s.retired
           d == s.dispatched
<1>6. r \in Nat /\ d \in Nat /\ l \in Nat /\ m \in Nat /\ r + m = d /\ d <= l /\ m >= 1
  BY <1>0, <1>3
<1> HIDE DEF m, l, r, d
<1>7. r + 1 \in 1 .. l /\ r < l /\ r + 1 <= d
  BY ONLY <1>6
<1> QED BY <1>0, <1>1, <1>3, <1>5, <1>7 DEF m, l, r, d

LEMMA RetiredIs ==
  ASSUME NEW s, Order(s), Tables(s), s.ROB[s.head].id # NoId
  PROVE  Left(s, Retired(s), s.head, s.retired + 1, s.program[s.retired + 1])
<1> DEFINE h == s.head
           n == s.retired + 1
           c == s.program[n]
           M == [a \in Addr |-> IF a \in Range(c.stores) THEN n ELSE s.memory[a]]
           Q == [x \in DOMAIN s.SQ |-> IF x \in Range(s.ROB[h].sq) THEN EmptyStore ELSE s.SQ[x]]
           y == (h + 1) % ROB_SIZE
           w == s.wq + Len(c.stores)
           t == Retired(s)
<1>1. h \in Slots /\ s.ROB[h].id = n
  BY HeadIs
<1>2. Code(s, h) = c
  BY <1>1 DEF Code
<1>3. DOMAIN s = StateFields /\ DOMAIN s.ROB = Slots
  BY DEF Order, Shaped
<1>4. t = [s EXCEPT !.wq = w, !.memory = M, !.SQ = Q, !.ROB[h] = EmptyEntry, !.head = y, !.retired = n]
  BY <1>1, <1>2 DEF Retired
<1> HIDE DEF t, M, Q, y, w, n, c
<1>5. /\ DOMAIN t = StateFields
      /\ \A g \in StateFields \ {"wq", "memory", "SQ", "ROB", "head", "retired"} : t[g] = s[g]
      /\ t.wq = w /\ t.memory = M /\ t.SQ = Q /\ t.ROB = [s.ROB EXCEPT ![h] = EmptyEntry] /\ t.head = y /\ t.retired = n
  BY Zenon, <1>3, <1>4 DEF StateFields
<1>6. DOMAIN t.ROB = Slots /\ t.ROB[h] = EmptyEntry /\ \A p \in Slots : p # h => t.ROB[p] = s.ROB[p]
  BY <1>1, <1>3, <1>5
<1>7. Q = [x \in SqSlots |-> IF x \in Range(s.ROB[h].sq) THEN EmptyStore ELSE s.SQ[x]]
  BY DEF Q, Tables
<1>8. Left(s, t, h, n, c)
  BY <1>5, <1>6, <1>7 DEF Left, M, y, w
<1> QED BY <1>8 DEF t, n, c

(* What is done when an instruction has executed.                          *)
LEMMA HeadDone ==
  ASSUME NEW s, NEW R, R = {}, LsqInv(s, R), NEW h, NEW n, NEW c, Leaves(s, h, n, c)
  PROVE  /\ h \in Rob(s) /\ h \in Slots /\ s.ROB[h].id = n /\ n \in Nat /\ n # NoId /\ Code(s, h) = c
         /\ n \in DOMAIN s.program
         /\ \A j \in DOMAIN c.loads : s.ROB[h].lq[j] # NoIndex /\ ~InQueue(s, h, j)
         /\ \A k \in DOMAIN c.stores : Executed(s, h, k) /\ s.ROB[h].sq[k] \in SqSlots
         /\ \A q \in Loads(s) : s.LQ[q].rob_index # h
         /\ \A q \in Loads(s) : ~Finds(s, q, h, R)
         /\ \A x \in Stores(s) : x \in Range(s.ROB[h].sq) <=> s.SQ[x].rob_index = h
         /\ \A x \in Stores(s) : x \in Range(s.ROB[h].sq) <=> s.SQ[x].id = n
         /\ Range(s.ROB[h].sq) \subseteq Stores(s)
         /\ \A x \in Range(s.ROB[h].sq) : s.SQ[x].fetched = COMPLETED
<1>0. /\ Order(s) /\ Tables(s) /\ Entries(s) /\ LoadsHeld(s) /\ StoresHeld(s) /\ StoresStay(s)
      /\ Counted(s) /\ Tallied(s) /\ Rob(s) \subseteq Slots
  BY LsqShape
<1>1. /\ h = s.head /\ s.ROB[h].id # NoId /\ s.ROB[h].executed = COMPLETED /\ n = s.retired + 1 /\ c = s.program[n]
  BY DEF Leaves
<1>2. h \in Rob(s) /\ h \in Slots /\ s.ROB[h].id = n /\ n \in DOMAIN s.program /\ s.retired \in Nat
  BY <1>0, <1>1, HeadIs
<1>3. Code(s, h) = c /\ n \in Nat /\ n # NoId
  BY <1>1, <1>2 DEF Code, NoId
<1>4. PendingLoads(s, h) = {} /\ PendingStores(s, h) = {}
  <2>1. CASE IsMemory(s, h)
    <3>1. s.ROB[h].num_mem_ops = 0
      BY <1>0, <1>1, <1>2, <2>1 DEF Tallied
    <3>2. /\ IsFiniteSet(PendingLoads(s, h)) /\ Cardinality(PendingLoads(s, h)) \in Nat
          /\ IsFiniteSet(PendingStores(s, h)) /\ Cardinality(PendingStores(s, h)) \in Nat
      BY <1>0, <1>2, PendingFinite
    <3> DEFINE a == Cardinality(PendingLoads(s, h))
               b == Cardinality(PendingStores(s, h))
    <3>3. a + b = 0 /\ a \in Nat /\ b \in Nat
      BY <1>0, <1>2, <3>1, <3>2 DEF Counted
    <3> HIDE DEF a, b
    <3>4. a = 0 /\ b = 0
      BY <3>3
    <3> QED BY <3>2, <3>4, FS_EmptySet DEF a, b
  <2>2. CASE ~IsMemory(s, h)
    <3>1. /\ Len(c.loads) \in Nat /\ Len(c.stores) \in Nat
          /\ DOMAIN c.loads = 1 .. Len(c.loads) /\ DOMAIN c.stores = 1 .. Len(c.stores)
      BY <1>0, <1>1, <1>2, InstrIs
    <3> DEFINE a == Len(c.loads)
               b == Len(c.stores)
    <3>2. ~(a + b > 0) /\ a \in Nat /\ b \in Nat /\ DOMAIN c.loads = 1 .. a /\ DOMAIN c.stores = 1 .. b
      BY Zenon, <1>1, <1>3, <2>2, <3>1 DEF IsMemory
    <3> HIDE DEF a, b
    <3>3. DOMAIN c.loads = {} /\ DOMAIN c.stores = {}
      BY <3>2
    <3> QED BY <1>3, <3>3 DEF PendingLoads, PendingStores
  <2> QED BY <2>1, <2>2
<1>5. \A j \in DOMAIN c.loads : s.ROB[h].lq[j] # NoIndex /\ ~InQueue(s, h, j)
  BY <1>3, <1>4 DEF PendingLoads
<1>6. \A k \in DOMAIN c.stores : Executed(s, h, k) /\ s.ROB[h].sq[k] \in SqSlots
  <2> SUFFICES ASSUME NEW k \in DOMAIN c.stores PROVE Executed(s, h, k) /\ s.ROB[h].sq[k] \in SqSlots
    OBVIOUS
  <2>1. Executed(s, h, k)
    BY <1>3, <1>4 DEF PendingStores
  <2>2. s.ROB[h].sq[k] \in SqSlots \cup {NoIndex}
    BY <1>0, <1>2, <1>3, PlacesAre
  <2> QED BY <2>1, <2>2 DEF Executed
<1>7. ASSUME NEW q \in Loads(s), s.LQ[q].rob_index = h PROVE FALSE
  <2>1. InQueue(s, h, s.LQ[q].data_index) /\ s.LQ[q].data_index \in DOMAIN c.loads
    BY Zenon, <1>0, <1>3, <1>7, LoadIs
  <2> QED BY <1>5, <2>1
<1>8. ASSUME NEW q \in Loads(s), Finds(s, q, h, R) PROVE FALSE
  <2>1. PICK k \in DOMAIN c.stores : Executed(s, h, k) => Key(s, q) \in R
    BY <1>3, <1>8 DEF Finds
  <2> QED BY <1>6, <2>1
<1>9. DOMAIN s.ROB[h].sq = DOMAIN c.stores
  BY <1>0, <1>2, <1>3 DEF Entries
<1>10. ASSUME NEW x \in Range(s.ROB[h].sq)
       PROVE  x \in Stores(s) /\ s.SQ[x].id = n /\ s.SQ[x].fetched = COMPLETED
  <2>1. PICK k \in DOMAIN c.stores : x = s.ROB[h].sq[k]
    BY <1>9 DEF Range
  <2>2. x \in SqSlots /\ x # NoIndex /\ s.SQ[x].fetched = COMPLETED
    BY Zenon, <1>6, <2>1 DEF Executed
  <2>3. s.SQ[x].id = n
    BY Zenon, <1>0, <1>2, <1>3, <2>1, <2>2 DEF StoresStay
  <2> QED BY <1>3, <2>2, <2>3 DEF Stores
<1>11. ASSUME NEW x \in Stores(s)
       PROVE  /\ x \in Range(s.ROB[h].sq) <=> s.SQ[x].rob_index = h
              /\ s.SQ[x].id = n <=> s.SQ[x].rob_index = h
  <2>1. /\ s.SQ[x].rob_index \in Rob(s) /\ s.ROB[s.SQ[x].rob_index].id = s.SQ[x].id
        /\ s.SQ[x].data_index \in DOMAIN Code(s, s.SQ[x].rob_index).stores
        /\ s.ROB[s.SQ[x].rob_index].sq[s.SQ[x].data_index] = x
    BY Zenon, <1>0 DEF StoresHeld
  <2>2. s.SQ[x].id = n <=> s.SQ[x].rob_index = h
    BY Zenon, <1>0, <1>2, <2>1, LiveOne
  <2>3. ASSUME s.SQ[x].rob_index = h PROVE x \in Range(s.ROB[h].sq)
    BY <1>3, <1>9, <2>1, <2>3 DEF Range
  <2> QED BY <1>10, <2>2, <2>3
<1> QED BY <1>2, <1>3, <1>5, <1>6, <1>7, <1>8, <1>10, <1>11

LEMMA LeftViews ==
  ASSUME NEW s, NEW R, R = {}, LsqInv(s, R), NEW h, NEW n, NEW c, Leaves(s, h, n, c), NEW t, Left(s, t, h, n, c)
  PROVE  /\ Order(t) /\ Rob(t) = Rob(s) \ {h}
         /\ \A p \in Rob(t) : t.ROB[p] = s.ROB[p] /\ Code(t, p) = Code(s, p) /\ s.ROB[p].id > n
         /\ Loads(t) = Loads(s) /\ Stores(t) = {x \in Stores(s) : s.SQ[x].id # n}
         /\ \A x \in Stores(t) : t.SQ[x] = s.SQ[x] /\ s.SQ[x].rob_index \in Rob(t)
         /\ \A p \in Rob(t) : \A k \in DOMAIN Code(s, p).stores :
              s.ROB[p].sq[k] # NoIndex => t.SQ[s.ROB[p].sq[k]] = s.SQ[s.ROB[p].sq[k]]
         /\ \A p \in Rob(t) : \A k \in DOMAIN Code(s, p).stores : Executed(t, p, k) <=> Executed(s, p, k)
         /\ \A p \in Rob(t) : \A j : InQueue(t, p, j) <=> InQueue(s, p, j)
<1>0. /\ Order(s) /\ Tables(s) /\ Entries(s) /\ StoresHeld(s) /\ StoresStay(s) /\ Rob(s) \subseteq Slots
      /\ Shaped(s) /\ Stores(s) \subseteq SqSlots
  BY LsqShape
<1>1. /\ h \in Rob(s) /\ h \in Slots /\ s.ROB[h].id = n /\ n \in Nat /\ n # NoId /\ Code(s, h) = c
      /\ \A x \in Stores(s) : x \in Range(s.ROB[h].sq) <=> s.SQ[x].rob_index = h
      /\ \A x \in Stores(s) : x \in Range(s.ROB[h].sq) <=> s.SQ[x].id = n
      /\ Range(s.ROB[h].sq) \subseteq Stores(s)
  BY HeadDone
<1>2. h = s.head /\ n = s.retired + 1
  BY DEF Leaves
<1>3. /\ t.program = s.program /\ t.dispatched = s.dispatched /\ t.LQ = s.LQ /\ t.retired = n
      /\ t.head = (h + 1) % ROB_SIZE /\ DOMAIN t.ROB = Slots /\ t.ROB[h] = EmptyEntry
      /\ \A p \in Slots : p # h => t.ROB[p] = s.ROB[p]
  BY DEF Left, StateFields
<1>4. EmptyEntry.id = NoId /\ DOMAIN EmptyEntry = EntryFields
  BY DEF EmptyEntry, EntryFields
<1>5. Rob(t) = Rob(s) \ {h}
  BY <1>1, <1>3, <1>4 DEF Rob
<1>6. /\ Count(s) \in Nat /\ Count(s) >= 1 /\ Count(s) <= ROB_SIZE /\ s.retired \in Nat
      /\ s.dispatched \in Nat /\ s.retired + Count(s) = s.dispatched
      /\ s.dispatched <= Len(s.program) /\ Len(s.program) \in Nat
  BY <1>0, <1>1, <1>2, HeadIs, OrderCounts
<1>7. ASSUME NEW p \in Rob(t) PROVE t.ROB[p] = s.ROB[p] /\ Code(t, p) = Code(s, p) /\ s.ROB[p].id > n
  <2>1. p \in Rob(s) /\ p \in Slots /\ p # h
    BY <1>0, <1>5
  <2>2. t.ROB[p] = s.ROB[p] /\ Code(t, p) = Code(s, p)
    BY <1>3, <2>1 DEF Code
  <2>3. s.ROB[p].id \in Nat /\ s.ROB[p].id >= s.retired + 1
    BY <1>0, <2>1, LiveAt
  <2>4. s.ROB[p].id # n
    BY <1>0, <1>1, <2>1, LiveOne
  <2> QED BY <1>2, <1>6, <2>2, <2>3, <2>4
<1>8. Order(t)
  <2>1. t.head = At(h, 2) /\ t.head \in Slots
    <3>1. 1 \in 1 .. ROB_SIZE /\ At(h, 1) = h /\ 1 + 1 = 2
      BY <1>1, FirstAt, Size
    <3>2. t.head = At(h, 2)
      BY <1>1, <1>3, <3>1, NextAt
    <3>3. 2 \in 1 .. ROB_SIZE + 1
      BY Size
    <3> QED BY <1>1, <3>2, <3>3, AtSlots
  <2>2. \A k \in 1 .. ROB_SIZE : At(t.head, k) = At(h, k + 1)
    BY <1>1, <2>1, AtNext
  <2>3. Count(t) = Count(s) - 1
    BY <1>2, <1>3, <1>6 DEF Count
  <2> DEFINE m == Count(s)
  <2>4. m \in Nat /\ m >= 1 /\ m <= ROB_SIZE /\ Count(t) = m - 1
    BY <1>6, <2>3
  <2> HIDE DEF m
  <2>5. ASSUME NEW k \in 1 .. ROB_SIZE, k # ROB_SIZE
        PROVE  /\ k + 1 \in 1 .. ROB_SIZE /\ At(t.head, k) \in Slots /\ t.ROB[At(t.head, k)] = s.ROB[At(h, k + 1)]
    <3>1. k + 1 \in 1 .. ROB_SIZE /\ k + 1 \in 1 .. ROB_SIZE + 1 /\ 1 \in 1 .. ROB_SIZE /\ k + 1 # 1
      BY <2>5, Size
    <3>2. At(h, 1) = h
      BY <1>1, FirstAt
    <3> DEFINE l == k + 1
    <3>3. l \in 1 .. ROB_SIZE /\ l \in 1 .. ROB_SIZE + 1 /\ l # 1
      BY <3>1
    <3> HIDE DEF l
    <3>4. At(h, l) \in Slots
      BY <1>1, <3>3, AtSlots
    <3>5. At(h, l) # h
      BY <1>1, <3>1, <3>2, <3>3, AtInjective
    <3>6. t.ROB[At(h, l)] = s.ROB[At(h, l)]
      BY <1>3, <3>4, <3>5
    <3> QED BY <2>2, <2>5, <3>1, <3>4, <3>6 DEF l
  <2>6. \A k \in 1 .. m - 1 : t.ROB[At(t.head, k)].id = n + k
    <3> SUFFICES ASSUME NEW k \in 1 .. m - 1 PROVE t.ROB[At(t.head, k)].id = n + k
      OBVIOUS
    <3>1. k \in 1 .. ROB_SIZE /\ k # ROB_SIZE /\ k + 1 \in 1 .. m /\ k \in Nat
      BY <2>4, Size
    <3>2. s.ROB[At(h, k + 1)].id = s.retired + (k + 1)
      BY <1>0, <1>2, <3>1 DEF Order, m
    <3>3. t.ROB[At(t.head, k)].id = s.retired + (k + 1)
      BY <2>5, <3>1, <3>2
    <3> DEFINE r == s.retired
    <3>4. r \in Nat /\ n = r + 1 /\ k \in Nat
      BY <1>2, <1>6, <3>1
    <3> HIDE DEF r
    <3>5. r + (k + 1) = n + k
      BY ONLY <3>4
    <3> QED BY <3>3, <3>5 DEF r
  <2>7. \A k \in 1 .. ROB_SIZE : k > m - 1 => t.ROB[At(t.head, k)].id = NoId
    <3> SUFFICES ASSUME NEW k \in 1 .. ROB_SIZE, k > m - 1 PROVE t.ROB[At(t.head, k)].id = NoId
      OBVIOUS
    <3>1. CASE k = ROB_SIZE
      <4>1. At(t.head, k) = h
        BY <1>1, <2>2, <3>1, FirstAt
      <4> QED BY <1>3, <1>4, <4>1
    <3>2. CASE k # ROB_SIZE
      <4>1. k + 1 \in 1 .. ROB_SIZE /\ k + 1 > m
        BY <2>4, <3>2, Size
      <4>2. s.ROB[At(h, k + 1)].id = NoId
        BY <1>0, <1>2, <4>1 DEF Order, m
      <4> QED BY <2>5, <3>2, <4>2
    <3> QED BY <3>1, <3>2
  <2>8. Shaped(t)
    <3>1. \A p \in Slots : DOMAIN t.ROB[p] = EntryFields
      BY <1>0, <1>3, <1>4 DEF Shaped
    <3> QED BY <1>3, <3>1 DEF Shaped, Left
  <2>9. s.dispatched \in n .. Len(s.program) /\ m - 1 <= ROB_SIZE
    BY <1>2, <1>6, <2>4, Size
  <2>10. s.program \in Programs
    BY <1>0 DEF Order
  <2>11. t.retired \in Nat /\ t.dispatched \in t.retired .. Len(t.program) /\ t.program \in Programs /\ Count(t) <= ROB_SIZE
    BY <1>1, <1>3, <2>4, <2>9, <2>10
  <2>12. \A k \in 1 .. Count(t) : t.ROB[At(t.head, k)].id = t.retired + k
    BY <1>3, <2>4, <2>6
  <2>13. \A k \in 1 .. ROB_SIZE : k > Count(t) => t.ROB[At(t.head, k)].id = NoId
    BY <2>4, <2>7
  <2> QED BY <2>1, <2>8, <2>11, <2>12, <2>13 DEF Order
<1>9. \A x \in SqSlots : t.SQ[x] = IF x \in Range(s.ROB[h].sq) THEN EmptyStore ELSE s.SQ[x]
  BY DEF Left
<1>10. EmptyStore.id = NoId
  BY DEF EmptyStore
<1>11. Stores(t) = {x \in Stores(s) : s.SQ[x].id # n} /\ Loads(t) = Loads(s)
  <2>1. ASSUME NEW x PROVE x \in Stores(t) <=> x \in Stores(s) /\ s.SQ[x].id # n
    <3>1. CASE x \in Range(s.ROB[h].sq)
      BY <1>1, <1>9, <1>10, <3>1 DEF Stores
    <3>2. CASE x \notin Range(s.ROB[h].sq)
      BY <1>1, <1>9, <3>2 DEF Stores
    <3> QED BY <3>1, <3>2
  <2>2. Stores(t) = {x \in Stores(s) : s.SQ[x].id # n}
    BY <2>1
  <2> QED BY <1>3, <2>2 DEF Loads
<1>12. ASSUME NEW x \in Stores(t) PROVE t.SQ[x] = s.SQ[x] /\ s.SQ[x].rob_index \in Rob(t)
  <2>1. x \in Stores(s) /\ x \in SqSlots /\ x \notin Range(s.ROB[h].sq) /\ s.SQ[x].rob_index # h
    BY <1>0, <1>1, <1>11
  <2>2. s.SQ[x].rob_index \in Rob(s)
    BY Zenon, <1>0, <2>1 DEF StoresHeld
  <2> QED BY <1>5, <1>9, <2>1, <2>2
<1>13. ASSUME NEW p \in Rob(t), NEW k \in DOMAIN Code(s, p).stores, s.ROB[p].sq[k] # NoIndex
       PROVE  t.SQ[s.ROB[p].sq[k]] = s.SQ[s.ROB[p].sq[k]]
  <2>1. p \in Rob(s)
    BY <1>5
  <2>2. s.ROB[p].sq[k] \in SqSlots
    BY <1>0, <1>13, <2>1, PlacesAre
  <2>3. s.SQ[s.ROB[p].sq[k]].id = s.ROB[p].id
    BY Zenon, <1>0, <1>13, <2>1 DEF StoresStay
  <2>4. s.ROB[p].id # n
    BY <1>1, <1>7
  <2>5. s.ROB[p].sq[k] \notin Range(s.ROB[h].sq)
    <3> DEFINE x == s.ROB[p].sq[k]
    <3>1. s.SQ[x].id # n
      BY <2>3, <2>4
    <3> HIDE DEF x
    <3>2. x \notin Range(s.ROB[h].sq)
      BY <1>1, <3>1
    <3> QED BY <3>2 DEF x
  <2> QED BY <1>9, <2>2, <2>5
<1>14. \A p \in Rob(t) : \A k \in DOMAIN Code(s, p).stores : Executed(t, p, k) <=> Executed(s, p, k)
  BY <1>7, <1>13 DEF Executed
<1>15. \A p \in Rob(t) : \A j : InQueue(t, p, j) <=> InQueue(s, p, j)
  BY Zenon, <1>3, <1>7 DEF InQueue
<1> QED BY <1>5, <1>7, <1>8, <1>11, <1>12, <1>13, <1>14, <1>15

(* The store queue without the oldest stores.                              *)
LEMMA RingCut ==
  ASSUME NEW s, StoreRing(s), NEW m \in Nat, NEW t, t.sq_tail = s.sq_tail,
         \A x \in Stores(s) : s.SQ[x].id \in Nat /\ s.SQ[x].id >= m,
         Stores(t) = {x \in Stores(s) : s.SQ[x].id # m},
         \A x \in Stores(t) : t.SQ[x] = s.SQ[x]
  PROVE  StoreRing(t)
<1> DEFINE B(k) == Back(s.sq_tail, k)
<1>1. PICK n \in 0 .. SQ_SIZE :
        /\ Stores(s) = {Back(s.sq_tail, k) : k \in 1 .. n}
        /\ \A k \in 1 .. n, l \in 1 .. n : k <= l => s.SQ[Back(s.sq_tail, l)].id <= s.SQ[Back(s.sq_tail, k)].id
  BY DEF StoreRing
<1>2. n \in Nat /\ n <= SQ_SIZE
  BY <1>1, QueueSizes
<1> DEFINE K == {k \in 1 .. n : s.SQ[B(k)].id # m}
<1>3. Stores(t) = {B(k) : k \in K}
  BY <1>1
<1>4. \A k \in 1 .. n : B(k) \in Stores(s) /\ s.SQ[B(k)].id \in Nat /\ s.SQ[B(k)].id >= m
  BY <1>1
<1>5. \A k \in K : k \in 1 .. n /\ B(k) \in Stores(t) /\ t.SQ[B(k)] = s.SQ[B(k)]
  BY <1>3
<1>6. \A k \in 1 .. n, l \in K : k <= l => k \in K
  <2> SUFFICES ASSUME NEW k \in 1 .. n, NEW l \in K, k <= l PROVE s.SQ[B(k)].id # m
    OBVIOUS
  <2>1. s.SQ[B(l)].id <= s.SQ[B(k)].id
    BY <1>1, <1>5
  <2>2. s.SQ[B(l)].id # m /\ l \in 1 .. n
    OBVIOUS
  <2>3. s.SQ[B(l)].id \in Nat /\ s.SQ[B(l)].id >= m /\ s.SQ[B(k)].id \in Nat
    BY <1>4, <2>2
  <2> DEFINE a == s.SQ[B(l)].id
             b == s.SQ[B(k)].id
  <2>4. a \in Nat /\ b \in Nat /\ a >= m /\ a # m /\ a <= b
    BY <2>1, <2>2, <2>3
  <2> HIDE DEF a, b
  <2>5. b # m
    BY ONLY <2>4, m \in Nat
  <2> QED BY <2>5 DEF b
<1>7. \E x \in 0 .. n : K = 1 .. x
  <2>1. CASE K = {}
    <3>1. 0 \in 0 .. n /\ K = 1 .. 0
      BY <1>2, <2>1
    <3> QED BY <3>1
  <2>2. CASE K # {}
    <3>1. K \in SUBSET (0 .. n)
      BY <1>2
    <3> HIDE DEF K
    <3>2. PICK x \in K : \A y \in K : y <= x
      BY <1>2, <2>2, <3>1, HasLargest
    <3>3. x \in 1 .. n /\ K \subseteq 1 .. n
      BY <1>5
    <3>4. \A y : y \in K <=> y \in 1 .. x
      <4>1. ASSUME NEW y \in K PROVE y \in 1 .. x
        BY <1>2, <3>2, <3>3
      <4>2. ASSUME NEW y \in 1 .. x PROVE y \in K
        <5>1. y \in 1 .. n /\ y <= x
          BY <1>2, <3>3
        <5> QED BY <1>6, <5>1
      <4> QED BY <4>1, <4>2
    <3>5. K = 1 .. x
      BY <3>4
    <3>6. x \in 0 .. n
      BY <1>2, <3>3
    <3> QED BY <3>5, <3>6
  <2> QED BY <2>1, <2>2
<1>8. PICK x \in 0 .. n : K = 1 .. x
  BY <1>7
<1> HIDE DEF K
<1>9. x \in 0 .. SQ_SIZE
  BY <1>2, QueueSizes
<1>10. Stores(t) = {Back(t.sq_tail, k) : k \in 1 .. x}
  BY <1>3, <1>8
<1>11. ASSUME NEW k \in 1 .. x, NEW l \in 1 .. x, k <= l
       PROVE  t.SQ[Back(t.sq_tail, l)].id <= t.SQ[Back(t.sq_tail, k)].id
  <2>1. /\ k \in 1 .. n /\ l \in 1 .. n /\ t.SQ[B(k)] = s.SQ[B(k)] /\ t.SQ[B(l)] = s.SQ[B(l)]
    BY <1>5, <1>8
  <2>2. s.SQ[Back(s.sq_tail, l)].id <= s.SQ[Back(s.sq_tail, k)].id
    BY <1>1, <1>11, <2>1
  <2> QED BY <2>1, <2>2
<1>12. t.sq_tail \in SqSlots
  BY DEF StoreRing
<1> QED BY <1>9, <1>10, <1>11, <1>12 DEF StoreRing

LEMMA LeftHeld ==
  ASSUME NEW s, NEW R, R = {}, LsqInv(s, R), NEW h, NEW n, NEW c, Leaves(s, h, n, c), NEW t, Left(s, t, h, n, c),
         s.wq + Len(c.stores) <= WQ_SIZE
  PROVE  Held2(t) /\ t.asserts = s.asserts
<1>0. /\ Order(s) /\ Tables(s) /\ Entries(s) /\ LoadsHeld(s) /\ StoresHeld(s) /\ StoresStay(s) /\ Rob(s) \subseteq Slots
  BY LsqShape
<1>1. /\ h \in Rob(s) /\ h \in Slots /\ n \in Nat /\ n \in DOMAIN s.program
      /\ \A q \in Loads(s) : s.LQ[q].rob_index # h
  BY HeadDone
<1>2. /\ Order(t) /\ Rob(t) = Rob(s) \ {h}
      /\ \A p \in Rob(t) : t.ROB[p] = s.ROB[p] /\ Code(t, p) = Code(s, p) /\ s.ROB[p].id > n
      /\ Loads(t) = Loads(s) /\ Stores(t) = {x \in Stores(s) : s.SQ[x].id # n}
      /\ \A x \in Stores(t) : t.SQ[x] = s.SQ[x] /\ s.SQ[x].rob_index \in Rob(t)
      /\ \A p \in Rob(t) : \A k \in DOMAIN Code(s, p).stores :
           s.ROB[p].sq[k] # NoIndex => t.SQ[s.ROB[p].sq[k]] = s.SQ[s.ROB[p].sq[k]]
  BY LeftViews
<1>3. /\ t.program = s.program /\ t.LQ = s.LQ /\ t.asserts = s.asserts /\ t.wq = s.wq + Len(c.stores)
      /\ t.memory = [a \in Addr |-> IF a \in Range(c.stores) THEN n ELSE s.memory[a]]
      /\ t.SQ = [x \in SqSlots |-> IF x \in Range(s.ROB[h].sq) THEN EmptyStore ELSE s.SQ[x]]
      /\ DOMAIN t.ROB = Slots /\ t.ROB[h] = EmptyEntry /\ \A p \in Slots : p # h => t.ROB[p] = s.ROB[p]
  BY DEF Left, StateFields
<1>4. c = s.program[n]
  BY DEF Leaves
<1>5. Tables(t)
  <2>1. DOMAIN EmptyStore = StoreFields
    BY DEF StoreFields
  <2>2. DOMAIN t.SQ = SqSlots /\ \A x \in SqSlots : DOMAIN t.SQ[x] = StoreFields
    <3>1. \A x \in SqSlots : DOMAIN s.SQ[x] = StoreFields
      BY <1>0 DEF Tables
    <3> QED BY <1>3, <2>1, <3>1
  <2>3. t.memory \in [Addr -> Nat]
    <3>1. s.memory \in [Addr -> Nat]
      BY <1>0 DEF Tables
    <3> QED BY <1>1, <1>3, <3>1
  <2>4. t.wq \in 0 .. WQ_SIZE
    <3>1. s.wq \in 0 .. WQ_SIZE /\ Len(c.stores) \in Nat
      BY <1>0, <1>1, <1>4, InstrIs DEF Tables
    <3> DEFINE l == Len(c.stores)
    <3>2. l \in Nat /\ s.wq + l <= WQ_SIZE /\ t.wq = s.wq + l
      BY <1>3, <3>1
    <3> HIDE DEF l
    <3> QED BY <3>1, <3>2, QueueSizes
  <2> QED BY <1>0, <1>2, <1>3, <2>2, <2>3, <2>4 DEF Tables
<1>6. Entries(t)
  <2>1. \A p \in Rob(t) : p \in Rob(s)
    BY <1>2
  <2>2. \A i \in Rob(t) :
       /\ t.ROB[i].lq \in [DOMAIN Code(t, i).loads -> LqSlots \cup {NoIndex}]
       /\ t.ROB[i].sq \in [DOMAIN Code(t, i).stores -> SqSlots \cup {NoIndex}]
    BY Zenon, <1>0, <1>2, <2>1 DEF Entries
  <2>3. ASSUME NEW p \in Slots \ Rob(t) PROVE t.ROB[p].num_mem_ops = 0 /\ t.ROB[p].mem_deps = {}
    <3>1. CASE p = h
      BY <1>3, <3>1 DEF EmptyEntry
    <3>2. CASE p # h
      <4>1. p \in Slots \ Rob(s) /\ t.ROB[p] = s.ROB[p]
        BY <1>2, <1>3, <3>2
      <4> QED BY <1>0, <4>1 DEF Entries
    <3> QED BY <3>1, <3>2
  <2> QED BY <2>2, <2>3 DEF Entries
<1>7. LoadsHeld(t)
  <2> SUFFICES ASSUME NEW q \in Loads(s)
               PROVE  /\ s.LQ[q].rob_index \in Rob(t) /\ t.ROB[s.LQ[q].rob_index].id = s.LQ[q].id
                      /\ s.LQ[q].data_index \in DOMAIN Code(t, s.LQ[q].rob_index).loads
                      /\ t.ROB[s.LQ[q].rob_index].lq[s.LQ[q].data_index] = q
    BY <1>2, <1>3 DEF LoadsHeld
  <2>1. /\ s.LQ[q].rob_index \in Rob(s) /\ s.ROB[s.LQ[q].rob_index].id = s.LQ[q].id
        /\ s.LQ[q].data_index \in DOMAIN Code(s, s.LQ[q].rob_index).loads
        /\ s.ROB[s.LQ[q].rob_index].lq[s.LQ[q].data_index] = q
    BY Zenon, <1>0 DEF LoadsHeld
  <2>2. s.LQ[q].rob_index \in Rob(t)
    BY Zenon, <1>1, <1>2, <2>1
  <2> QED BY Zenon, <1>2, <2>1, <2>2
<1>8. StoresHeld(t)
  <2> SUFFICES ASSUME NEW x \in Stores(t)
               PROVE  /\ s.SQ[x].rob_index \in Rob(t) /\ t.ROB[s.SQ[x].rob_index].id = s.SQ[x].id
                      /\ s.SQ[x].data_index \in DOMAIN Code(t, s.SQ[x].rob_index).stores
                      /\ t.ROB[s.SQ[x].rob_index].sq[s.SQ[x].data_index] = x
    BY <1>2 DEF StoresHeld
  <2>1. x \in Stores(s) /\ s.SQ[x].rob_index \in Rob(t)
    BY <1>2
  <2>2. /\ s.SQ[x].rob_index \in Rob(s) /\ s.ROB[s.SQ[x].rob_index].id = s.SQ[x].id
        /\ s.SQ[x].data_index \in DOMAIN Code(s, s.SQ[x].rob_index).stores
        /\ s.ROB[s.SQ[x].rob_index].sq[s.SQ[x].data_index] = x
    BY Zenon, <1>0, <2>1 DEF StoresHeld
  <2> QED BY Zenon, <1>2, <2>1, <2>2
<1>9. StoresStay(t)
  <2> SUFFICES ASSUME NEW p \in Rob(t), NEW k \in DOMAIN Code(t, p).stores, t.ROB[p].sq[k] # NoIndex
               PROVE  t.SQ[t.ROB[p].sq[k]].id = t.ROB[p].id /\ t.SQ[t.ROB[p].sq[k]].data_index = k
    BY Zenon DEF StoresStay
  <2>1. p \in Rob(s) /\ t.ROB[p] = s.ROB[p] /\ Code(t, p) = Code(s, p)
    BY <1>2
  <2>2. t.SQ[s.ROB[p].sq[k]] = s.SQ[s.ROB[p].sq[k]]
    BY <1>2, <2>1
  <2>3. s.SQ[s.ROB[p].sq[k]].id = s.ROB[p].id /\ s.SQ[s.ROB[p].sq[k]].data_index = k
    BY <1>0, <2>1 DEF StoresStay
  <2> QED BY Zenon, <2>1, <2>2, <2>3
<1> QED BY Zenon, <1>2, <1>3, <1>5, <1>6, <1>7, <1>8, <1>9 DEF Held2

LEMMA LeftFlow ==
  ASSUME NEW s, NEW R, R = {}, LsqInv(s, R), NEW h, NEW n, NEW c, Leaves(s, h, n, c), NEW t, Left(s, t, h, n, c)
  PROVE  Flow(t) /\ Awaited(t, R)
<1>0. /\ Order(s) /\ Tables(s) /\ LoadsHeld(s) /\ Sourced(s) /\ DepsSound(s) /\ MemoryLast(s) /\ SeenSound(s) /\ SeenAll(s)
      /\ Awaited(s, R) /\ Rob(s) \subseteq Slots
  BY LsqShape
<1>1. /\ h \in Rob(s) /\ s.ROB[h].id = n /\ n \in Nat /\ n # NoId /\ Code(s, h) = c
      /\ \A q \in Loads(s) : ~Finds(s, q, h, R)
  BY HeadDone
<1>2. /\ Rob(t) = Rob(s) \ {h}
      /\ \A p \in Rob(t) : t.ROB[p] = s.ROB[p] /\ Code(t, p) = Code(s, p) /\ s.ROB[p].id > n
      /\ Loads(t) = Loads(s)
      /\ \A p \in Rob(t) : \A k \in DOMAIN Code(s, p).stores : Executed(t, p, k) <=> Executed(s, p, k)
      /\ \A p \in Rob(t) : \A j : InQueue(t, p, j) <=> InQueue(s, p, j)
  BY LeftViews
<1>3. /\ t.program = s.program /\ t.LQ = s.LQ /\ t.seen = s.seen /\ t.dispatched = s.dispatched /\ t.retired = n
      /\ t.memory = [a \in Addr |-> IF a \in Range(c.stores) THEN n ELSE s.memory[a]]
  BY DEF Left, StateFields
<1>4. n = s.retired + 1 /\ c = s.program[n]
  BY DEF Leaves
<1>5. s.retired \in Nat
  BY <1>0, OrderCounts
<1>6. \A q : LoadAddr(t, q) = LoadAddr(s, q) /\ Key(t, q) = Key(s, q)
  BY <1>3 DEF LoadAddr, Key
<1>7. Sourced(t)
  <2> SUFFICES ASSUME NEW q \in Loads(s)
               PROVE  IF s.LQ[q].producer_id = NoId
                      THEN \A k \in n + 1 .. s.LQ[q].id - 1 : LoadAddr(s, q) \notin Range(s.program[k].stores)
                      ELSE LastStore(s.program, s.LQ[q].producer_id, s.LQ[q].id, LoadAddr(s, q))
    BY <1>2, <1>3, <1>6 DEF Sourced
  <2>1. IF s.LQ[q].producer_id = NoId
        THEN \A k \in s.retired + 1 .. s.LQ[q].id - 1 : LoadAddr(s, q) \notin Range(s.program[k].stores)
        ELSE LastStore(s.program, s.LQ[q].producer_id, s.LQ[q].id, LoadAddr(s, q))
    BY <1>0 DEF Sourced
  <2>2. s.LQ[q].id \in Nat
    BY Zenon, <1>0, LoadIs
  <2>3. \A k \in n + 1 .. s.LQ[q].id - 1 : k \in s.retired + 1 .. s.LQ[q].id - 1
    BY <1>1, <1>4, <1>5, <2>2
  <2> QED BY <2>1, <2>3
<1>8. DepsSound(t)
  <2> SUFFICES ASSUME NEW p \in Rob(t), NEW d \in t.ROB[p].mem_deps
               PROVE  /\ d \in Rob(t)
                      /\ \E j \in DOMAIN Code(t, d).loads :
                           LastStore(s.program, t.ROB[p].id, t.ROB[d].id, Code(t, d).loads[j])
    BY <1>3 DEF DepsSound
  <2>1. p \in Rob(s) /\ t.ROB[p] = s.ROB[p] /\ s.ROB[p].id > n
    BY <1>2
  <2>2. /\ d \in Rob(s)
        /\ \E j \in DOMAIN Code(s, d).loads : LastStore(s.program, s.ROB[p].id, s.ROB[d].id, Code(s, d).loads[j])
    BY <1>0, <2>1 DEF DepsSound
  <2>3. s.ROB[p].id < s.ROB[d].id
    BY <2>2 DEF LastStore
  <2>4. s.ROB[p].id \in Nat
    BY <1>0, <2>1, LiveAt
  <2>5. d # h
    BY <1>1, <2>1, <2>3, <2>4
  <2>6. d \in Rob(t) /\ t.ROB[d] = s.ROB[d] /\ Code(t, d) = Code(s, d)
    BY <1>2, <2>2, <2>5
  <2> QED BY <2>1, <2>2, <2>6
<1>9. MemoryLast(t)
  <2> SUFFICES ASSUME NEW a \in Addr PROVE LastStore(s.program, t.memory[a], n + 1, a)
    BY <1>3 DEF MemoryLast
  <2>1. CASE a \in Range(c.stores)
    <3>1. t.memory[a] = n
      BY <1>3, <2>1
    <3>2. n < n + 1 /\ \A k \in n + 1 .. (n + 1) - 1 : FALSE
      BY <1>1
    <3>3. n # NoId => a \in Range(s.program[n].stores)
      BY <1>4, <2>1
    <3>4. LastStore(s.program, n, n + 1, a)
      BY <3>2, <3>3 DEF LastStore
    <3> QED BY <3>1, <3>4
  <2>2. CASE a \notin Range(c.stores)
    <3> DEFINE m == s.memory[a]
    <3>1. t.memory[a] = m
      BY <1>3, <2>2
    <3>2. m \in Nat
      BY <1>0 DEF Tables
    <3>3. LastStore(s.program, m, n, a)
      BY <1>0, <1>4 DEF MemoryLast
    <3> HIDE DEF m
    <3>4. m < n /\ (m # NoId => a \in Range(s.program[m].stores)) /\ \A k \in m + 1 .. n - 1 : a \notin Range(s.program[k].stores)
      BY <3>3 DEF LastStore
    <3>5. m < n + 1
      BY <1>1, <3>2, <3>4
    <3>6. \A k \in m + 1 .. (n + 1) - 1 : k = n \/ k \in m + 1 .. n - 1
      BY <1>1, <3>2
    <3>7. \A k \in m + 1 .. (n + 1) - 1 : a \notin Range(s.program[k].stores)
      BY <1>4, <2>2, <3>4, <3>6
    <3>8. LastStore(s.program, m, n + 1, a)
      BY <3>4, <3>5, <3>7 DEF LastStore
    <3> QED BY <3>1, <3>8
  <2> QED BY <2>1, <2>2
<1>10. SeenSound(t)
  BY <1>0, <1>3 DEF SeenSound
<1>11. SeenAll(t)
  <2> SUFFICES ASSUME NEW p \in Rob(t), NEW j \in DOMAIN Code(t, p).loads, t.ROB[p].lq[j] # NoIndex, ~InQueue(t, p, j)
               PROVE  \E o \in s.seen : o.id = t.ROB[p].id /\ o.op = j
    BY <1>3 DEF SeenAll
  <2>1. p \in Rob(s) /\ t.ROB[p] = s.ROB[p] /\ Code(t, p) = Code(s, p) /\ ~InQueue(s, p, j)
    BY <1>2
  <2> QED BY <1>0, <2>1 DEF SeenAll
<1>12. Awaited(t, R)
  <2> SUFFICES ASSUME NEW q \in Loads(s), s.LQ[q].producer_id # NoId
               PROVE  \E p \in Rob(t) : Finds(t, q, p, R)
    BY <1>2, <1>3 DEF Awaited
  <2>1. PICK p \in Rob(s) : Finds(s, q, p, R)
    BY <1>0 DEF Awaited
  <2>2. p # h
    BY <1>1, <2>1
  <2>3. p \in Rob(t) /\ t.ROB[p] = s.ROB[p] /\ Code(t, p) = Code(s, p)
    BY <1>2, <2>2
  <2>4. \A k \in DOMAIN Code(s, p).stores : Executed(t, p, k) <=> Executed(s, p, k)
    BY <1>2, <2>3
  <2>5. Finds(t, q, p, R)
    BY <1>3, <1>6, <2>1, <2>3, <2>4 DEF Finds
  <2> QED BY <2>3, <2>5
<1> QED BY <1>7, <1>8, <1>9, <1>10, <1>11, <1>12 DEF Flow

LEMMA LeftCounts ==
  ASSUME NEW s, NEW R, R = {}, LsqInv(s, R), NEW h, NEW n, NEW c, Leaves(s, h, n, c), NEW t, Left(s, t, h, n, c)
  PROVE  Rings(t) /\ Counted(t) /\ Tallied(t) /\ Places(t)
<1>0. /\ Order(s) /\ StoresHeld(s) /\ StoreRing(s) /\ StoresWait(s) /\ Counted(s) /\ Tallied(s)
      /\ LoadStages(s) /\ StoreStages(s) /\ Translating(s) /\ Rob(s) \subseteq Slots /\ Stores(s) \subseteq SqSlots
  BY LsqShape
<1>1. /\ h \in Rob(s) /\ s.ROB[h].id = n /\ n \in Nat
      /\ \A x \in Stores(s) : x \in Range(s.ROB[h].sq) <=> s.SQ[x].id = n
      /\ \A x \in Range(s.ROB[h].sq) : s.SQ[x].fetched = COMPLETED
  BY HeadDone
<1>2. /\ Rob(t) = Rob(s) \ {h}
      /\ \A p \in Rob(t) : t.ROB[p] = s.ROB[p] /\ Code(t, p) = Code(s, p) /\ s.ROB[p].id > n
      /\ Loads(t) = Loads(s) /\ Stores(t) = {x \in Stores(s) : s.SQ[x].id # n}
      /\ \A x \in Stores(t) : t.SQ[x] = s.SQ[x] /\ s.SQ[x].rob_index \in Rob(t)
      /\ \A p \in Rob(t) : \A k \in DOMAIN Code(s, p).stores : Executed(t, p, k) <=> Executed(s, p, k)
      /\ \A p \in Rob(t) : \A j : InQueue(t, p, j) <=> InQueue(s, p, j)
  BY LeftViews
<1>3. /\ t.program = s.program /\ t.LQ = s.LQ /\ t.sq_tail = s.sq_tail /\ t.STA = s.STA /\ t.dispatched = s.dispatched
      /\ t.RTL0 = s.RTL0 /\ t.RTL1 = s.RTL1 /\ t.RTS0 = s.RTS0 /\ t.RTS1 = s.RTS1 /\ t.dtlb = s.dtlb /\ t.l1d = s.l1d
      /\ t.inflight_reg = s.inflight_reg /\ t.inflight_mem = s.inflight_mem
  BY DEF Left, StateFields
<1>4. n = s.retired + 1 /\ s.ROB[h].executed = COMPLETED
  BY DEF Leaves
<1>5. \A x \in Stores(s) : s.SQ[x].id \in Nat /\ s.SQ[x].id >= n
  BY Zenon, <1>0, <1>4, StoreIs
<1>6. StoreRing(t)
  BY <1>0, <1>1, <1>2, <1>3, <1>5, RingCut
<1>7. StoresWait(t)
  BY <1>0, <1>2, <1>3 DEF StoresWait
<1>8. Counted(t)
  <2> SUFFICES ASSUME NEW p \in Rob(t)
               PROVE  t.ROB[p].num_mem_ops = Cardinality(PendingLoads(t, p)) + Cardinality(PendingStores(t, p))
    BY DEF Counted
  <2>1. p \in Rob(s) /\ t.ROB[p] = s.ROB[p] /\ Code(t, p) = Code(s, p)
    BY <1>2
  <2>2. PendingLoads(t, p) = PendingLoads(s, p)
    BY <1>2, <2>1 DEF PendingLoads
  <2>3. PendingStores(t, p) = PendingStores(s, p)
    BY <1>2, <2>1 DEF PendingStores
  <2> QED BY <1>0, <2>1, <2>2, <2>3 DEF Counted
<1>9. Tallied(t)
  <2>1. \A p \in Rob(t) : p \in Rob(s) /\ t.ROB[p] = s.ROB[p] /\ (IsMemory(t, p) <=> IsMemory(s, p))
    BY Zenon, <1>2 DEF IsMemory
  <2>2. s.ROB[h].executed # INFLIGHT
    BY <1>4 DEF INFLIGHT, COMPLETED
  <2>3. \A p : p \in ToComplete(t) <=> p \in ToComplete(s)
    BY <1>2, <1>4, <2>1 DEF ToComplete
  <2>4. \A p : p \in Executing(t) <=> p \in Executing(s)
    BY <1>2, <2>1, <2>2 DEF Executing
  <2>5. ToComplete(t) = ToComplete(s) /\ Executing(t) = Executing(s)
    BY <2>3, <2>4
  <2> QED BY <1>0, <1>3, <2>1, <2>5 DEF Tallied
<1>10. LoadStages(t) /\ \A a, b : LoadAt(t, a, b) = LoadAt(s, a, b)
  BY <1>0, <1>3, LoadsLeft
<1>11. ASSUME NEW a, NEW b, b # COMPLETED PROVE StoreAt(t, a, b) = StoreAt(s, a, b)
  <2>1. ASSUME NEW x \in StoreAt(s, a, b) PROVE x \in StoreAt(t, a, b)
    <3>1. x \in Stores(s) /\ s.SQ[x].translated = a /\ s.SQ[x].fetched = b
      BY DEF StoreAt
    <3>2. s.SQ[x].id # n
      BY <1>1, <1>11, <3>1
    <3>3. x \in Stores(t) /\ t.SQ[x] = s.SQ[x]
      BY <1>2, <3>1, <3>2
    <3> QED BY <3>1, <3>3 DEF StoreAt
  <2>2. ASSUME NEW x \in StoreAt(t, a, b) PROVE x \in StoreAt(s, a, b)
    BY <1>2 DEF StoreAt
  <2> QED BY <2>1, <2>2
<1>12. 0 # COMPLETED
  BY DEF COMPLETED
<1>13. StoreAt(t, 0, 0) = StoreAt(s, 0, 0) /\ StoreAt(t, COMPLETED, 0) = StoreAt(s, COMPLETED, 0) /\ StoreAt(t, INFLIGHT, 0) = StoreAt(s, INFLIGHT, 0)
  BY <1>11, <1>12
<1>14. StoreStages(t)
  <2> SUFFICES ASSUME NEW x \in Stores(t)
               PROVE  x \in StoreAt(t, 0, 0) \cup StoreAt(t, INFLIGHT, 0) \cup StoreAt(t, COMPLETED, 0) \cup StoreAt(t, COMPLETED, COMPLETED)
    BY <1>0, <1>3, <1>13 DEF StoreStages
  <2>1. x \in Stores(s) /\ t.SQ[x] = s.SQ[x]
    BY <1>2
  <2>2. x \in StoreAt(s, 0, 0) \cup StoreAt(s, INFLIGHT, 0) \cup StoreAt(s, COMPLETED, 0) \cup StoreAt(s, COMPLETED, COMPLETED)
    BY <1>0, <2>1 DEF StoreStages
  <2>3. x \in StoreAt(s, COMPLETED, COMPLETED) => x \in StoreAt(t, COMPLETED, COMPLETED)
    BY <2>1 DEF StoreAt
  <2> QED BY <1>13, <2>2, <2>3
<1>15. Translating(t)
  BY <1>0, <1>3, <1>10, <1>13 DEF Translating
<1> QED BY <1>6, <1>7, <1>8, <1>9, <1>10, <1>14, <1>15 DEF Rings, Places

(* The step of the abstract specification, of two records.                 *)
Advances(s, t) ==
  /\ t.program = s.program /\ s.retired < Len(s.program) /\ t.retired = s.retired + 1
  /\ {o \in t.seen : o.id <= t.retired}
       = {o \in s.seen : o.id <= s.retired} \cup
         {[id |-> s.retired + 1, op |-> j, from |-> s.memory[s.program[s.retired + 1].loads[j]]] :
            j \in DOMAIN s.program[s.retired + 1].loads}
  /\ t.memory = [a \in Addr |-> IF a \in Range(s.program[s.retired + 1].stores) THEN s.retired + 1 ELSE s.memory[a]]

LEMMA LeftAdvances ==
  ASSUME NEW s, NEW R, R = {}, LsqInv(s, R), NEW h, NEW n, NEW c, Leaves(s, h, n, c), NEW t, Left(s, t, h, n, c)
  PROVE  Advances(s, t)
<1>0. /\ Order(s) /\ Tables(s) /\ MemoryLast(s) /\ SeenSound(s) /\ SeenAll(s)
  BY LsqShape
<1>1. /\ h \in Rob(s) /\ s.ROB[h].id = n /\ n \in Nat /\ n \in DOMAIN s.program /\ Code(s, h) = c
      /\ \A j \in DOMAIN c.loads : s.ROB[h].lq[j] # NoIndex /\ ~InQueue(s, h, j)
  BY HeadDone
<1>2. n = s.retired + 1 /\ c = s.program[n] /\ h = s.head /\ s.ROB[h].id # NoId
  BY DEF Leaves
<1>3. s.retired < Len(s.program) /\ s.retired \in Nat
  BY <1>0, <1>2, HeadIs
<1>4. /\ t.program = s.program /\ t.seen = s.seen /\ t.retired = n
      /\ t.memory = [a \in Addr |-> IF a \in Range(c.stores) THEN n ELSE s.memory[a]]
  BY DEF Left, StateFields
<1> DEFINE new == {[id |-> n, op |-> j, from |-> s.memory[c.loads[j]]] : j \in DOMAIN c.loads}
<1>5. ASSUME NEW o \in s.seen
      PROVE  /\ o = [id |-> o.id, op |-> o.op, from |-> o.from] /\ o.id \in Nat /\ o.from \in Nat
             /\ o.op \in DOMAIN s.program[o.id].loads
             /\ LastStore(s.program, o.from, o.id, s.program[o.id].loads[o.op])
  <2>1. o.id \in 1 .. s.dispatched /\ s.dispatched \in Nat
    BY <1>0, OrderCounts DEF SeenSound
  <2> QED BY <1>0, <2>1 DEF SeenSound
<1>6. \A j \in DOMAIN c.loads :
        /\ c.loads[j] \in Addr /\ s.memory[c.loads[j]] \in Nat
        /\ LastStore(s.program, s.memory[c.loads[j]], n, c.loads[j])
  <2>1. c.loads \in Seq(Addr)
    BY <1>0, <1>1, <1>2, InstrIs
  <2>2. \A j \in DOMAIN c.loads : c.loads[j] \in Addr
    BY <2>1
  <2>3. s.memory \in [Addr -> Nat]
    BY <1>0 DEF Tables
  <2> QED BY Zenon, <1>0, <1>2, <2>2, <2>3 DEF MemoryLast
<1>7. ASSUME NEW o \in s.seen, o.id = n PROVE o \in new
  <2>1. o.op \in DOMAIN c.loads /\ LastStore(s.program, o.from, n, c.loads[o.op]) /\ o.from \in Nat
    BY <1>2, <1>5, <1>7
  <2>2. o.from = s.memory[c.loads[o.op]]
    BY <1>1, <1>6, <2>1, LastStoreOne
  <2> QED BY Zenon, <1>5, <1>7, <2>1, <2>2
<1>8. ASSUME NEW j \in DOMAIN c.loads
      PROVE  [id |-> n, op |-> j, from |-> s.memory[c.loads[j]]] \in s.seen
  <2>1. PICK o \in s.seen : o.id = n /\ o.op = j
    BY <1>0, <1>1 DEF SeenAll
  <2>2. PICK k \in DOMAIN c.loads : o = [id |-> n, op |-> k, from |-> s.memory[c.loads[k]]]
    BY <1>7, <2>1
  <2>3. k = j
    BY <2>1, <2>2
  <2> QED BY <2>2, <2>3
<1>9. \A o \in s.seen : o.id <= n <=> o.id <= s.retired \/ o.id = n
  BY <1>2, <1>3, <1>5
<1>10. \A y : y \in {o \in s.seen : o.id <= n} <=> y \in {o \in s.seen : o.id <= s.retired} \cup new
  <2>1. \A o \in new : o \in s.seen /\ o.id = n
    BY <1>8
  <2> HIDE DEF new
  <2> QED BY <1>7, <1>9, <2>1
<1>11. {o \in s.seen : o.id <= n} = {o \in s.seen : o.id <= s.retired} \cup new
  BY <1>10
<1> QED BY <1>2, <1>3, <1>4, <1>11 DEF Advances

LEMMA LeftLsq ==
  ASSUME NEW s, NEW R, R = {}, LsqInv(s, R), NEW h, NEW n, NEW c, Leaves(s, h, n, c), NEW t, Left(s, t, h, n, c),
         s.wq + Len(c.stores) <= WQ_SIZE
  PROVE  LsqInv(t, R) /\ t.asserts = s.asserts /\ Advances(s, t) /\ (SeenExecuted(s) => SeenExecuted(t))
<1>1. Held2(t) /\ t.asserts = s.asserts
  BY LeftHeld
<1>2. Flow(t) /\ Awaited(t, R)
  BY LeftFlow
<1>3. Rings(t) /\ Counted(t) /\ Tallied(t) /\ Places(t)
  BY LeftCounts
<1>4. Advances(s, t)
  BY LeftAdvances
<1>5. LsqInv(t, R)
  BY <1>1, <1>2, <1>3 DEF LsqInv
<1>6. ASSUME SeenExecuted(s) PROVE SeenExecuted(t)
  <2>1. /\ Rob(t) = Rob(s) \ {h}
        /\ \A p \in Rob(t) : t.ROB[p] = s.ROB[p] /\ Code(t, p) = Code(s, p)
        /\ \A p \in Rob(t) : \A k \in DOMAIN Code(s, p).stores : Executed(t, p, k) <=> Executed(s, p, k)
    BY LeftViews
  <2>2. t.program = s.program /\ t.seen = s.seen
    BY DEF Left, StateFields
  <2> SUFFICES ASSUME NEW o \in s.seen, NEW p \in Rob(t), t.ROB[p].id = o.from
               PROVE  \E k \in DOMAIN Code(t, p).stores :
                        Code(t, p).stores[k] = s.program[o.id].loads[o.op] /\ Executed(t, p, k)
    BY <2>2 DEF SeenExecuted
  <2>3. p \in Rob(s) /\ s.ROB[p].id = o.from
    BY <2>1
  <2>4. PICK k \in DOMAIN Code(s, p).stores : Code(s, p).stores[k] = s.program[o.id].loads[o.op] /\ Executed(s, p, k)
    BY <1>6, <2>3 DEF SeenExecuted
  <2> QED BY <2>1, <2>4
<1> QED BY <1>1, <1>4, <1>5, <1>6

-------------------------------------------------------------------------------
(* The actions.                                                            *)

LEMMA StateAll ==
  /\ DOMAIN State = StateFields
  /\ State.program = program /\ State.ROB = ROB /\ State.head = head /\ State.tail = tail
  /\ State.next_schedule = next_schedule /\ State.LQ = LQ /\ State.SQ = SQ /\ State.sq_tail = sq_tail
  /\ State.STA = STA /\ State.RTE0 = RTE0 /\ State.RTE1 = RTE1 /\ State.RTL0 = RTL0 /\ State.RTL1 = RTL1
  /\ State.RTS0 = RTS0 /\ State.RTS1 = RTS1 /\ State.dtlb = dtlb /\ State.l1d = l1d /\ State.wq = wq
  /\ State.inflight_reg = inflight_reg /\ State.inflight_mem = inflight_mem
  /\ State.dispatched = dispatched /\ State.retired = retired /\ State.memory = memory
  /\ State.seen = seen /\ State.asserts = asserts
BY DEF State, StateFields

LEMMA BecomeState ==
  ASSUME NEW S, BecomeOneOf(S), \A u \in S : u.program = program
  PROVE  /\ asserts = {} /\ program' = program
         /\ \E u \in S : DOMAIN State' = StateFields /\ \A g \in StateFields : State'[g] = u[g]
<1>1. PICK u \in S :
       /\ ROB' = u.ROB /\ head' = u.head /\ tail' = u.tail /\ next_schedule' = u.next_schedule
       /\ LQ' = u.LQ /\ SQ' = u.SQ /\ sq_tail' = u.sq_tail /\ STA' = u.STA
       /\ RTE0' = u.RTE0 /\ RTE1' = u.RTE1 /\ RTL0' = u.RTL0 /\ RTL1' = u.RTL1
       /\ RTS0' = u.RTS0 /\ RTS1' = u.RTS1 /\ dtlb' = u.dtlb /\ l1d' = u.l1d /\ wq' = u.wq
       /\ inflight_reg' = u.inflight_reg /\ inflight_mem' = u.inflight_mem
       /\ dispatched' = u.dispatched /\ retired' = u.retired /\ memory' = u.memory
       /\ seen' = u.seen /\ asserts' = u.asserts
  BY DEF BecomeOneOf
<1>2. asserts = {} /\ program' = program /\ u.program = program
  BY DEF BecomeOneOf
<1>3. DOMAIN State' = StateFields
  BY DEF State, StateFields
<1>4. \A g \in StateFields : State'[g] = u[g]
  BY <1>1, <1>2 DEF State, StateFields
<1> QED BY <1>2, <1>3, <1>4

InView == << program, retired, memory, {o \in seen : o.id <= retired} >>

LEMMA ExcusedIs ==
  /\ Excused = ExcusedIn(State)
  /\ asserts = {} => Excused = {}
BY StateAll DEF Excused, ExcusedIn

(* A step that is one of the record is one of the variables.               *)
LEMMA StepIs ==
  ASSUME NEW u, NEW R, LsqInv(u, R), DOMAIN State' = StateFields, \A g \in StateFields : State'[g] = u[g]
  PROVE  /\ LsqInv(State', R) /\ (SeenExecuted(u) => SeenExecuted(State'))
         /\ asserts' = u.asserts /\ program' = u.program /\ retired' = u.retired
         /\ memory' = u.memory /\ seen' = u.seen
<1>1. LsqInv(State', R) /\ (SeenExecuted(u) => SeenExecuted(State'))
  BY FieldsKeep
<1>2. /\ State'.asserts = u.asserts /\ State'.program = u.program /\ State'.retired = u.retired
      /\ State'.memory = u.memory /\ State'.seen = u.seen
  BY DEF StateFields
<1>3. /\ State'.asserts = asserts' /\ State'.program = program' /\ State'.retired = retired'
      /\ State'.memory = memory' /\ State'.seen = seen'
  BY DEF State
<1> QED BY <1>1, <1>2, <1>3

LEMMA FollowsStep ==
  ASSUME NEW S, BecomeOneOf(S), \A u \in S : Follows(State, u)
  PROVE  MemInv' /\ (ApartInv => ApartInv') /\ UNCHANGED InView
<1>1. \A u \in S : u.program = program
  BY StateAll DEF Follows, SameView
<1>2. PICK u \in S : DOMAIN State' = StateFields /\ \A g \in StateFields : State'[g] = u[g]
  BY <1>1, BecomeState
<1>3. /\ LsqInv(u, ExcusedIn(u)) /\ SameView(State, u)
      /\ StoresApart /\ SeenExecuted(State) => u.asserts = {} /\ SeenExecuted(u)
  BY DEF Follows
<1>4. /\ LsqInv(State', ExcusedIn(u)) /\ (SeenExecuted(u) => SeenExecuted(State'))
      /\ asserts' = u.asserts /\ program' = u.program /\ retired' = u.retired
      /\ memory' = u.memory /\ seen' = u.seen
  BY <1>2, <1>3, StepIs
<1>5. Excused' = ExcusedIn(u)
  BY <1>4 DEF Excused, ExcusedIn
<1>6. LsqInv(State', Excused')
  BY <1>4, <1>5
<1>7. MemInv'
  BY <1>6 DEF MemInv
<1>8. ApartInv => ApartInv'
  BY <1>3, <1>4 DEF ApartInv
<1>9. UNCHANGED InView
  BY <1>3, <1>4, StateAll DEF SameView, InView
<1> QED BY <1>7, <1>8, <1>9

LEMMA BecomeFollows ==
  ASSUME NEW t, Become(t), Follows(State, t)
  PROVE  MemInv' /\ (ApartInv => ApartInv') /\ UNCHANGED InView
BY FollowsStep DEF Become

LEMMA BecomeRunning ==
  ASSUME NEW S, BecomeOneOf(S), MemInv
  PROVE  State.asserts = {} /\ LsqInv(State, {})
BY StateAll, ExcusedIs DEF BecomeOneOf, MemInv

LEMMA BecomeCalm ==
  ASSUME NEW t, Become(t), MemInv, LsqInv(t, {}), Calm(State, t), SeenExecuted(State) => SeenExecuted(t)
  PROVE  MemInv' /\ (ApartInv => ApartInv') /\ UNCHANGED InView
<1>1. State.asserts = {}
  BY BecomeRunning DEF Become
<1>2. Follows(State, t)
  BY <1>1, CalmFollows
<1> QED BY <1>2, BecomeFollows

LEMMA OperateLsqMem ==
  ASSUME MemInv, OperateLsq
  PROVE  MemInv' /\ (ApartInv => ApartInv') /\ UNCHANGED InView
<1>1. CASE RTS0 # << >> /\ Become(TranslateStore(State))
  <2>1. LsqInv(State, {}) /\ State.RTS0 # << >>
    BY <1>1, BecomeRunning, StateAll DEF Become
  <2>2. /\ LsqInv(TranslateStore(State), {}) /\ Calm(State, TranslateStore(State))
        /\ (SeenExecuted(State) => SeenExecuted(TranslateStore(State)))
    BY <2>1, TranslateStoreLsq
  <2> QED BY <1>1, <2>2, BecomeCalm
<1>2. CASE RTS1 # << >> /\ BecomeOneOf(ExecuteStore(State))
  <2>1. LsqInv(State, {}) /\ State.asserts = {} /\ State.RTS1 # << >>
    BY <1>2, BecomeRunning, StateAll
  <2>2. \A u \in ExecuteStore(State) : Follows(State, u)
    BY <2>1, ExecuteStoreLsq
  <2> QED BY <1>2, <2>2, FollowsStep
<1>3. CASE RTL0 # << >> /\ Become(TranslateLoad(State))
  <2>1. LsqInv(State, {}) /\ State.RTL0 # << >>
    BY <1>3, BecomeRunning, StateAll DEF Become
  <2>2. /\ LsqInv(TranslateLoad(State), {}) /\ Calm(State, TranslateLoad(State))
        /\ (SeenExecuted(State) => SeenExecuted(TranslateLoad(State)))
    BY <2>1, TranslateLoadLsq
  <2> QED BY <1>3, <2>2, BecomeCalm
<1>4. CASE RTL1 # << >> /\ Become(ExecuteLoad(State))
  <2>1. LsqInv(State, {}) /\ State.RTL1 # << >>
    BY <1>4, BecomeRunning, StateAll DEF Become
  <2>2. /\ LsqInv(ExecuteLoad(State), {}) /\ Calm(State, ExecuteLoad(State))
        /\ (SeenExecuted(State) => SeenExecuted(ExecuteLoad(State)))
    BY <2>1, ExecuteLoadLsq
  <2> QED BY <1>4, <2>2, BecomeCalm
<1> QED BY <1>1, <1>2, <1>3, <1>4 DEF OperateLsq

LEMMA CompleteTranslationMem ==
  ASSUME MemInv, CompleteTranslation
  PROVE  MemInv' /\ (ApartInv => ApartInv') /\ UNCHANGED InView
<1>1. PICK r \in dtlb : Become(Translated(State, r))
  BY DEF CompleteTranslation
<1>2. LsqInv(State, {}) /\ r \in State.dtlb
  BY <1>1, BecomeRunning, StateAll DEF Become
<1>3. /\ LsqInv(Translated(State, r), {}) /\ Calm(State, Translated(State, r))
      /\ (SeenExecuted(State) => SeenExecuted(Translated(State, r)))
  BY <1>2, TranslatedLsq
<1> QED BY <1>1, <1>3, BecomeCalm

LEMMA CompleteDataFetchMem ==
  ASSUME MemInv, CompleteDataFetch
  PROVE  MemInv' /\ (ApartInv => ApartInv') /\ UNCHANGED InView
<1>1. PICK q \in l1d : Become(Fetched(State, q))
  BY DEF CompleteDataFetch
<1>2. LsqInv(State, {}) /\ State.asserts = {} /\ q \in State.l1d
  BY <1>1, BecomeRunning, StateAll DEF Become
<1>3. Follows(State, Fetched(State, q))
  BY <1>2, FetchedLsq
<1> QED BY <1>1, <1>3, BecomeFollows

LEMMA ScheduleMemoryMem ==
  ASSUME RobInv, MemInv, ScheduleMemoryInstruction
  PROVE  MemInv' /\ (ApartInv => ApartInv') /\ UNCHANGED InView
<1>1. PICK L \in Loops : \E i \in L : Adds(i) /\ BecomeOneOf(DoMemoryScheduling(State, i))
  BY DEF ScheduleMemoryInstruction
<1>2. PICK i \in L : Adds(i) /\ BecomeOneOf(DoMemoryScheduling(State, i))
  BY <1>1
<1>3. IsMemory(State, i)
  BY <1>2 DEF Adds, Eligible
<1>4. i \in Slots
  <2>1. head \in Slots /\ next_schedule \in Slots
    BY DEF RobInv, Types
  <2>2. head .. next_schedule - 1 \subseteq Slots /\ head .. ROB_SIZE - 1 \subseteq Slots /\ 0 .. next_schedule - 1 \subseteq Slots
    BY <2>1, SlotIs, Size DEF Slots
  <2> QED BY <1>2, <2>2 DEF Loops
<1>5. i \in Rob(State)
  BY <1>3, <1>4 DEF IsMemory, Rob
<1>6. LsqInv(State, {}) /\ State.asserts = {}
  BY <1>2, BecomeRunning
<1>7. \A u \in DoMemoryScheduling(State, i) : Follows(State, u)
  BY <1>3, <1>5, <1>6, DoMemorySchedulingLsq
<1> QED BY <1>2, <1>7, FollowsStep

(* What scheduling leaves alone.                                           *)
SameWork(s, t) ==
  /\ DOMAIN t.ROB = Slots
  /\ \A p \in Slots : SameOps(s.ROB[p], t.ROB[p]) /\ t.ROB[p].executed = s.ROB[p].executed

LEMMA RegDependencyWork ==
  ASSUME NEW s, Shaped(s), NEW i
  PROVE  /\ DOMAIN RegDependency(s, i) = StateFields /\ SameWork(s, RegDependency(s, i))
         /\ \A g \in StateFields \ {"ROB"} : RegDependency(s, i)[g] = s[g]
<1> DEFINE t == RegDependency(s, i)
           a == Depends(s, i) = {}
           b == Cardinality(Depends(s, i))
           d(p) == {<< i, r >> : r \in {r \in Depends(s, i) : RegProducer(s, i, r) = p}}
           M == [p \in Slots |->
                   IF p = i THEN [s.ROB[i] EXCEPT !.reg_ready = a, !.num_reg_dependent = b]
                   ELSE [s.ROB[p] EXCEPT !.reg_deps = @ \cup d(p)]]
<1>1. t = [s EXCEPT !.ROB = M]
  BY DEF RegDependency
<1> HIDE DEF t, M
<1>2. DOMAIN s = StateFields /\ \A p \in Slots : DOMAIN s.ROB[p] = EntryFields
  BY DEF Shaped
<1>3. DOMAIN t = StateFields /\ t.ROB = M /\ \A g \in StateFields \ {"ROB"} : t[g] = s[g]
  BY <1>1, <1>2 DEF StateFields
<1>4. DOMAIN M = Slots
  BY DEF M
<1>5. ASSUME NEW p \in Slots PROVE SameOps(s.ROB[p], M[p]) /\ M[p].executed = s.ROB[p].executed
  <2>1. CASE p = i
    <3>1. M[p] = [s.ROB[p] EXCEPT !.reg_ready = a, !.num_reg_dependent = b]
      BY <2>1 DEF M
    <3> HIDE DEF a, b
    <3> QED BY <1>2, <3>1 DEF SameOps, EntryFields, EmptyEntry
  <2>2. CASE p # i
    <3>1. M[p] = [s.ROB[p] EXCEPT !.reg_deps = @ \cup d(p)]
      BY <2>2 DEF M
    <3> HIDE DEF d
    <3> QED BY <1>2, <3>1 DEF SameOps, EntryFields, EmptyEntry
  <2> QED BY <2>1, <2>2
<1> QED BY <1>3, <1>4, <1>5 DEF SameWork, t

LEMMA DoSchedulingWork ==
  ASSUME NEW s, Shaped(s), NEW i \in Slots, NEW u, u = DoScheduling(s, i)
  PROVE  /\ DOMAIN u = StateFields /\ SameWork(s, u)
         /\ \A g \in StateFields \ {"ROB", "next_schedule", "RTE1"} : u[g] = s[g]
<1> DEFINE r == RegDependency(s, i)
           n == (i + 1) % ROB_SIZE
           t == [r EXCEPT !.next_schedule = n]
           m == [t EXCEPT !.ROB[i].scheduled = INFLIGHT]
           e == IF t.ROB[i].reg_ready THEN Append(t.RTE1, i) ELSE t.RTE1
           a == [t EXCEPT !.ROB[i].scheduled = COMPLETED,
                          !.RTE1 = IF t.ROB[i].reg_ready THEN Append(@, i) ELSE @]
<1>1. u = IF IsMemory(s, i) THEN m ELSE a
  BY DEF DoScheduling
<1>2. DOMAIN r = StateFields /\ SameWork(s, r) /\ \A g \in StateFields \ {"ROB"} : r[g] = s[g]
  BY RegDependencyWork
<1> HIDE DEF r, n
<1>3. DOMAIN t = StateFields /\ \A g \in StateFields \ {"next_schedule"} : t[g] = r[g]
  BY <1>2 DEF StateFields
<1>4. a = [t EXCEPT !.ROB[i].scheduled = COMPLETED, !.RTE1 = e]
  BY <1>3 DEF StateFields
<1> HIDE DEF e, t
<1>5. /\ DOMAIN m = StateFields /\ m.ROB = [t.ROB EXCEPT ![i] = [@ EXCEPT !.scheduled = INFLIGHT]]
      /\ \A g \in StateFields \ {"ROB"} : m[g] = t[g]
  BY <1>3 DEF StateFields
<1>6. /\ DOMAIN a = StateFields /\ a.ROB = [t.ROB EXCEPT ![i] = [@ EXCEPT !.scheduled = COMPLETED]]
      /\ \A g \in StateFields \ {"ROB", "RTE1"} : a[g] = t[g]
  BY <1>3, <1>4 DEF StateFields
<1> HIDE DEF a, m
<1>7. SameWork(s, t)
  BY <1>2, <1>3 DEF SameWork, StateFields
<1>8. ASSUME NEW v, NEW w, DOMAIN w = StateFields, w.ROB = [t.ROB EXCEPT ![i] = [@ EXCEPT !.scheduled = v]]
      PROVE  SameWork(s, w)
  <2>1. DOMAIN w.ROB = Slots
    BY <1>7, <1>8 DEF SameWork
  <2>2. ASSUME NEW p \in Slots PROVE SameOps(s.ROB[p], w.ROB[p]) /\ w.ROB[p].executed = s.ROB[p].executed
    <3>1. SameOps(s.ROB[p], t.ROB[p]) /\ t.ROB[p].executed = s.ROB[p].executed /\ DOMAIN t.ROB = Slots
      BY <1>7 DEF SameWork
    <3>2. CASE p = i
      <4>1. w.ROB[p] = [t.ROB[p] EXCEPT !.scheduled = v]
        BY <1>8, <3>1, <3>2
      <4>2. DOMAIN t.ROB[p] = EntryFields
        BY <3>1 DEF SameOps
      <4> QED BY <3>1, <4>1, <4>2 DEF SameOps, EntryFields, EmptyEntry
    <3>3. CASE p # i
      <4>1. w.ROB[p] = t.ROB[p]
        BY <1>8, <3>1, <3>3
      <4> QED BY <3>1, <4>1
    <3> QED BY <3>2, <3>3
  <2> QED BY <2>1, <2>2 DEF SameWork
<1>9. SameWork(s, m) /\ SameWork(s, a)
  BY <1>5, <1>6, <1>8
<1> QED BY <1>1, <1>2, <1>3, <1>5, <1>6, <1>9

LEMMA WorkLsq ==
  ASSUME NEW s, NEW R, LsqInv(s, R), NEW u, DOMAIN u = StateFields, SameWork(s, u),
         \A g \in StateFields \ {"ROB", "next_schedule", "RTE1", "wq"} : u[g] = s[g], u.wq \in 0 .. WQ_SIZE
  PROVE  LsqInv(u, R) /\ Calm(s, u) /\ (SeenExecuted(s) => SeenExecuted(u))
<1>1. Tallied(s)
  BY LsqShape
<1>2. u.program = s.program /\ u.inflight_reg = s.inflight_reg /\ u.inflight_mem = s.inflight_mem
  BY DEF StateFields
<1>3. DOMAIN u.ROB = Slots /\ \A p \in Slots : SameOps(s.ROB[p], u.ROB[p]) /\ u.ROB[p].executed = s.ROB[p].executed
  BY DEF SameWork
<1>4. \A p \in Slots : /\ u.ROB[p].id = s.ROB[p].id /\ u.ROB[p].executed = s.ROB[p].executed
                       /\ u.ROB[p].num_mem_ops = s.ROB[p].num_mem_ops
  BY <1>3 DEF SameOps
<1>5. Tallied(u)
  BY <1>1, <1>2, <1>4, TalliedSame
<1>6. \A g \in StateFields \ RobOnly : u[g] = s[g]
  BY DEF RobOnly
<1> QED BY <1>3, <1>5, <1>6, RobKeeps

LEMMA ScheduleInstructionMem ==
  ASSUME RobInv, MemInv, ScheduleInstruction
  PROVE  MemInv' /\ (ApartInv => ApartInv') /\ UNCHANGED InView
<1>1. PICK i \in head .. ROB_SIZE - 1 : Become(DoScheduling(State, i))
  BY DEF ScheduleInstruction
<1>2. i \in Slots
  <2>1. head \in Int /\ 0 <= head /\ ROB_SIZE - 1 \in Int
    BY SlotIs, Size DEF RobInv, Types
  <2> QED BY <2>1, SlotIs
<1> DEFINE u == DoScheduling(State, i)
<1>3. LsqInv(State, {})
  BY <1>1, BecomeRunning DEF Become
<1>4. Shaped(State) /\ Tables(State)
  BY <1>3, LsqShape
<1>5. /\ DOMAIN u = StateFields /\ SameWork(State, u)
      /\ \A g \in StateFields \ {"ROB", "next_schedule", "RTE1"} : u[g] = State[g]
  BY <1>2, <1>4, DoSchedulingWork
<1>6. Become(u)
  BY <1>1
<1> HIDE DEF u
<1>7. u.wq = State.wq /\ State.wq \in 0 .. WQ_SIZE
  BY <1>4, <1>5 DEF StateFields, Tables
<1>8. LsqInv(u, {}) /\ Calm(State, u) /\ (SeenExecuted(State) => SeenExecuted(u))
  BY <1>3, <1>5, <1>7, WorkLsq
<1> QED BY <1>6, <1>8, BecomeCalm

LEMMA DrainWqMem ==
  ASSUME MemInv, DrainWq
  PROVE  MemInv' /\ (ApartInv => ApartInv') /\ UNCHANGED InView
<1> DEFINE u == [State EXCEPT !.wq = @ - 1]
<1>1. Become(u) /\ wq > 0
  BY DEF DrainWq
<1>2. LsqInv(State, {})
  BY <1>1, BecomeRunning DEF Become
<1>3. Shaped(State) /\ Tables(State)
  BY <1>2, LsqShape
<1>4. wq \in 0 .. WQ_SIZE
  BY <1>3, StateAll DEF Tables
<1>5. DOMAIN u = StateFields /\ u.wq = wq - 1 /\ \A g \in StateFields \ {"wq"} : u[g] = State[g]
  BY StateAll DEF StateFields
<1> HIDE DEF u
<1>6. u.wq \in 0 .. WQ_SIZE
  BY <1>1, <1>4, <1>5, QueueSizes
<1>7. SameWork(State, u)
  <2>1. u.ROB = State.ROB
    BY <1>5 DEF StateFields
  <2> QED BY <1>3, <2>1 DEF SameWork, SameOps, Shaped
<1>8. LsqInv(u, {}) /\ Calm(State, u) /\ (SeenExecuted(State) => SeenExecuted(u))
  BY <1>2, <1>5, <1>6, <1>7, WorkLsq
<1> QED BY <1>1, <1>8, BecomeCalm

LEMMA ExecuteMem ==
  ASSUME RobInv, MemInv, NEW i, i \in Range(RTE0) \cup Range(RTE1), NEW u, Become(u),
         DOMAIN u = StateFields, \A g \in StateFields \ {"RTE0", "RTE1"} : u[g] = DoExecution(State, i)[g]
  PROVE  MemInv' /\ (ApartInv => ApartInv') /\ UNCHANGED InView
<1>1. LsqInv(State, {})
  BY BecomeRunning DEF Become
<1>2. i \in Slots /\ Waits(i)
  BY DEF RobInv, Queued
<1>3. i \in Rob(State) /\ ~IsMemory(State, i) /\ State.ROB[i].executed = 0
  <2>1. ROB[i].scheduled # 0
    BY <1>2 DEF Waits, COMPLETED
  <2>2. ROB[i].id # NoId
    BY <1>2, <2>1 DEF RobInv, Stages
  <2> QED BY <1>2, <2>2, StateAll, MemoryIs DEF Waits, Rob
<1> DEFINE d == DoExecution(State, i)
<1>4. /\ d.ROB = [State.ROB EXCEPT ![i] = [@ EXCEPT !["executed"] = INFLIGHT]]
      /\ d.inflight_reg = State.inflight_reg + 1
      /\ \A g \in StateFields \ {"ROB", "inflight_reg"} : d[g] = State[g]
  BY StateAll DEF DoExecution, StateFields
<1> HIDE DEF d
<1>5. /\ \A g \in StateFields \ {"ROB", "inflight_reg", "RTE0", "RTE1"} : u[g] = State[g]
      /\ u.ROB = [State.ROB EXCEPT ![i] = [@ EXCEPT !["executed"] = INFLIGHT]]
      /\ u.inflight_reg = State.inflight_reg + 1
  <2>1. \A g \in StateFields \ {"RTE0", "RTE1"} : u[g] = d[g]
    BY DEF d
  <2> QED BY <1>4, <2>1 DEF StateFields
<1>6. LsqInv(u, {}) /\ Calm(State, u) /\ (SeenExecuted(State) => SeenExecuted(u))
  BY <1>1, <1>3, <1>5, DoExecutionLsq
<1> QED BY <1>6, BecomeCalm

LEMMA ExecuteReleasedMem ==
  ASSUME RobInv, MemInv, ExecuteReleased
  PROVE  MemInv' /\ (ApartInv => ApartInv') /\ UNCHANGED InView
<1> DEFINE i == Head(RTE0)
           d == DoExecution(State, i)
           u == [d EXCEPT !.RTE0 = Tail(@)]
<1>1. RTE0 # << >> /\ Become(u)
  BY DEF ExecuteReleased
<1>2. i \in Range(RTE0)
  <2>1. RTE0 \in Seq(Slots) /\ IsInjective(RTE0)
    BY DEF RobInv, Queued
  <2> QED BY <1>1, <2>1, TakeHead
<1>3. DOMAIN d = StateFields
  BY StateAll DEF DoExecution
<1> HIDE DEF i
<1>4. DOMAIN u = StateFields /\ \A g \in StateFields \ {"RTE0", "RTE1"} : u[g] = d[g]
  BY <1>3
<1> QED BY <1>1, <1>2, <1>4, ExecuteMem

LEMMA ExecuteReadyMem ==
  ASSUME RobInv, MemInv, ExecuteReady
  PROVE  MemInv' /\ (ApartInv => ApartInv') /\ UNCHANGED InView
<1> DEFINE i == Head(RTE1)
           d == DoExecution(State, i)
           u == [d EXCEPT !.RTE1 = Tail(@)]
<1>1. RTE1 # << >> /\ Become(u)
  BY DEF ExecuteReady
<1>2. i \in Range(RTE1)
  <2>1. RTE1 \in Seq(Slots) /\ IsInjective(RTE1)
    BY DEF RobInv, Queued
  <2> QED BY <1>1, <2>1, TakeHead
<1>3. DOMAIN d = StateFields
  BY StateAll DEF DoExecution
<1> HIDE DEF i
<1>4. DOMAIN u = StateFields /\ \A g \in StateFields \ {"RTE0", "RTE1"} : u[g] = d[g]
  BY <1>3
<1> QED BY <1>1, <1>2, <1>4, ExecuteMem

LEMMA ReleaseWork ==
  ASSUME NEW s, Shaped(s), NEW i
  PROVE  /\ DOMAIN RegRawRelease(s, i) = StateFields /\ SameWork(s, RegRawRelease(s, i))
         /\ \A g \in StateFields \ {"ROB", "RTE0"} : RegRawRelease(s, i)[g] = s[g]
<1> DEFINE t == RegRawRelease(s, i)
           a(d) == s.ROB[d].num_reg_dependent - Released(s, i, d)
           b(d) == s.ROB[d].reg_ready \/ d \in Freed(s, i)
           c(d) == IF d \notin Freed(s, i) THEN s.ROB[d].scheduled ELSE IF IsMemory(s, d) THEN INFLIGHT ELSE COMPLETED
           M == [d \in Slots |->
                [s.ROB[d] EXCEPT
                   !.num_reg_dependent = @ - Released(s, i, d),
                   !.reg_ready = @ \/ d \in Freed(s, i),
                   !.scheduled = IF d \notin Freed(s, i) THEN @
                                 ELSE IF IsMemory(s, d) THEN INFLIGHT ELSE COMPLETED]]
           w == s.RTE0 \o InSlotOrder({d \in Freed(s, i) : ~IsMemory(s, d)})
<1>1. DOMAIN s = StateFields /\ \A p \in Slots : DOMAIN s.ROB[p] = EntryFields
  BY DEF Shaped
<1>2. t = [s EXCEPT !.ROB = M, !.RTE0 = w]
  BY <1>1 DEF RegRawRelease, StateFields
<1> HIDE DEF t, M, w
<1>3. DOMAIN t = StateFields /\ t.ROB = M /\ \A g \in StateFields \ {"ROB", "RTE0"} : t[g] = s[g]
  BY <1>1, <1>2 DEF StateFields
<1>4. DOMAIN M = Slots
  BY DEF M
<1>5. ASSUME NEW p \in Slots PROVE SameOps(s.ROB[p], M[p]) /\ M[p].executed = s.ROB[p].executed
  <2>1. M[p] = [s.ROB[p] EXCEPT !.num_reg_dependent = a(p), !.reg_ready = b(p), !.scheduled = c(p)]
    BY <1>1 DEF M, EntryFields, EmptyEntry
  <2> HIDE DEF a, b, c
  <2> QED BY <1>1, <2>1 DEF SameOps, EntryFields, EmptyEntry
<1> QED BY <1>3, <1>4, <1>5 DEF SameWork, t

LEMMA CompleteExecutionMem ==
  ASSUME RobInv, MemInv, NEW i \in Slots, CompleteExecution(i)
  PROVE  MemInv' /\ (ApartInv => ApartInv') /\ UNCHANGED InView
<1> DEFINE s == [State EXCEPT !.ROB[i].executed = COMPLETED]
           m == [s EXCEPT !.inflight_mem = @ - 1]
           a == [s EXCEPT !.inflight_reg = @ - 1]
           x == IF IsMemory(State, i) THEN m ELSE a
           u == RegRawRelease(x, i)
<1>1. ROB[i].executed = INFLIGHT /\ (IsMemory(State, i) => ROB[i].num_mem_ops = 0) /\ Become(u)
  BY DEF CompleteExecution
<1>2. LsqInv(State, {})
  BY <1>1, BecomeRunning DEF Become
<1>3. Shaped(State)
  BY <1>2, LsqShape
<1>4. DOMAIN s = StateFields /\ s.ROB = [ROB EXCEPT ![i] = [@ EXCEPT !.executed = COMPLETED]]
      /\ \A g \in StateFields \ {"ROB"} : s[g] = State[g]
  BY StateAll DEF StateFields
<1> HIDE DEF s
<1>5. /\ DOMAIN m = StateFields /\ m.inflight_mem = State.inflight_mem - 1
      /\ \A g \in StateFields \ {"inflight_mem"} : m[g] = s[g]
      /\ DOMAIN a = StateFields /\ a.inflight_reg = State.inflight_reg - 1
      /\ \A g \in StateFields \ {"inflight_reg"} : a[g] = s[g]
  BY <1>4 DEF StateFields
<1> HIDE DEF m, a
<1>6. /\ DOMAIN x = StateFields /\ x.ROB = s.ROB
      /\ x.inflight_mem = State.inflight_mem - (IF IsMemory(State, i) THEN 1 ELSE 0)
      /\ x.inflight_reg = State.inflight_reg - (IF IsMemory(State, i) THEN 0 ELSE 1)
      /\ \A g \in StateFields \ {"ROB", "inflight_mem", "inflight_reg"} : x[g] = State[g]
  <2>1. State.inflight_mem - 0 = State.inflight_mem /\ State.inflight_reg - 0 = State.inflight_reg
    <3>1. Tallied(State) /\ Cardinality(ToComplete(State)) \in Nat /\ Cardinality(Executing(State)) \in Nat
      BY <1>2, LsqShape, RobFinite
    <3>2. State.inflight_mem \in Nat /\ State.inflight_reg \in Nat
      BY <3>1 DEF Tallied
    <3> QED BY <3>2
  <2>2. CASE IsMemory(State, i)
    BY <1>4, <1>5, <2>1, <2>2 DEF StateFields
  <2>3. CASE ~IsMemory(State, i)
    BY <1>4, <1>5, <2>1, <2>3 DEF StateFields
  <2> QED BY <2>2, <2>3
<1> HIDE DEF x
<1>7. ASSUME NEW p \in Slots
      PROVE  /\ DOMAIN x.ROB[p] = EntryFields /\ SameOps(State.ROB[p], x.ROB[p])
             /\ x.ROB[p].executed = IF p = i THEN COMPLETED ELSE State.ROB[p].executed
  <2>1. DOMAIN ROB = Slots /\ DOMAIN ROB[p] = EntryFields /\ State.ROB = ROB
    BY <1>3, StateAll DEF Shaped
  <2>2. CASE p = i
    <3>1. x.ROB[p] = [ROB[p] EXCEPT !.executed = COMPLETED]
      BY <1>4, <1>6, <2>1, <2>2
    <3> QED BY <2>1, <2>2, <3>1 DEF SameOps, EntryFields, EmptyEntry
  <2>3. CASE p # i
    <3>1. x.ROB[p] = ROB[p]
      BY <1>4, <1>6, <2>1, <2>3
    <3> QED BY <2>1, <2>3, <3>1 DEF SameOps
  <2> QED BY <2>2, <2>3
<1>8. Shaped(x)
  <2>1. DOMAIN x.ROB = Slots
    BY <1>3, <1>4, <1>6, StateAll DEF Shaped
  <2> QED BY <1>6, <1>7, <2>1 DEF Shaped
<1>9. DOMAIN u = StateFields /\ SameWork(x, u) /\ \A g \in StateFields \ {"ROB", "RTE0"} : u[g] = x[g]
  BY <1>8, ReleaseWork
<1>10. Become(u)
  BY <1>1
<1> HIDE DEF u
<1>11. \A p \in Slots : /\ SameOps(State.ROB[p], u.ROB[p])
                        /\ u.ROB[p].executed = IF p = i THEN COMPLETED ELSE State.ROB[p].executed
  BY <1>7, <1>9 DEF SameWork, SameOps
<1>12. DOMAIN u.ROB = Slots
  BY <1>9 DEF SameWork
<1>13. \A g \in StateFields \ RobOnly : u[g] = State[g]
  BY <1>6, <1>9 DEF RobOnly
<1>14. /\ u.wq = State.wq /\ u.inflight_mem = x.inflight_mem /\ u.inflight_reg = x.inflight_reg
  BY <1>6, <1>9 DEF StateFields
<1>15. i \in Rob(State)
  <2>1. ROB[i].executed # 0
    BY <1>1 DEF INFLIGHT
  <2>2. ROB[i].id # NoId
    BY <2>1 DEF RobInv, Stages
  <2> QED BY <2>2, StateAll DEF Rob
<1>16. State.ROB[i].executed = INFLIGHT /\ (IsMemory(State, i) => State.ROB[i].num_mem_ops = 0)
  BY <1>1, StateAll
<1>17. LsqInv(u, {}) /\ Calm(State, u) /\ (SeenExecuted(State) => SeenExecuted(u))
  BY <1>2, <1>6, <1>9, <1>11, <1>12, <1>13, <1>14, <1>15, <1>16, CompletionLsq
<1> QED BY <1>10, <1>17, BecomeCalm

LEMMA DispatchMem ==
  ASSUME RobInv, MemInv, Dispatch
  PROVE  MemInv' /\ (ApartInv => ApartInv') /\ UNCHANGED InView
<1> DEFINE u == AddToRob(State)
           n == State.dispatched + 1
           c == State.program[n]
           k == State.tail
<1>1. dispatched < Len(program) /\ ROB[tail].id = NoId /\ Become(u)
  BY DEF Dispatch
<1>2. LsqInv(State, {}) /\ State.asserts = {}
  BY <1>1, BecomeRunning DEF Become
<1>3. Shaped(State)
  BY <1>2, LsqShape
<1>4. k = At(State.head, Count(State) + 1)
  BY StateAll DEF RobInv, Ring, Count, Held
<1>5. k \in Slots
  <2>1. Held \in Nat /\ Held <= ROB_SIZE /\ head \in Slots
    BY Held01 DEF RobInv
  <2>2. Held + 1 \in 1 .. ROB_SIZE + 1
    BY <2>1, Size
  <2>3. At(head, Held + 1) \in Slots
    BY <2>1, <2>2, AtSlots
  <2> QED BY <2>3, StateAll DEF RobInv, Ring
<1>6. Entered(State, u, k, n, c)
  BY <1>3, <1>5, AddToRobIs
<1>7. State.ROB[k].id = NoId /\ State.dispatched < Len(State.program)
  BY <1>1, StateAll
<1>8. Become(u)
  BY <1>1
<1> HIDE DEF u, n, c, k
<1>9. n = State.dispatched + 1 /\ c = State.program[n]
  BY DEF n, c
<1>10. /\ LsqInv(u, {}) /\ SameView(State, u) /\ u.asserts = State.asserts
       /\ SeenExecuted(State) => SeenExecuted(u)
  BY <1>2, <1>4, <1>6, <1>7, <1>9, EnteredLsq
<1>11. Follows(State, u)
  BY <1>2, <1>10 DEF Follows, ExcusedIn
<1> QED BY <1>8, <1>11, BecomeFollows

LEMMA RetireMem ==
  ASSUME MemInv, Retire
  PROVE  MemInv' /\ (ApartInv => ApartInv') /\ InOrder!Step
<1> DEFINE u == Retired(State)
           h == State.head
           n == State.retired + 1
           c == State.program[n]
           R == {}
<1>1. /\ ROB[head].id # NoId /\ ROB[head].executed = COMPLETED
      /\ wq + Len(Code(State, head).stores) <= WQ_SIZE /\ Become(u)
  BY DEF Retire
<1>2. LsqInv(State, R) /\ State.asserts = {}
  BY <1>1, BecomeRunning DEF Become
<1>3. Order(State) /\ Tables(State)
  BY <1>2, LsqShape
<1>4. State.ROB[h].id # NoId /\ State.ROB[h].executed = COMPLETED
  BY <1>1, StateAll
<1>5. Left(State, u, h, n, c)
  BY <1>3, <1>4, RetiredIs
<1>6. State.ROB[h].id = n
  BY <1>3, <1>4, HeadIs
<1>7. State.wq + Len(c.stores) <= WQ_SIZE
  BY <1>1, <1>6, StateAll DEF Code
<1>8. Become(u)
  BY <1>1
<1>9. Leaves(State, h, n, c)
  BY <1>4 DEF Leaves
<1> HIDE DEF u, h, n, c, R
<1>10. R = {}
  BY DEF R
<1>11. LsqInv(u, R) /\ u.asserts = State.asserts /\ Advances(State, u) /\ (SeenExecuted(State) => SeenExecuted(u))
  BY <1>2, <1>5, <1>7, <1>9, <1>10, LeftLsq
<1>12. u.program = program
  BY <1>11, StateAll DEF Advances
<1>13. DOMAIN State' = StateFields /\ \A g \in StateFields : State'[g] = u[g]
  BY <1>8, <1>12, BecomeState DEF Become
<1>14. /\ LsqInv(State', R) /\ (SeenExecuted(u) => SeenExecuted(State'))
       /\ asserts' = u.asserts /\ program' = u.program /\ retired' = u.retired
       /\ memory' = u.memory /\ seen' = u.seen
  BY <1>11, <1>13, StepIs
<1>15. asserts' = {}
  BY <1>2, <1>11, <1>14
<1>16. MemInv'
  <2>1. Excused' = {}
    BY <1>15 DEF Excused
  <2>2. LsqInv(State', Excused')
    BY <1>10, <1>14, <2>1
  <2> QED BY <2>2 DEF MemInv
<1>17. ApartInv => ApartInv'
  BY <1>11, <1>14, <1>15 DEF ApartInv
<1>18. InOrder!Step
  <2>1. /\ program' = program /\ retired < Len(program) /\ retired' = retired + 1
        /\ {o \in seen : o.id <= retired}' =
             {o \in seen : o.id <= retired} \cup
             {[id |-> retired + 1, op |-> j, from |-> memory[program[retired + 1].loads[j]]] :
                j \in DOMAIN program[retired + 1].loads}
        /\ memory' = [b \in Addr |-> IF b \in Range(program[retired + 1].stores) THEN retired + 1 ELSE memory[b]]
    BY <1>11, <1>14, StateAll DEF Advances
  <2>2. \A b : b \in Range(program[retired + 1].stores) <=>
                 \E k \in DOMAIN program[retired + 1].stores : program[retired + 1].stores[k] = b
    BY DEF Range
  <2> QED BY <2>1, <2>2 DEF InOrder!Step
<1> QED BY <1>16, <1>17, <1>18

LEMMA InitMem ==
  ASSUME Init
  PROVE  MemInv /\ ApartInv /\ InOrder!Init
<1> DEFINE s == State
<1>1. /\ program \in Programs /\ DOMAIN ROB = Slots /\ \A i \in Slots : ROB[i] = EmptyEntry
      /\ head = 0 /\ DOMAIN LQ = LqSlots /\ DOMAIN SQ = SqSlots
      /\ (\A q \in LqSlots : LQ[q] = EmptyLoad) /\ (\A x \in SqSlots : SQ[x] = EmptyStore) /\ sq_tail = 0
      /\ STA = << >> /\ RTL0 = << >> /\ RTL1 = << >> /\ RTS0 = << >> /\ RTS1 = << >>
      /\ dtlb = {} /\ l1d = {} /\ wq = 0 /\ inflight_reg = 0 /\ inflight_mem = 0
      /\ dispatched = 0 /\ retired = 0 /\ memory = [a \in Addr |-> 0] /\ seen = {} /\ asserts = {}
  BY DEF Init, LqSlots, SqSlots, NoId
<1>2. /\ DOMAIN s = StateFields /\ s.program = program /\ s.ROB = ROB /\ s.head = 0 /\ s.LQ = LQ /\ s.SQ = SQ
      /\ s.sq_tail = 0 /\ s.STA = << >> /\ s.RTL0 = << >> /\ s.RTL1 = << >> /\ s.RTS0 = << >> /\ s.RTS1 = << >>
      /\ s.dtlb = {} /\ s.l1d = {} /\ s.wq = 0 /\ s.inflight_reg = 0 /\ s.inflight_mem = 0
      /\ s.dispatched = 0 /\ s.retired = 0 /\ s.memory = [a \in Addr |-> 0] /\ s.seen = {} /\ s.asserts = {}
  BY <1>1, StateAll
<1> HIDE DEF s
<1>3. /\ EmptyEntry.id = NoId /\ DOMAIN EmptyEntry = EntryFields /\ EmptyEntry.num_mem_ops = 0 /\ EmptyEntry.mem_deps = {}
      /\ EmptyLoad.id = NoId /\ DOMAIN EmptyLoad = LoadFields /\ EmptyLoad.producer_id = NoId
      /\ EmptyStore.id = NoId /\ DOMAIN EmptyStore = StoreFields
  BY DEF EmptyEntry, EntryFields, EmptyLoad, EmptyStore, LoadFields, StoreFields
<1>4. Rob(s) = {} /\ Loads(s) = {} /\ Stores(s) = {}
  BY <1>1, <1>2, <1>3 DEF Rob, Loads, Stores
<1>5. 0 \in Slots /\ 0 \in SqSlots /\ Count(s) = 0
  BY <1>2, Size, SlotIs, QueueSizes DEF SqSlots, Count
<1>6. Len(program) \in Nat
  BY <1>1, ProgramAssumption, LenProperties
<1>7. Order(s)
  <2>1. \A k \in 1 .. ROB_SIZE : k \in 1 .. ROB_SIZE + 1
    BY Size
  <2>2. \A k \in 1 .. ROB_SIZE : s.ROB[At(s.head, k)].id = NoId
    <3>1. \A k \in 1 .. ROB_SIZE : At(s.head, k) \in Slots
      BY <1>2, <1>5, <2>1, AtSlots
    <3> QED BY <1>1, <1>2, <1>3, <3>1
  <2>3. 1 .. 0 = {} /\ 0 \in 0 .. Len(program) /\ 0 <= ROB_SIZE
    BY <1>6, Size
  <2>4. Shaped(s)
    BY <1>1, <1>2, <1>3 DEF Shaped
  <2> QED BY <1>1, <1>2, <1>5, <2>2, <2>3, <2>4 DEF Order
<1>8. Tables(s)
  <2>1. 0 \in 0 .. WQ_SIZE /\ 0 \in Nat
    BY QueueSizes
  <2>2. s.memory \in [Addr -> Nat]
    BY <1>2
  <2> QED BY <1>1, <1>2, <1>3, <2>1, <2>2 DEF Tables
<1>9. Entries(s)
  BY <1>1, <1>2, <1>3, <1>4 DEF Entries
<1>10. Held2(s)
  BY <1>4, <1>7, <1>8, <1>9 DEF Held2, LoadsHeld, StoresHeld, StoresStay
<1>11. MemoryLast(s)
  <2>1. 0 < 0 + 1 /\ \A k \in 0 + 1 .. (0 + 1) - 1 : FALSE
    OBVIOUS
  <2>2. \A a \in Addr : LastStore(s.program, 0, 0 + 1, a)
    BY <2>1 DEF LastStore, NoId
  <2> QED BY <1>2, <2>2 DEF MemoryLast
<1>12. Flow(s)
  BY <1>2, <1>4, <1>11 DEF Flow, Sourced, DepsSound, SeenSound, SeenAll
<1>13. Awaited(s, {})
  BY <1>4 DEF Awaited
<1>14. StoreRing(s)
  <2>1. 0 \in 0 .. SQ_SIZE /\ 1 .. 0 = {}
    BY QueueSizes
  <2>2. Stores(s) = {Back(s.sq_tail, k) : k \in 1 .. 0}
    BY <1>4, <2>1
  <2> QED BY <1>2, <1>5, <2>1, <2>2 DEF StoreRing
<1>15. StoresWait(s)
  <2>1. << >> \in Seq(Nat) /\ DOMAIN << >> = {}
    OBVIOUS
  <2> QED BY <1>2, <2>1 DEF StoresWait
<1>16. Counted(s)
  BY <1>4 DEF Counted
<1>17. Tallied(s)
  <2>1. ToComplete(s) = {} /\ Executing(s) = {}
    BY <1>4 DEF ToComplete, Executing
  <2> QED BY <1>2, <1>4, <2>1, FS_EmptySet DEF Tallied
<1>18. \A a, b : LoadAt(s, a, b) = {} /\ StoreAt(s, a, b) = {}
  BY <1>4 DEF LoadAt, StoreAt
<1>19. LoadStages(s) /\ StoreStages(s)
  BY <1>2, <1>4, <1>18, EmptyList DEF LoadStages, StoreStages
<1>20. Translating(s)
  BY <1>2, <1>18 DEF Translating
<1>21. LsqInv(s, {})
  BY <1>10, <1>12, <1>13, <1>14, <1>15, <1>16, <1>17, <1>19, <1>20 DEF LsqInv, Rings, Places
<1>22. SeenExecuted(s)
  BY <1>2 DEF SeenExecuted
<1>23. MemInv
  BY <1>1, <1>21, ExcusedIs DEF MemInv, s
<1>24. ApartInv
  BY <1>1, <1>22 DEF ApartInv, s
<1>25. InOrder!Init
  BY <1>1 DEF InOrder!Init
<1> QED BY <1>23, <1>24, <1>25

LEMMA StutterMem ==
  ASSUME MemInv, UNCHANGED vars
  PROVE  MemInv' /\ (ApartInv => ApartInv') /\ UNCHANGED InView
<1>1. State' = State /\ asserts' = asserts /\ UNCHANGED InView
  BY DEF vars, State, InView
<1>2. Excused' = Excused
  BY <1>1 DEF Excused
<1>3. LsqInv(State', Excused')
  BY <1>1, <1>2 DEF MemInv
<1>4. SeenExecuted(State) => SeenExecuted(State')
  BY <1>1
<1> QED BY <1>1, <1>3, <1>4 DEF MemInv, ApartInv

LEMMA StepMem ==
  ASSUME RobInv, MemInv, [Next]_vars
  PROVE  MemInv' /\ (ApartInv => ApartInv') /\ (InOrder!Step \/ UNCHANGED InView)
<1>1. CASE Dispatch
  BY <1>1, DispatchMem
<1>2. CASE ScheduleInstruction
  BY <1>2, ScheduleInstructionMem
<1>3. CASE ExecuteReleased
  BY <1>3, ExecuteReleasedMem
<1>4. CASE ExecuteReady
  BY <1>4, ExecuteReadyMem
<1>5. CASE ScheduleMemoryInstruction
  BY <1>5, ScheduleMemoryMem
<1>6. CASE OperateLsq
  BY <1>6, OperateLsqMem
<1>7. CASE CompleteTranslation
  BY <1>7, CompleteTranslationMem
<1>8. CASE CompleteDataFetch
  BY <1>8, CompleteDataFetchMem
<1>9. CASE UpdateRob
  <2>1. PICK i \in Slots : CompleteExecution(i)
    BY <1>9 DEF UpdateRob
  <2> QED BY <2>1, CompleteExecutionMem
<1>10. CASE Retire
  BY <1>10, RetireMem
<1>11. CASE DrainWq
  BY <1>11, DrainWqMem
<1>12. CASE Finished \/ UNCHANGED vars
  BY <1>12, StutterMem DEF Finished
<1> QED BY <1>1, <1>2, <1>3, <1>4, <1>5, <1>6, <1>7, <1>8, <1>9, <1>10, <1>11, <1>12 DEF Next

(* MemInv holds in every state of the core: with RobInv it is inductive.   *)
THEOREM MemInductive == Spec => []MemInv
<1>1. Init => MemInv
  BY InitMem
<1>2. RobInv /\ MemInv /\ [Next]_vars => MemInv'
  BY StepMem
<1> QED BY <1>1, <1>2, Inductive, PTL DEF Spec

(* When the stores of an instruction stay apart (StoresApart), no assert   *)
(* fails, and what a load took from a store that has not retired it took   *)
(* after that store had executed.                                          *)
THEOREM ApartInductive == Spec => []ApartInv
<1>1. Init => ApartInv
  BY InitMem
<1>2. RobInv /\ MemInv /\ ApartInv /\ [Next]_vars => ApartInv'
  BY StepMem
<1> QED BY <1>1, <1>2, Inductive, MemInductive, PTL DEF Spec

(* The out-of-order core implements the in-order machine, whatever the     *)
(* sizes of its queues and whatever the trace: an instruction retires with *)
(* the data of the last store before it for each of its loads, whether it  *)
(* was forwarded early or late or came from L1D, and every other step of   *)
(* the core changes nothing that the in-order machine shows.               *)
THEOREM InOrderImplemented == Spec => ImplementsInOrder
<1>1. Init => InOrder!Init
  BY InitMem
<1>2. RobInv /\ MemInv /\ [Next]_vars => [InOrder!Step]_<< program, retired, memory, {o \in seen : o.id <= retired} >>
  BY StepMem DEF InView
<1> QED BY <1>1, <1>2, Inductive, MemInductive, PTL DEF Spec, ImplementsInOrder, InOrder!Spec

-------------------------------------------------------------------------------
(* What follows for the properties.                                        *)

LEMMA ListBound ==
  ASSUME NEW S, NEW l, Enumerates(l, S), NEW n \in Nat, S \subseteq 0 .. n - 1
  PROVE  Len(l) <= n
<1>1. l \in Seq(S) /\ IsInjective(l)
  BY ListSubset
<1>2. l \in [1 .. Len(l) -> S] /\ Len(l) \in Nat
  BY <1>1
<1>3. l \in Injection(1 .. Len(l), 0 .. n - 1)
  <2>1. l \in [1 .. Len(l) -> 0 .. n - 1]
    BY <1>2
  <2> QED BY <1>1, <2>1 DEF Injection, IsInjective
<1>4. IsFiniteSet(0 .. n - 1) /\ Cardinality(0 .. n - 1) = n
  <2>1. 0 \in Int /\ n - 1 \in Int
    OBVIOUS
  <2>2. IsFiniteSet(0 .. n - 1) /\ Cardinality(0 .. n - 1) = IF 0 > n - 1 THEN 0 ELSE n - 1 - 0 + 1
    BY <2>1, FS_Interval
  <2> QED BY <2>2
<1>5. Cardinality(1 .. Len(l)) <= n
  BY <1>3, <1>4, FS_Injection
<1>6. Cardinality(1 .. Len(l)) = Len(l)
  <2> DEFINE m == Len(l)
  <2>1. m \in Nat /\ 1 \in Int /\ m \in Int
    BY <1>2
  <2>2. Cardinality(1 .. m) = IF 1 > m THEN 0 ELSE m - 1 + 1
    BY <2>1, FS_Interval
  <2> HIDE DEF m
  <2>3. Cardinality(1 .. m) = m
    BY <2>1, <2>2
  <2> QED BY <2>3 DEF m
<1> QED BY <1>5, <1>6

(* The places of the variables, from the invariant.                        *)
LEMMA LsqHolds ==
  ASSUME MemInv
  PROVE  LsqInv(State, Excused)
BY DEF MemInv

LEMMA LiveSets ==
  /\ LiveRob = Rob(State) /\ Rob(State) \subseteq Slots
  /\ MemInv => LiveLoad = Loads(State) /\ LiveStore = Stores(State) /\ DOMAIN LQ = LqSlots /\ DOMAIN SQ = SqSlots
<1>1. LiveRob = Rob(State) /\ Rob(State) \subseteq Slots
  BY StateAll DEF LiveRob, Rob
<1>2. ASSUME MemInv PROVE LiveLoad = Loads(State) /\ LiveStore = Stores(State) /\ DOMAIN LQ = LqSlots /\ DOMAIN SQ = SqSlots
  <2>1. Tables(State)
    BY <1>2, LsqHolds, LsqShape
  <2>2. DOMAIN LQ = LqSlots /\ DOMAIN SQ = SqSlots
    BY <2>1, StateAll DEF Tables
  <2> QED BY <2>2, StateAll DEF LiveLoad, LiveStore, Loads, Stores, Free
<1> QED BY <1>1, <1>2

LEMMA CountersFollow ==
  ASSUME MemInv
  PROVE  CountersAgree
<1>1. Counted(State) /\ Tallied(State) /\ Entries(State)
  BY LsqHolds, LsqShape
<1>2. ASSUME NEW i \in LiveRob
      PROVE  ROB[i].num_mem_ops =
               Cardinality({j \in DOMAIN ROB[i].lq :
                 \/ ROB[i].lq[j] = NoIndex
                 \/ LQ[ROB[i].lq[j]].id = ROB[i].id /\ LQ[ROB[i].lq[j]].data_index = j})
               + Cardinality({k \in DOMAIN ROB[i].sq :
                   ROB[i].sq[k] = NoIndex \/ SQ[ROB[i].sq[k]].fetched # COMPLETED})
  <2>1. i \in Rob(State)
    BY LiveSets
  <2>2. DOMAIN ROB[i].lq = DOMAIN Code(State, i).loads /\ DOMAIN ROB[i].sq = DOMAIN Code(State, i).stores
    BY <1>1, <2>1, StateAll DEF Entries
  <2>3. PendingLoads(State, i) =
          {j \in DOMAIN ROB[i].lq : \/ ROB[i].lq[j] = NoIndex
                                    \/ LQ[ROB[i].lq[j]].id = ROB[i].id /\ LQ[ROB[i].lq[j]].data_index = j}
    BY <2>2, StateAll DEF PendingLoads, InQueue
  <2>4. PendingStores(State, i) =
          {k \in DOMAIN ROB[i].sq : ROB[i].sq[k] = NoIndex \/ SQ[ROB[i].sq[k]].fetched # COMPLETED}
    BY <2>2, StateAll DEF PendingStores, Executed
  <2> QED BY <1>1, <2>1, <2>3, <2>4, StateAll DEF Counted
<1>3. /\ ToComplete(State) = {i \in LiveRob : IsMemory(State, i) /\ ROB[i].num_mem_ops = 0 /\ ROB[i].executed # COMPLETED}
      /\ Executing(State) = {i \in LiveRob : ~IsMemory(State, i) /\ ROB[i].executed = INFLIGHT}
  BY LiveSets, StateAll DEF ToComplete, Executing
<1> QED BY <1>1, <1>2, <1>3, StateAll DEF CountersAgree, Tallied

LEMMA TypeFollows ==
  ASSUME RobInv, MemInv
  PROVE  TypeOK
<1>1. /\ Order(State) /\ Tables(State) /\ Entries(State) /\ DepsSound(State) /\ Counted(State) /\ Tallied(State)
      /\ LoadStages(State) /\ StoreStages(State) /\ Translating(State) /\ StoreRing(State)
      /\ Loads(State) \subseteq LqSlots /\ Stores(State) \subseteq SqSlots
  BY LsqHolds, LsqShape
<1>2. program \in Programs
  BY <1>1, StateAll DEF Order
<1>3. {head, tail, next_schedule} \subseteq Slots
  <2>1. Held \in Nat /\ Held <= ROB_SIZE /\ head \in Slots
    BY Held01 DEF RobInv
  <2>2. Held + 1 \in 1 .. ROB_SIZE + 1
    BY <2>1, Size
  <2>3. At(head, Held + 1) \in Slots
    BY <2>1, <2>2, AtSlots
  <2> QED BY <2>1, <2>3 DEF RobInv, Ring, Types
<1>4. ASSUME NEW i \in Slots
      PROVE  /\ ROB[i].id \in 0 .. Len(program) /\ ROB[i].num_mem_ops \in Nat
             /\ ROB[i].num_reg_dependent \in Nat
             /\ ROB[i].scheduled \in 0 .. COMPLETED /\ ROB[i].executed \in 0 .. COMPLETED
             /\ ROB[i].mem_deps \subseteq Slots /\ ROB[i].reg_deps \subseteq Slots \X Reg
  <2>1. /\ ROB[i].id \in 0 .. Len(program) /\ ROB[i].num_reg_dependent \in Nat
        /\ ROB[i].scheduled \in 0 .. COMPLETED /\ ROB[i].executed \in 0 .. COMPLETED
        /\ ROB[i].reg_deps \subseteq Slots \X Reg
    BY DEF RobInv, Types
  <2>2. ROB[i].num_mem_ops \in Nat
    <3>1. CASE i \in Rob(State)
      <4>1. Cardinality(PendingLoads(State, i)) \in Nat /\ Cardinality(PendingStores(State, i)) \in Nat
        BY <1>1, <3>1, PendingFinite
      <4>2. ROB[i].num_mem_ops = Cardinality(PendingLoads(State, i)) + Cardinality(PendingStores(State, i))
        BY <1>1, <3>1, StateAll DEF Counted
      <4> QED BY <4>1, <4>2
    <3>2. CASE i \notin Rob(State)
      BY <1>1, <3>2, StateAll DEF Entries
    <3> QED BY <3>1, <3>2
  <2>3. ROB[i].mem_deps \subseteq Slots
    <3>1. CASE i \in Rob(State)
      BY <1>1, <3>1, LiveSets, StateAll DEF DepsSound
    <3>2. CASE i \notin Rob(State)
      BY <1>1, <3>2, StateAll DEF Entries
    <3> QED BY <3>1, <3>2
  <2> QED BY <2>1, <2>2, <2>3
<1>5. /\ sq_tail \in DOMAIN SQ /\ l1d \subseteq DOMAIN LQ /\ wq \in 0 .. WQ_SIZE
  <2>1. sq_tail \in SqSlots
    BY <1>1, StateAll DEF StoreRing
  <2>2. l1d = LoadAt(State, COMPLETED, INFLIGHT)
    BY <1>1, StateAll DEF LoadStages
  <2>3. l1d \subseteq LqSlots
    BY <1>1, <2>2 DEF LoadAt
  <2> QED BY <1>1, <2>1, <2>3, LiveSets, StateAll DEF Tables
<1>6. dtlb \subseteq {"load", "store"} \X Nat
  <2>1. LqSlots \subseteq Nat /\ SqSlots \subseteq Nat
    BY QueueSizes DEF LqSlots, SqSlots
  <2>2. LoadAt(State, INFLIGHT, 0) \subseteq Nat /\ StoreAt(State, INFLIGHT, 0) \subseteq Nat
    BY <1>1, <2>1 DEF LoadAt, StoreAt
  <2>3. dtlb = {<< "load", q >> : q \in LoadAt(State, INFLIGHT, 0)} \cup {<< "store", x >> : x \in StoreAt(State, INFLIGHT, 0)}
    BY <1>1, StateAll DEF Translating
  <2> QED BY <2>2, <2>3
<1>7. {inflight_reg, inflight_mem} \subseteq 0 .. ROB_SIZE
  <2>1. IsFiniteSet(Slots) /\ Cardinality(Slots) = ROB_SIZE
    <3>1. 0 \in Int /\ ROB_SIZE - 1 \in Int
      BY Size
    <3>2. IsFiniteSet(0 .. ROB_SIZE - 1) /\ Cardinality(0 .. ROB_SIZE - 1) = IF 0 > ROB_SIZE - 1 THEN 0 ELSE ROB_SIZE - 1 - 0 + 1
      BY <3>1, FS_Interval
    <3> QED BY <3>2, Size DEF Slots
  <2>2. ToComplete(State) \subseteq Slots /\ Executing(State) \subseteq Slots
    BY LiveSets DEF ToComplete, Executing
  <2>3. /\ Cardinality(ToComplete(State)) <= ROB_SIZE /\ Cardinality(Executing(State)) <= ROB_SIZE
    BY <2>1, <2>2, FS_Subset
  <2>4. Cardinality(ToComplete(State)) \in Nat /\ Cardinality(Executing(State)) \in Nat
    BY RobFinite
  <2>5. inflight_mem = Cardinality(ToComplete(State)) /\ inflight_reg = Cardinality(Executing(State))
    BY <1>1, StateAll DEF Tallied
  <2> QED BY <2>3, <2>4, <2>5, Size
<1>8. Len(RTE0) <= ROB_SIZE /\ Len(RTE1) <= ROB_SIZE
  <2>1. /\ RTE0 \in Seq(Slots) /\ IsInjective(RTE0) /\ RTE1 \in Seq(Slots) /\ IsInjective(RTE1)
        /\ Range(RTE0) \subseteq Slots /\ Range(RTE1) \subseteq Slots
    BY DEF RobInv, Queued
  <2>2. Enumerates(RTE0, Range(RTE0)) /\ Enumerates(RTE1, Range(RTE1))
    BY <2>1, ListOf
  <2>3. ROB_SIZE \in Nat /\ Slots = 0 .. ROB_SIZE - 1
    BY Size DEF Slots
  <2> QED BY <2>1, <2>2, <2>3, ListBound
<1>9. Len(RTL0) <= LQ_SIZE /\ Len(RTL1) <= LQ_SIZE
  <2>1. Enumerates(RTL0, LoadAt(State, 0, 0)) /\ Enumerates(RTL1, LoadAt(State, COMPLETED, 0))
    BY <1>1, StateAll DEF LoadStages
  <2>2. LoadAt(State, 0, 0) \subseteq 0 .. LQ_SIZE - 1 /\ LoadAt(State, COMPLETED, 0) \subseteq 0 .. LQ_SIZE - 1
    BY <1>1 DEF LoadAt, LqSlots
  <2> QED BY <2>1, <2>2, ListBound, QueueSizes
<1>10. Len(RTS0) <= SQ_SIZE /\ Len(RTS1) <= SQ_SIZE
  <2>1. Enumerates(RTS0, StoreAt(State, 0, 0)) /\ Enumerates(RTS1, StoreAt(State, COMPLETED, 0))
    BY <1>1, StateAll DEF StoreStages
  <2>2. StoreAt(State, 0, 0) \subseteq 0 .. SQ_SIZE - 1 /\ StoreAt(State, COMPLETED, 0) \subseteq 0 .. SQ_SIZE - 1
    BY <1>1 DEF StoreAt, SqSlots
  <2> QED BY <2>1, <2>2, ListBound, QueueSizes
<1> QED BY <1>2, <1>3, <1>4, <1>5, <1>6, <1>7, <1>8, <1>9, <1>10 DEF TypeOK

LEMMA RunningLsq ==
  ASSUME MemInv, asserts = {}
  PROVE  LsqInv(State, {})
<1>1. LsqInv(State, Excused) /\ Excused = {}
  BY LsqHolds, ExcusedIs
<1>2. ASSUME NEW R, R = {}, LsqInv(State, R) PROVE LsqInv(State, {})
  BY <1>2
<1> QED BY <1>1, <1>2

LEMMA AwaitsIs ==
  ASSUME MemInv, asserts = {}, NEW q \in LiveLoad
  PROVE  AwaitsStore(q) <=> LQ[q].producer_id # NoId
<1>1. ASSUME LQ[q].producer_id # NoId PROVE AwaitsStore(q)
  <2>1. LsqInv(State, {})
    BY RunningLsq
  <2>2. Awaited(State, {}) /\ Entries(State)
    BY <2>1, LsqShape
  <2>3. q \in Loads(State)
    BY LiveSets
  <2>4. PICK p \in Rob(State) : Finds(State, q, p, {})
    BY <1>1, <2>2, <2>3, StateAll DEF Awaited
  <2>5. /\ ROB[p].id = LQ[q].producer_id /\ LQ[q].rob_index \in ROB[p].mem_deps
        /\ \E k \in DOMAIN Code(State, p).stores :
             Code(State, p).stores[k] = LoadAddr(State, q) /\ ~Executed(State, p, k)
    BY <2>4, StateAll DEF Finds
  <2>6. PICK k \in DOMAIN Code(State, p).stores :
          Code(State, p).stores[k] = LoadAddr(State, q) /\ ~Executed(State, p, k)
    BY <2>5
  <2>7. DOMAIN ROB[p].sq = DOMAIN Code(State, p).stores
    BY <2>2, StateAll DEF Entries
  <2>8. program[ROB[p].id].stores[k] = LoadAddr(State, q)
    BY <2>6, StateAll DEF Code
  <2>9. ROB[p].sq[k] # NoIndex => SQ[ROB[p].sq[k]].fetched # COMPLETED
    BY <2>6, StateAll DEF Executed
  <2>10. p \in LiveRob
    BY LiveSets
  <2> QED BY <1>1, <2>5, <2>6, <2>7, <2>8, <2>9, <2>10 DEF AwaitsStore
<1> QED BY <1>1 DEF AwaitsStore

LEMMA TimesOf ==
  ASSUME NEW l, NEW S, Enumerates(l, S), NEW x
  PROVE  Times(x, l) = One(x \in S)
<1>1. l \in Seq(S) /\ IsInjective(l) /\ Range(l) = S
  BY ListSubset
<1>2. Times(x, l) = One(x \in Range(l))
  BY <1>1, TimesIs
<1> QED BY <1>1, <1>2

(* A load is in one place.                                                 *)
LEMMA LoadOnePlace ==
  ASSUME MemInv, asserts = {}, NEW q \in LiveLoad
  PROVE  Times(q, RTL0) + Times(q, RTL1) + One(<< "load", q >> \in dtlb) + One(q \in l1d)
           + One(AwaitsStore(q)) = 1
<1> DEFINE A == q \in LoadAt(State, 0, 0)
           B == q \in LoadAt(State, COMPLETED, 0)
           C == q \in LoadAt(State, INFLIGHT, 0)
           D == q \in LoadAt(State, COMPLETED, INFLIGHT)
           E == LQ[q].producer_id # NoId
<1>1. LoadStages(State) /\ Translating(State) /\ q \in Loads(State)
  BY LsqHolds, LsqShape, LiveSets
<1>2. Times(q, RTL0) = One(A) /\ Times(q, RTL1) = One(B)
  <2>1. Enumerates(RTL0, LoadAt(State, 0, 0)) /\ Enumerates(RTL1, LoadAt(State, COMPLETED, 0))
    BY <1>1, StateAll DEF LoadStages
  <2> QED BY <2>1, TimesOf
<1>3. << "load", q >> \in dtlb <=> C
  <2>1. dtlb = {<< "load", y >> : y \in LoadAt(State, INFLIGHT, 0)} \cup {<< "store", x >> : x \in StoreAt(State, INFLIGHT, 0)}
    BY <1>1, StateAll DEF Translating
  <2> QED BY <2>1
<1>4. q \in l1d <=> D
  BY <1>1, StateAll DEF LoadStages
<1>5. AwaitsStore(q) <=> E
  BY AwaitsIs
<1>6. /\ A \/ B \/ C \/ D \/ E
      /\ ~(A /\ B) /\ ~(A /\ C) /\ ~(A /\ D) /\ ~(A /\ E) /\ ~(B /\ C)
      /\ ~(B /\ D) /\ ~(B /\ E) /\ ~(C /\ D) /\ ~(C /\ E) /\ ~(D /\ E)
  <2>1. E \/ A \/ B \/ C \/ D
    BY <1>1, StateAll DEF LoadStages
  <2> QED BY <2>1, StateAll DEF LoadAt, INFLIGHT, COMPLETED
<1>7. One(<< "load", q >> \in dtlb) = One(C) /\ One(q \in l1d) = One(D) /\ One(AwaitsStore(q)) = One(E)
  BY <1>3, <1>4, <1>5 DEF One
<1> HIDE DEF A, B, C, D, E
<1>8. One(A) + One(B) + One(C) + One(D) + One(E) = 1
  BY <1>6 DEF One
<1> QED BY <1>2, <1>7, <1>8

(* So is a store, until it has executed.                                   *)
LEMMA StoreOnePlace ==
  ASSUME MemInv, NEW x \in LiveStore
  PROVE  Times(x, RTS0) + Times(x, RTS1) + One(<< "store", x >> \in dtlb) + One(SQ[x].fetched = COMPLETED) = 1
<1> DEFINE A == x \in StoreAt(State, 0, 0)
           B == x \in StoreAt(State, COMPLETED, 0)
           C == x \in StoreAt(State, INFLIGHT, 0)
           D == SQ[x].fetched = COMPLETED
<1>1. StoreStages(State) /\ Translating(State) /\ x \in Stores(State)
  BY LsqHolds, LsqShape, LiveSets
<1>2. Times(x, RTS0) = One(A) /\ Times(x, RTS1) = One(B)
  <2>1. Enumerates(RTS0, StoreAt(State, 0, 0)) /\ Enumerates(RTS1, StoreAt(State, COMPLETED, 0))
    BY <1>1, StateAll DEF StoreStages
  <2> QED BY <2>1, TimesOf
<1>3. << "store", x >> \in dtlb <=> C
  <2>1. dtlb = {<< "load", y >> : y \in LoadAt(State, INFLIGHT, 0)} \cup {<< "store", y >> : y \in StoreAt(State, INFLIGHT, 0)}
    BY <1>1, StateAll DEF Translating
  <2> QED BY <2>1
<1>4. (A \/ B \/ C \/ D) /\ ~(A /\ B) /\ ~(A /\ C) /\ ~(A /\ D) /\ ~(B /\ C) /\ ~(B /\ D) /\ ~(C /\ D)
  <2>1. A \/ B \/ C \/ x \in StoreAt(State, COMPLETED, COMPLETED)
    BY <1>1 DEF StoreStages
  <2> QED BY <2>1, StateAll DEF StoreAt, INFLIGHT, COMPLETED
<1>5. One(<< "store", x >> \in dtlb) = One(C)
  BY <1>3 DEF One
<1> HIDE DEF A, B, C
<1>6. One(A) + One(B) + One(C) + One(SQ[x].fetched = COMPLETED) = 1
  BY <1>4 DEF One
<1> QED BY <1>2, <1>5, <1>6

(* The ring holds as many slots as there are stores.                       *)
LEMMA BackIs ==
  ASSUME NEW h \in SqSlots, NEW k \in 1 .. SQ_SIZE
  PROVE  (h - k) % SQ_SIZE = Back(h, k)
<1> DEFINE x == h - k
<1>1. SQ_SIZE \in Nat /\ SQ_SIZE >= 1 /\ h \in Int /\ 0 <= h /\ h < SQ_SIZE /\ k \in Int /\ 1 <= k /\ k <= SQ_SIZE
  BY QueueSizes DEF SqSlots
<1>2. x \in Int /\ x < SQ_SIZE /\ 0 - SQ_SIZE <= x /\ (x < 0 <=> ~(k <= h))
  BY <1>1
<1>3. Back(h, k) = IF x < 0 THEN x + SQ_SIZE ELSE x
  BY <1>2 DEF Back
<1> HIDE DEF x
<1>4. x % SQ_SIZE = IF x < 0 THEN x + SQ_SIZE ELSE x
  BY ONLY <1>1, <1>2, WrapBelow
<1>5. x % SQ_SIZE = Back(h, k)
  BY <1>3, <1>4
<1> QED BY <1>5 DEF x

LEMMA RingSize ==
  ASSUME NEW h \in SqSlots, NEW n \in 0 .. SQ_SIZE
  PROVE  Cardinality({Back(h, k) : k \in 1 .. n}) = n
<1> DEFINE B == {Back(h, k) : k \in 1 .. n}
           f == [k \in 1 .. n |-> Back(h, k)]
<1>1. SQ_SIZE \in Nat /\ SQ_SIZE >= 1 /\ h \in Int /\ 0 <= h /\ h < SQ_SIZE /\ n \in Nat /\ n <= SQ_SIZE
  BY QueueSizes DEF SqSlots
<1>2. \A k \in 1 .. n, m \in 1 .. n : Back(h, k) = Back(h, m) => k = m
  BY <1>1 DEF Back
<1>3. ExistsBijection(1 .. n, B)
  <2>1. f \in [1 .. n -> B] /\ \A k \in 1 .. n : f[k] = Back(h, k)
    OBVIOUS
  <2>2. \A y \in B : \E k \in 1 .. n : f[k] = y
    OBVIOUS
  <2> HIDE DEF f, B
  <2>3. \A k, m \in 1 .. n : f[k] = f[m] => k = m
    BY <1>2, <2>1
  <2>4. f \in Injection(1 .. n, B)
    BY <2>1, <2>3 DEF Injection, IsInjective
  <2>5. f \in Surjection(1 .. n, B)
    BY <2>1, <2>2 DEF Surjection
  <2>6. f \in Bijection(1 .. n, B)
    BY <2>4, <2>5 DEF Bijection
  <2> QED BY <2>6 DEF ExistsBijection
<1> HIDE DEF B
<1>4. IsFiniteSet(1 .. n) /\ Cardinality(1 .. n) = n
  <2>1. 1 \in Int /\ n \in Int
    BY <1>1
  <2>2. IsFiniteSet(1 .. n) /\ Cardinality(1 .. n) = IF 1 > n THEN 0 ELSE n - 1 + 1
    BY <2>1, FS_Interval
  <2> QED BY <1>1, <2>2
<1>5. Cardinality(B) = n
  BY <1>3, <1>4, FS_Bijection
<1> QED BY <1>5 DEF B

LEMMA RingOrdered ==
  ASSUME MemInv
  PROVE  LET n == Cardinality(LiveStore)
             slot(k) == (sq_tail - k) % SQ_SIZE
         IN  /\ \A k \in 1 .. n : slot(k) \in LiveStore
             /\ \A k \in 1 .. n - 1 : SQ[slot(k)].id >= SQ[slot(k + 1)].id
<1>1. StoreRing(State) /\ LiveStore = Stores(State) /\ StoresHeld(State) /\ Order(State)
  BY LsqHolds, LsqShape, LiveSets
<1>2. PICK m \in 0 .. SQ_SIZE :
        /\ Stores(State) = {Back(sq_tail, k) : k \in 1 .. m}
        /\ \A k \in 1 .. m, l \in 1 .. m : k <= l => SQ[Back(sq_tail, l)].id <= SQ[Back(sq_tail, k)].id
  BY <1>1, StateAll DEF StoreRing
<1>3. sq_tail \in SqSlots
  BY <1>1, StateAll DEF StoreRing
<1>4. Cardinality(LiveStore) = m
  BY <1>1, <1>2, <1>3, RingSize
<1>5. m \in Nat /\ m <= SQ_SIZE
  BY QueueSizes
<1>6. ASSUME NEW k \in 1 .. m PROVE (sq_tail - k) % SQ_SIZE = Back(sq_tail, k) /\ Back(sq_tail, k) \in LiveStore
  <2>1. k \in 1 .. SQ_SIZE
    BY <1>5, QueueSizes
  <2>2. (sq_tail - k) % SQ_SIZE = Back(sq_tail, k)
    BY <1>3, <2>1, BackIs
  <2> QED BY <1>1, <1>2, <2>2
<1>7. ASSUME NEW k \in 1 .. m - 1
      PROVE  SQ[(sq_tail - k) % SQ_SIZE].id >= SQ[(sq_tail - (k + 1)) % SQ_SIZE].id
  <2>1. k \in 1 .. m /\ k + 1 \in 1 .. m /\ k <= k + 1
    BY <1>5
  <2>2. SQ[Back(sq_tail, k + 1)].id <= SQ[Back(sq_tail, k)].id
    BY <1>2, <2>1
  <2>3. (sq_tail - k) % SQ_SIZE = Back(sq_tail, k) /\ (sq_tail - (k + 1)) % SQ_SIZE = Back(sq_tail, k + 1)
    BY <1>6, <2>1
  <2>4. SQ[Back(sq_tail, k)].id \in Int /\ SQ[Back(sq_tail, k + 1)].id \in Int
    <3>1. Back(sq_tail, k) \in Stores(State) /\ Back(sq_tail, k + 1) \in Stores(State)
      BY <1>1, <1>6, <2>1
    <3>2. ASSUME NEW x \in Stores(State) PROVE SQ[x].id \in Int
      <4>1. SQ[x].rob_index \in Rob(State) /\ ROB[SQ[x].rob_index].id = SQ[x].id
        BY <1>1, StateAll DEF StoresHeld
      <4>2. ROB[SQ[x].rob_index].id \in Nat
        <5>1. /\ State.ROB[SQ[x].rob_index].id = State.retired + Place(State.head, SQ[x].rob_index)
              /\ Place(State.head, SQ[x].rob_index) \in 1 .. Count(State)
          BY <1>1, <4>1, LiveAt
        <5>2. State.retired \in Nat
          BY <1>1, OrderCounts
        <5> QED BY <5>1, <5>2, StateAll
      <4> QED BY <4>1, <4>2
    <3> QED BY <3>1, <3>2
  <2>5. SQ[Back(sq_tail, k)].id >= SQ[Back(sq_tail, k + 1)].id
    BY <2>2, <2>4
  <2> QED BY <2>3, <2>5
<1> QED BY <1>4, <1>6, <1>7

LEMMA OpsFollow ==
  ASSUME MemInv, asserts = {}
  PROVE  OpsPlaced
BY LoadOnePlace, StoreOnePlace, RingOrdered DEF OpsPlaced

(* Every variable of the core has its type, whatever the sizes and the     *)
(* programs: no list of ready operations holds more than its queue, and no *)
(* counter passes the size of the ROB.                                     *)
THEOREM TypesKept == Spec => []TypeOK
<1>1. RobInv /\ MemInv => TypeOK
  BY TypeFollows
<1> QED BY <1>1, Inductive, MemInductive, PTL

(* num_mem_ops, inflight_reg_executions and inflight_mem_executions are    *)
(* what the queues and the ROB say, through forwarding, merging and reuse  *)
(* of slots: none of them goes below zero or is left with an operation     *)
(* that nobody will complete.                                              *)
THEOREM CountersKept == Spec => []CountersAgree
<1>1. MemInv => CountersAgree
  BY CountersFollow
<1> QED BY <1>1, MemInductive, PTL

(* In the traces in which stores of one instruction stay apart, no store   *)
(* finds a load whose producer is another store: the assert of             *)
(* execute_store, and those of the slots, hold in every state.             *)
THEOREM AssertsHold == ASSUME StoresApart PROVE Spec => []NoAssertFails
<1>1. ApartInv => NoAssertFails
  BY DEF ApartInv, NoAssertFails
<1> QED BY <1>1, ApartInductive, PTL

(* In the same traces every memory operation is in one place, and the      *)
(* store queue is a ring in program order.                                 *)
THEOREM OpsKept == ASSUME StoresApart PROVE Spec => []OpsPlaced
<1>1. MemInv /\ ApartInv => OpsPlaced
  BY OpsFollow DEF ApartInv
<1> QED BY <1>1, MemInductive, ApartInductive, PTL

(* Whatever the trace, the asserts on num_mem_ops, on the slot of a store  *)
(* and in check_rob never fail: no operation completes twice or outlives   *)
(* its instruction, and a slot is free when it is taken.  The only assert  *)
(* that may fail is that on the producer of a load, in execute_store.      *)
THEOREM OneAssertOnly == Spec => [](asserts \subseteq {"producer_id"})
<1>1. MemInv => asserts \subseteq {"producer_id"}
  BY LsqHolds, LsqShape, StateAll DEF Tables
<1> QED BY <1>1, MemInductive, PTL
===============================================================================
