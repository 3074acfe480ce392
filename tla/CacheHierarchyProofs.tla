------------------------- MODULE CacheHierarchyProofs -------------------------
(***************************************************************************)
(* What holds of the memory hierarchy for every choice of caches, sizes    *)
(* and addresses.  The operators of CacheHierarchy pass the state along as *)
(* a record, so the invariants are stated of a record s, each operator     *)
(* gets one lemma that says which fields it changes and how, and a handler *)
(* is the composition of those lemmas.                                     *)
(***************************************************************************)
EXTENDS CacheHierarchy, FiniteSetTheorems, SequenceTheorems, WellFoundedInduction, TLAPS

-------------------------------------------------------------------------------
(* Queues of packets.                                                      *)

(* The packets of a queue.                                                 *)
In(q) == {q[k] : k \in DOMAIN q}

(* No two entries of a queue ask for the same block.                       *)
Distinct(q) == \A i, j \in DOMAIN q : q[i].address = q[j].address => i = j

LEMMA EmptyIn == ASSUME NEW q \in Seq(Packet) PROVE In(q) = {} <=> q = << >>
<1>1. DOMAIN q = 1 .. Len(q) /\ Len(q) \in Nat /\ (q = << >> <=> Len(q) = 0)
  OBVIOUS
<1>2. ASSUME q # << >> PROVE In(q) # {}
  <2>1. 1 \in DOMAIN q
    BY <1>1, <1>2
  <2>2. q[1] \in In(q)
    BY <2>1 DEF In
  <2> QED BY <2>2
<1>3. ASSUME q = << >> PROVE In(q) = {}
  <2>1. DOMAIN q = {}
    BY <1>1, <1>3
  <2> QED BY <2>1 DEF In
<1> QED BY <1>2, <1>3

(* What is served is the head, and the rest stays.                         *)
LEMMA TailIn ==
  ASSUME NEW q \in Seq(Packet), q # << >>
  PROVE  /\ Head(q) \in Packet /\ Head(q) \in In(q)
         /\ Tail(q) \in Seq(Packet) /\ Len(Tail(q)) = Len(q) - 1 /\ Len(q) \in Nat
         /\ In(q) = In(Tail(q)) \cup {Head(q)}
         /\ Distinct(q) => /\ Distinct(Tail(q))
                           /\ \A p \in In(Tail(q)) : p.address # Head(q).address
<1>1. /\ Head(q) \in Packet /\ Tail(q) \in Seq(Packet) /\ Len(Tail(q)) = Len(q) - 1
      /\ \A i \in 1 .. Len(Tail(q)) : Tail(q)[i] = q[i + 1]
  BY HeadTailProperties, Zenon
<1>2. Len(q) \in Nat \ {0} /\ DOMAIN q = 1 .. Len(q) /\ Head(q) = q[1]
  OBVIOUS
<1>3. DOMAIN Tail(q) = 1 .. Len(q) - 1
  BY <1>1
<1>4. ASSUME NEW p \in In(q) PROVE p \in In(Tail(q)) \cup {Head(q)}
  <2>1. PICK k \in 1 .. Len(q) : p = q[k]
    BY <1>2 DEF In
  <2>2. CASE k = 1
    BY <2>1, <2>2, <1>2
  <2>3. CASE k # 1
    <3>1. k - 1 \in 1 .. Len(q) - 1 /\ Tail(q)[k - 1] = q[k]
      BY <2>3, <1>1, <1>2
    <3> QED BY <3>1, <2>1, <1>3 DEF In
  <2> QED BY <2>2, <2>3
<1>5. In(Tail(q)) \cup {Head(q)} \subseteq In(q)
  BY <1>1, <1>2, <1>3 DEF In
<1>6. ASSUME Distinct(q)
      PROVE  /\ Distinct(Tail(q))
             /\ \A p \in In(Tail(q)) : p.address # Head(q).address
  <2>1. ASSUME NEW i \in DOMAIN Tail(q), NEW j \in DOMAIN Tail(q),
               Tail(q)[i].address = Tail(q)[j].address
        PROVE  i = j
    <3>1. i + 1 \in DOMAIN q /\ j + 1 \in DOMAIN q
      BY <1>2, <1>3
    <3>2. q[i + 1].address = q[j + 1].address
      BY <1>1, <1>3, <2>1
    <3>3. i + 1 = j + 1
      BY <3>1, <3>2, <1>6 DEF Distinct
    <3> QED BY <3>3, <1>2, <1>3
  <2>2. ASSUME NEW i \in DOMAIN Tail(q), Tail(q)[i].address = Head(q).address
        PROVE  FALSE
    <3>1. i + 1 \in DOMAIN q /\ 1 \in DOMAIN q /\ q[i + 1].address = q[1].address
      BY <1>1, <1>2, <1>3, <2>2
    <3>2. i + 1 = 1
      BY <3>1, <1>6 DEF Distinct
    <3> QED BY <3>2, <1>2, <1>3
  <2> QED BY <2>1, <2>2 DEF Distinct, In
<1> QED BY <1>1, <1>2, <1>4, <1>5, <1>6

(* A request that is appended is added to the queue.                       *)
LEMMA AppendIn ==
  ASSUME NEW q \in Seq(Packet), NEW p \in Packet
  PROVE  /\ Append(q, p) \in Seq(Packet) /\ Len(Append(q, p)) = Len(q) + 1 /\ Len(q) \in Nat
         /\ In(Append(q, p)) = In(q) \cup {p}
         /\ Distinct(q) /\ (\A x \in In(q) : x.address # p.address) => Distinct(Append(q, p))
<1> DEFINE r == Append(q, p)
<1>1. /\ r \in Seq(Packet) /\ Len(r) = Len(q) + 1
      /\ \A i \in 1 .. Len(q) : r[i] = q[i]
      /\ r[Len(q) + 1] = p
  BY AppendProperties
<1>2. Len(q) \in Nat /\ DOMAIN q = 1 .. Len(q) /\ DOMAIN r = 1 .. Len(q) + 1
  BY <1>1
<1>3. DOMAIN r = DOMAIN q \cup {Len(q) + 1}
  BY <1>2
<1> HIDE DEF r
<1>4. In(r) = In(q) \cup {p}
  BY <1>1, <1>2, <1>3 DEF In
<1>5. ASSUME Distinct(q), \A x \in In(q) : x.address # p.address
      PROVE  Distinct(r)
  <2> SUFFICES ASSUME NEW i \in DOMAIN r, NEW j \in DOMAIN r, r[i].address = r[j].address
               PROVE  i = j
    BY DEF Distinct
  <2>1. CASE i \in DOMAIN q /\ j \in DOMAIN q
    BY <2>1, <1>1, <1>2, <1>5 DEF Distinct
  <2>2. CASE i = Len(q) + 1 /\ j \in DOMAIN q
    BY <2>2, <1>1, <1>2, <1>5 DEF In
  <2>3. CASE j = Len(q) + 1 /\ i \in DOMAIN q
    BY <2>3, <1>1, <1>2, <1>5 DEF In
  <2> QED BY <2>1, <2>2, <2>3, <1>3
<1> QED BY <1>1, <1>2, <1>4, <1>5 DEF r

(* A request that is merged takes the place of the one that waits.         *)
LEMMA MergeIn ==
  ASSUME NEW q \in Seq(Packet), NEW k \in DOMAIN q, NEW p \in Packet
  PROVE  /\ [q EXCEPT ![k] = p] \in Seq(Packet) /\ Len([q EXCEPT ![k] = p]) = Len(q)
         /\ q[k] \in Packet /\ q[k] \in In(q)
         /\ In([q EXCEPT ![k] = p]) \subseteq In(q) \cup {p}
         /\ p \in In([q EXCEPT ![k] = p])
         /\ In(q) \subseteq In([q EXCEPT ![k] = p]) \cup {q[k]}
         /\ Distinct(q) /\ p.address = q[k].address =>
              /\ Distinct([q EXCEPT ![k] = p])
              /\ \A x \in In([q EXCEPT ![k] = p]) : x.address = p.address => x = p
              /\ \A x \in In(q) : x.address = p.address => x = q[k]
<1> DEFINE r == [q EXCEPT ![k] = p]
<1>1. DOMAIN q = 1 .. Len(q) /\ Len(q) \in Nat
  OBVIOUS
<1>2. /\ r \in Seq(Packet) /\ Len(r) = Len(q)
      /\ \A j \in 1 .. Len(q) : r[j] = IF j = k THEN p ELSE q[j]
  BY <1>1, ExceptSeq
<1>3. DOMAIN r = DOMAIN q /\ q[k] \in Packet
  BY <1>1
<1>4. \A j \in DOMAIN q : r[j] = IF j = k THEN p ELSE q[j]
  BY <1>1, <1>2
<1> HIDE DEF r
<1>5. q[k] \in In(q) /\ In(r) \subseteq In(q) \cup {p} /\ p \in In(r) /\ In(q) \subseteq In(r) \cup {q[k]}
  BY <1>3, <1>4 DEF In
<1>6. ASSUME Distinct(q), p.address = q[k].address
      PROVE  /\ Distinct(r)
             /\ \A x \in In(r) : x.address = p.address => x = p
             /\ \A x \in In(q) : x.address = p.address => x = q[k]
  <2>1. \A i \in DOMAIN q : r[i].address = q[i].address
    BY <1>4, <1>6
  <2>2. Distinct(r)
    BY <2>1, <1>3, <1>6 DEF Distinct
  <2>3. \A i \in DOMAIN q : q[i].address = p.address => i = k
    BY <1>6 DEF Distinct
  <2> QED BY <2>1, <2>2, <2>3, <1>3, <1>4 DEF In
<1> QED BY <1>2, <1>3, <1>5, <1>6 DEF r

-------------------------------------------------------------------------------
(* Packets: what a merge keeps of the entry and takes from the request.    *)

(* The lesser of two fill levels.                                          *)
LEMMA LeastLevel ==
  ASSUME NEW e \in Packet, NEW p \in Packet
  PROVE  /\ Least(e.fill_level, p.fill_level) \in {1, 2, 4, 8}
         /\ Least(e.fill_level, p.fill_level) \in {e.fill_level, p.fill_level}
         /\ Least(e.fill_level, p.fill_level) <= e.fill_level
         /\ Least(e.fill_level, p.fill_level) <= p.fill_level
<1>1. e.fill_level \in {1, 2, 4, 8} /\ p.fill_level \in {1, 2, 4, 8}
  BY DEF Packet
<1> QED BY <1>1 DEF Least

(* Two packets that ask the levels below for the same.                     *)
Alike(e, f) ==
  /\ e.address = f.address /\ e.fill_level = f.fill_level
  /\ e.instruction = f.instruction /\ e.is_data = f.is_data
  /\ e.fill_l1i = f.fill_l1i /\ e.fill_l1d = f.fill_l1d

(* A packet on its way down keeps all but its waiters and its word.        *)
LEMMA PlainPacket ==
  ASSUME NEW p \in Packet
  PROVE  /\ Plain(p) \in Packet
         /\ [p EXCEPT !.returned = FALSE, !.word = AnyWord] \in Packet
         /\ [p EXCEPT !.word = AnyWord] \in Packet
         /\ Alike(Plain(p), p) /\ Plain(p).returned = p.returned
         /\ Alike([p EXCEPT !.returned = FALSE, !.word = AnyWord], p)
         /\ Alike([p EXCEPT !.word = AnyWord], p)
<1>1. AnyWord \in Word
  BY SizeAssumption DEF AnyWord
<1> QED BY <1>1 DEF Plain, Packet, Alike

LEMMA MergeRqPacket ==
  ASSUME NEW e \in Packet, NEW p \in Packet
  PROVE  /\ MergeRq(e, p) \in Packet
         /\ MergeRq(e, p).address = e.address /\ MergeRq(e, p).fill_level = e.fill_level
         /\ MergeRq(e, p).instruction = (e.instruction \/ p.instruction)
         /\ MergeRq(e, p).is_data = (e.is_data \/ ~p.instruction)
         /\ MergeRq(e, p).fill_l1i = (e.fill_l1i \/ p.fill_l1i)
         /\ MergeRq(e, p).fill_l1d = (e.fill_l1d \/ p.fill_l1d)
<1> DEFINE i == e.instruction \/ p.instruction
           d == e.is_data \/ ~p.instruction
           fi == e.fill_l1i \/ p.fill_l1i
           fd == e.fill_l1d \/ p.fill_l1d
           ws == e.waiters \cup p.waiters
<1>1. {i, d, fi, fd} \subseteq BOOLEAN /\ ws \in SUBSET Demand
  BY DEF Packet
<1>2. MergeRq(e, p) = [e EXCEPT !.instruction = i, !.is_data = d, !.fill_l1i = fi,
                                !.fill_l1d = fd, !.waiters = ws]
  BY DEF MergeRq
<1> HIDE DEF i, d, fi, fd, ws
<1>3. /\ MergeRq(e, p) \in Packet
      /\ MergeRq(e, p).address = e.address /\ MergeRq(e, p).fill_level = e.fill_level
      /\ MergeRq(e, p).instruction = i /\ MergeRq(e, p).is_data = d
      /\ MergeRq(e, p).fill_l1i = fi /\ MergeRq(e, p).fill_l1d = fd
  BY <1>1, <1>2 DEF Packet
<1> QED BY <1>3 DEF i, d, fi, fd

LEMMA MergeFillPacket ==
  ASSUME NEW e \in Packet, NEW p \in Packet
  PROVE  /\ MergeFill(e, p) \in Packet
         /\ MergeFill(e, p).address = e.address /\ MergeFill(e, p).returned = e.returned
         /\ MergeFill(e, p).instruction = e.instruction /\ MergeFill(e, p).is_data = e.is_data
         /\ MergeFill(e, p).fill_l1i = (e.fill_l1i \/ p.fill_l1i)
         /\ MergeFill(e, p).fill_l1d = (e.fill_l1d \/ p.fill_l1d)
         /\ MergeFill(e, p).fill_level = Least(e.fill_level, p.fill_level)
BY LeastLevel DEF MergeFill, Packet

LEMMA MergePqPacket ==
  ASSUME NEW e \in Packet, NEW p \in Packet
  PROVE  /\ MergePq(e, p) \in Packet
         /\ MergePq(e, p).address = e.address
         /\ MergePq(e, p).instruction = (e.instruction \/ p.instruction)
         /\ MergePq(e, p).is_data = (e.is_data \/ p.is_data)
         /\ MergePq(e, p).fill_l1i = (e.fill_l1i \/ p.fill_l1i)
         /\ MergePq(e, p).fill_l1d = (e.fill_l1d \/ p.fill_l1d)
         /\ MergePq(e, p).fill_level = Least(e.fill_level, p.fill_level)
<1> DEFINE m == MergeFill(e, p)
<1>1. /\ m \in Packet /\ m.address = e.address
      /\ m.instruction = e.instruction /\ m.is_data = e.is_data
      /\ m.fill_l1i = (e.fill_l1i \/ p.fill_l1i) /\ m.fill_l1d = (e.fill_l1d \/ p.fill_l1d)
      /\ m.fill_level = Least(e.fill_level, p.fill_level)
  BY MergeFillPacket
<1>2. MergePq(e, p) = [m EXCEPT !.instruction = @ \/ p.instruction, !.is_data = @ \/ p.is_data]
  BY DEF MergePq
<1> HIDE DEF m
<1> QED BY <1>1, <1>2 DEF Packet

(* A read that finds a prefetch in flight takes its place; any other keeps *)
(* the entry, with the lesser fill level and the union of the flags.       *)
LEMMA MergeReadPacket ==
  ASSUME NEW e \in Packet, NEW p \in Packet, p.address = e.address
  PROVE  LET m == MergeRead(e, p)
         IN  /\ m \in Packet /\ m.address = e.address /\ m.returned = e.returned
             /\ e.type = "PREFETCH" =>
                  /\ m.instruction = p.instruction /\ m.is_data = p.is_data
                  /\ m.fill_l1i = p.fill_l1i /\ m.fill_l1d = p.fill_l1d
                  /\ m.fill_level = p.fill_level
             /\ e.type # "PREFETCH" =>
                  /\ m.instruction = (e.instruction \/ (p.type # "RFO" /\ p.instruction))
                  /\ m.is_data = (e.is_data \/ (p.type # "RFO" /\ ~p.instruction))
                  /\ m.fill_l1i = (e.fill_l1i \/ p.fill_l1i)
                  /\ m.fill_l1d = (e.fill_l1d \/ p.fill_l1d)
                  /\ m.fill_level = Least(e.fill_level, p.fill_level)
<1> DEFINE n == IF p.type = "RFO" THEN e
                ELSE [e EXCEPT !.instruction = @ \/ p.instruction,
                               !.is_data     = @ \/ ~p.instruction]
           o == [n EXCEPT !.waiters = @ \cup p.waiters]
<1>1. /\ o \in Packet /\ o.address = e.address /\ o.returned = e.returned
      /\ o.instruction = (e.instruction \/ (p.type # "RFO" /\ p.instruction))
      /\ o.is_data = (e.is_data \/ (p.type # "RFO" /\ ~p.instruction))
      /\ o.fill_l1i = e.fill_l1i /\ o.fill_l1d = e.fill_l1d /\ o.fill_level = e.fill_level
  <2>1. CASE p.type = "RFO"
    BY <2>1 DEF Packet
  <2>2. CASE p.type # "RFO"
    <3> DEFINE i == e.instruction \/ p.instruction
               d == e.is_data \/ ~p.instruction
               ws == e.waiters \cup p.waiters
    <3>1. {i, d} \subseteq BOOLEAN /\ ws \in SUBSET Demand
      BY DEF Packet
    <3>2. o = [[e EXCEPT !.instruction = i, !.is_data = d] EXCEPT !.waiters = ws]
      BY <2>2 DEF Packet
    <3> HIDE DEF i, d, ws, o, n
    <3>3. /\ o \in Packet /\ o.address = e.address /\ o.returned = e.returned
          /\ o.instruction = i /\ o.is_data = d
          /\ o.fill_l1i = e.fill_l1i /\ o.fill_l1d = e.fill_l1d /\ o.fill_level = e.fill_level
      BY <3>1, <3>2 DEF Packet
    <3> QED BY <2>2, <3>3 DEF i, d
  <2> QED BY <2>1, <2>2
<1>2. MergeRead(e, p) = IF e.type = "PREFETCH" THEN [p EXCEPT !.returned = e.returned]
                        ELSE MergeFill(o, p)
  BY DEF MergeRead
<1> HIDE DEF o
<1>3. CASE e.type = "PREFETCH"
  BY <1>2, <1>3 DEF Packet
<1>4. CASE e.type # "PREFETCH"
  <2>1. o \in Packet
    BY <1>1
  <2> DEFINE r == MergeFill(o, p)
  <2>3. /\ r \in Packet
        /\ r.address = o.address /\ r.returned = o.returned
        /\ r.instruction = o.instruction /\ r.is_data = o.is_data
        /\ r.fill_l1i = (o.fill_l1i \/ p.fill_l1i)
        /\ r.fill_l1d = (o.fill_l1d \/ p.fill_l1d)
        /\ r.fill_level = Least(o.fill_level, p.fill_level)
    BY <2>1, MergeFillPacket
  <2>2. MergeRead(e, p) = r
    BY <1>2, <1>4
  <2> HIDE DEF n, r
  <2> QED BY <1>1, <1>4, <2>2, <2>3, Zenon
<1> QED BY <1>3, <1>4

LEMMA MergeStorePacket ==
  ASSUME NEW e \in Packet, NEW p \in Packet, p.address = e.address
  PROVE  LET m == MergeStore(e, p)
         IN  /\ m \in Packet /\ m.address = e.address /\ m.returned = e.returned
             /\ e.type = "PREFETCH" =>
                  /\ m.instruction = p.instruction /\ m.is_data = p.is_data
                  /\ m.fill_l1i = p.fill_l1i /\ m.fill_l1d = p.fill_l1d
                  /\ m.fill_level = p.fill_level
             /\ e.type # "PREFETCH" =>
                  /\ m.instruction = e.instruction /\ m.is_data = e.is_data
                  /\ m.fill_l1i = (e.fill_l1i \/ p.fill_l1i)
                  /\ m.fill_l1d = (e.fill_l1d \/ p.fill_l1d)
                  /\ m.fill_level = Least(e.fill_level, p.fill_level)
<1>1. AnyWord \in Word
  BY SizeAssumption DEF AnyWord
<1>2. CASE e.type = "PREFETCH"
  BY <1>1, <1>2 DEF MergeStore, Packet
<1>3. CASE e.type # "PREFETCH"
  BY <1>3, MergeFillPacket DEF MergeStore
<1> QED BY <1>2, <1>3

(* The packets the core, the prefetchers and an eviction make.             *)
LEMMA RequestPacket ==
  ASSUME NEW a \in Addr, NEW w \in Word, NEW type \in {"LOAD", "RFO", "PREFETCH"},
         NEW instr \in BOOLEAN, NEW level \in {1, 2, 4}, NEW ws \in SUBSET Demand
  PROVE  LET p == Request(a, w, type, instr, level, ws)
         IN  /\ p \in Packet /\ p.address = a /\ p.fill_level = level
             /\ p.instruction = instr /\ p.is_data = ~instr /\ p.fill_l1i = instr
             /\ p.fill_l1d = (~instr /\ level = 1)
BY DEF Request, Packet, FILL_L1

LEMMA WritebackPacket ==
  ASSUME NEW c \in Caches, NEW a \in Addr
  PROVE  /\ Writeback(c, a) \in Packet /\ Writeback(c, a).address = a
         /\ Writeback(c, a).fill_level = 2 * FillLevel(c)
BY SizeAssumption DEF Writeback, Packet, AnyWord, FillLevel, FILL_L1, FILL_L2, FILL_LLC

-------------------------------------------------------------------------------
(* Well-formed states.                                                     *)

Files == UNION {[A -> Packet] : A \in SUBSET Addr}
Ways  == UNION {[1 .. n -> Block] : n \in Nat}

Messages == {"return_data: no matching MSHR entry", "add_wq: write queue is full"}

States ==
  [rq : [Caches -> Seq(Packet)], wq : [Caches -> Seq(Packet)], pq : [Caches -> Seq(Packet)],
   mshr : [Caches -> Files], block : [Caches -> Ways],
   processed : [Caches -> Seq(SUBSET Demand)], dramRq : SUBSET Addr, dramWq : SUBSET Addr,
   asserts : SUBSET Messages]

(* One MSHR file, and the ways of one cache.                               *)
FileOk(f, c) ==
  /\ f \in Files
  /\ IsFiniteSet(DOMAIN f) /\ Cardinality(DOMAIN f) <= MSHR_SIZE[c]
  /\ \A a \in DOMAIN f : f[a].address = a

BlockOk(b, c) ==
  /\ b \in Ways /\ DOMAIN b = 1 .. WAYS[c]
  /\ \A w \in 1 .. WAYS[c] : b[w].dirty => b[w].tag # NoAddr

Typed(s) ==
  /\ s \in States
  /\ \A c \in Caches : /\ Len(s.rq[c]) <= RQ_SIZE[c]
                       /\ Len(s.wq[c]) <= WQ_SIZE[c]
                       /\ Len(s.pq[c]) <= PQ_SIZE[c]
                       /\ FileOk(s.mshr[c], c)
                       /\ BlockOk(s.block[c], c)
  /\ IsFiniteSet(s.dramWq) /\ Cardinality(s.dramWq) <= DRAM_WQ_SIZE

(* A field of the state replaced.                                          *)
PutRq(s, c, q)        == [s EXCEPT !.rq[c] = q]
PutWq(s, c, q)        == [s EXCEPT !.wq[c] = q]
PutPq(s, c, q)        == [s EXCEPT !.pq[c] = q]
PutFile(s, c, f)      == [s EXCEPT !.mshr[c] = f]
PutBlock(s, c, b)     == [s EXCEPT !.block[c] = b]
PutProcessed(s, c, q) == [s EXCEPT !.processed[c] = q]
PutAssert(s, m)       == [s EXCEPT !.asserts = @ \cup {m}]
PutDram(s, R, W)      == [s EXCEPT !.dramRq = R, !.dramWq = W]

(* What an operator leaves alone.                                          *)
KeepsQueues(s, t) == t.rq = s.rq /\ t.wq = s.wq /\ t.pq = s.pq
KeepsFiles(s, t)  == t.mshr = s.mshr
KeepsDram(s, t)   == t.dramRq = s.dramRq /\ t.dramWq = s.dramWq

(* A field that is replaced by one of its kind leaves the state well       *)
(* formed, and every other field as it was.                                *)
LEMMA WithRq ==
  ASSUME NEW s, Typed(s), NEW c \in Caches, NEW q \in Seq(Packet), Len(q) <= RQ_SIZE[c]
  PROVE  LET t == PutRq(s, c, q)
         IN  /\ Typed(t) /\ t.rq[c] = q
             /\ \A d \in Caches \ {c} : t.rq[d] = s.rq[d]
             /\ t.wq = s.wq /\ t.pq = s.pq
             /\ KeepsFiles(s, t) /\ KeepsDram(s, t)
             /\ t.block = s.block /\ t.processed = s.processed /\ t.asserts = s.asserts
<1> DEFINE t == PutRq(s, c, q)
<1>1. /\ t \in States /\ t.rq = [s.rq EXCEPT ![c] = q]
      /\ t.wq = s.wq /\ t.pq = s.pq /\ t.mshr = s.mshr
      /\ t.dramRq = s.dramRq /\ t.dramWq = s.dramWq
      /\ t.block = s.block /\ t.processed = s.processed /\ t.asserts = s.asserts
  BY DEF PutRq, Typed, States
<1> HIDE DEF t
<1>2. t.rq[c] = q /\ \A d \in Caches \ {c} : t.rq[d] = s.rq[d]
  BY <1>1 DEF Typed, States
<1> QED BY <1>1, <1>2 DEF t, Typed, KeepsFiles, KeepsDram

LEMMA WithWq ==
  ASSUME NEW s, Typed(s), NEW c \in Caches, NEW q \in Seq(Packet), Len(q) <= WQ_SIZE[c]
  PROVE  LET t == PutWq(s, c, q)
         IN  /\ Typed(t) /\ t.wq[c] = q
             /\ \A d \in Caches \ {c} : t.wq[d] = s.wq[d]
             /\ t.rq = s.rq /\ t.pq = s.pq
             /\ KeepsFiles(s, t) /\ KeepsDram(s, t)
             /\ t.block = s.block /\ t.processed = s.processed /\ t.asserts = s.asserts
<1> DEFINE t == PutWq(s, c, q)
<1>1. /\ t \in States /\ t.wq = [s.wq EXCEPT ![c] = q]
      /\ t.rq = s.rq /\ t.pq = s.pq /\ t.mshr = s.mshr
      /\ t.dramRq = s.dramRq /\ t.dramWq = s.dramWq
      /\ t.block = s.block /\ t.processed = s.processed /\ t.asserts = s.asserts
  BY DEF PutWq, Typed, States
<1> HIDE DEF t
<1>2. t.wq[c] = q /\ \A d \in Caches \ {c} : t.wq[d] = s.wq[d]
  BY <1>1 DEF Typed, States
<1> QED BY <1>1, <1>2 DEF t, Typed, KeepsFiles, KeepsDram

LEMMA WithPq ==
  ASSUME NEW s, Typed(s), NEW c \in Caches, NEW q \in Seq(Packet), Len(q) <= PQ_SIZE[c]
  PROVE  LET t == PutPq(s, c, q)
         IN  /\ Typed(t) /\ t.pq[c] = q
             /\ \A d \in Caches \ {c} : t.pq[d] = s.pq[d]
             /\ t.rq = s.rq /\ t.wq = s.wq
             /\ KeepsFiles(s, t) /\ KeepsDram(s, t)
             /\ t.block = s.block /\ t.processed = s.processed /\ t.asserts = s.asserts
<1> DEFINE t == PutPq(s, c, q)
<1>1. /\ t \in States /\ t.pq = [s.pq EXCEPT ![c] = q]
      /\ t.rq = s.rq /\ t.wq = s.wq /\ t.mshr = s.mshr
      /\ t.dramRq = s.dramRq /\ t.dramWq = s.dramWq
      /\ t.block = s.block /\ t.processed = s.processed /\ t.asserts = s.asserts
  BY DEF PutPq, Typed, States
<1> HIDE DEF t
<1>2. t.pq[c] = q /\ \A d \in Caches \ {c} : t.pq[d] = s.pq[d]
  BY <1>1 DEF Typed, States
<1> QED BY <1>1, <1>2 DEF t, Typed, KeepsFiles, KeepsDram

LEMMA WithFile ==
  ASSUME NEW s, Typed(s), NEW c \in Caches, NEW f, FileOk(f, c)
  PROVE  LET t == PutFile(s, c, f)
         IN  /\ Typed(t) /\ t.mshr[c] = f
             /\ \A d \in Caches \ {c} : t.mshr[d] = s.mshr[d]
             /\ KeepsQueues(s, t) /\ KeepsDram(s, t)
             /\ t.block = s.block /\ t.processed = s.processed /\ t.asserts = s.asserts
<1> DEFINE t == PutFile(s, c, f)
<1>1. /\ t \in States /\ t.mshr = [s.mshr EXCEPT ![c] = f]
      /\ t.rq = s.rq /\ t.wq = s.wq /\ t.pq = s.pq
      /\ t.dramRq = s.dramRq /\ t.dramWq = s.dramWq
      /\ t.block = s.block /\ t.processed = s.processed /\ t.asserts = s.asserts
  BY DEF PutFile, Typed, States, FileOk
<1> HIDE DEF t
<1>2. /\ t.mshr[c] = f
      /\ \A d \in Caches \ {c} : t.mshr[d] = s.mshr[d]
  BY <1>1 DEF Typed, States
<1> QED BY <1>1, <1>2 DEF t, Typed, KeepsQueues, KeepsDram

LEMMA WithBlock ==
  ASSUME NEW s, Typed(s), NEW c \in Caches, NEW b, BlockOk(b, c)
  PROVE  LET t == PutBlock(s, c, b)
         IN  /\ Typed(t) /\ t.block[c] = b
             /\ \A d \in Caches \ {c} : t.block[d] = s.block[d]
             /\ KeepsQueues(s, t) /\ KeepsFiles(s, t) /\ KeepsDram(s, t)
             /\ t.processed = s.processed /\ t.asserts = s.asserts
<1> DEFINE t == PutBlock(s, c, b)
<1>1. /\ t \in States /\ t.block = [s.block EXCEPT ![c] = b]
      /\ t.rq = s.rq /\ t.wq = s.wq /\ t.pq = s.pq
      /\ t.mshr = s.mshr
      /\ t.dramRq = s.dramRq /\ t.dramWq = s.dramWq
      /\ t.processed = s.processed /\ t.asserts = s.asserts
  BY DEF PutBlock, Typed, States, BlockOk
<1> HIDE DEF t
<1>2. t.block[c] = b /\ \A d \in Caches \ {c} : t.block[d] = s.block[d]
  BY <1>1 DEF Typed, States
<1> QED BY <1>1, <1>2 DEF t, Typed, KeepsQueues, KeepsFiles, KeepsDram

(* The PROCESSED queues and the assertions are of no concern to the rest.  *)
LEMMA WithProcessed ==
  ASSUME NEW s, Typed(s), NEW c \in Caches, NEW q \in Seq(SUBSET Demand)
  PROVE  LET t == PutProcessed(s, c, q)
         IN  /\ Typed(t)
             /\ KeepsQueues(s, t) /\ KeepsFiles(s, t) /\ KeepsDram(s, t)
             /\ t.block = s.block /\ t.asserts = s.asserts
<1> DEFINE t == PutProcessed(s, c, q)
<1>1. /\ t \in States
      /\ t.rq = s.rq /\ t.wq = s.wq /\ t.pq = s.pq
      /\ t.mshr = s.mshr
      /\ t.dramRq = s.dramRq /\ t.dramWq = s.dramWq
      /\ t.block = s.block /\ t.asserts = s.asserts
  BY DEF PutProcessed, Typed, States
<1> HIDE DEF t
<1> QED BY <1>1 DEF t, Typed, KeepsQueues, KeepsFiles, KeepsDram

LEMMA WithAssert ==
  ASSUME NEW s, Typed(s), NEW m \in Messages
  PROVE  LET t == PutAssert(s, m)
         IN  /\ Typed(t) /\ t.asserts = s.asserts \cup {m}
             /\ KeepsQueues(s, t) /\ KeepsFiles(s, t) /\ KeepsDram(s, t)
             /\ t.block = s.block /\ t.processed = s.processed
<1> DEFINE t == PutAssert(s, m)
<1>1. /\ t \in States /\ t.asserts = s.asserts \cup {m}
      /\ t.rq = s.rq /\ t.wq = s.wq /\ t.pq = s.pq
      /\ t.mshr = s.mshr
      /\ t.dramRq = s.dramRq /\ t.dramWq = s.dramWq
      /\ t.block = s.block /\ t.processed = s.processed
  BY DEF PutAssert, Typed, States
<1> HIDE DEF t
<1> QED BY <1>1 DEF t, Typed, KeepsQueues, KeepsFiles, KeepsDram

LEMMA WithDram ==
  ASSUME NEW s, Typed(s), NEW R \in SUBSET Addr, NEW W \in SUBSET Addr,
         IsFiniteSet(W), Cardinality(W) <= DRAM_WQ_SIZE
  PROVE  LET t == PutDram(s, R, W)
         IN  /\ Typed(t) /\ t.dramRq = R /\ t.dramWq = W
             /\ KeepsQueues(s, t) /\ KeepsFiles(s, t)
             /\ t.block = s.block /\ t.processed = s.processed /\ t.asserts = s.asserts
<1> DEFINE t == PutDram(s, R, W)
<1>1. /\ t \in States /\ t.dramRq = R /\ t.dramWq = W
      /\ t.rq = s.rq /\ t.wq = s.wq /\ t.pq = s.pq
      /\ t.mshr = s.mshr
      /\ t.block = s.block /\ t.processed = s.processed /\ t.asserts = s.asserts
  BY DEF PutDram, Typed, States
<1> HIDE DEF t
<1> QED BY <1>1 DEF t, Typed, KeepsQueues, KeepsFiles

-------------------------------------------------------------------------------
(* The MSHR files.                                                         *)

(* An entry is a packet for the address it is filed under.                 *)
LEMMA EntryOk ==
  ASSUME NEW s, Typed(s), NEW c \in Caches
  PROVE  /\ DOMAIN s.mshr[c] \subseteq Addr /\ IsFiniteSet(DOMAIN s.mshr[c])
         /\ \A a \in DOMAIN s.mshr[c] : s.mshr[c][a] \in Packet /\ s.mshr[c][a].address = a
<1>1. FileOk(s.mshr[c], c)
  BY DEF Typed, States
<1> QED BY <1>1 DEF FileOk, Files

(* What an answer or the handing over of a demand may change: the flags of *)
(* the misses in flight and the PROCESSED queues.                          *)
Answered(s, t) ==
  /\ Typed(t) /\ KeepsQueues(s, t) /\ KeepsDram(s, t) /\ t.block = s.block
  /\ \A c \in Caches : DOMAIN t.mshr[c] = DOMAIN s.mshr[c]

LEMMA AnsweredTrans ==
  ASSUME NEW s, NEW t, NEW u, Answered(s, t), Answered(t, u)
  PROVE  Answered(s, u)
BY DEF Answered, KeepsQueues, KeepsDram

LEMMA AnsweredRefl == ASSUME NEW s, Typed(s) PROVE Answered(s, s)
BY DEF Answered, KeepsQueues, KeepsDram

(* return_data marks the entry.                                            *)
LEMMA ReturnDataFiled ==
  ASSUME NEW s, Typed(s), NEW c \in Caches, NEW a \in DOMAIN s.mshr[c]
  PROVE  LET t == ReturnData(s, c, a)
         IN  /\ Answered(s, t) /\ t.asserts = s.asserts /\ t.processed = s.processed
             /\ t.mshr[c][a] \in Packet /\ t.mshr[c][a].returned
             /\ Alike(t.mshr[c][a], s.mshr[c][a])
             /\ \A x \in DOMAIN s.mshr[c] \ {a} : t.mshr[c][x] = s.mshr[c][x]
             /\ \A d \in Caches \ {c} : /\ t.mshr[d] = s.mshr[d]
<1> DEFINE e == [s.mshr[c][a] EXCEPT !.returned = TRUE]
           f == [s.mshr[c] EXCEPT ![a] = e]
           t == ReturnData(s, c, a)
<1>1. s.mshr[c][a] \in Packet /\ s.mshr[c][a].address = a
  BY EntryOk
<1>2. e \in Packet /\ e.address = a /\ e.returned /\ Alike(e, s.mshr[c][a])
  BY <1>1 DEF Packet, Alike
<1>3. FileOk(s.mshr[c], c)
  BY DEF Typed
<1>4. FileOk(f, c) /\ DOMAIN f = DOMAIN s.mshr[c]
  <2> HIDE DEF e
  <2>1. PICK A \in SUBSET Addr : s.mshr[c] \in [A -> Packet]
    BY <1>3 DEF FileOk, Files
  <2>2. f \in [A -> Packet] /\ DOMAIN f = DOMAIN s.mshr[c]
    BY <2>1, <1>2
  <2>3. f \in Files
    BY <2>2 DEF Files
  <2>4. \A x \in DOMAIN f : f[x].address = x
    BY <2>1, <1>2, <1>3 DEF FileOk
  <2> QED BY <2>2, <2>3, <2>4, <1>3 DEF FileOk
<1>0. f[a] = e /\ \A x \in DOMAIN s.mshr[c] \ {a} : f[x] = s.mshr[c][x]
  OBVIOUS
<1>5. t = PutFile(s, c, f)
  BY DEF ReturnData, InMshr, PutFile
<1> HIDE DEF t, f, e
<1>6. /\ Typed(t) /\ t.mshr[c] = f
      /\ \A d \in Caches \ {c} : t.mshr[d] = s.mshr[d]
      /\ KeepsQueues(s, t) /\ KeepsDram(s, t)
      /\ t.block = s.block /\ t.processed = s.processed /\ t.asserts = s.asserts
  BY <1>4, <1>5, WithFile
<1>7. \A d \in Caches : DOMAIN t.mshr[d] = DOMAIN s.mshr[d]
  BY <1>4, <1>6
<1> QED BY <1>0, <1>2, <1>6, <1>7 DEF t, Answered

(* To be answered twice changes no more than once.                         *)
LEMMA ReturnedAgain ==
  ASSUME NEW s, Typed(s), NEW c \in Caches, NEW a \in DOMAIN s.mshr[c],
         s.mshr[c][a].returned
  PROVE  ReturnData(s, c, a) = s
<1> DEFINE e == [s.mshr[c][a] EXCEPT !.returned = TRUE]
           f == [s.mshr[c] EXCEPT ![a] = e]
<1>1. s.mshr[c][a] \in Packet
  BY EntryOk
<1>2. s.mshr[c][a].returned = TRUE
  BY <1>1 DEF Packet
<1>3. e = s.mshr[c][a]
  BY <1>1, <1>2 DEF Packet
<1>4. ReturnData(s, c, a) = PutFile(s, c, f)
  BY DEF ReturnData, InMshr, PutFile
<1> HIDE DEF e
<1>5. f = s.mshr[c]
  <2>1. PICK A \in SUBSET Addr : s.mshr[c] \in [A -> Packet]
    BY DEF Typed, FileOk, Files
  <2> QED BY <2>1, <1>3
<1> HIDE DEF f
<1>6. [s.mshr EXCEPT ![c] = s.mshr[c]] = s.mshr
  BY DEF Typed, States
<1>7. PutFile(s, c, f) = s
  BY <1>5, <1>6 DEF Typed, States, PutFile
<1> QED BY <1>4, <1>7

(* Whatever it is called with, it keeps to that.                           *)
LEMMA ReturnDataAnswered ==
  ASSUME NEW s, Typed(s), NEW c, NEW a
  PROVE  Answered(s, ReturnData(s, c, a)) /\ ReturnData(s, c, a).processed = s.processed
<1>1. CASE ~InMshr(s, c, a)
  <2>1. "return_data: no matching MSHR entry" \in Messages
    BY DEF Messages
  <2>2. ReturnData(s, c, a) = PutAssert(s, "return_data: no matching MSHR entry")
    BY <1>1 DEF ReturnData, PutAssert
  <2> QED BY <2>1, <2>2, WithAssert DEF Answered, KeepsFiles
<1>2. CASE InMshr(s, c, a) /\ c \in Caches
  BY <1>2, ReturnDataFiled DEF InMshr
<1>3. CASE InMshr(s, c, a) /\ c \notin Caches
  <2>1. \A e : [s.mshr EXCEPT ![c] = e] = s.mshr
    BY <1>3 DEF Typed, States
  <2>2. \A f : PutFile(s, c, f) = s
    BY <2>1 DEF Typed, States, PutFile
  <2> DEFINE f == [s.mshr[c] EXCEPT ![a].returned = TRUE]
  <2>3. ReturnData(s, c, a) = PutFile(s, c, f)
    BY <1>3 DEF ReturnData, PutFile
  <2> HIDE DEF f
  <2> QED BY <2>2, <2>3, AnsweredRefl
<1> QED BY <1>1, <1>2, <1>3

LEMMA ReturnUpAnswered ==
  ASSUME NEW s, Typed(s), NEW c, NEW p
  PROVE  Answered(s, ReturnUp(s, c, p))
<1> DEFINE below   == p.fill_level < FillLevel(c)
           toInstr == IF FillLevel(c) = FILL_L2 THEN p.fill_l1i ELSE p.instruction
           toData  == IF FillLevel(c) = FILL_L2 THEN p.fill_l1d ELSE p.is_data
           s1 == IF below /\ toInstr THEN ReturnData(s, UpperInstr(c), p.address) ELSE s
           s2 == IF below /\ toData THEN ReturnData(s1, UpperData(c), p.address) ELSE s1
<1>1. ReturnUp(s, c, p) = s2
  BY DEF ReturnUp
<1>2. Answered(s, s1)
  <2>1. Answered(s, ReturnData(s, UpperInstr(c), p.address)) /\ Answered(s, s)
    BY ReturnDataAnswered, AnsweredRefl
  <2> QED BY <2>1
<1>3. Answered(s1, s2)
  <2> HIDE DEF s1
  <2>1. Typed(s1)
    BY <1>2 DEF Answered
  <2>2. Answered(s1, ReturnData(s1, UpperData(c), p.address)) /\ Answered(s1, s1)
    BY <2>1, ReturnDataAnswered, AnsweredRefl
  <2> QED BY <2>2
<1> HIDE DEF s1, s2
<1> QED BY <1>1, <1>2, <1>3, AnsweredTrans

(* The handing over of a demand only concerns the PROCESSED queue.         *)
LEMMA ProcessSame ==
  ASSUME NEW s, Typed(s), NEW c \in Caches, NEW p \in Packet
  PROVE  LET t == Process(s, c, p)
         IN  Answered(s, t) /\ KeepsFiles(s, t) /\ t.asserts = s.asserts
<1>1. s.processed[c] \in Seq(SUBSET Demand) /\ p.waiters \in SUBSET Demand
  BY DEF Typed, States, Packet
<1>2. Append(s.processed[c], p.waiters) \in Seq(SUBSET Demand)
  BY <1>1
<1> DEFINE t == AddProcessed(s, c, p)
<1>3. Answered(s, t) /\ KeepsFiles(s, t) /\ t.asserts = s.asserts
  <2>1. CASE Len(s.processed[c]) < PROCESSED_SIZE
    <3>1. t = PutProcessed(s, c, Append(s.processed[c], p.waiters))
      BY <2>1 DEF AddProcessed, PutProcessed
    <3> HIDE DEF t
    <3>2. /\ Typed(t) /\ KeepsQueues(s, t) /\ KeepsFiles(s, t) /\ KeepsDram(s, t)
          /\ t.block = s.block /\ t.asserts = s.asserts
      BY <3>1, <1>2, WithProcessed
    <3> QED BY <3>2 DEF Answered, KeepsFiles
  <2>2. CASE ~(Len(s.processed[c]) < PROCESSED_SIZE)
    BY <2>2, AnsweredRefl DEF AddProcessed, KeepsFiles
  <2> QED BY <2>1, <2>2
<1>4. Process(s, c, p) = t \/ Process(s, c, p) = s
  BY DEF Process
<1> HIDE DEF t
<1> QED BY <1>3, <1>4, AnsweredRefl DEF KeepsFiles

(* add_mshr, and a merge into an entry that is there.                      *)
LEMMA SetMshrFile ==
  ASSUME NEW s, Typed(s), NEW c \in Caches, NEW e \in Packet,
         e.address \in DOMAIN s.mshr[c] \/ ~MshrFull(s, c)
  PROVE  LET t == SetMshr(s, c, e)
         IN  /\ Typed(t)
             /\ DOMAIN t.mshr[c] = DOMAIN s.mshr[c] \cup {e.address}
             /\ \A a \in DOMAIN t.mshr[c] :
                  t.mshr[c][a] = IF a = e.address THEN e ELSE s.mshr[c][a]
             /\ \A d \in Caches \ {c} : t.mshr[d] = s.mshr[d]
             /\ KeepsQueues(s, t) /\ KeepsDram(s, t)
             /\ t.block = s.block /\ t.processed = s.processed /\ t.asserts = s.asserts
<1> DEFINE g == s.mshr[c]
           f == [a \in DOMAIN g \cup {e.address} |-> IF a = e.address THEN e ELSE g[a]]
           t == SetMshr(s, c, e)
<1>1. FileOk(g, c) /\ e.address \in Addr
  BY DEF Typed, States, Packet
<1>2. FileOk(f, c)
  <2>1. DOMAIN g \subseteq Addr /\ \A a \in DOMAIN g : g[a] \in Packet /\ g[a].address = a
    BY EntryOk
  <2>2. f \in [DOMAIN g \cup {e.address} -> Packet]
    BY <2>1
  <2>3. f \in Files
    BY <2>1, <2>2, <1>1 DEF Files
  <2>4. \A a \in DOMAIN f : f[a].address = a
    BY <2>1
  <2>5. MSHR_SIZE[c] \in Nat
    BY SizeAssumption
  <2>6. IsFiniteSet(DOMAIN f) /\ Cardinality(DOMAIN f) <= MSHR_SIZE[c]
    <3>1. IsFiniteSet(DOMAIN g) /\ Cardinality(DOMAIN g) <= MSHR_SIZE[c]
      BY <1>1 DEF FileOk
    <3>2. Cardinality(DOMAIN g) \in Nat
      BY <3>1, FS_CardinalityType
    <3>3. /\ IsFiniteSet(DOMAIN g \cup {e.address})
          /\ Cardinality(DOMAIN g \cup {e.address}) =
               IF e.address \in DOMAIN g THEN Cardinality(DOMAIN g) ELSE Cardinality(DOMAIN g) + 1
      BY <3>1, FS_AddElement
    <3>4. e.address \notin DOMAIN g => Cardinality(DOMAIN g) # MSHR_SIZE[c]
      BY DEF MshrFull
    <3>5. DOMAIN f = DOMAIN g \cup {e.address}
      OBVIOUS
    <3> HIDE DEF f, g
    <3> QED BY <3>1, <3>2, <3>3, <3>4, <3>5, <2>5
  <2> HIDE DEF f
  <2> QED BY <2>3, <2>4, <2>6 DEF FileOk
<1>3. t = PutFile(s, c, f)
  BY DEF SetMshr, PutFile
<1>4. /\ DOMAIN f = DOMAIN g \cup {e.address}
      /\ \A a \in DOMAIN f : f[a] = IF a = e.address THEN e ELSE g[a]
  OBVIOUS
<1> HIDE DEF f, t
<1>5. /\ Typed(t) /\ t.mshr[c] = f
      /\ \A d \in Caches \ {c} : t.mshr[d] = s.mshr[d]
      /\ KeepsQueues(s, t) /\ KeepsDram(s, t)
      /\ t.block = s.block /\ t.processed = s.processed /\ t.asserts = s.asserts
  BY <1>1, <1>2, <1>3, WithFile
<1> QED BY <1>4, <1>5 DEF t

(* The entry of a new miss.                                                *)
MissEntry(p) == [p EXCEPT !.returned = FALSE, !.word = AnyWord]

LEMMA AddMshrFile ==
  ASSUME NEW s, Typed(s), NEW c \in Caches, NEW p \in Packet, ~MshrFull(s, c)
  PROVE  LET t == AddMshr(s, c, p)
             e == MissEntry(p)
         IN  /\ Typed(t) /\ e \in Packet /\ ~e.returned /\ Alike(e, p)
             /\ DOMAIN t.mshr[c] = DOMAIN s.mshr[c] \cup {p.address}
             /\ \A a \in DOMAIN t.mshr[c] :
                  t.mshr[c][a] = IF a = p.address THEN e ELSE s.mshr[c][a]
             /\ \A d \in Caches \ {c} : t.mshr[d] = s.mshr[d]
             /\ KeepsQueues(s, t) /\ KeepsDram(s, t)
             /\ t.block = s.block /\ t.processed = s.processed /\ t.asserts = s.asserts
<1> DEFINE e == MissEntry(p)
<1>1. e \in Packet /\ Alike(e, p) /\ e.address = p.address
  BY PlainPacket DEF Alike, MissEntry
<1>2. ~e.returned
  BY DEF Packet, MissEntry
<1>3. AddMshr(s, c, p) = SetMshr(s, c, e)
  BY DEF AddMshr, MissEntry
<1> DEFINE t == SetMshr(s, c, e)
<1> HIDE DEF e
<1>4. /\ Typed(t)
      /\ DOMAIN t.mshr[c] = DOMAIN s.mshr[c] \cup {e.address}
      /\ \A a \in DOMAIN t.mshr[c] :
           t.mshr[c][a] = IF a = e.address THEN e ELSE s.mshr[c][a]
      /\ \A d \in Caches \ {c} : t.mshr[d] = s.mshr[d]
      /\ KeepsQueues(s, t) /\ KeepsDram(s, t)
      /\ t.block = s.block /\ t.processed = s.processed /\ t.asserts = s.asserts
  BY <1>1, SetMshrFile
<1> HIDE DEF t
<1>5. AddMshr(s, c, p) = t
  BY <1>3 DEF t
<1> QED BY <1>1, <1>2, <1>4, <1>5 DEF e

(* The entry of a miss that was filled is given back.                      *)
LEMMA RemoveMshrFile ==
  ASSUME NEW s, Typed(s), NEW c \in Caches, NEW a \in DOMAIN s.mshr[c]
  PROVE  LET t == RemoveMshr(s, c, a)
         IN  /\ Typed(t)
             /\ DOMAIN t.mshr[c] = DOMAIN s.mshr[c] \ {a}
             /\ \A x \in DOMAIN t.mshr[c] : t.mshr[c][x] = s.mshr[c][x]
             /\ \A d \in Caches \ {c} : /\ t.mshr[d] = s.mshr[d]
             /\ KeepsQueues(s, t) /\ KeepsDram(s, t)
             /\ t.block = s.block /\ t.processed = s.processed /\ t.asserts = s.asserts
<1> DEFINE g == s.mshr[c]
           f == [x \in DOMAIN g \ {a} |-> g[x]]
           t == RemoveMshr(s, c, a)
<1>1. FileOk(g, c)
  BY DEF Typed, States
<1>2. DOMAIN f = DOMAIN g \ {a} /\ \A x \in DOMAIN f : f[x] = g[x]
  OBVIOUS
<1>3. FileOk(f, c)
  <2>1. DOMAIN g \subseteq Addr /\ \A x \in DOMAIN g : g[x] \in Packet /\ g[x].address = x
    BY EntryOk
  <2>2. f \in [DOMAIN g \ {a} -> Packet]
    BY <2>1
  <2>3. f \in Files
    BY <2>1, <2>2 DEF Files
  <2>4. IsFiniteSet(DOMAIN g \ {a}) /\ Cardinality(DOMAIN g \ {a}) <= Cardinality(DOMAIN g)
    BY <1>1, FS_Subset DEF FileOk
  <2>5. Cardinality(DOMAIN g \ {a}) \in Nat /\ Cardinality(DOMAIN g) \in Nat /\ MSHR_SIZE[c] \in Nat
    BY <1>1, <2>4, FS_CardinalityType, SizeAssumption DEF FileOk
  <2> HIDE DEF f, g
  <2> QED BY <1>1, <1>2, <2>1, <2>3, <2>4, <2>5 DEF FileOk
<1>4. t = PutFile(s, c, f)
  BY DEF RemoveMshr, PutFile
<1> HIDE DEF f, t
<1>5. /\ Typed(t) /\ t.mshr[c] = f
      /\ \A d \in Caches \ {c} : t.mshr[d] = s.mshr[d]
      /\ KeepsQueues(s, t) /\ KeepsDram(s, t)
      /\ t.block = s.block /\ t.processed = s.processed /\ t.asserts = s.asserts
  BY <1>1, <1>3, <1>4, WithFile
<1> QED BY <1>2, <1>5 DEF t

-------------------------------------------------------------------------------
(* Requests on their way down.                                             *)

(* What sending a request to the level below may change: the queues of     *)
(* reads and prefetches, and whatever an answer may.                       *)
Sent(s, t) ==
  /\ Typed(t) /\ t.block = s.block /\ t.wq = s.wq /\ t.dramWq = s.dramWq
  /\ \A c \in Caches : DOMAIN t.mshr[c] = DOMAIN s.mshr[c]
  /\ \A c \in Caches \cap {"ITLB", "DTLB", "STLB"} : t.pq[c] = s.pq[c]

LEMMA AnsweredSent == ASSUME NEW s, NEW t, Answered(s, t) PROVE Sent(s, t)
BY DEF Answered, Sent, KeepsQueues, KeepsDram

LEMMA SentTrans == ASSUME NEW s, NEW t, NEW u, Sent(s, t), Sent(t, u) PROVE Sent(s, u)
BY DEF Sent

LEMMA SentRefl == ASSUME NEW s, Typed(s) PROVE Sent(s, s)
BY DEF Sent

(* A queue has room when it is not at its size.                            *)
LEMMA QueueRoom ==
  ASSUME NEW s, Typed(s), NEW c \in Caches
  PROVE  /\ {RQ_SIZE[c], WQ_SIZE[c], PQ_SIZE[c], MSHR_SIZE[c]} \subseteq Nat
         /\ {s.rq[c], s.wq[c], s.pq[c]} \subseteq Seq(Packet)
         /\ {Len(s.rq[c]), Len(s.wq[c]), Len(s.pq[c])} \subseteq Nat
         /\ Len(s.rq[c]) # RQ_SIZE[c] => Len(s.rq[c]) + 1 <= RQ_SIZE[c]
         /\ Len(s.wq[c]) < WQ_SIZE[c] => Len(s.wq[c]) + 1 <= WQ_SIZE[c]
         /\ Len(s.pq[c]) # PQ_SIZE[c] => Len(s.pq[c]) + 1 <= PQ_SIZE[c]
<1>1. {RQ_SIZE[c], WQ_SIZE[c], PQ_SIZE[c], MSHR_SIZE[c]} \subseteq Nat
  BY SizeAssumption
<1>2. /\ {s.rq[c], s.wq[c], s.pq[c]} \subseteq Seq(Packet)
      /\ Len(s.rq[c]) <= RQ_SIZE[c] /\ Len(s.wq[c]) <= WQ_SIZE[c] /\ Len(s.pq[c]) <= PQ_SIZE[c]
  BY DEF Typed, States
<1>3. {Len(s.rq[c]), Len(s.wq[c]), Len(s.pq[c])} \subseteq Nat
  BY <1>2
<1> QED BY <1>1, <1>2, <1>3

(* What is popped off a queue was at its head.                             *)
LEMMA PopRqTail ==
  ASSUME NEW s, Typed(s), NEW c \in Caches, s.rq[c] # << >>
  PROVE  LET t == PopRq(s, c)
         IN  /\ Sent(s, t) /\ t.rq[c] = Tail(s.rq[c]) /\ Head(s.rq[c]) \in Packet
             /\ \A d \in Caches \ {c} : t.rq[d] = s.rq[d]
             /\ t.pq = s.pq /\ KeepsFiles(s, t) /\ KeepsDram(s, t)
             /\ t.processed = s.processed /\ t.asserts = s.asserts
<1> DEFINE q == Tail(s.rq[c])
           t == PopRq(s, c)
<1>1. q \in Seq(Packet) /\ Len(q) <= RQ_SIZE[c] /\ Head(s.rq[c]) \in Packet
  <2>1. s.rq[c] \in Seq(Packet) /\ Len(s.rq[c]) <= RQ_SIZE[c] /\ RQ_SIZE[c] \in Nat
    BY QueueRoom DEF Typed
  <2> QED BY <2>1, TailIn
<1>2. t = PutRq(s, c, q)
  BY DEF PopRq, PutRq
<1> HIDE DEF t, q
<1>3. /\ Typed(t) /\ t.rq[c] = q /\ \A d \in Caches \ {c} : t.rq[d] = s.rq[d]
      /\ t.wq = s.wq /\ t.pq = s.pq
      /\ KeepsFiles(s, t) /\ KeepsDram(s, t)
      /\ t.block = s.block /\ t.processed = s.processed /\ t.asserts = s.asserts
  BY <1>1, <1>2, WithRq
<1> QED BY <1>1, <1>3 DEF t, q, Sent, KeepsFiles, KeepsDram

LEMMA PopWqTail ==
  ASSUME NEW s, Typed(s), NEW c \in Caches, s.wq[c] # << >>
  PROVE  LET t == PopWq(s, c)
         IN  /\ Typed(t) /\ t.wq[c] = Tail(s.wq[c]) /\ Head(s.wq[c]) \in Packet
             /\ \A d \in Caches \ {c} : t.wq[d] = s.wq[d]
             /\ t.rq = s.rq /\ t.pq = s.pq /\ KeepsFiles(s, t) /\ KeepsDram(s, t)
             /\ t.block = s.block /\ t.processed = s.processed /\ t.asserts = s.asserts
<1> DEFINE q == Tail(s.wq[c])
           t == PopWq(s, c)
<1>1. q \in Seq(Packet) /\ Len(q) <= WQ_SIZE[c] /\ Head(s.wq[c]) \in Packet
  <2>1. s.wq[c] \in Seq(Packet) /\ Len(s.wq[c]) <= WQ_SIZE[c] /\ WQ_SIZE[c] \in Nat
    BY QueueRoom DEF Typed
  <2> QED BY <2>1, TailIn
<1>2. t = PutWq(s, c, q)
  BY DEF PopWq, PutWq
<1> HIDE DEF t, q
<1>3. /\ Typed(t) /\ t.wq[c] = q /\ \A d \in Caches \ {c} : t.wq[d] = s.wq[d]
      /\ t.rq = s.rq /\ t.pq = s.pq
      /\ KeepsFiles(s, t) /\ KeepsDram(s, t)
      /\ t.block = s.block /\ t.processed = s.processed /\ t.asserts = s.asserts
  BY <1>1, <1>2, WithWq
<1> QED BY <1>1, <1>3 DEF t, q

LEMMA PopPqTail ==
  ASSUME NEW s, Typed(s), NEW c \in Caches, s.pq[c] # << >>
  PROVE  LET t == PopPq(s, c)
         IN  /\ Typed(t) /\ t.pq[c] = Tail(s.pq[c]) /\ Head(s.pq[c]) \in Packet
             /\ \A d \in Caches \ {c} : t.pq[d] = s.pq[d]
             /\ t.rq = s.rq /\ t.wq = s.wq /\ KeepsFiles(s, t) /\ KeepsDram(s, t)
             /\ t.block = s.block /\ t.processed = s.processed /\ t.asserts = s.asserts
<1> DEFINE q == Tail(s.pq[c])
           t == PopPq(s, c)
<1>1. q \in Seq(Packet) /\ Len(q) <= PQ_SIZE[c] /\ Head(s.pq[c]) \in Packet
  <2>1. s.pq[c] \in Seq(Packet) /\ Len(s.pq[c]) <= PQ_SIZE[c] /\ PQ_SIZE[c] \in Nat
    BY QueueRoom DEF Typed
  <2> QED BY <2>1, TailIn
<1>2. t = PutPq(s, c, q)
  BY DEF PopPq, PutPq
<1> HIDE DEF t, q
<1>3. /\ Typed(t) /\ t.pq[c] = q /\ \A d \in Caches \ {c} : t.pq[d] = s.pq[d]
      /\ t.rq = s.rq /\ t.wq = s.wq
      /\ KeepsFiles(s, t) /\ KeepsDram(s, t)
      /\ t.block = s.block /\ t.processed = s.processed /\ t.asserts = s.asserts
  BY <1>1, <1>2, WithPq
<1> QED BY <1>1, <1>3 DEF t, q

(* The controller's queue of reads takes a new address.                    *)
LEMMA DramAddRqSent ==
  ASSUME NEW s, Typed(s), NEW p \in Packet
  PROVE  Sent(s, DramAddRq(s, p))
<1>1. CASE p.address \in s.dramWq
  <2> DEFINE s1 == IF p.instruction THEN ReturnData(s, "LLC", p.address) ELSE s
             s2 == IF p.is_data THEN ReturnData(s1, "LLC", p.address) ELSE s1
  <2>1. DramAddRq(s, p) = s2
    BY <1>1 DEF DramAddRq, DramReturn
  <2>2. Answered(s, s1)
    BY ReturnDataAnswered, AnsweredRefl
  <2> HIDE DEF s1
  <2>3. Answered(s1, s2)
    BY <2>2, ReturnDataAnswered, AnsweredRefl DEF Answered
  <2> HIDE DEF s2
  <2> QED BY <2>1, <2>2, <2>3, AnsweredTrans, AnsweredSent
<1>2. CASE p.address \notin s.dramWq /\ (p.address \in s.dramRq \/ DramRqFull(s))
  BY <1>2, SentRefl DEF DramAddRq
<1>3. CASE p.address \notin s.dramWq /\ p.address \notin s.dramRq /\ ~DramRqFull(s)
  <2> DEFINE R == s.dramRq \cup {p.address}
             t == DramAddRq(s, p)
  <2>1. R \in SUBSET Addr /\ s.dramWq \in SUBSET Addr
    BY DEF Typed, States, Packet
  <2>2. t = PutDram(s, R, s.dramWq)
    BY <1>3 DEF DramAddRq, PutDram, Typed, States
  <2> HIDE DEF R, t
  <2>3. /\ Typed(t) /\ t.dramWq = s.dramWq /\ KeepsQueues(s, t) /\ KeepsFiles(s, t)
        /\ t.block = s.block
    BY <2>1, <2>2, WithDram DEF Typed
  <2>4. Sent(s, t)
    BY <2>3 DEF Sent, KeepsQueues, KeepsFiles
  <2> QED BY <2>4 DEF t
<1> QED BY <1>1, <1>2, <1>3

(* The hits that a search of a queue finds are its members.                *)
LEMMA HitMember ==
  ASSUME NEW q \in Seq(Packet), NEW a, QueueHits(q, a) # {}
  PROVE  /\ Only(QueueHits(q, a)) \in DOMAIN q
         /\ q[Only(QueueHits(q, a))].address = a
<1>1. Only(QueueHits(q, a)) \in QueueHits(q, a)
  BY DEF Only
<1> QED BY <1>1 DEF QueueHits

(* A request merged into one that waits in the read queue.                 *)
LEMMA MergeRqSent ==
  ASSUME NEW s, Typed(s), NEW c \in Caches, NEW p \in Packet,
         QueueHits(s.rq[c], p.address) # {}
  PROVE  Sent(s, [s EXCEPT !.rq[c][Only(QueueHits(s.rq[c], p.address))] = MergeRq(@, p)])
<1> DEFINE k == Only(QueueHits(s.rq[c], p.address))
           e == MergeRq(s.rq[c][k], p)
           q == [s.rq[c] EXCEPT ![k] = e]
           t == PutRq(s, c, q)
<1>1. s.rq[c] \in Seq(Packet) /\ Len(s.rq[c]) <= RQ_SIZE[c]
  BY DEF Typed, States
<1>2. k \in DOMAIN s.rq[c]
  BY <1>1, HitMember
<1>3. [s EXCEPT !.rq[c][k] = MergeRq(@, p)] = t
  BY DEF PutRq
<1> HIDE DEF k
<1>4. e \in Packet
  BY <1>1, <1>2, MergeRqPacket
<1> HIDE DEF e
<1>5. q \in Seq(Packet) /\ Len(q) <= RQ_SIZE[c]
  BY <1>1, <1>2, <1>4, MergeIn
<1> HIDE DEF q
<1>6. /\ Typed(t) /\ t.wq = s.wq /\ t.pq = s.pq
      /\ KeepsFiles(s, t) /\ KeepsDram(s, t) /\ t.block = s.block
  BY <1>5, WithRq
<1> HIDE DEF t
<1> QED BY <1>3, <1>6 DEF Sent, KeepsFiles, KeepsDram, k

(* add_rq, at a cache and at the controller.                               *)
LEMMA AddRqSent ==
  ASSUME NEW s, Typed(s), NEW c \in Caches \cup {"DRAM"}, NEW p \in Packet
  PROVE  Sent(s, AddRq(s, c, p))
<1> DEFINE hits == QueueHits(s.rq[c], p.address)
           forwarded == ReturnUp(s, c, p)
<1>1. CASE c = "DRAM"
  BY <1>1, DramAddRqSent DEF AddRq
<1>2. CASE c # "DRAM" /\ WqHits(s, c, p) # {}
  <2>1. Answered(s, forwarded) /\ Typed(forwarded)
    BY ReturnUpAnswered DEF Answered
  <2> HIDE DEF forwarded
  <2>2. Answered(forwarded, Process(forwarded, c, p))
    BY <1>2, <2>1, ProcessSame
  <2>3. Sent(s, forwarded) /\ Sent(s, Process(forwarded, c, p))
    BY <2>1, <2>2, AnsweredTrans, AnsweredSent
  <2>4. AddRq(s, c, p) = IF c = "L1D" THEN Process(forwarded, c, p) ELSE forwarded
    BY <1>2 DEF AddRq, forwarded
  <2> QED BY <2>3, <2>4
<1>3. CASE c # "DRAM" /\ WqHits(s, c, p) = {} /\ hits # {}
  <2>1. AddRq(s, c, p) = [s EXCEPT !.rq[c][Only(hits)] = MergeRq(@, p)]
    BY <1>3 DEF AddRq
  <2> QED BY <1>3, <2>1, MergeRqSent
<1>4. CASE c # "DRAM" /\ WqHits(s, c, p) = {} /\ hits = {}
  <2> DEFINE e == [p EXCEPT !.word = AnyWord]
             q == Append(s.rq[c], e)
             t == PutRq(s, c, q)
  <2>1. CASE Len(s.rq[c]) = RQ_SIZE[c]
    <3>1. AddRq(s, c, p) = s
      BY <1>4, <2>1 DEF AddRq
    <3> QED BY <3>1, SentRefl
  <2>2. CASE Len(s.rq[c]) # RQ_SIZE[c]
    <3>1. AddRq(s, c, p) = t
      BY <1>4, <2>2 DEF AddRq, PutRq
    <3>2. e \in Packet
      BY PlainPacket
    <3> HIDE DEF e
    <3>3. q \in Seq(Packet) /\ Len(q) <= RQ_SIZE[c]
      <4>1. s.rq[c] \in Seq(Packet) /\ Len(s.rq[c]) + 1 <= RQ_SIZE[c]
        BY <1>4, <2>2, QueueRoom
      <4> QED BY <3>2, <4>1, AppendIn
    <3> HIDE DEF q
    <3>4. /\ Typed(t) /\ t.wq = s.wq /\ t.pq = s.pq
          /\ KeepsFiles(s, t) /\ KeepsDram(s, t) /\ t.block = s.block
      BY <1>4, <3>3, WithRq
    <3> HIDE DEF t
    <3> QED BY <3>1, <3>4 DEF Sent, KeepsFiles, KeepsDram
  <2> QED BY <2>1, <2>2
<1> QED BY <1>1, <1>2, <1>3, <1>4

(* add_pq: only the caches that prefetch have a queue of prefetches.       *)
LEMMA AddPqSent ==
  ASSUME NEW s, Typed(s), NEW c \in Caches \ {"ITLB", "DTLB", "STLB"}, NEW p \in Packet
  PROVE  Sent(s, AddPq(s, c, p))
<1> DEFINE hits == QueueHits(s.pq[c], p.address)
<1>0. s.pq[c] \in Seq(Packet) /\ Len(s.pq[c]) <= PQ_SIZE[c]
  BY DEF Typed, States
<1>1. CASE WqHits(s, c, p) # {}
  BY <1>1, ReturnUpAnswered, AnsweredSent DEF AddPq
<1>2. ASSUME NEW q \in Seq(Packet), Len(q) <= PQ_SIZE[c]
      PROVE  Sent(s, PutPq(s, c, q))
  <2> DEFINE t == PutPq(s, c, q)
  <2>1. /\ Typed(t) /\ t.rq = s.rq /\ t.wq = s.wq /\ \A d \in Caches \ {c} : t.pq[d] = s.pq[d]
        /\ KeepsFiles(s, t) /\ KeepsDram(s, t) /\ t.block = s.block
    BY <1>2, WithPq
  <2> HIDE DEF t
  <2>2. Sent(s, t)
    BY <2>1 DEF Sent, KeepsFiles, KeepsDram
  <2> QED BY <2>2 DEF t
<1>3. CASE WqHits(s, c, p) = {} /\ hits # {}
  <2> DEFINE k == Only(hits)
             e == MergePq(s.pq[c][k], p)
             q == [s.pq[c] EXCEPT ![k] = e]
  <2>1. AddPq(s, c, p) = PutPq(s, c, q)
    BY <1>3 DEF AddPq, PutPq
  <2>2. k \in DOMAIN s.pq[c]
    BY <1>0, <1>3, HitMember
  <2> HIDE DEF k
  <2>3. e \in Packet
    BY <1>0, <2>2, MergePqPacket
  <2> HIDE DEF e
  <2>4. q \in Seq(Packet) /\ Len(q) <= PQ_SIZE[c]
    BY <1>0, <2>2, <2>3, MergeIn
  <2> HIDE DEF q
  <2> QED BY <1>2, <2>1, <2>4
<1>4. CASE WqHits(s, c, p) = {} /\ hits = {}
  <2> DEFINE q == Append(s.pq[c], p)
  <2>1. CASE Len(s.pq[c]) = PQ_SIZE[c]
    <3>1. AddPq(s, c, p) = s
      BY <1>4, <2>1 DEF AddPq
    <3> QED BY <3>1, SentRefl
  <2>2. CASE Len(s.pq[c]) # PQ_SIZE[c]
    <3>1. AddPq(s, c, p) = PutPq(s, c, q)
      BY <1>4, <2>2 DEF AddPq, PutPq
    <3>2. Len(s.pq[c]) + 1 <= PQ_SIZE[c]
      BY <2>2, QueueRoom
    <3>3. q \in Seq(Packet) /\ Len(q) <= PQ_SIZE[c]
      BY <1>0, <3>2, AppendIn
    <3> HIDE DEF q
    <3> QED BY <1>2, <3>1, <3>3
  <2> QED BY <2>1, <2>2
<1> QED BY <1>1, <1>3, <1>4

(* The level below a cache is a cache, the controller or the page walk.    *)
LEMMA LowerIs ==
  ASSUME NEW c \in Caches
  PROVE  /\ Lower(c) \in Caches \cup {"DRAM", "NULL"}
         /\ Lower(c) = "NULL" <=> c = "STLB"
         /\ Lower(c) = "DRAM" <=> c = "LLC"
         /\ Lower(c) = "STLB" <=> c \in {"ITLB", "DTLB"}
         /\ Lower(c) \notin {"ITLB", "DTLB", "L1I", "L1D"}
         /\ Lower(c) # c
BY SizeAssumption DEF Lower, FirstLevel

LEMMA SendDownSent ==
  ASSUME NEW s, Typed(s), NEW c \in Caches, NEW p \in Packet
  PROVE  Sent(s, SendDown(s, c, p))
<1>1. CASE Lower(c) = "NULL"
  BY <1>1, ReturnDataAnswered, AnsweredSent DEF SendDown
<1>2. CASE Lower(c) # "NULL"
  BY <1>2, LowerIs, PlainPacket, AddRqSent DEF SendDown
<1> QED BY <1>1, <1>2

(* A dirty victim is queued below, or was already; nothing else changes.   *)
Evicted(s, t, c, b) ==
  /\ Typed(t) /\ t.rq = s.rq /\ t.pq = s.pq /\ KeepsFiles(s, t)
  /\ t.dramRq = s.dramRq /\ t.block = s.block /\ t.asserts = s.asserts
  /\ s.dramWq \subseteq t.dramWq
  /\ \A d \in Caches :
       /\ In(s.wq[d]) \subseteq In(t.wq[d])
       /\ \A p \in In(t.wq[d]) :
            p \in In(s.wq[d]) \/ (d = Lower(c) /\ p = Writeback(c, b.tag))
  /\ ~b.dirty \/ Lower(c) = "NULL" => t = s
  /\ b.dirty /\ Lower(c) = "DRAM" => b.tag \in t.dramWq
  /\ b.dirty /\ Lower(c) \in Caches => \E p \in In(t.wq[Lower(c)]) : p.address = b.tag

LEMMA EvictKeeps ==
  ASSUME NEW s, Typed(s), NEW c \in Caches, NEW w \in 1 .. WAYS[c], CanEvict(s, c, w)
  PROVE  Evicted(s, Evict(s, c, w), c, s.block[c][w])
<1> DEFINE b == s.block[c][w]
           p == Writeback(c, b.tag)
           d == Lower(c)
           t == Evict(s, c, w)
<1>0. b \in Block /\ (b.dirty => b.tag \in Addr)
  <2>1. BlockOk(s.block[c], c)
    BY DEF Typed
  <2>2. b \in Block
    BY <2>1 DEF BlockOk, Ways
  <2> QED BY <2>1, <2>2 DEF BlockOk, Block
<1>1. CASE ~(b.dirty /\ d # "NULL")
  <2>1. t = s
    BY <1>1 DEF Evict
  <2>2. /\ ~(b.dirty /\ d = "DRAM")
        /\ ~(b.dirty /\ d \in Caches)
    BY <1>1, LowerIs, SizeAssumption DEF FirstLevel
  <2> HIDE DEF b, d
  <2>3. Evicted(s, s, c, b)
    BY <2>2 DEF Evicted, KeepsFiles, d
  <2> QED BY <2>1, <2>3 DEF b
<1>2. CASE b.dirty /\ d = "DRAM"
  <2> DEFINE W == s.dramWq \cup {b.tag}
  <2>1. IsFiniteSet(s.dramWq) /\ Cardinality(s.dramWq) \in Nat /\ Cardinality(s.dramWq) <= DRAM_WQ_SIZE
    BY FS_CardinalityType DEF Typed
  <2>2. Cardinality(s.dramWq) < DRAM_WQ_SIZE /\ DRAM_WQ_SIZE \in Nat
    BY <1>2, <2>1, SizeAssumption DEF CanEvict, LowerWqFull
  <2>3. t = PutDram(s, s.dramRq, W)
    <3>1. p.address = b.tag
      BY DEF Writeback
    <3>2. t = [s EXCEPT !.dramWq = W]
      BY <1>2, <2>2, <3>1 DEF Evict, AddWq, DramAddWq
    <3> QED BY <3>2 DEF PutDram, Typed, States
  <2>4. W \in SUBSET Addr /\ IsFiniteSet(W) /\ Cardinality(W) <= DRAM_WQ_SIZE /\ s.dramRq \in SUBSET Addr
    <3>1. W \in SUBSET Addr /\ s.dramRq \in SUBSET Addr
      BY <1>0, <1>2 DEF Typed, States
    <3>2. /\ IsFiniteSet(W)
          /\ Cardinality(W) = IF b.tag \in s.dramWq THEN Cardinality(s.dramWq)
                                                    ELSE Cardinality(s.dramWq) + 1
      BY <2>1, FS_AddElement
    <3> QED BY <3>1, <3>2, <2>1, <2>2
  <2> HIDE DEF t, W
  <2>5. /\ Typed(t) /\ t.dramRq = s.dramRq /\ t.dramWq = W
        /\ KeepsQueues(s, t) /\ KeepsFiles(s, t)
        /\ t.block = s.block /\ t.asserts = s.asserts
    BY <2>3, <2>4, WithDram
  <2>6. "DRAM" \notin Caches
    BY SizeAssumption DEF FirstLevel
  <2> QED BY <1>2, <2>5, <2>6 DEF Evicted, KeepsQueues, W, t
<1>3. CASE b.dirty /\ d # "NULL" /\ d # "DRAM"
  <2>1. d \in Caches /\ d # "L1D"
    BY <1>3, LowerIs
  <2>2. s.wq[d] \in Seq(Packet) /\ Len(s.wq[d]) <= WQ_SIZE[d] /\ Len(s.wq[d]) # WQ_SIZE[d]
    BY <1>3, <2>1 DEF CanEvict, LowerWqFull, Typed, States
  <2>3. /\ Len(s.wq[d]) < WQ_SIZE[d] /\ Len(s.wq[d]) + 1 <= WQ_SIZE[d]
        /\ ~(Len(s.wq[d]) >= WQ_SIZE[d])
    BY <2>1, <2>2, QueueRoom
  <2>4. p \in Packet /\ p.address = b.tag
    BY <1>0, <1>3, WritebackPacket
  <2>5. t = AddWq(s, d, p)
    BY <1>3 DEF Evict
  <2>6. CASE WqHits(s, d, p) # {}
    <3>1. t = s
      BY <1>3, <2>5, <2>6 DEF AddWq
    <3>2. \E e \in In(s.wq[d]) : e.address = b.tag
      BY <2>1, <2>4, <2>6 DEF WqHits, In
    <3> HIDE DEF t
    <3> QED BY <1>3, <2>1, <3>1, <3>2 DEF Evicted, KeepsFiles, t
  <2>7. CASE WqHits(s, d, p) = {}
    <3> DEFINE q == Append(s.wq[d], p)
    <3>1. t = PutWq(s, d, q)
      BY <1>3, <2>3, <2>5, <2>7 DEF AddWq, PutWq
    <3> HIDE DEF t, p
    <3>2. q \in Seq(Packet) /\ Len(q) <= WQ_SIZE[d] /\ In(q) = In(s.wq[d]) \cup {p}
      BY <2>2, <2>3, <2>4, AppendIn
    <3> HIDE DEF q
    <3>3. /\ Typed(t) /\ t.wq[d] = q /\ \A e \in Caches \ {d} : t.wq[e] = s.wq[e]
          /\ t.rq = s.rq /\ t.pq = s.pq
          /\ KeepsFiles(s, t) /\ KeepsDram(s, t)
          /\ t.block = s.block /\ t.asserts = s.asserts
      BY <2>1, <3>1, <3>2, WithWq
    <3> QED BY <1>3, <2>1, <2>4, <3>2, <3>3 DEF Evicted, KeepsDram, t, p
  <2> QED BY <2>6, <2>7
<1> QED BY <1>1, <1>2, <1>3

(* fill_cache writes one way.                                              *)
Filled(s, t, c, w, a, dirty) ==
  /\ Typed(t) /\ KeepsQueues(s, t) /\ KeepsFiles(s, t) /\ KeepsDram(s, t)
  /\ t.asserts = s.asserts
  /\ t.block[c][w].tag = a /\ (t.block[c][w].dirty <=> dirty)
  /\ \A v \in 1 .. WAYS[c] : v # w => t.block[c][v] = s.block[c][v]
  /\ \A d \in Caches \ {c} : t.block[d] = s.block[d]

LEMMA FillCacheWay ==
  ASSUME NEW s, Typed(s), NEW c \in Caches, NEW w \in 1 .. WAYS[c],
         NEW a \in Addr, NEW dirty \in BOOLEAN
  PROVE  Filled(s, FillCache(s, c, w, a, dirty), c, w, a, dirty)
<1> DEFINE e == [tag |-> a, dirty |-> dirty]
           b == [s.block[c] EXCEPT ![w] = e]
           t == FillCache(s, c, w, a, dirty)
<1>1. e \in Block /\ e.tag = a /\ (e.dirty <=> dirty) /\ e.tag # NoAddr
  BY SizeAssumption DEF Block
<1>2. BlockOk(s.block[c], c)
  BY DEF Typed
<1>3. t = PutBlock(s, c, b)
  BY DEF FillCache, PutBlock
<1> HIDE DEF t, e
<1>4. BlockOk(b, c) /\ b[w] = e /\ \A v \in 1 .. WAYS[c] : v # w => b[v] = s.block[c][v]
  <2>1. PICK n \in Nat : s.block[c] \in [1 .. n -> Block]
    BY <1>2 DEF BlockOk, Ways
  <2>2. 1 .. n = 1 .. WAYS[c]
    BY <1>2, <2>1 DEF BlockOk
  <2>3. b \in [1 .. n -> Block] /\ b[w] = e /\ \A v \in 1 .. WAYS[c] : v # w => b[v] = s.block[c][v]
    BY <2>1, <2>2, <1>1
  <2> HIDE DEF b
  <2> QED BY <1>1, <1>2, <2>2, <2>3 DEF BlockOk, Ways
<1> HIDE DEF b
<1>5. /\ Typed(t) /\ t.block[c] = b
      /\ \A d \in Caches \ {c} : t.block[d] = s.block[d]
      /\ KeepsQueues(s, t) /\ KeepsFiles(s, t) /\ KeepsDram(s, t)
      /\ t.asserts = s.asserts
  BY <1>3, <1>4, WithBlock
<1>6. Filled(s, t, c, w, a, dirty)
  BY <1>1, <1>4, <1>5 DEF Filled
<1> QED BY <1>6 DEF t

-------------------------------------------------------------------------------
(* The invariant of the blocks and the sizes.                              *)

(* Only L1D and what is below it ever holds a modified block: nothing      *)
(* writes to the TLBs or to L1I.  The TLBs do not prefetch.                *)
ReadOnly == {"ITLB", "DTLB", "STLB", "L1I"}

Clean(s) ==
  /\ \A c \in Caches \cap ReadOnly :
       s.wq[c] = << >> /\ \A w \in 1 .. WAYS[c] : ~s.block[c][w].dirty
  /\ \A c \in Caches \cap {"ITLB", "DTLB", "STLB"} : s.pq[c] = << >>

(* Where a block is filled by a miss alone, it is there once, and a miss   *)
(* in flight is for a block that is not there: OneCopy made inductive.     *)
Single(s) ==
  \A c \in Caches \cap (FirstLevel \cup {"STLB"}) :
    /\ \A v, w \in 1 .. WAYS[c] :
         v # w /\ s.block[c][v].tag # NoAddr => s.block[c][v].tag # s.block[c][w].tag
    /\ \A a \in DOMAIN s.mshr[c] : \A w \in 1 .. WAYS[c] : s.block[c][w].tag # a

Shape(s) == Typed(s) /\ Clean(s) /\ Single(s)

(* Dirty, of a state record.                                               *)
DirtyIn(s, a) ==
  \/ a \in s.dramWq
  \/ \E c \in Caches : \E w \in 1 .. WAYS[c] : s.block[c][w].tag = a /\ s.block[c][w].dirty
  \/ \E c \in Caches \ {"L1D"} : \E p \in In(s.wq[c]) : p.address = a

KeepsDirty(s, t) == \A a \in Addr : DirtyIn(s, a) => DirtyIn(t, a)

(* Sending a request disturbs none of it.                                  *)
LEMMA SentShape ==
  ASSUME NEW s, Shape(s), NEW t, Sent(s, t)
  PROVE  Shape(t) /\ KeepsDirty(s, t)
BY DEF Shape, Clean, Single, Sent, KeepsDirty, DirtyIn

(* Nor does a miss that is filed for a block that is not there.            *)
LEMMA MissShape ==
  ASSUME NEW s, Shape(s), NEW c \in Caches, NEW p \in Packet, ~MshrFull(s, c),
         HitWays(s, c, p.address) = {}
  PROVE  Shape(AddMshr(s, c, p)) /\ KeepsDirty(s, AddMshr(s, c, p))
<1> DEFINE t == AddMshr(s, c, p)
<1>1. /\ Typed(t) /\ DOMAIN t.mshr[c] = DOMAIN s.mshr[c] \cup {p.address}
      /\ \A d \in Caches \ {c} : t.mshr[d] = s.mshr[d]
      /\ KeepsQueues(s, t) /\ KeepsDram(s, t) /\ t.block = s.block
  BY AddMshrFile DEF Shape
<1> HIDE DEF t
<1>2. \A w \in 1 .. WAYS[c] : s.block[c][w].tag # p.address
  BY DEF HitWays
<1>3. Single(t)
  BY <1>1, <1>2 DEF Shape, Single
<1>4. Clean(t) /\ KeepsDirty(s, t)
  BY <1>1 DEF Shape, Clean, KeepsQueues, KeepsDram, KeepsDirty, DirtyIn
<1> QED BY <1>1, <1>3, <1>4 DEF t, Shape

(* A block that is put in the place of a victim: the victim stays dirty    *)
(* somewhere, and only the one way changes.                                *)
Replaced(s, t, c, w, a, dirty) ==
  /\ Typed(t) /\ Clean(t) /\ KeepsDirty(s, t) /\ (dirty => DirtyIn(t, a))
  /\ t.rq = s.rq /\ t.pq = s.pq /\ KeepsFiles(s, t)
  /\ t.dramRq = s.dramRq /\ t.asserts = s.asserts
  /\ t.block[c][w].tag = a
  /\ \A v \in 1 .. WAYS[c] : v # w => t.block[c][v] = s.block[c][v]
  /\ \A d \in Caches \ {c} : t.block[d] = s.block[d]
  /\ \A d \in Caches : \A p \in In(t.wq[d]) :
       p \in In(s.wq[d]) \/ (d = Lower(c) /\ p = Writeback(c, s.block[c][w].tag))

LEMMA FillShape ==
  ASSUME NEW s, Typed(s), Clean(s), NEW c \in Caches, NEW w \in 1 .. WAYS[c],
         NEW a \in Addr, NEW dirty \in BOOLEAN, CanEvict(s, c, w), c \in ReadOnly => ~dirty
  PROVE  Replaced(s, FillCache(Evict(s, c, w), c, w, a, dirty), c, w, a, dirty)
<1> DEFINE u == Evict(s, c, w)
           b == s.block[c][w]
           t == FillCache(u, c, w, a, dirty)
<1>1. Evicted(s, u, c, b)
  BY EvictKeeps
<1> HIDE DEF u
<1>a. Filled(u, t, c, w, a, dirty)
  BY <1>1, FillCacheWay DEF Evicted
<1> HIDE DEF t
<1>2. /\ Typed(t) /\ KeepsQueues(u, t) /\ KeepsFiles(u, t) /\ KeepsDram(u, t)
      /\ t.asserts = u.asserts
      /\ t.block[c][w].tag = a /\ (t.block[c][w].dirty <=> dirty)
      /\ \A v \in 1 .. WAYS[c] : v # w => t.block[c][v] = u.block[c][v]
      /\ \A d \in Caches \ {c} : t.block[d] = u.block[d]
  BY <1>a DEF Filled
<1>3. Clean(t)
  <2>1. ASSUME NEW d \in Caches \cap ReadOnly
        PROVE  t.wq[d] = << >> /\ \A v \in 1 .. WAYS[d] : ~t.block[d][v].dirty
    <3>1. u.wq[d] = s.wq[d]
      <4>1. CASE c \in ReadOnly
        BY <4>1, <1>1 DEF Clean, Evicted
      <4>2. CASE c \notin ReadOnly
        <5>1. d # Lower(c)
          BY <4>2, LowerIs DEF ReadOnly
        <5>2. In(u.wq[d]) = In(s.wq[d]) /\ s.wq[d] = << >>
          BY <5>1, <1>1 DEF Evicted, Clean
        <5>3. u.wq[d] \in Seq(Packet) /\ Typed(u)
          BY <1>1 DEF Evicted, Typed, States
        <5>4. s.wq[d] \in Seq(Packet)
          BY DEF Typed, States
        <5> QED BY <5>2, <5>3, <5>4, EmptyIn
      <4> QED BY <4>1, <4>2
    <3>2. t.wq[d] = << >>
      BY <3>1, <1>2 DEF Clean, KeepsQueues
    <3>3. \A v \in 1 .. WAYS[d] : ~t.block[d][v].dirty
      BY <1>1, <1>2 DEF Clean, Evicted
    <3> QED BY <3>2, <3>3
  <2>2. \A d \in Caches \cap {"ITLB", "DTLB", "STLB"} : t.pq[d] = << >>
    BY <1>1, <1>2 DEF Clean, Evicted, KeepsQueues
  <2> QED BY <2>1, <2>2 DEF Clean
<1>4. KeepsDirty(s, t)
  <2> SUFFICES ASSUME NEW x \in Addr, DirtyIn(s, x)
               PROVE  DirtyIn(t, x)
    BY DEF KeepsDirty
  <2>1. CASE x \in s.dramWq
    BY <2>1, <1>1, <1>2 DEF DirtyIn, Evicted, KeepsDram
  <2>2. ASSUME NEW d \in Caches \ {"L1D"}, NEW p \in In(s.wq[d]), p.address = x
        PROVE  DirtyIn(t, x)
    BY <2>2, <1>1, <1>2 DEF DirtyIn, Evicted, KeepsQueues
  <2>3. ASSUME NEW d \in Caches, NEW v \in 1 .. WAYS[d], s.block[d][v].tag = x, s.block[d][v].dirty
        PROVE  DirtyIn(t, x)
    <3>1. CASE d # c \/ v # w
      <4>1. t.block[d][v] = s.block[d][v]
        BY <3>1, <1>1, <1>2 DEF Evicted
      <4> QED BY <4>1, <2>3 DEF DirtyIn
    <3>2. CASE d = c /\ v = w
      <4>1. b.dirty /\ b.tag = x /\ c # "STLB"
        BY <3>2, <2>3 DEF Clean, ReadOnly
      <4>2. Lower(c) \in Caches \cup {"DRAM"} /\ Lower(c) # "L1D"
        BY <4>1, LowerIs
      <4>3. CASE Lower(c) = "DRAM"
        BY <4>1, <4>3, <1>1, <1>2 DEF DirtyIn, Evicted, KeepsDram
      <4>4. CASE Lower(c) \in Caches
        BY <4>1, <4>2, <4>4, <1>1, <1>2 DEF DirtyIn, Evicted, KeepsQueues
      <4> QED BY <4>2, <4>3, <4>4
    <3> QED BY <3>1, <3>2
  <2> QED BY <2>1, <2>2, <2>3 DEF DirtyIn
<1>5. dirty => DirtyIn(t, a)
  BY <1>2 DEF DirtyIn
<1>6. Replaced(s, t, c, w, a, dirty)
  BY <1>1, <1>2, <1>3, <1>4, <1>5 DEF Replaced, Evicted, KeepsQueues, KeepsFiles, KeepsDram
<1> QED BY <1>6 DEF t, u

(* Every action leads to a state of that shape, and all but the write to   *)
(* DRAM keep every modified block in the hierarchy.                        *)
Safe(s, t) == Shape(t) /\ KeepsDirty(s, t)

LEMMA StateFields ==
  /\ State.rq = rq /\ State.wq = wq /\ State.pq = pq /\ State.mshr = mshr
  /\ State.block = block /\ State.processed = processed
  /\ State.dramRq = dramRq /\ State.dramWq = dramWq /\ State.asserts = asserts
BY DEF State

LEMMA SafeTrans ==
  ASSUME NEW s, NEW t, NEW u, KeepsDirty(s, t), Safe(t, u)
  PROVE  Safe(s, u)
BY DEF Safe, KeepsDirty

LEMMA SentSafe ==
  ASSUME NEW s, Shape(s), NEW t, Sent(s, t)
  PROVE  Safe(s, t)
BY SentShape DEF Safe

(* A merge into a miss in flight.                                          *)
LEMMA MergeSafe ==
  ASSUME NEW s, Shape(s), NEW c \in Caches, NEW e \in Packet, e.address \in DOMAIN s.mshr[c]
  PROVE  Safe(s, SetMshr(s, c, e))
<1> DEFINE t == SetMshr(s, c, e)
<1>1. /\ Typed(t) /\ DOMAIN t.mshr[c] = DOMAIN s.mshr[c] \cup {e.address}
      /\ \A d \in Caches \ {c} : t.mshr[d] = s.mshr[d]
      /\ KeepsQueues(s, t) /\ KeepsDram(s, t) /\ t.block = s.block
  BY SetMshrFile DEF Shape
<1> HIDE DEF t
<1>2. Sent(s, t)
  BY <1>1 DEF Sent, KeepsQueues, KeepsDram
<1> QED BY <1>2, SentSafe DEF t

(* A miss that is filed and sent on.                                       *)
LEMMA MissSafe ==
  ASSUME NEW s, Shape(s), NEW c \in Caches, NEW p \in Packet, ~MshrFull(s, c),
         HitWays(s, c, p.address) = {}
  PROVE  Safe(s, SendDown(AddMshr(s, c, p), c, p))
<1> DEFINE u == AddMshr(s, c, p)
<1>1. Shape(u) /\ KeepsDirty(s, u)
  BY MissShape
<1> HIDE DEF u
<1>2. Sent(u, SendDown(u, c, p))
  BY <1>1, SendDownSent DEF Shape
<1>3. Safe(u, SendDown(u, c, p))
  BY <1>1, <1>2, SentSafe
<1> QED BY <1>1, <1>3, SafeTrans DEF u

LEMMA HandleReadSafe ==
  ASSUME Shape(State), NEW c \in Caches, HandleRead(c)
  PROVE  \E t : Becomes(t) /\ Safe(State, t)
<1> DEFINE p == Head(rq[c])
           a == p.address
           s == PopRq(State, c)
<1>1. Typed(State) /\ rq[c] # << >>
  BY DEF Shape, HandleRead
<1>2. Sent(State, s) /\ p \in Packet
  BY <1>1, PopRqTail, StateFields
<1>3. Shape(s) /\ KeepsDirty(State, s) /\ Typed(s)
  BY <1>2, SentShape DEF Shape
<1>4. \/ /\ HitWays(s, c, a) # {}
         /\ Becomes(ReturnUp(Process(s, c, p), c, p))
      \/ /\ HitWays(s, c, a) = {} /\ InMshr(s, c, a)
         /\ Becomes(SetMshr(s, c, MergeRead(s.mshr[c][a], p)))
      \/ /\ HitWays(s, c, a) = {} /\ ~InMshr(s, c, a) /\ ~MshrFull(s, c)
         /\ Becomes(SendDown(AddMshr(s, c, p), c, p))
  BY DEF HandleRead, Handler
<1> HIDE DEF s, p
<1>5. CASE Becomes(ReturnUp(Process(s, c, p), c, p))
  <2> DEFINE u == Process(s, c, p)
  <2>1. Answered(s, u)
    BY <1>2, <1>3, ProcessSame
  <2> HIDE DEF u
  <2>2. Answered(u, ReturnUp(u, c, p))
    BY <2>1, ReturnUpAnswered DEF Answered
  <2>3. Sent(s, ReturnUp(u, c, p))
    BY <2>1, <2>2, AnsweredTrans, AnsweredSent
  <2>4. Safe(State, ReturnUp(u, c, p))
    BY <1>3, <2>3, SentSafe, SafeTrans
  <2> QED BY <1>5, <2>4 DEF u
<1>6. CASE InMshr(s, c, a) /\ Becomes(SetMshr(s, c, MergeRead(s.mshr[c][a], p)))
  <2> DEFINE e == MergeRead(s.mshr[c][a], p)
  <2>1. s.mshr[c][a] \in Packet /\ s.mshr[c][a].address = a
    BY <1>3, <1>6, EntryOk DEF InMshr
  <2>2. e \in Packet /\ e.address = a
    BY <2>1, <1>2, MergeReadPacket
  <2> HIDE DEF e
  <2>3. Safe(State, SetMshr(s, c, e))
    BY <1>3, <1>6, <2>2, MergeSafe, SafeTrans DEF InMshr
  <2> QED BY <1>6, <2>3 DEF e
<1>7. CASE /\ HitWays(s, c, a) = {} /\ ~MshrFull(s, c)
           /\ Becomes(SendDown(AddMshr(s, c, p), c, p))
  <2>1. Safe(State, SendDown(AddMshr(s, c, p), c, p))
    BY <1>2, <1>3, <1>7, MissSafe, SafeTrans
  <2> QED BY <1>7, <2>1
<1> QED BY <1>4, <1>5, <1>6, <1>7

LEMMA HandlePrefetchSafe ==
  ASSUME Shape(State), NEW c \in Caches, HandlePrefetch(c)
  PROVE  \E t : Becomes(t) /\ Safe(State, t)
<1> DEFINE p == Head(pq[c])
           a == p.address
           s == PopPq(State, c)
<1>1. Typed(State) /\ pq[c] # << >>
  BY DEF Shape, HandlePrefetch
<1>2. c \notin {"ITLB", "DTLB", "STLB"}
  BY <1>1, StateFields DEF Shape, Clean
<1>3. Sent(State, s) /\ p \in Packet
  <2>1. /\ Typed(s) /\ p \in Packet
        /\ \A d \in Caches \ {c} : s.pq[d] = State.pq[d]
        /\ s.wq = State.wq /\ KeepsFiles(State, s) /\ KeepsDram(State, s)
        /\ s.block = State.block
    BY <1>1, PopPqTail, StateFields
  <2> HIDE DEF s
  <2> QED BY <1>2, <2>1 DEF Sent, KeepsFiles, KeepsDram
<1>4. Shape(s) /\ KeepsDirty(State, s) /\ Typed(s)
  BY <1>3, SentShape DEF Shape
<1>5. \/ /\ HitWays(s, c, a) # {}
         /\ Becomes(ReturnUp(s, c, p))
      \/ /\ HitWays(s, c, a) = {} /\ InMshr(s, c, a)
         /\ Becomes(SetMshr(s, c, MergeFill(s.mshr[c][a], p)))
      \/ /\ HitWays(s, c, a) = {} /\ ~InMshr(s, c, a) /\ ~MshrFull(s, c)
         /\ Becomes(PrefetchDown(s, c, p))
  BY DEF HandlePrefetch, Handler
<1> HIDE DEF s, p
<1>6. CASE Becomes(ReturnUp(s, c, p))
  <2>1. Safe(State, ReturnUp(s, c, p))
    BY <1>4, ReturnUpAnswered, AnsweredSent, SentSafe, SafeTrans
  <2> QED BY <1>6, <2>1
<1>7. CASE InMshr(s, c, a) /\ Becomes(SetMshr(s, c, MergeFill(s.mshr[c][a], p)))
  <2> DEFINE e == MergeFill(s.mshr[c][a], p)
  <2>1. s.mshr[c][a] \in Packet /\ s.mshr[c][a].address = a
    BY <1>4, <1>7, EntryOk DEF InMshr
  <2>2. e \in Packet /\ e.address = a
    BY <2>1, <1>3, MergeFillPacket
  <2> HIDE DEF e
  <2>3. Safe(State, SetMshr(s, c, e))
    BY <1>4, <1>7, <2>2, MergeSafe, SafeTrans DEF InMshr
  <2> QED BY <1>7, <2>3 DEF e
<1>8. CASE /\ HitWays(s, c, a) = {} /\ ~MshrFull(s, c)
           /\ Becomes(PrefetchDown(s, c, p))
  <2> DEFINE s1 == IF p.fill_level <= FillLevel(c) THEN AddMshr(s, c, p) ELSE s
             t == IF Lower(c) = "DRAM" THEN DramAddRq(s1, Plain(p))
                                       ELSE AddPq(s1, Lower(c), Plain(p))
  <2>1. Shape(s1) /\ KeepsDirty(s, s1)
    <3>1. Shape(AddMshr(s, c, p)) /\ KeepsDirty(s, AddMshr(s, c, p))
      BY <1>3, <1>4, <1>8, MissShape
    <3>2. KeepsDirty(s, s)
      BY DEF KeepsDirty
    <3> QED BY <1>4, <3>1, <3>2
  <2> HIDE DEF s1
  <2>2. Sent(s1, t)
    <3>1. Typed(s1) /\ Plain(p) \in Packet
      BY <1>3, <2>1, PlainPacket DEF Shape
    <3>2. CASE Lower(c) = "DRAM"
      BY <3>1, <3>2, DramAddRqSent
    <3>3. CASE Lower(c) # "DRAM"
      <4>1. Lower(c) \in Caches \ {"ITLB", "DTLB", "STLB"}
        BY <1>2, <3>3, LowerIs
      <4> QED BY <3>1, <3>3, <4>1, AddPqSent
    <3> QED BY <3>2, <3>3
  <2>3. PrefetchDown(s, c, p) = t
    BY DEF PrefetchDown, s1
  <2> HIDE DEF t
  <2>4. Safe(State, t)
    BY <1>4, <2>1, <2>2, SentSafe, SafeTrans DEF KeepsDirty
  <2> QED BY <1>8, <2>3, <2>4
<1> QED BY <1>5, <1>6, <1>7, <1>8

LEMMA ModifiedBlock ==
  ASSUME NEW b \in Block
  PROVE  [b EXCEPT !.dirty = TRUE] = [tag |-> b.tag, dirty |-> TRUE]
<1>1. ASSUME NEW a, NEW d, NEW e
      PROVE  [[tag |-> a, dirty |-> d] EXCEPT !.dirty = e] = [tag |-> a, dirty |-> e]
  OBVIOUS
<1>2. PICK a \in Addr \cup {NoAddr}, d \in BOOLEAN : b = [tag |-> a, dirty |-> d]
  BY DEF Block
<1>3. b.tag = a
  BY <1>2
<1> QED BY <1>1, <1>2, <1>3, Zenon

(* A nonempty set of ways has a first one.                                 *)
LEMMA LeastWay ==
  ASSUME NEW n, NEW W, W \subseteq 1 .. n, W # {}
  PROVE  \E w \in W : \A v \in W : w <= v
<1>1. W \subseteq Nat
  OBVIOUS
<1>2. PICK w \in W : \A v \in W : ~(<< v, w >> \in OpToRel(<, Nat))
  BY <1>1, NatLessThanWellFounded, WFMin
<1>3. \A v \in W : ~(v < w)
  BY <1>1, <1>2 DEF OpToRel
<1>4. w \in Nat /\ \A v \in W : v \in Nat
  BY <1>1
<1> QED BY <1>3, <1>4

(* handle_writeback: what is taken off the queue is dirty here afterwards. *)
LEMMA HandleWritebackSafe ==
  ASSUME Shape(State), NEW c \in Caches, HandleWriteback(c)
  PROVE  \E t : Becomes(t) /\ Safe(State, t)
<1> DEFINE p == Head(wq[c])
           a == p.address
           s == PopWq(State, c)
           hits == HitWays(s, c, a)
           way == CHOOSE w \in hits : \A v \in hits : w <= v
<1>1. Typed(State) /\ wq[c] # << >> /\ State.wq[c] = wq[c]
  BY StateFields DEF Shape, HandleWriteback
<1>2. c \in Caches \ ReadOnly
  BY <1>1 DEF Shape, Clean
<1>3. /\ Typed(s) /\ s.wq[c] = Tail(State.wq[c]) /\ p \in Packet
      /\ \A d \in Caches \ {c} : s.wq[d] = State.wq[d]
      /\ s.rq = State.rq /\ s.pq = State.pq /\ KeepsFiles(State, s) /\ KeepsDram(State, s)
      /\ s.block = State.block
  BY <1>1, PopWqTail
<1>4. a \in Addr
  BY <1>3 DEF Packet
<1>5. hits # {} => way \in 1 .. WAYS[c] /\ s.block[c][way].tag = a
  <2>1. hits \subseteq 1 .. WAYS[c] /\ \A w \in hits : s.block[c][w].tag = a
    BY DEF HitWays
  <2>2. ASSUME hits # {} PROVE \E w \in hits : \A v \in hits : w <= v
    BY <2>1, <2>2, LeastWay
  <2>3. ASSUME hits # {} PROVE way \in hits
    BY <2>2, <2>3
  <2> QED BY <2>1, <2>3
<1>6. /\ Shape(s)
      /\ \A x \in Addr : DirtyIn(State, x) => DirtyIn(s, x) \/ (c # "L1D" /\ x = a)
  <2>1. State.wq[c] \in Seq(Packet) /\ State.wq[c] # << >>
    BY <1>1 DEF Typed, States
  <2>2. In(State.wq[c]) = In(s.wq[c]) \cup {p}
    BY <1>1, <1>3, <2>1, TailIn
  <2> HIDE DEF s, p
  <2>3. Clean(s)
    BY <1>2, <1>3 DEF Shape, Clean, ReadOnly
  <2>4. Single(s)
    BY <1>3 DEF Shape, Single, KeepsFiles
  <2>5. \A x \in Addr : DirtyIn(State, x) => DirtyIn(s, x) \/ (c # "L1D" /\ x = a)
    BY <1>3, <2>2 DEF DirtyIn, KeepsDram
  <2> QED BY <1>3, <2>3, <2>4, <2>5 DEF Shape
<1>7. \/ /\ hits # {}
         /\ Becomes(ReturnUp([s EXCEPT !.block[c][way].dirty = TRUE], c, p))
      \/ hits = {} /\ c = "L1D" /\ WriteMissL1D(s, p)
      \/ hits = {} /\ c # "L1D" /\ WriteAllocate(s, c, p)
  BY DEF HandleWriteback, Handler
<1> HIDE DEF way, s, p
<1>8. CASE /\ hits # {}
           /\ Becomes(ReturnUp([s EXCEPT !.block[c][way].dirty = TRUE], c, p))
  <2> DEFINE yes == TRUE
             u == FillCache(s, c, way, a, yes)
  <2>1. [s EXCEPT !.block[c][way].dirty = TRUE] = u
    <3>1. s.block[c][way] \in Block
      BY <1>5, <1>8, <1>3 DEF Typed, BlockOk, Ways
    <3>2. [s.block[c][way] EXCEPT !.dirty = TRUE] = [tag |-> a, dirty |-> TRUE]
      BY <3>1, <1>5, <1>8, ModifiedBlock
    <3> QED BY <3>2 DEF FillCache
  <2>y. yes \in BOOLEAN /\ yes
    OBVIOUS
  <2>a. hits # {} /\ way \in 1 .. WAYS[c] /\ s.block[c][way].tag = a
    BY <1>5, <1>8
  <2>b. Typed(s) /\ a \in Addr
    BY <1>3, <1>4
  <2> HIDE DEF yes
  <2>c. Filled(s, u, c, way, a, yes)
    BY <2>y, <2>a, <2>b, FillCacheWay
  <2> HIDE DEF u
  <2>2. /\ Typed(u) /\ KeepsQueues(s, u) /\ KeepsFiles(s, u) /\ KeepsDram(s, u)
        /\ u.block[c][way].tag = a /\ u.block[c][way].dirty
        /\ \A v \in 1 .. WAYS[c] : v # way => u.block[c][v] = s.block[c][v]
        /\ \A d \in Caches \ {c} : u.block[d] = s.block[d]
    BY <2>y, <2>c DEF Filled
  <2>3. \A d \in Caches : \A v \in 1 .. WAYS[d] : u.block[d][v].tag = s.block[d][v].tag
    BY <2>a, <2>2
  <2>4. Shape(u)
    <3>1. Clean(u)
      BY <1>2, <1>6, <2>2 DEF Shape, Clean, KeepsQueues, ReadOnly
    <3>2. Single(u)
      BY <1>6, <2>2, <2>3 DEF Shape, Single, KeepsFiles
    <3> QED BY <2>2, <3>1, <3>2 DEF Shape
  <2>5. KeepsDirty(State, u)
    <3>1. \A x \in Addr : DirtyIn(s, x) => DirtyIn(u, x)
      BY <2>a, <2>2 DEF DirtyIn, KeepsQueues, KeepsDram
    <3>2. DirtyIn(u, a)
      BY <2>a, <2>2 DEF DirtyIn
    <3> QED BY <1>6, <3>1, <3>2 DEF KeepsDirty
  <2>6. Safe(State, ReturnUp(u, c, p))
    BY <2>2, <2>4, <2>5, ReturnUpAnswered, AnsweredSent, SentSafe, SafeTrans
  <2> QED BY <1>8, <2>1, <2>6 DEF u, yes
<1>9. CASE hits = {} /\ c = "L1D" /\ WriteMissL1D(s, p)
  <2>1. KeepsDirty(State, s)
    BY <1>6, <1>9 DEF KeepsDirty
  <2>2. CASE InMshr(s, "L1D", a) /\ Becomes(SetMshr(s, "L1D", MergeStore(s.mshr["L1D"][a], p)))
    <3> DEFINE e == MergeStore(s.mshr[c][a], p)
    <3>1. s.mshr[c][a] \in Packet /\ s.mshr[c][a].address = a
      BY <1>3, <1>9, <2>2, EntryOk DEF InMshr
    <3>2. e \in Packet /\ e.address = a
      BY <3>1, <1>3, MergeStorePacket
    <3> HIDE DEF e
    <3>3. Safe(State, SetMshr(s, c, e))
      BY <1>6, <1>9, <2>1, <2>2, <3>2, MergeSafe, SafeTrans DEF InMshr
    <3> QED BY <1>9, <2>2, <3>3 DEF e
  <2>3. CASE ~MshrFull(s, "L1D") /\ Becomes(SendDown(AddMshr(s, "L1D", p), "L1D", p))
    <3>1. Safe(State, SendDown(AddMshr(s, c, p), c, p))
      BY <1>3, <1>6, <1>9, <2>1, <2>3, MissSafe, SafeTrans
    <3> QED BY <1>9, <2>3, <3>1
  <2> QED BY <1>9, <2>2, <2>3 DEF WriteMissL1D, Handler
<1>10. CASE hits = {} /\ c # "L1D" /\ WriteAllocate(s, c, p)
  <2>1. PICK w \in Victims(s, c) :
          /\ CanEvict(s, c, w)
          /\ Becomes(ReturnUp(FillCache(Evict(s, c, w), c, w, a, TRUE), c, p))
    BY <1>10 DEF WriteAllocate, Handler
  <2>2. w \in 1 .. WAYS[c]
    BY DEF Victims
  <2> DEFINE yes == TRUE
             u == FillCache(Evict(s, c, w), c, w, a, yes)
  <2>y. yes \in BOOLEAN /\ yes
    OBVIOUS
  <2>a. Typed(s) /\ Clean(s) /\ a \in Addr /\ CanEvict(s, c, w)
    BY <1>4, <1>6, <2>1 DEF Shape
  <2> HIDE DEF yes
  <2>b. Replaced(s, u, c, w, a, yes)
    BY <2>y, <2>a, <2>2, <1>2, FillShape
  <2> HIDE DEF u
  <2>3. /\ Typed(u) /\ Clean(u) /\ KeepsDirty(s, u) /\ DirtyIn(u, a)
        /\ KeepsFiles(s, u)
        /\ \A d \in Caches \ {c} : u.block[d] = s.block[d]
    BY <2>y, <2>b DEF Replaced
  <2>4. c \notin FirstLevel \cup {"STLB"}
    BY <1>2, <1>10 DEF FirstLevel, ReadOnly
  <2>5. Single(u)
    BY <1>6, <2>3, <2>4 DEF Shape, Single, KeepsFiles
  <2>6. KeepsDirty(State, u)
    BY <1>6, <2>3 DEF KeepsDirty
  <2>7. Safe(State, ReturnUp(u, c, p))
    BY <2>3, <2>5, <2>6, ReturnUpAnswered, AnsweredSent, SentSafe, SafeTrans DEF Shape
  <2> QED BY <2>1, <2>7 DEF u, yes
<1> QED BY <1>7, <1>8, <1>9, <1>10

(* handle_fill, with its victim and without one.                           *)
LEMMA HandleFillSafe ==
  ASSUME Shape(State), NEW c \in Caches, HandleFill(c)
  PROVE  \E t : Becomes(t) /\ Safe(State, t)
<1> DEFINE s == State
<1>1. Typed(s) /\ Clean(s) /\ Single(s) /\ s.mshr[c] = mshr[c]
  BY StateFields DEF Shape
<1>2. PICK a \in DOMAIN mshr[c] : FillMshr(c, a) \/ BypassLlc(c, a)
  BY DEF HandleFill
<1> DEFINE p == mshr[c][a]
<1>3. a \in DOMAIN s.mshr[c] /\ p \in Packet /\ a \in Addr
  BY <1>1, <1>2, EntryOk
<1> HIDE DEF s, p
<1>4. CASE FillMshr(c, a)
  <2>1. PICK w \in Victims(s, c) :
          /\ CanEvict(s, c, w)
          /\ LET s1 == FillCache(Evict(s, c, w), c, w, a, c = "L1D" /\ p.type = "RFO")
                 s2 == Process(ReturnUp(s1, c, p), c, p)
             IN  Becomes(RemoveMshr(s2, c, a))
    BY <1>4 DEF FillMshr, Handler, s, p
  <2> DEFINE dirty == c = "L1D" /\ p.type = "RFO"
             s1 == FillCache(Evict(s, c, w), c, w, a, dirty)
             s2 == Process(ReturnUp(s1, c, p), c, p)
             t == RemoveMshr(s2, c, a)
  <2>2. w \in 1 .. WAYS[c] /\ CanEvict(s, c, w)
    BY <2>1 DEF Victims
  <2>3. Becomes(t)
    BY <2>1
  <2>4. dirty \in BOOLEAN /\ (c \in ReadOnly => ~dirty)
    BY DEF ReadOnly
  <2> HIDE DEF dirty
  <2>5. Replaced(s, s1, c, w, a, dirty)
    BY <1>1, <1>3, <2>2, <2>4, FillShape
  <2> HIDE DEF s1
  <2>6. Typed(s1) /\ Clean(s1) /\ KeepsDirty(s, s1) /\ KeepsFiles(s, s1)
    BY <2>5 DEF Replaced
  <2>7. Answered(s1, s2)
    <3>1. Answered(s1, ReturnUp(s1, c, p))
      BY <2>6, ReturnUpAnswered
    <3>2. Answered(ReturnUp(s1, c, p), s2)
      BY <1>3, <3>1, ProcessSame DEF Answered
    <3> QED BY <3>1, <3>2, AnsweredTrans
  <2> HIDE DEF s2
  <2>8. Typed(s2) /\ a \in DOMAIN s2.mshr[c]
    BY <1>3, <2>6, <2>7 DEF Answered, KeepsFiles
  <2>9. /\ Typed(t)
        /\ DOMAIN t.mshr[c] = DOMAIN s2.mshr[c] \ {a}
        /\ \A d \in Caches \ {c} : t.mshr[d] = s2.mshr[d]
        /\ KeepsQueues(s2, t) /\ KeepsDram(s2, t) /\ t.block = s2.block
    BY <2>8, RemoveMshrFile
  <2> HIDE DEF t
  <2>10. /\ \A d \in Caches \ {c} : DOMAIN t.mshr[d] = DOMAIN s.mshr[d]
         /\ DOMAIN t.mshr[c] = DOMAIN s.mshr[c] \ {a}
         /\ t.wq = s1.wq /\ t.pq = s1.pq /\ t.dramWq = s1.dramWq /\ t.block = s1.block
    BY <2>6, <2>7, <2>9 DEF Answered, KeepsFiles, KeepsQueues, KeepsDram
  <2>11. Clean(t) /\ KeepsDirty(s, t)
    BY <2>6, <2>10 DEF Clean, KeepsDirty, DirtyIn
  <2>12. Single(t)
    <3> SUFFICES ASSUME NEW d \in Caches \cap (FirstLevel \cup {"STLB"})
                 PROVE  /\ \A v, x \in 1 .. WAYS[d] :
                             v # x /\ t.block[d][v].tag # NoAddr => t.block[d][v].tag # t.block[d][x].tag
                        /\ \A b \in DOMAIN t.mshr[d] : \A x \in 1 .. WAYS[d] : t.block[d][x].tag # b
      BY DEF Single
    <3>1. CASE d # c
      <4>1. t.block[d] = s.block[d] /\ DOMAIN t.mshr[d] = DOMAIN s.mshr[d]
        BY <3>1, <2>5, <2>10 DEF Replaced
      <4> QED BY <4>1, <1>1 DEF Single
    <3>2. CASE d = c
      <4>1. /\ t.block[c][w].tag = a
            /\ \A v \in 1 .. WAYS[c] : v # w => t.block[c][v] = s.block[c][v]
        BY <2>5, <2>10 DEF Replaced
      <4>2. \A v \in 1 .. WAYS[c] : s.block[c][v].tag # a
        BY <3>2, <1>1, <1>3 DEF Single
      <4>3. \A v \in 1 .. WAYS[c] : v # w => t.block[c][v].tag # a
        BY <4>1, <4>2
      <4> QED BY <3>2, <4>1, <4>3, <1>1, <2>10 DEF Single
    <3> QED BY <3>1, <3>2
  <2>13. Safe(s, t)
    BY <2>9, <2>11, <2>12 DEF Safe, Shape
  <2> QED BY <2>3, <2>13 DEF s
<1>5. CASE BypassLlc(c, a)
  <2> DEFINE u == ReturnUp(s, c, p)
             t == RemoveMshr(u, c, a)
  <2>1. Becomes(t) /\ c = "LLC"
    BY <1>5 DEF BypassLlc, Handler, s, p
  <2>2. Answered(s, u)
    BY <1>1, ReturnUpAnswered
  <2> HIDE DEF u
  <2>3. Typed(u) /\ a \in DOMAIN u.mshr[c]
    BY <1>3, <2>2 DEF Answered
  <2>4. /\ Typed(t) /\ \A d \in Caches \ {c} : t.mshr[d] = u.mshr[d]
        /\ KeepsQueues(u, t) /\ KeepsDram(u, t) /\ t.block = u.block
    BY <2>3, RemoveMshrFile
  <2> HIDE DEF t
  <2>5. /\ t.wq = s.wq /\ t.pq = s.pq /\ t.dramWq = s.dramWq /\ t.block = s.block
        /\ \A d \in Caches \ {c} : DOMAIN t.mshr[d] = DOMAIN s.mshr[d]
    BY <2>2, <2>4 DEF Answered, KeepsQueues, KeepsDram
  <2>6. Clean(t)
    BY <1>1, <2>5 DEF Clean
  <2>7. Single(t)
    BY <1>1, <2>1, <2>5 DEF Single, FirstLevel
  <2>8. KeepsDirty(s, t)
    BY <2>5 DEF KeepsDirty, DirtyIn
  <2> QED BY <2>1, <2>4, <2>6, <2>7, <2>8 DEF Safe, Shape, s
<1> QED BY <1>2, <1>4, <1>5

(* The DRAM controller.                                                    *)
LEMMA DramReadSafe ==
  ASSUME Shape(State), DramRead
  PROVE  \E t : Becomes(t) /\ Safe(State, t)
<1>1. PICK a \in dramRq : Becomes([ReturnData(State, "LLC", a) EXCEPT !.dramRq = @ \ {a}])
  BY DEF DramRead, Handler
<1> DEFINE u == ReturnData(State, "LLC", a)
           R == u.dramRq \ {a}
           t == PutDram(u, R, u.dramWq)
<1>2. Answered(State, u)
  BY ReturnDataAnswered DEF Shape
<1> HIDE DEF u
<1>3. /\ Typed(u) /\ R \in SUBSET Addr /\ u.dramWq \in SUBSET Addr
      /\ IsFiniteSet(u.dramWq) /\ Cardinality(u.dramWq) <= DRAM_WQ_SIZE
  BY <1>2 DEF Answered, Typed, States
<1>4. [u EXCEPT !.dramRq = @ \ {a}] = t
  BY <1>3 DEF PutDram, Typed, States
<1> HIDE DEF R
<1>5. /\ Typed(t) /\ t.dramWq = u.dramWq /\ KeepsQueues(u, t) /\ KeepsFiles(u, t)
      /\ t.block = u.block
  BY <1>3, WithDram
<1>6. Becomes(t)
  BY <1>1, <1>4 DEF u
<1> HIDE DEF t
<1>7. Sent(u, t)
  BY <1>5 DEF Sent, KeepsQueues, KeepsFiles
<1> QED BY <1>2, <1>6, <1>7, AnsweredSent, SentTrans, SentSafe

(* What leaves the write queue of the controller is no longer dirty.       *)
LEMMA DramWriteShape ==
  ASSUME Shape(State), DramWrite
  PROVE  \E t, a : /\ Becomes(t) /\ Shape(t) /\ a \in dramWq /\ t.dramWq = dramWq \ {a}
                   /\ \A x \in Addr \ {a} : DirtyIn(State, x) => DirtyIn(t, x)
<1>1. PICK a \in dramWq : Becomes([State EXCEPT !.dramWq = @ \ {a}])
  BY DEF DramWrite, Handler
<1> DEFINE s == State
           W == s.dramWq \ {a}
           t == PutDram(s, s.dramRq, W)
<1>2. Typed(s) /\ s.dramWq = dramWq /\ Clean(s) /\ Single(s)
  BY StateFields DEF Shape
<1> HIDE DEF s
<1>3. W \in SUBSET Addr /\ s.dramRq \in SUBSET Addr /\ IsFiniteSet(W) /\ Cardinality(W) <= DRAM_WQ_SIZE
  <2>1. s.dramWq \in SUBSET Addr /\ s.dramRq \in SUBSET Addr
    BY <1>2 DEF Typed, States
  <2>2. IsFiniteSet(s.dramWq) /\ Cardinality(s.dramWq) <= DRAM_WQ_SIZE /\ DRAM_WQ_SIZE \in Nat
    BY <1>2, SizeAssumption DEF Typed
  <2>3. IsFiniteSet(W) /\ Cardinality(W) <= Cardinality(s.dramWq)
    BY <2>2, FS_Subset
  <2>4. Cardinality(W) \in Nat /\ Cardinality(s.dramWq) \in Nat
    BY <2>2, <2>3, FS_CardinalityType
  <2> QED BY <2>1, <2>2, <2>3, <2>4
<1>4. [s EXCEPT !.dramWq = @ \ {a}] = t
  BY <1>2 DEF PutDram, Typed, States
<1> HIDE DEF W
<1>5. /\ Typed(t) /\ t.dramWq = W /\ KeepsQueues(s, t) /\ KeepsFiles(s, t)
      /\ t.block = s.block
  BY <1>2, <1>3, WithDram
<1>6. Becomes(t)
  BY <1>1, <1>4 DEF s
<1> HIDE DEF t
<1>7. Clean(t) /\ Single(t)
  BY <1>2, <1>5 DEF Clean, Single, KeepsQueues, KeepsFiles
<1>8. \A x \in Addr \ {a} : DirtyIn(s, x) => DirtyIn(t, x)
  BY <1>5 DEF DirtyIn, KeepsQueues, W
<1>9. t.dramWq = dramWq \ {a}
  BY <1>2, <1>5 DEF W
<1> QED BY <1>5, <1>6, <1>7, <1>8, <1>9 DEF Shape, s

(* The core and the prefetchers.                                           *)
LEMMA DeliverSafe ==
  ASSUME Shape(State), NEW c \in Caches, Deliver(c)
  PROVE  /\ \E t : Becomes(t) /\ Safe(State, t)
         /\ Head(processed[c]) \subseteq Demand
<1> DEFINE s == State
           q == Tail(s.processed[c])
           t == PutProcessed(s, c, q)
<1>1. Typed(s) /\ s.processed[c] = processed[c] /\ processed[c] # << >>
  BY StateFields DEF Shape, Deliver
<1> HIDE DEF s
<1>2. processed[c] \in Seq(SUBSET Demand)
  BY <1>1 DEF Typed, States
<1>3. Head(processed[c]) \in SUBSET Demand /\ q \in Seq(SUBSET Demand)
  BY <1>1, <1>2, HeadTailProperties
<1>4. Becomes([s EXCEPT !.processed[c] = Tail(@)])
  BY DEF Deliver, s
<1>5. Becomes(t)
  BY <1>4 DEF PutProcessed
<1> HIDE DEF q
<1>6. /\ Typed(t) /\ KeepsQueues(s, t) /\ KeepsFiles(s, t) /\ KeepsDram(s, t)
      /\ t.block = s.block
  BY <1>1, <1>3, WithProcessed
<1> HIDE DEF t
<1>7. Sent(s, t)
  BY <1>6 DEF Sent, KeepsQueues, KeepsFiles, KeepsDram
<1> QED BY <1>3, <1>5, <1>7, SentSafe DEF s

(* The demands are numbered as they are issued.                            *)
Counters == [demand : 0 .. MaxDemand, store : 0 .. MaxStore, prefetch : 0 .. MaxPrefetch]

LEMMA AskSafe ==
  ASSUME Shape(State), issued \in Counters,
         NEW c, NEW a \in Addr, NEW w \in Word, NEW type \in {"LOAD", "RFO"},
         NEW instr \in BOOLEAN, Ask(c, a, w, type, instr)
  PROVE  /\ \E t : Becomes(t) /\ Safe(State, t)
         /\ issued' \in Counters /\ done' = done
<1> DEFINE p == Request(a, w, type, instr, FILL_L1, {issued.demand + 1})
<1>1. c \in Caches /\ issued.demand < MaxDemand /\ Becomes(AddRq(State, c, p))
  BY DEF Ask
<1>2. MaxDemand \in Nat /\ issued.demand \in Nat
  BY SizeAssumption DEF Counters
<1>3. {issued.demand + 1} \in SUBSET Demand
  BY <1>1, <1>2 DEF Demand
<1>4. FILL_L1 \in {1, 2, 4} /\ type \in {"LOAD", "RFO", "PREFETCH"}
  BY DEF FILL_L1
<1> DEFINE ws == {issued.demand + 1}
<1> HIDE DEF ws
<1>5. p \in Packet
  <2>1. Request(a, w, type, instr, FILL_L1, ws) \in Packet
    BY <1>3, <1>4, RequestPacket DEF ws
  <2> QED BY <2>1 DEF ws
<1> HIDE DEF p
<1>6. Safe(State, AddRq(State, c, p))
  BY <1>1, <1>5, AddRqSent, SentSafe DEF Shape
<1>7. issued' = [issued EXCEPT !.demand = @ + 1] /\ done' = done
  BY DEF Ask
<1>8. issued' \in Counters
  BY <1>1, <1>2, <1>7 DEF Counters
<1> QED BY <1>1, <1>6, <1>7, <1>8

LEMMA StoreSafe ==
  ASSUME Shape(State), issued \in Counters, Store
  PROVE  /\ \E t : Becomes(t) /\ Safe(State, t)
         /\ issued' \in Counters /\ done' = done
<1> DEFINE c == "L1D"
           s == State
<1>1. PICK a \in DataAddr, w \in Word :
        Becomes(AddWq(s, c, Request(a, w, "RFO", FALSE, FILL_L1, {})))
  BY DEF Store
<1>2. c \in Caches /\ issued.store < MaxStore /\ Len(s.wq[c]) < WQ_SIZE[c]
  BY StateFields DEF Store
<1> DEFINE p == Request(a, w, "RFO", FALSE, FILL_L1, {})
           q == Append(s.wq[c], p)
           t == PutWq(s, c, q)
<1>3. Typed(s) /\ Clean(s) /\ Single(s)
  BY DEF Shape
<1> HIDE DEF s, c
<1>4. p \in Packet
  <2> DEFINE instr == FALSE
             ws == {}
  <2>1. /\ a \in Addr /\ FILL_L1 \in {1, 2, 4} /\ ws \in SUBSET Demand /\ instr \in BOOLEAN
        /\ "RFO" \in {"LOAD", "RFO", "PREFETCH"}
    BY SizeAssumption DEF FILL_L1
  <2> HIDE DEF instr, ws
  <2>2. Request(a, w, "RFO", instr, FILL_L1, ws) \in Packet
    BY <2>1, RequestPacket
  <2> QED BY <2>2 DEF instr, ws
<1> HIDE DEF p
<1>5. \/ Becomes(s)
      \/ Becomes(t)
  <2>1. /\ c # "DRAM" /\ ~(Len(s.wq[c]) >= WQ_SIZE[c])
    BY <1>2, <1>3, QueueRoom DEF c
  <2>2. AddWq(s, c, p) = IF WqHits(s, c, p) # {} THEN s ELSE t
    BY <2>1 DEF AddWq, PutWq
  <2> QED BY <1>1, <2>2 DEF p
<1>6. Safe(s, s)
  BY <1>3 DEF Safe, Shape, KeepsDirty
<1>7. Safe(s, t)
  <2>1. s.wq[c] \in Seq(Packet) /\ Len(s.wq[c]) + 1 <= WQ_SIZE[c]
    BY <1>2, <1>3, QueueRoom
  <2>2. q \in Seq(Packet) /\ Len(q) <= WQ_SIZE[c]
    BY <1>4, <2>1, AppendIn
  <2> HIDE DEF q
  <2>3. /\ Typed(t) /\ \A d \in Caches \ {c} : t.wq[d] = s.wq[d]
        /\ t.pq = s.pq
        /\ KeepsFiles(s, t) /\ KeepsDram(s, t) /\ t.block = s.block
    BY <1>2, <1>3, <2>2, WithWq
  <2> HIDE DEF t
  <2>4. Clean(t) /\ Single(t) /\ KeepsDirty(s, t)
    BY <1>3, <2>3 DEF Clean, Single, KeepsDirty, DirtyIn, KeepsFiles, KeepsDram, ReadOnly, c
  <2> QED BY <2>3, <2>4 DEF Safe, Shape
<1>8. issued' = [issued EXCEPT !.store = @ + 1] /\ done' = done
  BY DEF Store
<1>9. issued' \in Counters
  BY <1>2, <1>8, SizeAssumption DEF Counters
<1> QED BY <1>5, <1>6, <1>7, <1>8, <1>9 DEF s

LEMMA PrefetchSafe ==
  ASSUME Shape(State), issued \in Counters, NEW c \in Caches, Prefetch(c)
  PROVE  /\ \E t : Becomes(t) /\ Safe(State, t)
         /\ issued' \in Counters /\ done' = done
<1>1. PICK level \in PrefetchLevels(c), a \in PrefetchAddr(c) :
        Becomes(AddPq(State, c, Request(a, AnyWord, "PREFETCH", c = "L1I", level, {})))
  BY DEF Prefetch
<1> DEFINE instr == c = "L1I"
           p == Request(a, AnyWord, "PREFETCH", instr, level, {})
<1>2. c \notin {"ITLB", "DTLB", "STLB"} /\ level \in {1, 2, 4}
  BY <1>1 DEF PrefetchLevels, FILL_L1, FILL_L2, FILL_LLC
<1>3. a \in Addr /\ AnyWord \in Word /\ {} \in SUBSET Demand /\ instr \in BOOLEAN
  BY SizeAssumption DEF AnyWord, PrefetchAddr
<1>4. Becomes(AddPq(State, c, p))
  BY <1>1
<1> HIDE DEF instr
<1>5. p \in Packet
  BY <1>2, <1>3, RequestPacket
<1> HIDE DEF p
<1>6. Safe(State, AddPq(State, c, p))
  BY <1>2, <1>5, AddPqSent, SentSafe DEF Shape
<1>7. issued' = [issued EXCEPT !.prefetch = @ + 1] /\ done' = done /\ issued.prefetch < MaxPrefetch
  BY DEF Prefetch
<1>8. issued' \in Counters
  BY <1>7, SizeAssumption DEF Counters
<1> QED BY <1>4, <1>6, <1>7, <1>8

-------------------------------------------------------------------------------
(* The first inductive invariant, and what it gives.                       *)

BlockInv == Shape(State) /\ issued \in Counters /\ done \subseteq Demand

LEMMA BecomesState ==
  ASSUME NEW t, Typed(t), Becomes(t)
  PROVE  State' = t
<1>1. State' = [rq |-> t.rq, wq |-> t.wq, pq |-> t.pq, mshr |-> t.mshr,
                block |-> t.block, processed |-> t.processed,
                dramRq |-> t.dramRq, dramWq |-> t.dramWq, asserts |-> t.asserts]
  BY DEF State, Becomes
<1> QED BY <1>1 DEF Typed, States

(* Each way holds a block.                                                 *)
LEMMA WayOk ==
  ASSUME NEW s, Typed(s), NEW c \in Caches
  PROVE  \A w \in 1 .. WAYS[c] : s.block[c][w] \in Block
<1>1. BlockOk(s.block[c], c)
  BY DEF Typed
<1>2. PICK n \in Nat : s.block[c] \in [1 .. n -> Block]
  BY <1>1 DEF BlockOk, Ways
<1>3. 1 .. n = 1 .. WAYS[c]
  BY <1>1, <1>2 DEF BlockOk
<1> QED BY <1>2, <1>3

LEMMA ModifiedIs ==
  ASSUME NEW b \in Block, NEW a
  PROVE  b = [tag |-> a, dirty |-> TRUE] <=> b.tag = a /\ b.dirty
<1> DEFINE yes == TRUE
<1>1. ASSUME NEW x, NEW d, NEW y, NEW e
      PROVE  [tag |-> x, dirty |-> d] = [tag |-> y, dirty |-> e] <=> x = y /\ d = e
  <2>1. [tag |-> x, dirty |-> d].tag = x /\ [tag |-> y, dirty |-> e].tag = y
    OBVIOUS
  <2>2. [tag |-> x, dirty |-> d].dirty = d /\ [tag |-> y, dirty |-> e].dirty = e
    OBVIOUS
  <2> QED BY <2>1, <2>2, Zenon
<1>2. PICK x \in Addr \cup {NoAddr}, d \in BOOLEAN : b = [tag |-> x, dirty |-> d]
  BY DEF Block
<1>3. b.tag = x /\ b.dirty = d
  BY <1>2
<1>4. b = [tag |-> a, dirty |-> yes] <=> b.tag = a /\ b.dirty = yes
  <2> HIDE DEF yes
  <2> QED BY <1>1, <1>2, <1>3, Zenon
<1>5. b.dirty = yes <=> b.dirty
  <2>1. d = TRUE <=> d
    BY <1>2, Zenon
  <2> QED BY <2>1, <1>3, Zenon
<1> QED BY <1>4, <1>5, Zenon

(* DirtyIn is Dirty, before a step and after it.                           *)
LEMMA DirtyState ==
  ASSUME Typed(State), NEW a \in Addr
  PROVE  DirtyIn(State, a) <=> Dirty(a)
<1>1. \A c \in Caches : \A w \in 1 .. WAYS[c] :
        block[c][w] = [tag |-> a, dirty |-> TRUE] <=> block[c][w].tag = a /\ block[c][w].dirty
  <2> SUFFICES ASSUME NEW c \in Caches, NEW w \in 1 .. WAYS[c]
               PROVE  block[c][w] = [tag |-> a, dirty |-> TRUE]
                        <=> block[c][w].tag = a /\ block[c][w].dirty
    OBVIOUS
  <2>1. block[c][w] \in Block
    BY StateFields, WayOk
  <2> QED BY <2>1, ModifiedIs
<1>2. \A c \in Caches : QueueHits(wq[c], a) # {} <=> \E p \in In(wq[c]) : p.address = a
  BY DEF QueueHits, In
<1> QED BY <1>1, <1>2, StateFields DEF Dirty, DirtyIn

LEMMA DirtyStateNext ==
  ASSUME Typed(State'), NEW a \in Addr
  PROVE  DirtyIn(State', a) <=> Dirty(a)'
<1>0. State'.block = block' /\ State'.wq = wq' /\ State'.dramWq = dramWq'
  BY DEF State
<1>1. \A c \in Caches : \A w \in 1 .. WAYS[c] :
        block'[c][w] = [tag |-> a, dirty |-> TRUE] <=> block'[c][w].tag = a /\ block'[c][w].dirty
  <2> SUFFICES ASSUME NEW c \in Caches, NEW w \in 1 .. WAYS[c]
               PROVE  block'[c][w] = [tag |-> a, dirty |-> TRUE]
                        <=> block'[c][w].tag = a /\ block'[c][w].dirty
    OBVIOUS
  <2>1. block'[c][w] \in Block
    BY <1>0, WayOk
  <2> QED BY <2>1, ModifiedIs
<1>2. \A c \in Caches : QueueHits(wq'[c], a) # {} <=> \E p \in In(wq'[c]) : p.address = a
  BY DEF QueueHits, In
<1> QED BY <1>0, <1>1, <1>2 DEF Dirty, DirtyIn

(* What one step does to the shape and to the modified blocks.             *)
LEMMA StepShape ==
  ASSUME BlockInv, Next
  PROVE  /\ BlockInv'
         /\ \A a \in Addr : DirtyIn(State, a) /\ ~DirtyIn(State', a) =>
              a \in dramWq /\ a \notin dramWq'
<1> DEFINE Goal == /\ BlockInv'
                   /\ \A a \in Addr : DirtyIn(State, a) /\ ~DirtyIn(State', a) =>
                        a \in dramWq /\ a \notin dramWq'
<1>0. Shape(State) /\ issued \in Counters /\ done \subseteq Demand
  BY DEF BlockInv
<1>1. ASSUME NEW t, Becomes(t), Safe(State, t), issued' \in Counters, done' \subseteq Demand
      PROVE  Goal
  <2>1. State' = t
    BY <1>1, BecomesState DEF Safe, Shape
  <2>2. Shape(State)'
    BY <1>1, <2>1 DEF Safe
  <2>3. \A a \in Addr : DirtyIn(State, a) => DirtyIn(State', a)
    BY <1>1, <2>1 DEF Safe, KeepsDirty
  <2> QED BY <1>1, <2>2, <2>3 DEF BlockInv
<1>2. ASSUME \E t : Becomes(t) /\ Safe(State, t), issued' \in Counters, done' \subseteq Demand
      PROVE  Goal
  BY <1>1, <1>2
<1> SUFFICES Goal
  OBVIOUS
<1> HIDE DEF Goal
<1>3. ASSUME NEW c \in Caches, HandlerOf(c)
      PROVE  Goal
  <2>1. issued' = issued /\ done' = done
    BY <1>3 DEF HandlerOf, HandleFill, HandleWriteback, HandleRead, HandlePrefetch, FillMshr,
                BypassLlc, WriteMissL1D, WriteAllocate, Handler
  <2>2. \E t : Becomes(t) /\ Safe(State, t)
    BY <1>0, <1>3, HandleFillSafe, HandleWritebackSafe, HandleReadSafe, HandlePrefetchSafe
       DEF HandlerOf
  <2> QED BY <1>0, <1>2, <2>1, <2>2
<1>4. ASSUME NEW c \in Caches, Deliver(c)
      PROVE  Goal
  <2>1. issued' = issued /\ done' = done \cup Head(processed[c])
    BY <1>4 DEF Deliver
  <2>2. (\E t : Becomes(t) /\ Safe(State, t)) /\ Head(processed[c]) \subseteq Demand
    BY <1>0, <1>4, DeliverSafe
  <2> QED BY <1>0, <1>2, <2>1, <2>2
<1>5. ASSUME NEW c \in Caches, Prefetch(c)
      PROVE  Goal
  BY <1>0, <1>2, <1>5, PrefetchSafe
<1>6. CASE DramRead
  <2>1. issued' = issued /\ done' = done
    BY <1>6 DEF DramRead, Handler
  <2> QED BY <1>0, <1>2, <1>6, <2>1, DramReadSafe
<1>7. CASE DramWrite
  <2>1. issued' = issued /\ done' = done
    BY <1>7 DEF DramWrite, Handler
  <2>2. PICK t, a : /\ Becomes(t) /\ Shape(t) /\ a \in dramWq /\ t.dramWq = dramWq \ {a}
                    /\ \A x \in Addr \ {a} : DirtyIn(State, x) => DirtyIn(t, x)
    BY <1>0, <1>7, DramWriteShape
  <2>3. State' = t /\ dramWq' = t.dramWq
    BY <2>2, BecomesState DEF Shape, Becomes
  <2>4. Shape(State)'
    BY <2>2, <2>3
  <2>5. \A x \in Addr : DirtyIn(State, x) /\ ~DirtyIn(State', x) => x \in dramWq /\ x \notin dramWq'
    BY <2>2, <2>3
  <2> QED BY <1>0, <2>1, <2>4, <2>5 DEF BlockInv, Goal
<1>8. ASSUME NEW c, NEW a \in CodeAddr \cup DataAddr, NEW w \in Word, NEW type \in {"LOAD", "RFO"},
             NEW instr \in BOOLEAN, Ask(c, a, w, type, instr)
      PROVE  Goal
  <2>1. a \in Addr
    BY SizeAssumption
  <2> QED BY <1>0, <1>2, <1>8, <2>1, AskSafe
<1>9. CASE Fetch \/ Load \/ Translate
  <2>1. AnyWord \in Word
    BY SizeAssumption DEF AnyWord
  <2>2. \E c : \E a \in CodeAddr \cup DataAddr, w \in Word, type \in {"LOAD", "RFO"},
             instr \in BOOLEAN : Ask(c, a, w, type, instr)
    <3>1. CASE Fetch
      <4>1. PICK a \in CodeAddr : \E c : Ask(c, a, AnyWord, "LOAD", TRUE)
        BY <3>1 DEF Fetch
      <4> QED BY <2>1, <4>1
    <3>2. CASE Load
      <4>1. PICK a \in DataAddr, w \in Word : Ask("L1D", a, w, "LOAD", FALSE)
        BY <3>2 DEF Load
      <4> QED BY <4>1
    <3>3. CASE Translate
      <4>1. PICK a \in DataAddr, type \in {"LOAD", "RFO"} : Ask("DTLB", a, AnyWord, type, FALSE)
        BY <3>3 DEF Translate
      <4> QED BY <2>1, <4>1
    <3> QED BY <1>9, <3>1, <3>2, <3>3
  <2> QED BY <1>8, <2>2
<1>10. CASE Store
  BY <1>0, <1>2, <1>10, StoreSafe
<1>11. CASE Finished
  <2>1. State' = State /\ issued' = issued /\ done' = done
    BY <1>11 DEF Finished, vars, State
  <2> QED BY <1>0, <2>1 DEF BlockInv, Goal
<1>12. Goal
  BY <1>3, <1>4, <1>5, <1>6, <1>7, <1>9, <1>10, <1>11 DEF Next
<1> QED BY <1>12

LEMMA StepBlockInv == BlockInv /\ [Next]_vars => BlockInv'
<1> SUFFICES ASSUME BlockInv, [Next]_vars
             PROVE  BlockInv'
  OBVIOUS
<1>1. CASE Next
  BY <1>1, StepShape
<1>2. CASE UNCHANGED vars
  <2>1. State' = State /\ issued' = issued /\ done' = done
    BY <1>2 DEF vars, State
  <2> QED BY <2>1 DEF BlockInv
<1> QED BY <1>1, <1>2

LEMMA InitBlockInv == Init => BlockInv
<1> SUFFICES ASSUME Init
             PROVE  BlockInv
  OBVIOUS
<1>1. ASSUME NEW c \in Caches
      PROVE  /\ WAYS[c] \in Nat /\ rq[c] = << >> /\ wq[c] = << >> /\ pq[c] = << >>
             /\ mshr[c] = << >> /\ DOMAIN mshr[c] = {}
             /\ block[c] = [w \in 1 .. WAYS[c] |-> [tag |-> NoAddr, dirty |-> FALSE]]
             /\ processed[c] = << >>
  BY SizeAssumption DEF Init
<1>2. ASSUME NEW c \in Caches PROVE FileOk(mshr[c], c)
  <2>1. mshr[c] \in [{} -> Packet]
    <3>1. << >> \in [{} -> Packet]
      OBVIOUS
    <3> QED BY <1>1, <3>1
  <2>2. mshr[c] \in Files
    BY <2>1 DEF Files
  <2>3. IsFiniteSet({}) /\ Cardinality({}) = 0 /\ MSHR_SIZE[c] \in Nat
    BY FS_EmptySet, SizeAssumption
  <2>4. IsFiniteSet(DOMAIN mshr[c]) /\ Cardinality(DOMAIN mshr[c]) <= MSHR_SIZE[c]
    <3>1. DOMAIN mshr[c] = {}
      BY <1>1
    <3> QED BY <3>1, <2>3
  <2>5. \A a \in DOMAIN mshr[c] : mshr[c][a].address = a
    BY <1>1
  <2> QED BY <2>2, <2>4, <2>5 DEF FileOk
<1>3. ASSUME NEW c \in Caches
      PROVE  /\ BlockOk(block[c], c)
             /\ \A w \in 1 .. WAYS[c] : ~block[c][w].dirty /\ block[c][w].tag = NoAddr
  <2> DEFINE empty == [tag |-> NoAddr, dirty |-> FALSE]
  <2>0. empty \in Block /\ empty.tag = NoAddr /\ ~empty.dirty
    BY DEF Block
  <2>4. block[c] = [w \in 1 .. WAYS[c] |-> empty]
    BY <1>1
  <2> HIDE DEF empty
  <2>1. block[c] \in [1 .. WAYS[c] -> Block]
    BY <2>0, <2>4
  <2>2. \A w \in 1 .. WAYS[c] : ~block[c][w].dirty /\ block[c][w].tag = NoAddr
    BY <2>0, <2>4
  <2>3. block[c] \in Ways
    BY <1>1, <2>1 DEF Ways
  <2>5. DOMAIN block[c] = 1 .. WAYS[c]
    BY <2>1
  <2> QED BY <2>2, <2>3, <2>5 DEF BlockOk
<1>4. State \in States
  <2>1. /\ rq \in [Caches -> Seq(Packet)] /\ wq \in [Caches -> Seq(Packet)]
        /\ pq \in [Caches -> Seq(Packet)]
        /\ processed \in [Caches -> Seq(SUBSET Demand)]
    BY DEF Init
  <2>2. mshr \in [Caches -> Files]
    BY <1>2 DEF Init, FileOk
  <2>3. block \in [Caches -> Ways]
    BY <1>3 DEF Init, BlockOk
  <2>4. dramRq \in SUBSET Addr /\ dramWq \in SUBSET Addr /\ asserts \in SUBSET Messages
    BY DEF Init
  <2> QED BY <2>1, <2>2, <2>3, <2>4 DEF State, States
<1>5. IsFiniteSet(dramWq) /\ Cardinality(dramWq) <= DRAM_WQ_SIZE
  <2>1. IsFiniteSet({}) /\ Cardinality({}) = 0 /\ DRAM_WQ_SIZE \in Nat
    BY FS_EmptySet, SizeAssumption
  <2> QED BY <2>1 DEF Init
<1>6. Typed(State)
  <2>1. ASSUME NEW c \in Caches
        PROVE  Len(rq[c]) <= RQ_SIZE[c] /\ Len(wq[c]) <= WQ_SIZE[c] /\ Len(pq[c]) <= PQ_SIZE[c]
    <3>1. {RQ_SIZE[c], WQ_SIZE[c], PQ_SIZE[c]} \subseteq Nat
      BY SizeAssumption
    <3>2. Len(<< >>) = 0
      OBVIOUS
    <3>3. Len(rq[c]) = 0 /\ Len(wq[c]) = 0 /\ Len(pq[c]) = 0
      BY <1>1, <3>2, Zenon
    <3> QED BY <3>1, <3>3
  <2> QED BY <1>2, <1>3, <1>4, <1>5, <2>1, StateFields DEF Typed
<1>7. Clean(State) /\ Single(State)
  BY <1>1, <1>3, StateFields DEF Clean, Single
<1>8. issued \in Counters /\ done \subseteq Demand
  BY SizeAssumption DEF Init, Counters
<1> QED BY <1>6, <1>7, <1>8 DEF BlockInv, Shape

(* Every queue, MSHR file and block array keeps to its size and its kind,  *)
(* at every cache and whatever handler runs next.                          *)
THEOREM TypeCorrect == Spec => []TypeOK
<1>1. BlockInv => TypeOK
  <2> SUFFICES ASSUME BlockInv, NEW c \in Caches
               PROVE  /\ QueueOk(rq[c], RQ_SIZE[c]) /\ QueueOk(wq[c], WQ_SIZE[c])
                      /\ QueueOk(pq[c], PQ_SIZE[c])
                      /\ Cardinality(DOMAIN mshr[c]) <= MSHR_SIZE[c]
                      /\ \A a \in DOMAIN mshr[c] : mshr[c][a] \in Packet /\ mshr[c][a].address = a
                      /\ \A w \in 1 .. WAYS[c] : block[c][w] \in Block
                      /\ processed[c] \in Seq(SUBSET Demand)
                      /\ issued.demand <= MaxDemand /\ done \subseteq Demand
    BY DEF TypeOK
  <2>1. Typed(State) /\ issued \in Counters /\ done \subseteq Demand
    BY DEF BlockInv, Shape
  <2>2. QueueOk(rq[c], RQ_SIZE[c]) /\ QueueOk(wq[c], WQ_SIZE[c]) /\ QueueOk(pq[c], PQ_SIZE[c])
    <3>1. /\ {rq[c], wq[c], pq[c]} \subseteq Seq(Packet)
          /\ Len(rq[c]) <= RQ_SIZE[c] /\ Len(wq[c]) <= WQ_SIZE[c] /\ Len(pq[c]) <= PQ_SIZE[c]
      BY <2>1, QueueRoom, StateFields DEF Typed
    <3> QED BY <3>1 DEF QueueOk
  <2>3. /\ Cardinality(DOMAIN mshr[c]) <= MSHR_SIZE[c]
        /\ \A a \in DOMAIN mshr[c] : mshr[c][a] \in Packet /\ mshr[c][a].address = a
    BY <2>1, EntryOk, StateFields DEF Typed, FileOk
  <2>4. \A w \in 1 .. WAYS[c] : block[c][w] \in Block
    BY <2>1, StateFields, WayOk
  <2>5. processed[c] \in Seq(SUBSET Demand)
    BY <2>1, StateFields DEF Typed, States
  <2>6. issued.demand <= MaxDemand
    BY <2>1, SizeAssumption DEF Counters
  <2> QED BY <2>1, <2>2, <2>3, <2>4, <2>5, <2>6
<1> QED BY <1>1, InitBlockInv, StepBlockInv, PTL DEF Spec

(* No TLB and no first-level cache ever holds a block twice, although      *)
(* demands, stores and prefetches file their misses independently.         *)
THEOREM NoDoubleCopy == Spec => []OneCopy
<1>1. BlockInv => OneCopy
  BY StateFields DEF BlockInv, Shape, Single, OneCopy
<1> QED BY <1>1, InitBlockInv, StepBlockInv, PTL DEF Spec

(* A modified block leaves the hierarchy only by the controller's write.   *)
THEOREM NoWriteLost == Spec => DirtyKept
<1>1. BlockInv /\ [Next]_vars =>
        [\A a \in Addr : Dirty(a) /\ ~Dirty(a)' => a \in dramWq /\ a \notin dramWq']_vars
  <2> SUFFICES ASSUME BlockInv, Next, NEW a \in Addr, Dirty(a), ~Dirty(a)'
               PROVE  a \in dramWq /\ a \notin dramWq'
    OBVIOUS
  <2>1. Typed(State) /\ DirtyIn(State, a)
    BY DirtyState DEF BlockInv, Shape
  <2>2. Typed(State') /\ ~DirtyIn(State', a)
    <3>1. Typed(State')
      BY StepShape DEF BlockInv, Shape
    <3> QED BY <3>1, DirtyStateNext
  <2> QED BY <2>1, <2>2, StepShape
<1> QED BY <1>1, InitBlockInv, StepBlockInv, PTL DEF Spec, DirtyKept

-------------------------------------------------------------------------------
(* The answers.                                                            *)
(*                                                                         *)
(* That every answer finds its miss and every miss its answer, in a        *)
(* hierarchy of any shape and size: NoAssert and NoOrphan.                 *)
(*                                                                         *)
(* The argument is a ledger.  A level owes the one above it an answer for  *)
(* a block while a read, a prefetch or a miss of a lower fill level waits  *)
(* there.  The invariant says that a cache waits for a block exactly when  *)
(* the level below owes it the block, and that it owes it only once.       *)
(* Within a handler a debt may be in hand: taken off a queue and not yet   *)
(* filed, sent on or paid.  Each operator settles or passes on one debt.   *)
(*                                                                         *)
(* The one hypothesis is that the core does not demand a block both as     *)
(* code and as data.  Without it the result is false, and a run of         *)
(* MCSharedBlock.cfg shows how.  L2C and LLC may prefetch any block as     *)
(* data: what they ask for names no first level to answer.                 *)

(* The levels that answer, and the cache that d answers for the block a.   *)
Below == {"STLB", "L2C", "LLC", "DRAM", "NULL"}

Above(d, a) ==
  CASE d = "DRAM" -> "LLC"
    [] d = "NULL" -> "STLB"
    [] OTHER -> IF a \in CodeAddr THEN UpperInstr(d) ELSE UpperData(d)

(* A packet that c may hold: the flags that name a first level to answer   *)
(* follow from its address and its fill level; the others, which only the  *)
(* LLC and the controller look at, are not both down.                      *)
Fits(c, a) == /\ c \in {"ITLB", "L1I"} => a \in CodeAddr
              /\ c \in {"DTLB", "L1D"} => a \notin CodeAddr

Classed(c, p) ==
  /\ p.address \in CodeAddr \cup DataAddr /\ Fits(c, p.address)
  /\ p.instruction \/ p.is_data
  /\ p.fill_l1i <=> p.address \in CodeAddr /\ p.fill_level = 1
  /\ p.fill_l1d <=> p.address \notin CodeAddr /\ p.fill_level = 1

ReadKind(c, p) ==
  Classed(c, p) /\ IF c \in FirstLevel THEN p.fill_level = 1 ELSE p.fill_level < FillLevel(c)

PrefetchKind(c, p) ==
  /\ Classed(c, p) /\ p.fill_level <= 4
  /\ c \in FirstLevel => p.fill_level = 1

WriteKind(c, p) ==
  IF c = "L1D" THEN Classed(c, p) /\ p.fill_level = 1 ELSE p.fill_level >= FillLevel(c)

RqKinds(s)   == \A c \in Caches : Distinct(s.rq[c]) /\ \A p \in In(s.rq[c]) : ReadKind(c, p)
PqKinds(s)   == \A c \in Caches :
                  /\ c \in {"ITLB", "DTLB", "STLB"} => s.pq[c] = << >>
                  /\ Distinct(s.pq[c]) /\ \A p \in In(s.pq[c]) : PrefetchKind(c, p)
WqKinds(s)   == \A c \in Caches : \A p \in In(s.wq[c]) : WriteKind(c, p)
FileKinds(s) == \A c \in Caches : \A a \in DOMAIN s.mshr[c] : Classed(c, s.mshr[c][a])

(* A miss that waits, and the packets that owe an answer to the level above. *)
Pending(s, c, a) == c \in Caches /\ a \in DOMAIN s.mshr[c] /\ ~s.mshr[c][a].returned

Owes(c, p)        == p.fill_level < FillLevel(c)
RqOwes(s, d, a)   == d \in Caches /\ \E p \in In(s.rq[d]) : p.address = a /\ Owes(d, p)
PqOwes(s, d, a)   == d \in Caches /\ \E p \in In(s.pq[d]) : p.address = a /\ Owes(d, p)
MshrOwes(s, d, a) == d \in Caches /\ a \in DOMAIN s.mshr[d] /\ Owes(d, s.mshr[d][a])
DramOwes(s, d, a) == d = "DRAM" /\ a \in s.dramRq

(* The ledger, with the debts D in hand and the debts X already paid by an *)
(* MSHR entry or a read of the controller that is about to be removed.     *)
Owed(s, D, X) ==
  \A d \in Below, a \in Addr :
    LET hand == << d, a >> \in D
        file == << d, a >> \notin X /\ (MshrOwes(s, d, a) \/ DramOwes(s, d, a))
    IN  /\ Pending(s, Above(d, a), a) <=> hand \/ RqOwes(s, d, a) \/ PqOwes(s, d, a) \/ file
        /\ hand => ~RqOwes(s, d, a) /\ ~PqOwes(s, d, a) /\ ~file
        /\ RqOwes(s, d, a) => ~PqOwes(s, d, a) /\ ~file
        /\ PqOwes(s, d, a) => ~file

Sound(s, D, X) ==
  /\ Typed(s) /\ RqKinds(s) /\ PqKinds(s) /\ WqKinds(s) /\ FileKinds(s)
  /\ Owed(s, D, X) /\ s.asserts = {}

(* What a packet taken off a queue of c puts in hand.                      *)
Debt(c, p) == IF Owes(c, p) THEN {<< c, p.address >>} ELSE {}

-------------------------------------------------------------------------------
(* Who answers whom.                                                       *)

LEMMA LevelIs ==
  /\ \A c \in FirstLevel : FillLevel(c) = 1
  /\ FillLevel("STLB") = 2 /\ FillLevel("L2C") = 2 /\ FillLevel("LLC") = 4
BY DEF FillLevel, FirstLevel, FILL_L1, FILL_L2, FILL_LLC

LEMMA AboveIs ==
  ASSUME NEW a
  PROVE  /\ Above("DRAM", a) = "LLC" /\ Above("NULL", a) = "STLB"
         /\ Above("STLB", a) = IF a \in CodeAddr THEN "ITLB" ELSE "DTLB"
         /\ Above("L2C", a) = IF a \in CodeAddr THEN "L1I" ELSE "L1D"
         /\ Above("LLC", a) = "L2C"
BY DEF Above, UpperInstr, UpperData

LEMMA CachesAre == Caches \subseteq {"ITLB", "DTLB", "L1I", "L1D", "STLB", "L2C", "LLC"}
BY SizeAssumption DEF FirstLevel

(* No two levels answer the same cache.                                    *)
LEMMA AboveOne ==
  ASSUME NEW a, NEW d \in Below, NEW e \in Below, Above(d, a) = Above(e, a)
  PROVE  d = e
BY AboveIs DEF Below

LEMMA AboveLower ==
  ASSUME NEW c \in Caches, NEW a, Fits(c, a)
  PROVE  Lower(c) \in Below /\ Above(Lower(c), a) = c
<1>1. \/ c \in {"ITLB", "DTLB"} /\ Lower(c) = "STLB"
      \/ c \in {"L1I", "L1D"} /\ Lower(c) = "L2C"
      \/ c = "STLB" /\ Lower(c) = "NULL"
      \/ c = "L2C" /\ Lower(c) = "LLC"
      \/ c = "LLC" /\ Lower(c) = "DRAM"
  BY CachesAre DEF Lower
<1> QED BY <1>1, AboveIs DEF Below, Fits

(* A first level owes nobody, whatever it holds.                           *)
LEMMA FirstOwesNot ==
  ASSUME NEW c \in FirstLevel, NEW p \in Packet
  PROVE  ~Owes(c, p)
<1>1. p.fill_level \in {1, 2, 4, 8}
  BY DEF Packet
<1> QED BY <1>1, LevelIs DEF Owes

(* The cache below another is one that owes.                               *)
LEMMA BelowIs ==
  ASSUME NEW d \in Caches, d \notin FirstLevel
  PROVE  d \in Below \ {"DRAM", "NULL"} /\ d \in {"STLB", "L2C", "LLC"}
BY CachesAre DEF FirstLevel, Below

-------------------------------------------------------------------------------
(* Steps of the ledger.                                                    *)

(* What does not touch the queues of reads and prefetches, the misses or   *)
(* the controller's reads leaves the ledger alone.                         *)
LEMMA SameLedger ==
  ASSUME NEW s, NEW D, NEW X, Sound(s, D, X), NEW t, Typed(t),
         t.rq = s.rq, t.pq = s.pq, KeepsFiles(s, t), t.dramRq = s.dramRq,
         t.asserts = s.asserts, WqKinds(t)
  PROVE  Sound(t, D, X)
<1>1. RqKinds(t) /\ PqKinds(t) /\ FileKinds(t)
  BY DEF Sound, RqKinds, PqKinds, FileKinds, KeepsFiles
<1>2. \A d, a : /\ Pending(t, d, a) <=> Pending(s, d, a)
                /\ RqOwes(t, d, a) <=> RqOwes(s, d, a)
                /\ PqOwes(t, d, a) <=> PqOwes(s, d, a)
                /\ MshrOwes(t, d, a) <=> MshrOwes(s, d, a)
                /\ DramOwes(t, d, a) <=> DramOwes(s, d, a)
  BY DEF Pending, RqOwes, PqOwes, MshrOwes, DramOwes, KeepsFiles
<1>3. Owed(s, D, X)
  BY DEF Sound
<1>4. Owed(t, D, X)
  BY <1>2, <1>3 DEF Owed
<1> QED BY <1>1, <1>4 DEF Sound

(* PROCESSED is not part of it.                                            *)
LEMMA ProcessSound ==
  ASSUME NEW s, NEW D, NEW X, Sound(s, D, X), NEW c \in Caches, NEW p \in Packet
  PROVE  Sound(Process(s, c, p), D, X)
<1> DEFINE t == Process(s, c, p)
<1>1. Answered(s, t) /\ KeepsFiles(s, t) /\ t.asserts = s.asserts
  BY ProcessSame DEF Sound
<1> HIDE DEF t
<1>2. WqKinds(t)
  BY <1>1 DEF Sound, WqKinds, Answered, KeepsQueues
<1>3. Sound(t, D, X)
  BY <1>1, <1>2, SameLedger DEF Answered, KeepsQueues, KeepsDram
<1> QED BY <1>3 DEF t

(* Nor is the write queue whose head is taken.                             *)
LEMMA PopWqSound ==
  ASSUME NEW s, NEW D, NEW X, Sound(s, D, X), NEW c \in Caches, s.wq[c] # << >>
  PROVE  /\ Sound(PopWq(s, c), D, X)
         /\ Head(s.wq[c]) \in Packet /\ WriteKind(c, Head(s.wq[c]))
<1> DEFINE t == PopWq(s, c)
           p == Head(s.wq[c])
<1>1. /\ Typed(t) /\ t.wq[c] = Tail(s.wq[c]) /\ p \in Packet
      /\ \A d \in Caches \ {c} : t.wq[d] = s.wq[d]
      /\ t.rq = s.rq /\ t.pq = s.pq /\ KeepsFiles(s, t) /\ KeepsDram(s, t)
      /\ t.asserts = s.asserts
  BY PopWqTail DEF Sound
<1>2. s.wq[c] \in Seq(Packet)
  BY DEF Sound, Typed, States
<1>3. p \in In(s.wq[c]) /\ In(s.wq[c]) = In(Tail(s.wq[c])) \cup {p}
  BY <1>2, TailIn
<1> HIDE DEF t, p
<1>4. WqKinds(t)
  BY <1>1, <1>3 DEF Sound, WqKinds
<1>5. Sound(t, D, X)
  BY <1>1, <1>4, SameLedger DEF KeepsDram
<1> QED BY <1>1, <1>3, <1>5 DEF t, p, Sound, WqKinds

(* A block that is filled, and its victim written back.                    *)
LEMMA FilledSound ==
  ASSUME NEW s, NEW D, NEW X, Sound(s, D, X), NEW t, NEW c, NEW w, NEW a, NEW dirty,
         Filled(s, t, c, w, a, dirty)
  PROVE  Sound(t, D, X)
<1>1. /\ Typed(t) /\ KeepsQueues(s, t) /\ KeepsFiles(s, t) /\ KeepsDram(s, t)
      /\ t.asserts = s.asserts
  BY DEF Filled
<1>2. WqKinds(t)
  BY <1>1 DEF Sound, WqKinds, KeepsQueues
<1> QED BY <1>1, <1>2, SameLedger DEF KeepsQueues, KeepsDram

LEMMA EvictedSound ==
  ASSUME NEW s, NEW D, NEW X, Sound(s, D, X), NEW c \in Caches, NEW w \in 1 .. WAYS[c],
         NEW t, Evicted(s, t, c, s.block[c][w])
  PROVE  Sound(t, D, X)
<1> DEFINE b == s.block[c][w]
<1>1. CASE b.dirty
  <2>1. /\ Typed(t) /\ t.rq = s.rq /\ t.pq = s.pq /\ KeepsFiles(s, t)
        /\ t.dramRq = s.dramRq /\ t.asserts = s.asserts
        /\ \A d \in Caches : \A p \in In(t.wq[d]) :
             p \in In(s.wq[d]) \/ (d = Lower(c) /\ p = Writeback(c, b.tag))
    BY DEF Evicted
  <2>2. b.tag \in Addr
    <3>1. b \in Block /\ b.tag # NoAddr
      BY <1>1, WayOk DEF Sound, Typed, BlockOk
    <3> QED BY <3>1 DEF Block
  <2>3. ASSUME Lower(c) \in Caches
        PROVE  WriteKind(Lower(c), Writeback(c, b.tag))
    <3>1. Writeback(c, b.tag).fill_level = 2 * FillLevel(c)
      BY <2>2, WritebackPacket
    <3>2. Lower(c) # "L1D" /\ 2 * FillLevel(c) >= FillLevel(Lower(c))
      <4>1. \/ c \in FirstLevel /\ Lower(c) \in {"STLB", "L2C"}
            \/ c = "STLB" /\ Lower(c) = "NULL"
            \/ c = "L2C" /\ Lower(c) = "LLC"
            \/ c = "LLC" /\ Lower(c) = "DRAM"
        BY CachesAre DEF Lower, FirstLevel
      <4> QED BY <2>3, <4>1, LevelIs, CachesAre
    <3> QED BY <3>1, <3>2 DEF WriteKind
  <2>4. WqKinds(t)
    BY <2>1, <2>3 DEF Sound, WqKinds
  <2> QED BY <2>1, <2>4, SameLedger
<1>2. CASE ~b.dirty
  BY <1>2 DEF Evicted
<1> QED BY <1>1, <1>2

LEMMA FillSound ==
  ASSUME NEW s, NEW D, NEW X, Sound(s, D, X), NEW c \in Caches, NEW w \in 1 .. WAYS[c],
         NEW a \in Addr, NEW dirty \in BOOLEAN, CanEvict(s, c, w)
  PROVE  LET t == FillCache(Evict(s, c, w), c, w, a, dirty)
         IN  Sound(t, D, X) /\ KeepsFiles(s, t)
<1> DEFINE u == Evict(s, c, w)
<1>1. Evicted(s, u, c, s.block[c][w])
  BY EvictKeeps DEF Sound
<1> HIDE DEF u
<1>2. Sound(u, D, X)
  BY <1>1, EvictedSound
<1>3. Filled(u, FillCache(u, c, w, a, dirty), c, w, a, dirty)
  BY <1>2, FillCacheWay DEF Sound
<1> DEFINE t == FillCache(u, c, w, a, dirty)
<1> HIDE DEF t
<1>4. Sound(t, D, X)
  BY <1>2, <1>3, FilledSound DEF t
<1>5. KeepsFiles(s, t)
  BY <1>1, <1>3 DEF Evicted, Filled, KeepsFiles, t
<1> QED BY <1>4, <1>5 DEF u, t

(* What an answer leaves of the misses in flight: all but their marks.     *)
Marked(s, t) ==
  \A c \in Caches : /\ DOMAIN t.mshr[c] = DOMAIN s.mshr[c]
                     /\ \A a \in DOMAIN s.mshr[c] :
                          /\ Alike(t.mshr[c][a], s.mshr[c][a])
                          /\ s.mshr[c][a].returned => t.mshr[c][a].returned

LEMMA MarkedRefl == ASSUME NEW s PROVE Marked(s, s)
BY DEF Marked, Alike

(* return_data pays the debt in hand: the miss is there, and waits.  Paid  *)
(* at once a second time, it is already marked.                            *)
LEMMA PaySound ==
  ASSUME NEW s, NEW D, NEW X, Sound(s, D, X), NEW d \in Below, NEW a \in Addr,
         D = {<< d, a >>}
  PROVE  LET t == ReturnData(s, Above(d, a), a)
         IN  /\ Sound(t, {}, X) /\ Marked(s, t)
             /\ ReturnData(t, Above(d, a), a) = t
<1> DEFINE c == Above(d, a)
           t == ReturnData(s, c, a)
<1>1. Owed(s, D, X) /\ Typed(s)
  BY DEF Sound
<1>2. Pending(s, c, a) /\ c \in Caches
  BY <1>1 DEF Owed, Pending
<1>3. /\ Answered(s, t) /\ t.asserts = s.asserts
      /\ t.mshr[c][a] \in Packet /\ t.mshr[c][a].returned
      /\ Alike(t.mshr[c][a], s.mshr[c][a])
      /\ \A x \in DOMAIN s.mshr[c] \ {a} : t.mshr[c][x] = s.mshr[c][x]
      /\ \A e \in Caches \ {c} : /\ t.mshr[e] = s.mshr[e]
  BY <1>1, <1>2, ReturnDataFiled DEF Pending
<1> HIDE DEF t, c
<1>4. /\ Typed(t) /\ t.rq = s.rq /\ t.wq = s.wq /\ t.pq = s.pq /\ t.dramRq = s.dramRq
      /\ \A e \in Caches : DOMAIN t.mshr[e] = DOMAIN s.mshr[e]
  BY <1>3 DEF Answered, KeepsQueues, KeepsDram
<1>5. RqKinds(t) /\ PqKinds(t) /\ WqKinds(t)
  BY <1>4 DEF Sound, RqKinds, PqKinds, WqKinds
<1>6. \A e \in Caches : \A x \in DOMAIN s.mshr[e] : Alike(t.mshr[e][x], s.mshr[e][x])
  BY <1>2, <1>3 DEF Alike
<1>7. FileKinds(t)
  BY <1>4, <1>6 DEF Sound, FileKinds, Classed, Alike
<1>9. \A e, x : /\ Pending(t, e, x) <=> Pending(s, e, x) /\ ~(e = c /\ x = a)
                /\ RqOwes(t, e, x) <=> RqOwes(s, e, x)
                /\ PqOwes(t, e, x) <=> PqOwes(s, e, x)
                /\ MshrOwes(t, e, x) <=> MshrOwes(s, e, x)
                /\ DramOwes(t, e, x) <=> DramOwes(s, e, x)
  <2>1. \A e, x : Pending(t, e, x) <=> Pending(s, e, x) /\ ~(e = c /\ x = a)
    BY <1>2, <1>3, <1>4 DEF Pending
  <2>2. \A e, x : MshrOwes(t, e, x) <=> MshrOwes(s, e, x)
    BY <1>4, <1>6 DEF MshrOwes, Owes, Alike
  <2> QED BY <1>4, <2>1, <2>2 DEF RqOwes, PqOwes, DramOwes
<1>10. Owed(t, {}, X)
  <2> SUFFICES ASSUME NEW e \in Below, NEW x \in Addr
               PROVE  LET file == << e, x >> \notin X /\ (MshrOwes(t, e, x) \/ DramOwes(t, e, x))
                      IN  /\ Pending(t, Above(e, x), x) <=> RqOwes(t, e, x) \/ PqOwes(t, e, x) \/ file
                          /\ RqOwes(t, e, x) => ~PqOwes(t, e, x) /\ ~file
                          /\ PqOwes(t, e, x) => ~file
    BY DEF Owed
  <2>1. LET hand == << e, x >> \in D
            file == << e, x >> \notin X /\ (MshrOwes(s, e, x) \/ DramOwes(s, e, x))
        IN  /\ Pending(s, Above(e, x), x) <=> hand \/ RqOwes(s, e, x) \/ PqOwes(s, e, x) \/ file
            /\ hand => ~RqOwes(s, e, x) /\ ~PqOwes(s, e, x) /\ ~file
            /\ RqOwes(s, e, x) => ~PqOwes(s, e, x) /\ ~file
            /\ PqOwes(s, e, x) => ~file
    BY <1>1 DEF Owed
  <2>2. << e, x >> \in D <=> e = d /\ x = a
    OBVIOUS
  <2>3. Above(e, x) = c /\ x = a <=> e = d /\ x = a
    BY AboveOne DEF c
  <2> QED BY <2>1, <2>2, <2>3, <1>9
<1>11. Sound(t, {}, X)
  BY <1>3, <1>4, <1>5, <1>7, <1>10 DEF Sound
<1>12. Marked(s, t)
  BY <1>2, <1>3, <1>4, <1>6 DEF Marked
<1>13. ReturnData(t, c, a) = t
  <2>1. a \in DOMAIN t.mshr[c]
    BY <1>2, <1>4 DEF Pending
  <2> QED BY <1>2, <1>3, <1>4, <2>1, ReturnedAgain
<1> QED BY <1>11, <1>12, <1>13 DEF t, c

(* The test every handler ends with pays what the packet owes.  A packet   *)
(* that is an instruction's and data's names L2C twice in the LLC.         *)
LEMMA ReturnUpSound ==
  ASSUME NEW s, NEW D, NEW X, Sound(s, D, X), NEW c \in Caches, NEW p \in Packet,
         D = Debt(c, p), Owes(c, p) => Classed(c, p)
  PROVE  Sound(ReturnUp(s, c, p), {}, X) /\ Marked(s, ReturnUp(s, c, p))
<1>1. CASE ~Owes(c, p)
  <2>1. D = {} /\ ReturnUp(s, c, p) = s
    BY <1>1 DEF Debt, ReturnUp, Owes
  <2> QED BY <2>1, MarkedRefl
<1>2. CASE Owes(c, p)
  <2>0. c \in Below /\ c \in {"STLB", "L2C", "LLC"} /\ p.address \in Addr
    BY <1>2, FirstOwesNot, BelowIs DEF Packet
  <2>1. D = {<< c, p.address >>} /\ Classed(c, p)
    BY <1>2 DEF Debt
  <2>2. p.fill_level \in {1, 2, 4, 8} /\ p.fill_level < FillLevel(c)
    BY <1>2 DEF Packet, Owes
  <2> DEFINE toInstr == IF FillLevel(c) = FILL_L2 THEN p.fill_l1i ELSE p.instruction
             toData == IF FillLevel(c) = FILL_L2 THEN p.fill_l1d ELSE p.is_data
             s1 == IF toInstr THEN ReturnData(s, UpperInstr(c), p.address) ELSE s
             t == IF toData THEN ReturnData(s1, UpperData(c), p.address) ELSE s1
  <2>3. ReturnUp(s, c, p) = t
    BY <2>2 DEF ReturnUp
  <2>4. CASE c \in {"STLB", "L2C"}
    <3>1. (toInstr <=> p.address \in CodeAddr) /\ (toData <=> p.address \notin CodeAddr)
      BY <2>1, <2>2, <2>4, LevelIs DEF Classed, FILL_L2
    <3>2. Above(c, p.address) = IF p.address \in CodeAddr THEN UpperInstr(c) ELSE UpperData(c)
      BY <2>0 DEF Above
    <3> HIDE DEF toInstr, toData
    <3>3. t = ReturnData(s, Above(c, p.address), p.address)
      BY <3>1, <3>2
    <3> HIDE DEF t
    <3> QED BY <2>0, <2>1, <2>3, <3>3, PaySound
  <2>5. CASE c = "LLC"
    <3> DEFINE a == p.address
               u == ReturnData(s, Above(c, a), a)
    <3>1. toInstr \/ toData
      BY <2>1, <2>5, LevelIs DEF Classed, FILL_L2
    <3>2. /\ Above(c, a) = "L2C" /\ UpperInstr(c) = "L2C" /\ UpperData(c) = "L2C"
      BY <2>5, AboveIs DEF UpperInstr, UpperData
    <3>3. Sound(u, {}, X) /\ Marked(s, u) /\ ReturnData(u, Above(c, a), a) = u
      BY <2>0, <2>1, PaySound
    <3> HIDE DEF toInstr, toData
    <3>4. t = u
      BY <3>1, <3>2, <3>3
    <3> HIDE DEF t, u
    <3> QED BY <2>3, <3>3, <3>4
  <2> QED BY <2>0, <2>4, <2>5
<1> QED BY <1>1, <1>2

(* What is taken off the queue of reads, or of prefetches, is in hand.     *)
LEMMA PopRqSound ==
  ASSUME NEW s, Sound(s, {}, {}), NEW c \in Caches, s.rq[c] # << >>
  PROVE  LET p == Head(s.rq[c])
         IN  Sound(PopRq(s, c), Debt(c, p), {}) /\ p \in Packet /\ ReadKind(c, p)
<1> DEFINE p == Head(s.rq[c])
           t == PopRq(s, c)
           q == Tail(s.rq[c])
<1>1. /\ Sent(s, t) /\ t.rq[c] = q /\ p \in Packet
      /\ \A d \in Caches \ {c} : t.rq[d] = s.rq[d]
      /\ t.pq = s.pq /\ KeepsFiles(s, t) /\ KeepsDram(s, t) /\ t.asserts = s.asserts
  BY PopRqTail DEF Sound
<1>2. s.rq[c] \in Seq(Packet) /\ Distinct(s.rq[c])
  BY DEF Sound, RqKinds, Typed, States
<1>3. /\ p \in In(s.rq[c]) /\ In(s.rq[c]) = In(q) \cup {p}
      /\ Distinct(q) /\ \A x \in In(q) : x.address # p.address
  BY <1>2, TailIn
<1> HIDE DEF t, p, q
<1>4. RqKinds(t) /\ ReadKind(c, p)
  BY <1>1, <1>3 DEF Sound, RqKinds
<1>5. Typed(t) /\ PqKinds(t) /\ WqKinds(t) /\ FileKinds(t)
  BY <1>1 DEF Sound, PqKinds, WqKinds, FileKinds, Sent, KeepsFiles
<1>6. \A d, a : /\ Pending(t, d, a) <=> Pending(s, d, a)
                /\ PqOwes(t, d, a) <=> PqOwes(s, d, a)
                /\ MshrOwes(t, d, a) <=> MshrOwes(s, d, a)
                /\ DramOwes(t, d, a) <=> DramOwes(s, d, a)
  BY <1>1 DEF Pending, PqOwes, MshrOwes, DramOwes, KeepsFiles, KeepsDram
<1>7. \A d, a : RqOwes(t, d, a) <=> RqOwes(s, d, a) /\ ~(d = c /\ a = p.address)
  <2> TAKE d, a
  <2>1. CASE d # c
    BY <2>1, <1>1 DEF RqOwes
  <2>2. CASE d = c
    BY <2>2, <1>1, <1>3 DEF RqOwes
  <2> QED BY <2>1, <2>2
<1>8. Owes(c, p) => RqOwes(s, c, p.address)
  BY <1>3 DEF RqOwes
<1>9. ~Owes(c, p) => ~RqOwes(s, c, p.address)
  BY <1>3 DEF RqOwes
<1>10. Owed(t, Debt(c, p), {})
  <2>1. \A d, a : << d, a >> \in Debt(c, p) <=> Owes(c, p) /\ d = c /\ a = p.address
    BY DEF Debt
  <2>2. Owed(s, {}, {})
    BY DEF Sound
  <2>3. ASSUME NEW d, NEW a
        PROVE  /\ (<< d, a >> \in Debt(c, p) \/ RqOwes(t, d, a)) <=> RqOwes(s, d, a)
               /\ << d, a >> \in Debt(c, p) => ~RqOwes(t, d, a)
    <3>1. CASE d = c /\ a = p.address
      <4>1. RqOwes(s, d, a) <=> Owes(c, p)
        BY <3>1, <1>8, <1>9
      <4> QED BY <3>1, <4>1, <2>1, <1>7
    <3>2. CASE ~(d = c /\ a = p.address)
      BY <3>2, <2>1, <1>7
    <3> QED BY <3>1, <3>2
  <2> QED BY <2>2, <2>3, <1>6 DEF Owed
<1>11. Sound(t, Debt(c, p), {})
  BY <1>1, <1>4, <1>5, <1>10 DEF Sound
<1> QED BY <1>1, <1>4, <1>11 DEF t, p

LEMMA PopPqSound ==
  ASSUME NEW s, Sound(s, {}, {}), NEW c \in Caches, s.pq[c] # << >>
  PROVE  LET p == Head(s.pq[c])
         IN  /\ Sound(PopPq(s, c), Debt(c, p), {}) /\ p \in Packet /\ PrefetchKind(c, p)
             /\ c \notin {"ITLB", "DTLB", "STLB"}
<1> DEFINE p == Head(s.pq[c])
           t == PopPq(s, c)
           q == Tail(s.pq[c])
<1>1. /\ Typed(t) /\ t.pq[c] = q /\ p \in Packet
      /\ \A d \in Caches \ {c} : t.pq[d] = s.pq[d]
      /\ t.rq = s.rq /\ t.wq = s.wq /\ KeepsFiles(s, t) /\ KeepsDram(s, t)
      /\ t.asserts = s.asserts
  BY PopPqTail DEF Sound
<1>2. s.pq[c] \in Seq(Packet) /\ Distinct(s.pq[c]) /\ c \notin {"ITLB", "DTLB", "STLB"}
  BY DEF Sound, PqKinds, Typed, States
<1>3. /\ p \in In(s.pq[c]) /\ In(s.pq[c]) = In(q) \cup {p}
      /\ Distinct(q) /\ \A x \in In(q) : x.address # p.address
  BY <1>2, TailIn
<1> HIDE DEF t, p, q
<1>4. PqKinds(t) /\ PrefetchKind(c, p)
  BY <1>1, <1>2, <1>3 DEF Sound, PqKinds
<1>5. RqKinds(t) /\ WqKinds(t) /\ FileKinds(t)
  BY <1>1 DEF Sound, RqKinds, WqKinds, FileKinds, KeepsFiles
<1>6. \A d, a : /\ Pending(t, d, a) <=> Pending(s, d, a)
                /\ RqOwes(t, d, a) <=> RqOwes(s, d, a)
                /\ MshrOwes(t, d, a) <=> MshrOwes(s, d, a)
                /\ DramOwes(t, d, a) <=> DramOwes(s, d, a)
  BY <1>1 DEF Pending, RqOwes, MshrOwes, DramOwes, KeepsFiles, KeepsDram
<1>7. \A d, a : PqOwes(t, d, a) <=> PqOwes(s, d, a) /\ ~(d = c /\ a = p.address)
  <2> TAKE d, a
  <2>1. CASE d # c
    BY <2>1, <1>1 DEF PqOwes
  <2>2. CASE d = c
    BY <2>2, <1>1, <1>3 DEF PqOwes
  <2> QED BY <2>1, <2>2
<1>8. Owes(c, p) => PqOwes(s, c, p.address)
  BY <1>3 DEF PqOwes
<1>9. ~Owes(c, p) => ~PqOwes(s, c, p.address)
  BY <1>3 DEF PqOwes
<1>10. Owed(t, Debt(c, p), {})
  <2>1. \A d, a : << d, a >> \in Debt(c, p) <=> Owes(c, p) /\ d = c /\ a = p.address
    BY DEF Debt
  <2>2. Owed(s, {}, {})
    BY DEF Sound
  <2>3. ASSUME NEW d, NEW a
        PROVE  /\ (<< d, a >> \in Debt(c, p) \/ PqOwes(t, d, a)) <=> PqOwes(s, d, a)
               /\ << d, a >> \in Debt(c, p) => ~PqOwes(t, d, a)
    <3>1. CASE d = c /\ a = p.address
      <4>1. PqOwes(s, d, a) <=> Owes(c, p)
        BY <3>1, <1>8, <1>9
      <4> QED BY <3>1, <4>1, <2>1, <1>7
    <3>2. CASE ~(d = c /\ a = p.address)
      BY <3>2, <2>1, <1>7
    <3> QED BY <3>1, <3>2
  <2> QED BY <2>2, <2>3, <1>6 DEF Owed
<1>11. Sound(t, Debt(c, p), {})
  BY <1>1, <1>4, <1>5, <1>10 DEF Sound
<1> QED BY <1>1, <1>2, <1>4, <1>11 DEF t, p

(* A request for a block in flight is settled by what it leaves of the     *)
(* entry: that owes what the two owed.                                     *)
LEMMA MergeSound ==
  ASSUME NEW s, NEW c \in Caches, NEW p \in Packet, NEW D, D = Debt(c, p), Sound(s, D, {}),
         p.address \in DOMAIN s.mshr[c], NEW m \in Packet, m.address = p.address,
         Classed(c, m), m.returned = s.mshr[c][p.address].returned,
         Owes(c, m) <=> Owes(c, p) \/ Owes(c, s.mshr[c][p.address])
  PROVE  Sound(SetMshr(s, c, m), {}, {})
<1> DEFINE a == p.address
           t == SetMshr(s, c, m)
<1>1. /\ Typed(t)
      /\ DOMAIN t.mshr[c] = DOMAIN s.mshr[c] \cup {a}
      /\ \A x \in DOMAIN t.mshr[c] : t.mshr[c][x] = IF x = a THEN m ELSE s.mshr[c][x]
      /\ \A d \in Caches \ {c} : t.mshr[d] = s.mshr[d]
      /\ KeepsQueues(s, t) /\ KeepsDram(s, t) /\ t.asserts = s.asserts
  BY SetMshrFile DEF Sound
<1> HIDE DEF t
<1>2. /\ DOMAIN t.mshr[c] = DOMAIN s.mshr[c] /\ t.mshr[c][a] = m
      /\ \A x \in DOMAIN s.mshr[c] \ {a} : t.mshr[c][x] = s.mshr[c][x]
  BY <1>1
<1>3. RqKinds(t) /\ PqKinds(t) /\ WqKinds(t)
  BY <1>1 DEF Sound, RqKinds, PqKinds, WqKinds, KeepsQueues
<1>4. FileKinds(t)
  <2>1. FileKinds(s)
    BY DEF Sound
  <2> QED BY <1>1, <1>2, <2>1 DEF FileKinds
<1>6. \A d, x : /\ Pending(t, d, x) <=> Pending(s, d, x)
                /\ MshrOwes(t, d, x) <=> MshrOwes(s, d, x) \/ << d, x >> \in D
  <2> SUFFICES ASSUME NEW d, NEW x
               PROVE  /\ Pending(t, d, x) <=> Pending(s, d, x)
                      /\ MshrOwes(t, d, x) <=> MshrOwes(s, d, x) \/ << d, x >> \in D
    OBVIOUS
  <2>1. << d, x >> \in D <=> Owes(c, p) /\ d = c /\ x = a
    BY DEF Debt
  <2>2. CASE d # c
    BY <2>1, <2>2, <1>1 DEF Pending, MshrOwes
  <2>3. CASE d = c /\ x # a
    BY <2>1, <2>3, <1>2 DEF Pending, MshrOwes
  <2>4. CASE d = c /\ x = a
    BY <2>1, <2>4, <1>2 DEF Pending, MshrOwes
  <2> QED BY <2>2, <2>3, <2>4
<1>7. \A d, x : /\ RqOwes(t, d, x) <=> RqOwes(s, d, x)
                /\ PqOwes(t, d, x) <=> PqOwes(s, d, x)
                /\ DramOwes(t, d, x) <=> DramOwes(s, d, x)
  BY <1>1 DEF RqOwes, PqOwes, DramOwes, KeepsQueues, KeepsDram
<1>8. Owed(t, {}, {})
  <2>1. Owed(s, D, {})
    BY DEF Sound
  <2> QED BY <2>1, <1>6, <1>7 DEF Owed
<1>9. Sound(t, {}, {})
  BY <1>1, <1>3, <1>4, <1>8 DEF Sound
<1> QED BY <1>9 DEF t

(* A new miss: what was in hand is filed, and the level below is now to    *)
(* owe this cache the block.                                               *)
LEMMA AddMshrSound ==
  ASSUME NEW s, NEW c \in Caches, NEW p \in Packet, NEW D, D = Debt(c, p), Sound(s, D, {}),
         p.address \notin DOMAIN s.mshr[c], ~MshrFull(s, c), Classed(c, p)
  PROVE  Sound(AddMshr(s, c, p), {<< Lower(c), p.address >>}, {})
<1> DEFINE a == p.address
           t == AddMshr(s, c, p)
           e == MissEntry(p)
           l == Lower(c)
<1>1. /\ Typed(t) /\ e \in Packet /\ ~e.returned /\ Alike(e, p)
      /\ DOMAIN t.mshr[c] = DOMAIN s.mshr[c] \cup {a}
      /\ \A x \in DOMAIN t.mshr[c] : t.mshr[c][x] = IF x = a THEN e ELSE s.mshr[c][x]
      /\ \A d \in Caches \ {c} : t.mshr[d] = s.mshr[d]
      /\ KeepsQueues(s, t) /\ KeepsDram(s, t) /\ t.asserts = s.asserts
  BY AddMshrFile DEF Sound
<1>0. l \in Below /\ Above(l, a) = c /\ l # c /\ a \in Addr
  BY AboveLower, LowerIs DEF Classed, Packet
<1> HIDE DEF t, e, l
<1>2. /\ t.mshr[c][a] = e /\ a \in DOMAIN t.mshr[c]
      /\ \A x \in DOMAIN s.mshr[c] : x # a /\ t.mshr[c][x] = s.mshr[c][x]
  BY <1>1
<1>3. RqKinds(t) /\ PqKinds(t) /\ WqKinds(t)
  BY <1>1 DEF Sound, RqKinds, PqKinds, WqKinds, KeepsQueues
<1>4. FileKinds(t)
  <2>1. FileKinds(s)
    BY DEF Sound
  <2>2. Classed(c, e)
    BY <1>1 DEF Classed, Alike
  <2> QED BY <1>1, <2>1, <2>2 DEF FileKinds
<1>6. \A d, x : /\ Pending(t, d, x) <=> Pending(s, d, x) \/ (d = c /\ x = a)
                /\ MshrOwes(t, d, x) <=> MshrOwes(s, d, x) \/ << d, x >> \in D
  <2> SUFFICES ASSUME NEW d, NEW x
               PROVE  /\ Pending(t, d, x) <=> Pending(s, d, x) \/ (d = c /\ x = a)
                      /\ MshrOwes(t, d, x) <=> MshrOwes(s, d, x) \/ << d, x >> \in D
    OBVIOUS
  <2>1. << d, x >> \in D <=> Owes(c, p) /\ d = c /\ x = a
    BY DEF Debt
  <2>0. Owes(c, e) <=> Owes(c, p)
    BY <1>1 DEF Owes, Alike
  <2>2. CASE d # c
    BY <2>1, <2>2, <1>1 DEF Pending, MshrOwes
  <2>3. CASE d = c /\ x # a
    BY <2>1, <2>3, <1>1, <1>2 DEF Pending, MshrOwes
  <2>4. CASE d = c /\ x = a
    BY <2>0, <2>1, <2>4, <1>1, <1>2 DEF Pending, MshrOwes
  <2> QED BY <2>2, <2>3, <2>4
<1>7. \A d, x : /\ RqOwes(t, d, x) <=> RqOwes(s, d, x)
                /\ PqOwes(t, d, x) <=> PqOwes(s, d, x)
                /\ DramOwes(t, d, x) <=> DramOwes(s, d, x)
  BY <1>1 DEF RqOwes, PqOwes, DramOwes, KeepsQueues, KeepsDram
<1>8. Owed(t, {<< l, a >>}, {})
  <2>1. Owed(s, D, {})
    BY DEF Sound
  <2>2. ~Pending(s, c, a)
    BY DEF Pending
  <2> SUFFICES ASSUME NEW d \in Below, NEW x \in Addr
               PROVE  LET hand == << d, x >> \in {<< l, a >>}
                          file == MshrOwes(t, d, x) \/ DramOwes(t, d, x)
                      IN  /\ Pending(t, Above(d, x), x) <=>
                               hand \/ RqOwes(t, d, x) \/ PqOwes(t, d, x) \/ file
                          /\ hand => ~RqOwes(t, d, x) /\ ~PqOwes(t, d, x) /\ ~file
                          /\ RqOwes(t, d, x) => ~PqOwes(t, d, x) /\ ~file
                          /\ PqOwes(t, d, x) => ~file
    BY DEF Owed
  <2>3. LET hand == << d, x >> \in D
            file == MshrOwes(s, d, x) \/ DramOwes(s, d, x)
        IN  /\ Pending(s, Above(d, x), x) <=>
                 hand \/ RqOwes(s, d, x) \/ PqOwes(s, d, x) \/ file
            /\ hand => ~RqOwes(s, d, x) /\ ~PqOwes(s, d, x) /\ ~file
            /\ RqOwes(s, d, x) => ~PqOwes(s, d, x) /\ ~file
            /\ PqOwes(s, d, x) => ~file
    BY <2>1 DEF Owed
  <2>4. << d, x >> \in {<< l, a >>} <=> d = l /\ x = a
    OBVIOUS
  <2>5. Above(d, x) = c /\ x = a <=> d = l /\ x = a
    BY <1>0, AboveOne
  <2>6. << d, x >> \in D => d = c /\ x = a
    BY DEF Debt
  <2>7. CASE d = l /\ x = a
    <3>1. ~Pending(s, Above(d, x), x)
      BY <2>2, <2>7, <1>0
    <3> QED BY <3>1, <2>3, <2>4, <2>6, <2>7, <1>0, <1>6, <1>7
  <2>8. CASE ~(d = l /\ x = a)
    BY <2>3, <2>4, <2>5, <2>8, <1>6, <1>7
  <2> QED BY <2>7, <2>8
<1>9. Sound(t, {<< l, a >>}, {})
  BY <1>1, <1>3, <1>4, <1>8 DEF Sound
<1> QED BY <1>9 DEF t, l

(* A miss that has its data is about to be given back: what it owes comes  *)
(* to hand.                                                                *)
LEMMA TakeUpSound ==
  ASSUME NEW s, Sound(s, {}, {}), NEW c \in Caches, NEW a \in DOMAIN s.mshr[c], NEW D,
         D = Debt(c, s.mshr[c][a])
  PROVE  Sound(s, D, D)
<1>1. s.mshr[c][a].address = a
  BY EntryOk DEF Sound
<1>2. \A d, x : << d, x >> \in D => d = c /\ x = a /\ MshrOwes(s, c, a) /\ d # "DRAM"
  BY <1>1, CachesAre DEF Debt, MshrOwes
<1>3. Owed(s, {}, {})
  BY DEF Sound
<1>4. Owed(s, D, D)
  <2> SUFFICES ASSUME NEW d \in Below, NEW x \in Addr
               PROVE  LET hand == << d, x >> \in D
                          file == << d, x >> \notin D /\ (MshrOwes(s, d, x) \/ DramOwes(s, d, x))
                      IN  /\ Pending(s, Above(d, x), x) <=>
                               hand \/ RqOwes(s, d, x) \/ PqOwes(s, d, x) \/ file
                          /\ hand => ~RqOwes(s, d, x) /\ ~PqOwes(s, d, x) /\ ~file
                          /\ RqOwes(s, d, x) => ~PqOwes(s, d, x) /\ ~file
                          /\ PqOwes(s, d, x) => ~file
    BY DEF Owed
  <2>1. LET file == MshrOwes(s, d, x) \/ DramOwes(s, d, x)
        IN  /\ Pending(s, Above(d, x), x) <=> RqOwes(s, d, x) \/ PqOwes(s, d, x) \/ file
            /\ RqOwes(s, d, x) => ~PqOwes(s, d, x) /\ ~file
            /\ PqOwes(s, d, x) => ~file
    BY <1>3 DEF Owed
  <2>2. << d, x >> \in D => MshrOwes(s, d, x)
    BY <1>2
  <2> QED BY <2>1, <2>2
<1> QED BY <1>4 DEF Sound

(* The entry of a miss whose debt is paid is given back.                   *)
LEMMA RemoveMshrSound ==
  ASSUME NEW s, NEW c \in Caches, NEW a \in DOMAIN s.mshr[c], NEW X,
         X = Debt(c, s.mshr[c][a]), Sound(s, {}, X), s.mshr[c][a].returned
  PROVE  Sound(RemoveMshr(s, c, a), {}, {})
<1> DEFINE t == RemoveMshr(s, c, a)
<1>1. /\ Typed(t)
      /\ DOMAIN t.mshr[c] = DOMAIN s.mshr[c] \ {a}
      /\ \A x \in DOMAIN t.mshr[c] : t.mshr[c][x] = s.mshr[c][x]
      /\ \A d \in Caches \ {c} : t.mshr[d] = s.mshr[d]
      /\ KeepsQueues(s, t) /\ KeepsDram(s, t) /\ t.asserts = s.asserts
  BY RemoveMshrFile DEF Sound
<1>2. s.mshr[c][a].address = a /\ IsFiniteSet(DOMAIN s.mshr[c])
  BY EntryOk DEF Sound
<1> HIDE DEF t
<1>3. RqKinds(t) /\ PqKinds(t) /\ WqKinds(t)
  BY <1>1 DEF Sound, RqKinds, PqKinds, WqKinds, KeepsQueues
<1>4. FileKinds(t)
  <2>1. FileKinds(s)
    BY DEF Sound
  <2> QED BY <1>1, <2>1 DEF FileKinds
<1>6. \A d, x : /\ Pending(t, d, x) <=> Pending(s, d, x)
                /\ MshrOwes(t, d, x) <=> MshrOwes(s, d, x) /\ << d, x >> \notin X
                /\ << d, x >> \in X => d # "DRAM"
  <2> SUFFICES ASSUME NEW d, NEW x
               PROVE  /\ Pending(t, d, x) <=> Pending(s, d, x)
                      /\ MshrOwes(t, d, x) <=> MshrOwes(s, d, x) /\ << d, x >> \notin X
                      /\ << d, x >> \in X => d # "DRAM"
    OBVIOUS
  <2>1. << d, x >> \in X <=> Owes(c, s.mshr[c][a]) /\ d = c /\ x = a
    BY <1>2 DEF Debt
  <2>2. CASE d # c
    BY <2>1, <2>2, <1>1 DEF Pending, MshrOwes
  <2>3. CASE d = c /\ x # a
    BY <2>1, <2>3, <1>1, CachesAre DEF Pending, MshrOwes
  <2>4. CASE d = c /\ x = a
    BY <2>1, <2>4, <1>1, CachesAre DEF Pending, MshrOwes
  <2> QED BY <2>2, <2>3, <2>4
<1>7. \A d, x : /\ RqOwes(t, d, x) <=> RqOwes(s, d, x)
                /\ PqOwes(t, d, x) <=> PqOwes(s, d, x)
                /\ DramOwes(t, d, x) <=> DramOwes(s, d, x)
                /\ DramOwes(s, d, x) => d = "DRAM"
  BY <1>1 DEF RqOwes, PqOwes, DramOwes, KeepsQueues, KeepsDram
<1>8. Owed(t, {}, {})
  <2>1. Owed(s, {}, X)
    BY DEF Sound
  <2>2. \A d, x : /\ Pending(t, d, x) <=> Pending(s, d, x)
                  /\ RqOwes(t, d, x) <=> RqOwes(s, d, x)
                  /\ PqOwes(t, d, x) <=> PqOwes(s, d, x)
                  /\ MshrOwes(t, d, x) \/ DramOwes(t, d, x) <=>
                       << d, x >> \notin X /\ (MshrOwes(s, d, x) \/ DramOwes(s, d, x))
    BY <1>6, <1>7
  <2> QED BY <2>1, <2>2 DEF Owed
<1>9. Sound(t, {}, {})
  BY <1>1, <1>3, <1>4, <1>8 DEF Sound
<1> QED BY <1>9 DEF t

(* The same for the controller's reads.                                    *)
LEMMA TakeUpDramSound ==
  ASSUME NEW s, Sound(s, {}, {}), NEW a \in s.dramRq, NEW D, D = {<< "DRAM", a >>}
  PROVE  Sound(s, D, D)
<1>1. \A d, x : << d, x >> \in D <=> d = "DRAM" /\ x = a
  OBVIOUS
<1>2. \A d, x : << d, x >> \in D => DramOwes(s, d, x) /\ d \notin Caches
  BY <1>1, CachesAre DEF DramOwes
<1>3. Owed(s, {}, {})
  BY DEF Sound
<1>4. Owed(s, D, D)
  <2> SUFFICES ASSUME NEW d \in Below, NEW x \in Addr
               PROVE  LET hand == << d, x >> \in D
                          file == << d, x >> \notin D /\ (MshrOwes(s, d, x) \/ DramOwes(s, d, x))
                      IN  /\ Pending(s, Above(d, x), x) <=>
                               hand \/ RqOwes(s, d, x) \/ PqOwes(s, d, x) \/ file
                          /\ hand => ~RqOwes(s, d, x) /\ ~PqOwes(s, d, x) /\ ~file
                          /\ RqOwes(s, d, x) => ~PqOwes(s, d, x) /\ ~file
                          /\ PqOwes(s, d, x) => ~file
    BY DEF Owed
  <2>1. LET file == MshrOwes(s, d, x) \/ DramOwes(s, d, x)
        IN  /\ Pending(s, Above(d, x), x) <=> RqOwes(s, d, x) \/ PqOwes(s, d, x) \/ file
            /\ RqOwes(s, d, x) => ~PqOwes(s, d, x) /\ ~file
            /\ PqOwes(s, d, x) => ~file
    BY <1>3 DEF Owed
  <2> QED BY <2>1, <1>2
<1> QED BY <1>4 DEF Sound

LEMMA RemoveDramSound ==
  ASSUME NEW s, NEW a \in s.dramRq, NEW X, X = {<< "DRAM", a >>}, Sound(s, {}, X)
  PROVE  Sound([s EXCEPT !.dramRq = @ \ {a}], {}, {})
<1> DEFINE R == s.dramRq \ {a}
           t == PutDram(s, R, s.dramWq)
<1>1. [s EXCEPT !.dramRq = @ \ {a}] = t
  BY DEF PutDram, Sound, Typed, States
<1>2. R \in SUBSET Addr /\ s.dramWq \in SUBSET Addr /\ Typed(s)
      /\ IsFiniteSet(s.dramWq) /\ Cardinality(s.dramWq) <= DRAM_WQ_SIZE
  BY DEF Sound, Typed, States
<1> HIDE DEF R
<1>3. /\ Typed(t) /\ t.dramRq = R /\ KeepsQueues(s, t) /\ KeepsFiles(s, t)
      /\ t.asserts = s.asserts
  BY <1>2, WithDram
<1> HIDE DEF t
<1>4. RqKinds(t) /\ PqKinds(t) /\ WqKinds(t) /\ FileKinds(t)
  BY <1>3 DEF Sound, RqKinds, PqKinds, WqKinds, FileKinds, KeepsQueues, KeepsFiles
<1>5. \A d, x : /\ Pending(t, d, x) <=> Pending(s, d, x)
                /\ RqOwes(t, d, x) <=> RqOwes(s, d, x)
                /\ PqOwes(t, d, x) <=> PqOwes(s, d, x)
                /\ MshrOwes(t, d, x) <=> MshrOwes(s, d, x)
  BY <1>3 DEF Pending, RqOwes, PqOwes, MshrOwes, KeepsQueues, KeepsFiles
<1>6. \A d, x : DramOwes(t, d, x) <=> DramOwes(s, d, x) /\ << d, x >> \notin X
  BY <1>3 DEF DramOwes, R
<1>7. \A d, x : << d, x >> \in X => ~MshrOwes(s, d, x)
  BY CachesAre DEF MshrOwes
<1>8. Owed(t, {}, {})
  <2>1. Owed(s, {}, X)
    BY DEF Sound
  <2>2. \A d, x : MshrOwes(t, d, x) \/ DramOwes(t, d, x) <=>
                    << d, x >> \notin X /\ (MshrOwes(s, d, x) \/ DramOwes(s, d, x))
    BY <1>5, <1>6, <1>7
  <2> QED BY <2>1, <2>2, <1>5 DEF Owed
<1>9. Sound(t, {}, {})
  BY <1>3, <1>4, <1>8 DEF Sound
<1> QED BY <1>1, <1>9

-------------------------------------------------------------------------------
(* Requests on their way down.                                             *)

(* A queue of requests for different blocks is no longer than the set of   *)
(* blocks it asks for.                                                     *)
LEMMA DistinctRoom ==
  ASSUME NEW q \in Seq(Packet), Distinct(q), NEW T, IsFiniteSet(T),
         \A p \in In(q) : p.address \in T
  PROVE  Len(q) <= Cardinality(T)
<1> DEFINE f == [k \in 1 .. Len(q) |-> q[k].address]
<1>1. Len(q) \in Nat /\ DOMAIN q = 1 .. Len(q)
  OBVIOUS
<1>2. f \in [1 .. Len(q) -> T]
  BY <1>1 DEF In
<1>3. \A i, j \in 1 .. Len(q) : f[i] = f[j] => i = j
  BY <1>1 DEF Distinct
<1> HIDE DEF f
<1>4. f \in Injection(1 .. Len(q), T)
  BY <1>2, <1>3 DEF Injection, IsInjective
<1>5. Cardinality(1 .. Len(q)) <= Cardinality(T)
  BY <1>4, FS_Injection
<1>6. Cardinality(1 .. Len(q)) = Len(q)
  <2> DEFINE n == Len(q)
  <2> HIDE DEF n
  <2>1. n \in Int /\ 1 \in Int /\ n >= 0
    BY <1>1 DEF n
  <2>2. Cardinality(1 .. n) = IF 1 > n THEN 0 ELSE n - 1 + 1
    BY <2>1, FS_Interval
  <2> QED BY <2>1, <2>2 DEF n
<1> QED BY <1>5, <1>6

(* Every request in the queue of d, and the one in hand, is for a miss in  *)
(* flight in one of the caches above: so there is room for it.             *)
LEMMA PendingRoom ==
  ASSUME NEW s, NEW D, Sound(s, D, {}), NEW d \in Caches, d \notin FirstLevel,
         NEW a \in Addr, D = {<< d, a >>}
  PROVE  Len(s.rq[d]) # RQ_SIZE[d]
<1> DEFINE q == s.rq[d]
           u == UpperInstr(d)
           v == UpperData(d)
           InFlight(c) == IF c \in Caches THEN DOMAIN s.mshr[c] ELSE {}
           T == InFlight(u) \cup InFlight(v)
<1>1. Typed(s) /\ q \in Seq(Packet) /\ Distinct(q) /\ Owed(s, D, {}) /\ Len(q) \in Nat
  BY DEF Sound, RqKinds, Typed, States
<1>2. d \in Below /\ d \notin {"DRAM", "NULL"} /\ d \in {"STLB", "L2C", "LLC"}
  BY BelowIs
<1>3. \A x : Above(d, x) \in {u, v}
  BY <1>2 DEF Above
<1>4. \A x : Pending(s, Above(d, x), x) => x \in T
  BY <1>3 DEF Pending
<1>5. << d, a >> \in D
  OBVIOUS
<1>6. a \in T
  BY <1>1, <1>2, <1>4, <1>5 DEF Owed
<1>7. \A p \in In(q) : p.address \in T \ {a}
  <2> SUFFICES ASSUME NEW p \in In(q)
               PROVE  p.address \in T \ {a}
    OBVIOUS
  <2>1. p \in Packet /\ Owes(d, p)
    <3>1. p \in Packet /\ ReadKind(d, p)
      BY <1>1 DEF In, Sound, RqKinds
    <3> QED BY <3>1 DEF ReadKind, Owes
  <2>2. RqOwes(s, d, p.address) /\ p.address \in Addr
    BY <2>1 DEF RqOwes, Packet
  <2>3. Pending(s, Above(d, p.address), p.address) /\ p.address # a
    BY <2>2, <1>1, <1>2, <1>5 DEF Owed
  <2> QED BY <2>3, <1>4
<1>8. \A c : IsFiniteSet(InFlight(c)) /\ Cardinality(InFlight(c)) \in Nat
  BY <1>1, EntryOk, FS_EmptySet, FS_CardinalityType
<1>9. \A c \in Caches : /\ Cardinality(InFlight(c)) <= MSHR_SIZE[c] /\ MSHR_SIZE[c] \in Nat
  BY <1>1, SizeAssumption DEF Typed, FileOk
<1>10. \A c : c \notin Caches => InFlight(c) = {}
  OBVIOUS
<1>11. RQ_SIZE[d] \in Nat
  BY SizeAssumption
<1>12. \A c \in {u, v} \cap Caches : Lower(c) = d
  BY <1>2 DEF UpperInstr, UpperData, Lower
<1> HIDE DEF InFlight, q
<1>13. IsFiniteSet(T) /\ Cardinality(T) \in Nat
  BY <1>8, FS_Union, FS_CardinalityType
<1>14. Cardinality(T) <= RQ_SIZE[d]
  <2>1. CASE u = v \/ u \notin Caches \/ v \notin Caches
    <3>1. T = InFlight(u) \/ T = InFlight(v)
      BY <2>1, <1>10
    <3>2. PICK c \in {u, v} : T = InFlight(c) /\ c \in Caches
      BY <2>1, <3>1, <1>6, <1>10
    <3>3. MSHR_SIZE[c] + 0 <= RQ_SIZE[d]
      BY <3>2, <1>12, RoomAssumption
    <3>4. Cardinality(InFlight(c)) <= MSHR_SIZE[c] /\ MSHR_SIZE[c] \in Nat
      BY <3>2, <1>9
    <3>5. Cardinality(T) <= MSHR_SIZE[c]
      BY <3>2, <3>4
    <3> HIDE DEF T
    <3> QED BY <3>3, <3>4, <3>5, <1>11, <1>13
  <2>2. CASE u # v /\ u \in Caches /\ v \in Caches
    <3>1. MSHR_SIZE[u] + MSHR_SIZE[v] <= RQ_SIZE[d]
      BY <2>2, <1>12, RoomAssumption
    <3>2. Cardinality(T) = Cardinality(InFlight(u)) + Cardinality(InFlight(v))
                             - Cardinality(InFlight(u) \cap InFlight(v))
      BY <1>8, FS_Union
    <3>3. Cardinality(InFlight(u) \cap InFlight(v)) \in Nat
      <4>1. IsFiniteSet(InFlight(u) \cap InFlight(v))
        BY <1>8, FS_Intersection
      <4> QED BY <4>1, FS_CardinalityType
    <3>4. /\ Cardinality(InFlight(u)) <= MSHR_SIZE[u] /\ Cardinality(InFlight(v)) <= MSHR_SIZE[v]
          /\ MSHR_SIZE[u] \in Nat /\ MSHR_SIZE[v] \in Nat
          /\ Cardinality(InFlight(u)) \in Nat /\ Cardinality(InFlight(v)) \in Nat
      BY <2>2, <1>8, <1>9
    <3> HIDE DEF T
    <3> QED BY <3>1, <3>2, <3>3, <3>4, <1>11
  <2> QED BY <2>1, <2>2
<1>15. IsFiniteSet(T \ {a}) /\ Cardinality(T \ {a}) = Cardinality(T) - 1
  BY <1>6, <1>13, FS_RemoveElement
<1> HIDE DEF T
<1>16. Len(q) <= Cardinality(T \ {a})
  BY <1>1, <1>7, <1>15, DistinctRoom
<1> QED BY <1>1, <1>11, <1>13, <1>14, <1>15, <1>16 DEF q

(* A request that joins the queue of reads owes what was in hand.          *)
LEMMA AppendRqSound ==
  ASSUME NEW s, NEW c \in Caches, NEW p \in Packet, NEW D, D = Debt(c, p), Sound(s, D, {}),
         ReadKind(c, p), QueueHits(s.rq[c], p.address) = {}, Len(s.rq[c]) # RQ_SIZE[c],
         NEW e \in Packet, Alike(e, p)
  PROVE  Sound(PutRq(s, c, Append(s.rq[c], e)), {}, {})
<1> DEFINE q == Append(s.rq[c], e)
           t == PutRq(s, c, q)
<1>1. /\ s.rq[c] \in Seq(Packet) /\ Len(s.rq[c]) + 1 <= RQ_SIZE[c]
      /\ Distinct(s.rq[c]) /\ Typed(s)
  BY QueueRoom DEF Sound, RqKinds
<1>2. \A x \in In(s.rq[c]) : x.address # e.address
  BY DEF In, QueueHits, Alike
<1>3. /\ q \in Seq(Packet) /\ Len(q) <= RQ_SIZE[c] /\ In(q) = In(s.rq[c]) \cup {e} /\ Distinct(q)
  BY <1>1, <1>2, AppendIn
<1>4. ReadKind(c, e) /\ e.address = p.address /\ (Owes(c, e) <=> Owes(c, p))
  BY DEF ReadKind, Classed, Alike, Owes
<1> HIDE DEF q
<1>5. /\ Typed(t) /\ t.rq[c] = q /\ \A d \in Caches \ {c} : t.rq[d] = s.rq[d]
      /\ t.wq = s.wq /\ t.pq = s.pq /\ KeepsFiles(s, t) /\ KeepsDram(s, t)
      /\ t.asserts = s.asserts
  BY <1>1, <1>3, WithRq
<1> HIDE DEF t
<1>6. RqKinds(t)
  BY <1>3, <1>4, <1>5 DEF Sound, RqKinds
<1>7. PqKinds(t) /\ WqKinds(t) /\ FileKinds(t)
  BY <1>5 DEF Sound, PqKinds, WqKinds, FileKinds, KeepsFiles
<1>8. \A d, a : /\ Pending(t, d, a) <=> Pending(s, d, a)
                /\ PqOwes(t, d, a) <=> PqOwes(s, d, a)
                /\ MshrOwes(t, d, a) <=> MshrOwes(s, d, a)
                /\ DramOwes(t, d, a) <=> DramOwes(s, d, a)
  BY <1>5 DEF Pending, PqOwes, MshrOwes, DramOwes, KeepsFiles, KeepsDram
<1>9. \A d, a : RqOwes(t, d, a) <=> RqOwes(s, d, a) \/ << d, a >> \in D
  <2> SUFFICES ASSUME NEW d, NEW a
               PROVE  RqOwes(t, d, a) <=> RqOwes(s, d, a) \/ << d, a >> \in D
    OBVIOUS
  <2>1. << d, a >> \in D <=> Owes(c, p) /\ d = c /\ a = p.address
    BY DEF Debt
  <2>2. CASE d # c
    BY <2>1, <2>2, <1>5 DEF RqOwes
  <2>3. CASE d = c
    BY <2>1, <2>3, <1>3, <1>4, <1>5 DEF RqOwes
  <2> QED BY <2>2, <2>3
<1>10. Owed(t, {}, {})
  <2>1. Owed(s, D, {})
    BY DEF Sound
  <2> QED BY <2>1, <1>8, <1>9 DEF Owed
<1>11. Sound(t, {}, {})
  BY <1>5, <1>6, <1>7, <1>10 DEF Sound
<1> QED BY <1>11 DEF t, q

(* A first level merges a request into one that waits.                     *)
LEMMA MergeRqSound ==
  ASSUME NEW s, Sound(s, {}, {}), NEW c \in Caches \cap FirstLevel, NEW p \in Packet,
         ReadKind(c, p), QueueHits(s.rq[c], p.address) # {}
  PROVE  Sound([s EXCEPT !.rq[c][Only(QueueHits(s.rq[c], p.address))] = MergeRq(@, p)], {}, {})
<1> DEFINE k == Only(QueueHits(s.rq[c], p.address))
           o == s.rq[c][k]
           e == MergeRq(o, p)
           q == [s.rq[c] EXCEPT ![k] = e]
           t == PutRq(s, c, q)
<1>1. s.rq[c] \in Seq(Packet) /\ Len(s.rq[c]) <= RQ_SIZE[c] /\ Distinct(s.rq[c]) /\ Typed(s)
  BY DEF Sound, RqKinds, Typed, States
<1>2. k \in DOMAIN s.rq[c] /\ o.address = p.address
  BY <1>1, HitMember
<1>3. [s EXCEPT !.rq[c][k] = MergeRq(@, p)] = t
  BY DEF PutRq
<1> HIDE DEF k
<1>4. o \in Packet /\ ReadKind(c, o)
  BY <1>1, <1>2 DEF Sound, RqKinds, In
<1> HIDE DEF o
<1>5. /\ e \in Packet /\ e.address = o.address /\ e.fill_level = o.fill_level
      /\ e.instruction = (o.instruction \/ p.instruction)
      /\ e.is_data = (o.is_data \/ ~p.instruction)
      /\ e.fill_l1i = (o.fill_l1i \/ p.fill_l1i)
      /\ e.fill_l1d = (o.fill_l1d \/ p.fill_l1d)
  BY <1>4, MergeRqPacket
<1> HIDE DEF e
<1>6. ReadKind(c, e)
  BY <1>2, <1>4, <1>5 DEF ReadKind, Classed
<1>7. /\ q \in Seq(Packet) /\ Len(q) <= RQ_SIZE[c]
      /\ In(q) \subseteq In(s.rq[c]) \cup {e} /\ Distinct(q)
  BY <1>1, <1>2, <1>5, MergeIn DEF o
<1> HIDE DEF q
<1>8. /\ Typed(t) /\ t.rq[c] = q /\ \A d \in Caches \ {c} : t.rq[d] = s.rq[d]
      /\ t.wq = s.wq /\ t.pq = s.pq /\ KeepsFiles(s, t) /\ KeepsDram(s, t)
      /\ t.asserts = s.asserts
  BY <1>1, <1>7, WithRq
<1> HIDE DEF t
<1>9. RqKinds(t)
  BY <1>6, <1>7, <1>8 DEF Sound, RqKinds
<1>10. PqKinds(t) /\ WqKinds(t) /\ FileKinds(t)
  BY <1>8 DEF Sound, PqKinds, WqKinds, FileKinds, KeepsFiles
<1>11. \A d, a : /\ Pending(t, d, a) <=> Pending(s, d, a)
                 /\ PqOwes(t, d, a) <=> PqOwes(s, d, a)
                 /\ MshrOwes(t, d, a) <=> MshrOwes(s, d, a)
                 /\ DramOwes(t, d, a) <=> DramOwes(s, d, a)
  BY <1>8 DEF Pending, PqOwes, MshrOwes, DramOwes, KeepsFiles, KeepsDram
<1>12. \A d \in Below, a \in Addr : RqOwes(t, d, a) <=> RqOwes(s, d, a)
  <2>1. c \notin Below
    BY DEF FirstLevel, Below
  <2> QED BY <2>1, <1>8 DEF RqOwes
<1>13. Owed(t, {}, {})
  <2>1. Owed(s, {}, {})
    BY DEF Sound
  <2> QED BY <2>1, <1>11, <1>12 DEF Owed
<1>14. Sound(t, {}, {})
  BY <1>8, <1>9, <1>10, <1>13 DEF Sound
<1> QED BY <1>3, <1>14 DEF k

(* add_rq, below a miss or from the core.                                  *)
LEMMA AddRqSound ==
  ASSUME NEW s, NEW c \in Caches, NEW p \in Packet, NEW D, D = Debt(c, p), Sound(s, D, {}),
         ReadKind(c, p)
  PROVE  Sound(AddRq(s, c, p), {}, {})
<1> DEFINE hits == QueueHits(s.rq[c], p.address)
<1>0. c # "DRAM" /\ Classed(c, p) /\ p.address \in Addr /\ s.rq[c] \in Seq(Packet)
  BY CachesAre DEF ReadKind, Packet, Sound, Typed, States
<1>1. CASE WqHits(s, c, p) # {}
  <2> DEFINE u == ReturnUp(s, c, p)
  <2>1. Sound(u, {}, {})
    BY <1>0, ReturnUpSound
  <2> HIDE DEF u
  <2>2. Sound(Process(u, c, p), {}, {})
    BY <2>1, ProcessSound
  <2>3. AddRq(s, c, p) = IF c = "L1D" THEN Process(u, c, p) ELSE u
    BY <1>0, <1>1 DEF AddRq, u
  <2> QED BY <2>1, <2>2, <2>3
<1>2. CASE WqHits(s, c, p) = {} /\ hits # {}
  <2>1. AddRq(s, c, p) = [s EXCEPT !.rq[c][Only(hits)] = MergeRq(@, p)]
    BY <1>0, <1>2 DEF AddRq
  <2>2. CASE c \in FirstLevel
    <3>1. D = {}
      BY <2>2, FirstOwesNot DEF Debt
    <3>2. Sound(s, {}, {})
      BY <3>1
    <3> QED BY <2>1, <2>2, <3>2, <1>2, MergeRqSound
  <2>3. CASE c \notin FirstLevel
    <3>1. c \in Below /\ << c, p.address >> \in D
      BY <2>3, BelowIs DEF ReadKind, Debt, Owes
    <3>2. PICK k \in DOMAIN s.rq[c] : s.rq[c][k].address = p.address
      BY <1>2 DEF QueueHits
    <3>3. s.rq[c][k] \in In(s.rq[c]) /\ Owes(c, s.rq[c][k])
      BY <2>3, <3>2 DEF In, Sound, RqKinds, ReadKind, Owes
    <3>4. RqOwes(s, c, p.address)
      BY <3>2, <3>3 DEF RqOwes
    <3>5. Owed(s, D, {})
      BY DEF Sound
    <3> QED BY <1>0, <3>1, <3>4, <3>5 DEF Owed
  <2> QED BY <2>2, <2>3
<1>3. CASE WqHits(s, c, p) = {} /\ hits = {}
  <2> DEFINE e == [p EXCEPT !.word = AnyWord]
             t == PutRq(s, c, Append(s.rq[c], e))
  <2>1. CASE Len(s.rq[c]) = RQ_SIZE[c]
    <3>1. AddRq(s, c, p) = s
      BY <1>0, <1>3, <2>1 DEF AddRq
    <3>2. CASE c \in FirstLevel
      <4>1. D = {}
        BY <3>2, FirstOwesNot DEF Debt
      <4> QED BY <3>1, <4>1
    <3>3. CASE c \notin FirstLevel
      <4>1. D = {<< c, p.address >>}
        BY <3>3 DEF ReadKind, Debt, Owes
      <4> QED BY <1>0, <2>1, <3>3, <4>1, PendingRoom
    <3> QED BY <3>2, <3>3
  <2>2. CASE Len(s.rq[c]) # RQ_SIZE[c]
    <3>1. AddRq(s, c, p) = t
      BY <1>0, <1>3, <2>2 DEF AddRq, PutRq
    <3>2. e \in Packet /\ Alike(e, p)
      BY PlainPacket
    <3> HIDE DEF e
    <3>3. Sound(t, {}, {})
      BY <1>3, <2>2, <3>2, AppendRqSound
    <3> QED BY <3>1, <3>3
  <2> QED BY <2>1, <2>2
<1> QED BY <1>1, <1>2, <1>3

(* The controller takes the read, or has its data at hand.                 *)
LEMMA DramAddRqSound ==
  ASSUME NEW s, NEW p \in Packet, NEW D, D = {<< "DRAM", p.address >>}, Sound(s, D, {}),
         Classed("LLC", p), ~DramRqFull(s)
  PROVE  Sound(DramAddRq(s, p), {}, {})
<1> DEFINE a == p.address
<1>0. "DRAM" \in Below /\ a \in Addr /\ Above("DRAM", a) = "LLC" /\ Owed(s, D, {}) /\ Typed(s)
  BY AboveIs DEF Below, Packet, Sound
<1>1. CASE a \in s.dramWq
  <2> DEFINE s1 == IF p.instruction THEN ReturnData(s, "LLC", a) ELSE s
             s2 == IF p.is_data THEN ReturnData(s1, "LLC", a) ELSE s1
  <2>1. DramAddRq(s, p) = s2
    BY <1>1 DEF DramAddRq, DramReturn
  <2> DEFINE u == ReturnData(s, "LLC", a)
  <2>2. p.instruction \/ p.is_data
    BY DEF Classed
  <2>3. Sound(u, {}, {}) /\ ReturnData(u, "LLC", a) = u
    BY <1>0, PaySound
  <2>4. s2 = u
    BY <2>2, <2>3
  <2> HIDE DEF u, s2
  <2> QED BY <2>1, <2>3, <2>4
<1>2. a \notin s.dramRq
  <2>1. << "DRAM", a >> \in D
    OBVIOUS
  <2>2. ~DramOwes(s, "DRAM", a)
    BY <1>0, <2>1 DEF Owed
  <2> QED BY <2>2 DEF DramOwes
<1>3. CASE a \notin s.dramWq
  <2> DEFINE R == s.dramRq \cup {a}
             t == PutDram(s, R, s.dramWq)
  <2>1. /\ R \in SUBSET Addr /\ s.dramWq \in SUBSET Addr
        /\ IsFiniteSet(s.dramWq) /\ Cardinality(s.dramWq) <= DRAM_WQ_SIZE
    BY <1>0 DEF Typed, States
  <2>2. DramAddRq(s, p) = t
    BY <1>0, <1>2, <1>3 DEF DramAddRq, PutDram, Typed, States
  <2> HIDE DEF R
  <2>3. /\ Typed(t) /\ t.dramRq = R /\ KeepsQueues(s, t) /\ KeepsFiles(s, t)
        /\ t.asserts = s.asserts
    BY <1>0, <2>1, WithDram
  <2> HIDE DEF t
  <2>4. RqKinds(t) /\ PqKinds(t) /\ WqKinds(t) /\ FileKinds(t)
    BY <2>3 DEF Sound, RqKinds, PqKinds, WqKinds, FileKinds, KeepsQueues, KeepsFiles
  <2>5. \A d, x : /\ Pending(t, d, x) <=> Pending(s, d, x)
                  /\ RqOwes(t, d, x) <=> RqOwes(s, d, x)
                  /\ PqOwes(t, d, x) <=> PqOwes(s, d, x)
                  /\ MshrOwes(t, d, x) <=> MshrOwes(s, d, x)
    BY <2>3 DEF Pending, RqOwes, PqOwes, MshrOwes, KeepsQueues, KeepsFiles
  <2>6. \A d, x : DramOwes(t, d, x) <=> DramOwes(s, d, x) \/ << d, x >> \in D
    BY <2>3 DEF DramOwes, R
  <2>7. Owed(t, {}, {})
    BY <1>0, <2>5, <2>6 DEF Owed
  <2>8. Sound(t, {}, {})
    BY <2>3, <2>4, <2>7 DEF Sound
  <2> QED BY <2>2, <2>8
<1> QED BY <1>1, <1>3

(* A packet on its way down is one that the level below may hold.          *)
LEMMA PlainKind ==
  ASSUME NEW c \in Caches, NEW p \in Packet, Classed(c, p), NEW d, d \notin FirstLevel
  PROVE  Plain(p) \in Packet /\ Classed(d, Plain(p)) /\ Plain(p).address = p.address
<1>1. Plain(p) \in Packet /\ Alike(Plain(p), p)
  BY PlainPacket
<1>2. Fits(d, p.address)
  BY DEF Fits, FirstLevel
<1> QED BY <1>1, <1>2 DEF Classed, Alike

(* The miss of a read or a store is sent down.                             *)
LEMMA SendDownSound ==
  ASSUME NEW s, NEW c \in Caches, NEW p \in Packet, NEW D, D = {<< Lower(c), p.address >>},
         Sound(s, D, {}), ReadKind(c, p), c = "LLC" => ~DramRqFull(s)
  PROVE  Sound(SendDown(s, c, p), {}, {})
<1> DEFINE a == p.address
           l == Lower(c)
<1>1. Classed(c, p) /\ a \in Addr
  BY DEF ReadKind, Packet
<1>2. l \in Below /\ Above(l, a) = c /\ l \notin FirstLevel
  BY <1>1, AboveLower, LowerIs DEF Classed, FirstLevel
<1>3. CASE l = "NULL"
  <2>1. SendDown(s, c, p) = ReturnData(s, Above(l, a), a)
    BY <1>2, <1>3 DEF SendDown
  <2> QED BY <1>1, <1>2, <2>1, PaySound
<1>4. /\ Plain(p) \in Packet /\ Classed(l, Plain(p)) /\ Plain(p).address = a
      /\ Plain(p).fill_level = p.fill_level
  <2>1. Alike(Plain(p), p)
    BY PlainPacket
  <2> QED BY <1>1, <1>2, <2>1, PlainKind DEF Alike
<1>5. CASE l = "DRAM"
  <2>1. c = "LLC" /\ Classed("LLC", Plain(p))
    BY <1>1, <1>5, LowerIs, PlainKind DEF FirstLevel
  <2>2. SendDown(s, c, p) = DramAddRq(s, Plain(p))
    BY <1>5 DEF SendDown, AddRq
  <2> QED BY <1>4, <1>5, <2>1, <2>2, DramAddRqSound
<1>6. CASE l \notin {"NULL", "DRAM"}
  <2>1. l \in Caches
    BY <1>6, LowerIs
  <2>2. p.fill_level < FillLevel(l)
    <3>0. p.fill_level \in {1, 2, 4, 8}
      BY DEF Packet
    <3>1. \/ c \in FirstLevel /\ l \in {"STLB", "L2C"}
          \/ c = "L2C" /\ l = "LLC"
      BY <1>6, CachesAre DEF Lower, FirstLevel
    <3>2. CASE c \in FirstLevel /\ l \in {"STLB", "L2C"}
      BY <3>2, LevelIs DEF ReadKind
    <3>3. CASE c = "L2C" /\ l = "LLC"
      <4>1. p.fill_level < 2
        BY <3>3, LevelIs DEF ReadKind, FirstLevel
      <4> QED BY <3>0, <3>3, <4>1, LevelIs
    <3> QED BY <3>1, <3>2, <3>3
  <2>3. ReadKind(l, Plain(p)) /\ Debt(l, Plain(p)) = D
    BY <1>2, <1>4, <2>2 DEF ReadKind, Debt, Owes
  <2>4. SendDown(s, c, p) = AddRq(s, l, Plain(p))
    BY <1>6 DEF SendDown
  <2> QED BY <1>4, <2>1, <2>3, <2>4, AddRqSound
<1> QED BY <1>3, <1>5, <1>6

(* A prefetch that joins the queue, or one that waits there already.       *)
LEMMA PutPqSound ==
  ASSUME NEW s, NEW c \in Caches, c \notin {"ITLB", "DTLB", "STLB"}, NEW p \in Packet,
         NEW D, D = Debt(c, p), Sound(s, D, {}),
         NEW q \in Seq(Packet), Len(q) <= PQ_SIZE[c], Distinct(q),
         \A x \in In(q) : PrefetchKind(c, x),
         \A a : (\E x \in In(q) : x.address = a /\ Owes(c, x)) <=>
                  \/ \E x \in In(s.pq[c]) : x.address = a /\ Owes(c, x)
                  \/ Owes(c, p) /\ a = p.address
  PROVE  Sound(PutPq(s, c, q), {}, {})
<1> DEFINE t == PutPq(s, c, q)
<1>0. Typed(s)
  BY DEF Sound
<1>1. /\ Typed(t) /\ t.pq[c] = q /\ \A d \in Caches \ {c} : t.pq[d] = s.pq[d]
      /\ t.rq = s.rq /\ t.wq = s.wq /\ KeepsFiles(s, t) /\ KeepsDram(s, t)
      /\ t.asserts = s.asserts
  BY <1>0, WithPq
<1> HIDE DEF t
<1>2. PqKinds(t)
  BY <1>1 DEF Sound, PqKinds
<1>3. RqKinds(t) /\ WqKinds(t) /\ FileKinds(t)
  BY <1>1 DEF Sound, RqKinds, WqKinds, FileKinds, KeepsFiles
<1>4. \A d, a : /\ Pending(t, d, a) <=> Pending(s, d, a)
                /\ RqOwes(t, d, a) <=> RqOwes(s, d, a)
                /\ MshrOwes(t, d, a) <=> MshrOwes(s, d, a)
                /\ DramOwes(t, d, a) <=> DramOwes(s, d, a)
  BY <1>1 DEF Pending, RqOwes, MshrOwes, DramOwes, KeepsFiles, KeepsDram
<1>5. \A d, a : PqOwes(t, d, a) <=> PqOwes(s, d, a) \/ << d, a >> \in D
  <2> SUFFICES ASSUME NEW d, NEW a
               PROVE  PqOwes(t, d, a) <=> PqOwes(s, d, a) \/ << d, a >> \in D
    OBVIOUS
  <2>1. << d, a >> \in D <=> Owes(c, p) /\ d = c /\ a = p.address
    BY DEF Debt
  <2>2. CASE d # c
    BY <2>1, <2>2, <1>1 DEF PqOwes
  <2>3. CASE d = c
    <3>1. PqOwes(t, c, a) <=> \E x \in In(q) : x.address = a /\ Owes(c, x)
      BY <1>1 DEF PqOwes
    <3>2. PqOwes(s, c, a) <=> \E x \in In(s.pq[c]) : x.address = a /\ Owes(c, x)
      BY DEF PqOwes
    <3> QED BY <2>1, <2>3, <3>1, <3>2
  <2> QED BY <2>2, <2>3
<1>6. Owed(t, {}, {})
  <2>1. Owed(s, D, {})
    BY DEF Sound
  <2> QED BY <2>1, <1>4, <1>5 DEF Owed
<1>7. Sound(t, {}, {})
  BY <1>1, <1>2, <1>3, <1>6 DEF Sound
<1> QED BY <1>7 DEF t

LEMMA AppendPqSound ==
  ASSUME NEW s, NEW c \in Caches, c \notin {"ITLB", "DTLB", "STLB"}, NEW p \in Packet,
         NEW D, D = Debt(c, p), Sound(s, D, {}), PrefetchKind(c, p),
         QueueHits(s.pq[c], p.address) = {}, Len(s.pq[c]) # PQ_SIZE[c]
  PROVE  Sound(PutPq(s, c, Append(s.pq[c], p)), {}, {})
<1> DEFINE q == Append(s.pq[c], p)
<1>1. /\ s.pq[c] \in Seq(Packet) /\ Len(s.pq[c]) + 1 <= PQ_SIZE[c] /\ Distinct(s.pq[c])
      /\ \A x \in In(s.pq[c]) : PrefetchKind(c, x)
  BY QueueRoom DEF Sound, PqKinds
<1>2. \A x \in In(s.pq[c]) : x.address # p.address
  BY DEF In, QueueHits
<1>3. /\ q \in Seq(Packet) /\ Len(q) <= PQ_SIZE[c] /\ In(q) = In(s.pq[c]) \cup {p} /\ Distinct(q)
  BY <1>1, <1>2, AppendIn
<1> HIDE DEF q
<1>4. /\ \A x \in In(q) : PrefetchKind(c, x)
      /\ \A a : (\E x \in In(q) : x.address = a /\ Owes(c, x)) <=>
                  \/ \E x \in In(s.pq[c]) : x.address = a /\ Owes(c, x)
                  \/ Owes(c, p) /\ a = p.address
  BY <1>1, <1>3
<1>5. Sound(PutPq(s, c, q), {}, {})
  BY <1>3, <1>4, PutPqSound
<1> QED BY <1>5 DEF q

(* MergeIn, as one fact about the queue r that q becomes.                  *)
Merged(q, k, p, r) ==
  /\ r \in Seq(Packet) /\ Len(r) = Len(q)
  /\ In(r) \subseteq In(q) \cup {p} /\ p \in In(r) /\ In(q) \subseteq In(r) \cup {q[k]}
  /\ Distinct(q) /\ p.address = q[k].address =>
       /\ Distinct(r)
       /\ \A x \in In(r) : x.address = p.address => x = p
       /\ \A x \in In(q) : x.address = p.address => x = q[k]

LEMMA MergedIn ==
  ASSUME NEW q \in Seq(Packet), NEW k \in DOMAIN q, NEW p \in Packet
  PROVE  Merged(q, k, p, [q EXCEPT ![k] = p])
BY MergeIn DEF Merged

LEMMA MergePqSound ==
  ASSUME NEW s, NEW c \in Caches, c \notin {"ITLB", "DTLB", "STLB"}, NEW p \in Packet,
         NEW D, D = Debt(c, p), Sound(s, D, {}), PrefetchKind(c, p),
         QueueHits(s.pq[c], p.address) # {}
  PROVE  Sound([s EXCEPT !.pq[c][Only(QueueHits(s.pq[c], p.address))] = MergePq(@, p)], {}, {})
<1> DEFINE k == Only(QueueHits(s.pq[c], p.address))
           o == s.pq[c][k]
           e == MergePq(o, p)
           q == [s.pq[c] EXCEPT ![k] = e]
<1>1. /\ s.pq[c] \in Seq(Packet) /\ Len(s.pq[c]) <= PQ_SIZE[c] /\ Distinct(s.pq[c])
      /\ \A x \in In(s.pq[c]) : PrefetchKind(c, x)
  BY DEF Sound, PqKinds, Typed, States
<1>2. k \in DOMAIN s.pq[c] /\ o.address = p.address
  BY <1>1, HitMember
<1>3. [s EXCEPT !.pq[c][k] = MergePq(@, p)] = PutPq(s, c, q)
  BY DEF PutPq
<1> HIDE DEF k
<1>4. o \in Packet /\ PrefetchKind(c, o) /\ o \in In(s.pq[c])
  BY <1>1, <1>2 DEF In
<1> HIDE DEF o
<1>5. /\ e \in Packet /\ e.address = o.address
      /\ e.instruction = (o.instruction \/ p.instruction)
      /\ e.is_data = (o.is_data \/ p.is_data)
      /\ e.fill_l1i = (o.fill_l1i \/ p.fill_l1i)
      /\ e.fill_l1d = (o.fill_l1d \/ p.fill_l1d)
      /\ e.fill_level = Least(o.fill_level, p.fill_level)
  BY <1>4, MergePqPacket
<1>6. /\ e.fill_level \in {o.fill_level, p.fill_level}
      /\ e.fill_level <= o.fill_level /\ e.fill_level <= p.fill_level
      /\ {e.fill_level, o.fill_level, p.fill_level} \subseteq {1, 2, 4, 8}
  <2>1. {o.fill_level, p.fill_level} \subseteq {1, 2, 4, 8}
    BY <1>4 DEF Packet
  <2> QED BY <1>4, <1>5, <2>1, LeastLevel
<1> HIDE DEF e
<1>7. PrefetchKind(c, e)
  <2>1. e.fill_level = 1 <=> o.fill_level = 1 \/ p.fill_level = 1
    BY <1>6
  <2>2. e.fill_level <= 4 /\ (c \in FirstLevel => e.fill_level = 1)
    BY <1>4, <1>6 DEF PrefetchKind
  <2>3. Classed(c, e)
    BY <1>2, <1>4, <1>5, <2>1 DEF PrefetchKind, Classed
  <2> QED BY <2>2, <2>3 DEF PrefetchKind
<1>8. Owes(c, e) <=> Owes(c, o) \/ Owes(c, p)
  <2>1. FillLevel(c) \in {1, 2, 4}
    BY DEF FillLevel, FILL_L1, FILL_L2, FILL_LLC
  <2> QED BY <1>6, <2>1 DEF Owes
<1>9. /\ q \in Seq(Packet) /\ Len(q) <= PQ_SIZE[c] /\ Distinct(q)
      /\ In(q) \subseteq In(s.pq[c]) \cup {e} /\ e \in In(q)
      /\ In(s.pq[c]) \subseteq In(q) \cup {o}
      /\ \A x \in In(q) : x.address = e.address => x = e
      /\ \A x \in In(s.pq[c]) : x.address = e.address => x = o
  <2>1. e \in Packet /\ e.address = s.pq[c][k].address
    BY <1>5 DEF o
  <2>2. Merged(s.pq[c], k, e, q)
    BY <1>1, <1>2, <2>1, MergedIn
  <2> HIDE DEF q
  <2> QED BY <1>1, <2>1, <2>2 DEF Merged, o
<1> HIDE DEF q
<1>10. \A x \in In(q) : PrefetchKind(c, x)
  BY <1>1, <1>7, <1>9
<1>11. ASSUME NEW a
       PROVE  (\E x \in In(q) : x.address = a /\ Owes(c, x)) <=>
                \/ \E x \in In(s.pq[c]) : x.address = a /\ Owes(c, x)
                \/ Owes(c, p) /\ a = p.address
  <2>1. CASE a = p.address
    BY <2>1, <1>2, <1>4, <1>5, <1>8, <1>9
  <2>2. CASE a # p.address
    BY <2>2, <1>2, <1>4, <1>5, <1>9
  <2> QED BY <2>1, <2>2
<1>12. Sound(PutPq(s, c, q), {}, {})
  BY <1>9, <1>10, <1>11, PutPqSound
<1> QED BY <1>3, <1>12 DEF q, k

LEMMA AddPqSound ==
  ASSUME NEW s, NEW c \in Caches, c \notin {"ITLB", "DTLB", "STLB"}, NEW p \in Packet,
         NEW D, D = Debt(c, p), Sound(s, D, {}), PrefetchKind(c, p), Len(s.pq[c]) # PQ_SIZE[c]
  PROVE  Sound(AddPq(s, c, p), {}, {})
<1> DEFINE hits == QueueHits(s.pq[c], p.address)
<1>1. CASE WqHits(s, c, p) # {}
  <2>1. AddPq(s, c, p) = ReturnUp(s, c, p)
    BY <1>1 DEF AddPq
  <2>2. Sound(ReturnUp(s, c, p), {}, {})
    BY ReturnUpSound DEF PrefetchKind
  <2> QED BY <2>1, <2>2
<1>2. CASE WqHits(s, c, p) = {} /\ hits # {}
  <2>1. AddPq(s, c, p) = [s EXCEPT !.pq[c][Only(hits)] = MergePq(@, p)]
    BY <1>2 DEF AddPq
  <2> QED BY <1>2, <2>1, MergePqSound
<1>3. CASE WqHits(s, c, p) = {} /\ hits = {}
  <2>1. AddPq(s, c, p) = PutPq(s, c, Append(s.pq[c], p))
    BY <1>3 DEF AddPq, PutPq
  <2> QED BY <1>3, <2>1, AppendPqSound
<1> QED BY <1>1, <1>2, <1>3

(* A prefetch that misses waits here if it fills this level, and is passed *)
(* on if it does not.                                                      *)
LEMMA PrefetchDownSound ==
  ASSUME NEW s, NEW c \in Caches, c \notin {"ITLB", "DTLB", "STLB"}, NEW p \in Packet,
         NEW D, D = Debt(c, p), Sound(s, D, {}), PrefetchKind(c, p),
         p.address \notin DOMAIN s.mshr[c], ~MshrFull(s, c), ~LowerPqFull(s, c)
  PROVE  Sound(PrefetchDown(s, c, p), {}, {})
<1> DEFINE a == p.address
           l == Lower(c)
           fills == p.fill_level <= FillLevel(c)
           s1 == IF fills THEN AddMshr(s, c, p) ELSE s
           E == Debt(l, Plain(p))
<1>1. Classed(c, p) /\ a \in Addr /\ p.fill_level \in {1, 2, 4, 8} /\ p.fill_level <= 4
  BY DEF PrefetchKind, Packet
<1>2. \/ c \in {"L1I", "L1D"} /\ l = "L2C" /\ p.fill_level = 1
      \/ c = "L2C" /\ l = "LLC"
      \/ c = "LLC" /\ l = "DRAM"
  BY CachesAre DEF Lower, PrefetchKind, FirstLevel
<1>3. l \notin FirstLevel /\ l # "NULL" /\ l \notin {"ITLB", "DTLB", "STLB"}
  BY <1>2 DEF FirstLevel
<1>4. /\ Plain(p) \in Packet /\ Classed(l, Plain(p)) /\ Plain(p).address = a
      /\ Plain(p).fill_level = p.fill_level
  <2>1. Alike(Plain(p), p)
    BY PlainPacket
  <2> QED BY <1>1, <1>3, <2>1, PlainKind DEF Alike
<1>5. PrefetchDown(s, c, p) =
        IF l = "DRAM" THEN DramAddRq(s1, Plain(p)) ELSE AddPq(s1, l, Plain(p))
  BY DEF PrefetchDown
<1>6. s1.pq = s.pq /\ s1.dramRq = s.dramRq
  <2>1. ASSUME fills PROVE KeepsQueues(s, AddMshr(s, c, p)) /\ KeepsDram(s, AddMshr(s, c, p))
    BY AddMshrFile DEF Sound
  <2> QED BY <2>1 DEF KeepsQueues, KeepsDram
<1>7. CASE fills
  <2>1. Sound(s1, {<< l, a >>}, {})
    BY <1>1, <1>7, AddMshrSound
  <2> HIDE DEF s1
  <2>2. CASE l = "DRAM"
    <3>1. Classed("LLC", Plain(p)) /\ ~DramRqFull(s1)
      <4>1. Classed("LLC", Plain(p))
        BY <1>1, PlainKind DEF FirstLevel
      <4> QED BY <2>2, <4>1, <1>6 DEF LowerPqFull, DramRqFull
    <3> QED BY <1>4, <1>5, <2>1, <2>2, <3>1, DramAddRqSound
  <2>3. CASE l # "DRAM"
    <3>1. l \in Caches /\ Len(s1.pq[l]) # PQ_SIZE[l]
      BY <2>3, <1>3, <1>6, LowerIs DEF LowerPqFull
    <3>2. p.fill_level < FillLevel(l)
      BY <1>1, <1>2, <1>7, <2>3, LevelIs
    <3>3. E = {<< l, a >>} /\ PrefetchKind(l, Plain(p))
      BY <1>1, <1>3, <1>4, <3>2 DEF Debt, Owes, PrefetchKind
    <3>4. Sound(s1, E, {})
      BY <2>1, <3>3
    <3>5. Sound(AddPq(s1, l, Plain(p)), {}, {})
      BY <1>3, <1>4, <3>1, <3>3, <3>4, AddPqSound
    <3> QED BY <1>5, <2>3, <3>5
  <2> QED BY <2>2, <2>3
<1>8. CASE ~fills
  <2>1. c = "L2C" /\ l = "LLC" /\ p.fill_level = 4
    <3>1. FillLevel("L1I") = 1 /\ FillLevel("L1D") = 1
      BY LevelIs DEF FirstLevel
    <3> QED BY <1>1, <1>2, <1>8, <3>1, LevelIs
  <2>2. D = {} /\ E = {}
    BY <1>4, <2>1, LevelIs DEF Debt, Owes
  <2>3. Sound(s1, E, {}) /\ s1 = s
    BY <1>8, <2>2
  <2> HIDE DEF s1
  <2>4. l \in Caches /\ Len(s1.pq[l]) # PQ_SIZE[l] /\ PrefetchKind(l, Plain(p))
    BY <1>1, <1>3, <1>4, <1>6, <2>1, LowerIs DEF LowerPqFull, PrefetchKind
  <2>5. Sound(AddPq(s1, l, Plain(p)), {}, {})
    BY <1>3, <1>4, <2>3, <2>4, AddPqSound
  <2> QED BY <1>5, <2>1, <2>5
<1> QED BY <1>7, <1>8

-------------------------------------------------------------------------------
(* The handlers.                                                           *)

(* Merging keeps the kind, and owes what either owed.                      *)
LEMMA MergedKind ==
  ASSUME NEW c \in Caches, NEW e \in Packet, NEW p \in Packet, NEW m \in Packet,
         Classed(c, e), Classed(c, p), e.address = p.address, m.address = p.address,
         m.instruction \/ m.is_data,
         m.fill_l1i = (e.fill_l1i \/ p.fill_l1i), m.fill_l1d = (e.fill_l1d \/ p.fill_l1d),
         m.fill_level = Least(e.fill_level, p.fill_level)
  PROVE  Classed(c, m) /\ (Owes(c, m) <=> Owes(c, p) \/ Owes(c, e))
<1>1. {e.fill_level, p.fill_level, m.fill_level} \subseteq {1, 2, 4, 8}
  BY DEF Packet
<1>2. /\ m.fill_level \in {e.fill_level, p.fill_level}
      /\ m.fill_level <= e.fill_level /\ m.fill_level <= p.fill_level
  BY LeastLevel
<1>3. m.fill_level = 1 <=> e.fill_level = 1 \/ p.fill_level = 1
  BY <1>1, <1>2
<1>4. Owes(c, m) <=> Owes(c, p) \/ Owes(c, e)
  <2>1. FillLevel(c) \in {1, 2, 4}
    BY DEF FillLevel, FILL_L1, FILL_L2, FILL_LLC
  <2> QED BY <1>1, <1>2, <2>1 DEF Owes
<1>5. Classed(c, m)
  BY <1>3 DEF Classed
<1> QED BY <1>4, <1>5

(* The entry of a miss in flight.                                          *)
LEMMA EntryKind ==
  ASSUME NEW s, NEW D, NEW X, Sound(s, D, X), NEW c \in Caches, NEW a \in DOMAIN s.mshr[c]
  PROVE  s.mshr[c][a] \in Packet /\ s.mshr[c][a].address = a /\ Classed(c, s.mshr[c][a])
BY EntryOk DEF Sound, FileKinds

LEMMA ReadMerged ==
  ASSUME NEW c \in Caches, NEW e \in Packet, NEW p \in Packet,
         Classed(c, e), ReadKind(c, p), e.address = p.address
  PROVE  LET m == MergeRead(e, p)
         IN  /\ m \in Packet /\ m.address = p.address /\ m.returned = e.returned
             /\ Classed(c, m) /\ (Owes(c, m) <=> Owes(c, p) \/ Owes(c, e))
<1> DEFINE m == MergeRead(e, p)
<1>1. /\ m \in Packet /\ m.address = e.address /\ m.returned = e.returned
      /\ e.type = "PREFETCH" =>
           /\ m.instruction = p.instruction /\ m.is_data = p.is_data
           /\ m.fill_l1i = p.fill_l1i /\ m.fill_l1d = p.fill_l1d
           /\ m.fill_level = p.fill_level
      /\ e.type # "PREFETCH" =>
           /\ m.instruction = (e.instruction \/ (p.type # "RFO" /\ p.instruction))
           /\ m.is_data = (e.is_data \/ (p.type # "RFO" /\ ~p.instruction))
           /\ m.fill_l1i = (e.fill_l1i \/ p.fill_l1i)
           /\ m.fill_l1d = (e.fill_l1d \/ p.fill_l1d)
           /\ m.fill_level = Least(e.fill_level, p.fill_level)
  BY MergeReadPacket
<1> HIDE DEF m
<1>2. Classed(c, p)
  BY DEF ReadKind
<1>3. CASE e.type = "PREFETCH"
  <2>1. Classed(c, m) /\ (Owes(c, m) <=> Owes(c, p))
    BY <1>1, <1>2, <1>3 DEF Classed, Owes
  <2>2. Owes(c, p) \/ ~Owes(c, e)
    BY FirstOwesNot DEF ReadKind, Owes
  <2> QED BY <1>1, <2>1, <2>2 DEF m
<1>4. CASE e.type # "PREFETCH"
  <2>1. m.instruction \/ m.is_data
    BY <1>1, <1>2, <1>4 DEF Classed
  <2>2. Classed(c, m) /\ (Owes(c, m) <=> Owes(c, p) \/ Owes(c, e))
    BY <1>1, <1>2, <1>4, <2>1, MergedKind
  <2> QED BY <1>1, <2>2 DEF m
<1> QED BY <1>3, <1>4

LEMMA HandleReadSound ==
  ASSUME Sound(State, {}, {}), NEW c \in Caches, HandleRead(c)
  PROVE  \E t : Becomes(t) /\ Sound(t, {}, {})
<1> DEFINE p == Head(rq[c])
           a == p.address
           s == PopRq(State, c)
           D == Debt(c, p)
<1>1. Sound(s, D, {}) /\ p \in Packet /\ ReadKind(c, p)
  <2>1. State.rq[c] = rq[c] /\ rq[c] # << >>
    BY StateFields DEF HandleRead
  <2> QED BY <2>1, PopRqSound
<1>2. \/ Becomes(ReturnUp(Process(s, c, p), c, p))
      \/ InMshr(s, c, a) /\ Becomes(SetMshr(s, c, MergeRead(s.mshr[c][a], p)))
      \/ /\ ~InMshr(s, c, a) /\ ~MshrFull(s, c) /\ (c = "LLC" => ~DramRqFull(s))
         /\ Becomes(SendDown(AddMshr(s, c, p), c, p))
  BY DEF HandleRead, Handler
<1> HIDE DEF s, p
<1>3. Classed(c, p)
  BY <1>1 DEF ReadKind
<1> HIDE DEF D
<1>4. CASE Becomes(ReturnUp(Process(s, c, p), c, p))
  <2> DEFINE u == Process(s, c, p)
  <2>1. Sound(u, D, {})
    BY <1>1, ProcessSound
  <2> HIDE DEF u
  <2>2. Sound(ReturnUp(u, c, p), {}, {})
    BY <1>1, <1>3, <2>1, ReturnUpSound DEF D
  <2> QED BY <1>4, <2>2 DEF u
<1>5. CASE InMshr(s, c, a) /\ Becomes(SetMshr(s, c, MergeRead(s.mshr[c][a], p)))
  <2> DEFINE e == s.mshr[c][a]
             m == MergeRead(e, p)
  <2>1. a \in DOMAIN s.mshr[c] /\ e \in Packet /\ e.address = a /\ Classed(c, e)
    BY <1>1, <1>5, EntryKind DEF InMshr
  <2>2. /\ m \in Packet /\ m.address = a /\ m.returned = e.returned
        /\ Classed(c, m) /\ (Owes(c, m) <=> Owes(c, p) \/ Owes(c, e))
    BY <1>1, <2>1, ReadMerged
  <2> HIDE DEF m
  <2>3. Sound(SetMshr(s, c, m), {}, {})
    BY <1>1, <2>1, <2>2, MergeSound DEF D
  <2> QED BY <1>5, <2>3 DEF m
<1>6. CASE /\ ~InMshr(s, c, a) /\ ~MshrFull(s, c) /\ (c = "LLC" => ~DramRqFull(s))
           /\ Becomes(SendDown(AddMshr(s, c, p), c, p))
  <2> DEFINE u == AddMshr(s, c, p)
  <2>1. Sound(u, {<< Lower(c), a >>}, {})
    BY <1>1, <1>3, <1>6, AddMshrSound DEF D, InMshr
  <2>2. KeepsDram(s, u)
    BY <1>1, <1>6, AddMshrFile DEF Sound
  <2> HIDE DEF u
  <2>3. c = "LLC" => ~DramRqFull(u)
    BY <1>6, <2>2 DEF KeepsDram, DramRqFull
  <2>4. Sound(SendDown(u, c, p), {}, {})
    BY <1>1, <2>1, <2>3, SendDownSound
  <2> QED BY <1>6, <2>4 DEF u
<1> QED BY <1>2, <1>4, <1>5, <1>6

LEMMA FillMerged ==
  ASSUME NEW c \in Caches, NEW e \in Packet, NEW p \in Packet,
         Classed(c, e), Classed(c, p), e.address = p.address
  PROVE  LET m == MergeFill(e, p)
         IN  /\ m \in Packet /\ m.address = p.address /\ m.returned = e.returned
             /\ Classed(c, m) /\ (Owes(c, m) <=> Owes(c, p) \/ Owes(c, e))
<1> DEFINE m == MergeFill(e, p)
<1>1. /\ m \in Packet /\ m.address = e.address /\ m.returned = e.returned
      /\ m.instruction = e.instruction /\ m.is_data = e.is_data
      /\ m.fill_l1i = (e.fill_l1i \/ p.fill_l1i)
      /\ m.fill_l1d = (e.fill_l1d \/ p.fill_l1d)
      /\ m.fill_level = Least(e.fill_level, p.fill_level)
  BY MergeFillPacket
<1> HIDE DEF m
<1>2. m.instruction \/ m.is_data
  BY <1>1 DEF Classed
<1>3. Classed(c, m) /\ (Owes(c, m) <=> Owes(c, p) \/ Owes(c, e))
  BY <1>1, <1>2, MergedKind
<1> QED BY <1>1, <1>3 DEF m

LEMMA HandlePrefetchSound ==
  ASSUME Sound(State, {}, {}), NEW c \in Caches, HandlePrefetch(c)
  PROVE  \E t : Becomes(t) /\ Sound(t, {}, {})
<1> DEFINE p == Head(pq[c])
           a == p.address
           s == PopPq(State, c)
           D == Debt(c, p)
<1>1. /\ Sound(s, D, {}) /\ p \in Packet /\ PrefetchKind(c, p)
      /\ c \notin {"ITLB", "DTLB", "STLB"}
  <2>1. State.pq[c] = pq[c] /\ pq[c] # << >>
    BY StateFields DEF HandlePrefetch
  <2> QED BY <2>1, PopPqSound
<1>2. \/ Becomes(ReturnUp(s, c, p))
      \/ InMshr(s, c, a) /\ Becomes(SetMshr(s, c, MergeFill(s.mshr[c][a], p)))
      \/ /\ ~InMshr(s, c, a) /\ ~MshrFull(s, c) /\ ~LowerPqFull(s, c)
         /\ Becomes(PrefetchDown(s, c, p))
  BY DEF HandlePrefetch, Handler
<1> HIDE DEF s, p
<1>3. Classed(c, p)
  BY <1>1 DEF PrefetchKind
<1> HIDE DEF D
<1>4. CASE Becomes(ReturnUp(s, c, p))
  <2>1. Sound(ReturnUp(s, c, p), {}, {})
    BY <1>1, <1>3, ReturnUpSound DEF D
  <2> QED BY <1>4, <2>1
<1>5. CASE InMshr(s, c, a) /\ Becomes(SetMshr(s, c, MergeFill(s.mshr[c][a], p)))
  <2> DEFINE e == s.mshr[c][a]
             m == MergeFill(e, p)
  <2>1. a \in DOMAIN s.mshr[c] /\ e \in Packet /\ e.address = a /\ Classed(c, e)
    BY <1>1, <1>5, EntryKind DEF InMshr
  <2>2. /\ m \in Packet /\ m.address = a /\ m.returned = e.returned
        /\ Classed(c, m) /\ (Owes(c, m) <=> Owes(c, p) \/ Owes(c, e))
    BY <1>1, <1>3, <2>1, FillMerged
  <2> HIDE DEF m
  <2>3. Sound(SetMshr(s, c, m), {}, {})
    BY <1>1, <2>1, <2>2, MergeSound DEF D
  <2> QED BY <1>5, <2>3 DEF m
<1>6. CASE /\ ~InMshr(s, c, a) /\ ~MshrFull(s, c) /\ ~LowerPqFull(s, c)
           /\ Becomes(PrefetchDown(s, c, p))
  <2>1. Sound(PrefetchDown(s, c, p), {}, {})
    BY <1>1, <1>6, PrefetchDownSound DEF D, InMshr
  <2> QED BY <1>6, <2>1
<1> QED BY <1>2, <1>4, <1>5, <1>6

LEMMA StoreMerged ==
  ASSUME NEW c \in Caches, NEW e \in Packet, NEW p \in Packet, c \in FirstLevel,
         Classed(c, e), Classed(c, p), e.address = p.address
  PROVE  LET m == MergeStore(e, p)
         IN  /\ m \in Packet /\ m.address = p.address /\ m.returned = e.returned
             /\ Classed(c, m)
<1> DEFINE m == MergeStore(e, p)
<1>1. /\ m \in Packet /\ m.address = e.address /\ m.returned = e.returned
      /\ e.type = "PREFETCH" =>
           /\ m.instruction = p.instruction /\ m.is_data = p.is_data
           /\ m.fill_l1i = p.fill_l1i /\ m.fill_l1d = p.fill_l1d
           /\ m.fill_level = p.fill_level
      /\ e.type # "PREFETCH" =>
           /\ m.instruction = e.instruction /\ m.is_data = e.is_data
           /\ m.fill_l1i = (e.fill_l1i \/ p.fill_l1i)
           /\ m.fill_l1d = (e.fill_l1d \/ p.fill_l1d)
           /\ m.fill_level = Least(e.fill_level, p.fill_level)
  BY MergeStorePacket
<1> HIDE DEF m
<1>2. CASE e.type = "PREFETCH"
  <2>1. Classed(c, m)
    BY <1>1, <1>2 DEF Classed
  <2> QED BY <1>1, <2>1 DEF m
<1>3. CASE e.type # "PREFETCH"
  <2>1. m.instruction \/ m.is_data
    BY <1>1, <1>3 DEF Classed
  <2>2. Classed(c, m)
    BY <1>1, <1>3, <2>1, MergedKind
  <2> QED BY <1>1, <2>2 DEF m
<1> QED BY <1>2, <1>3

(* A store or a written back block owes nobody anything.                   *)
LEMMA WriteOwesNot ==
  ASSUME NEW c \in Caches, NEW p \in Packet, WriteKind(c, p)
  PROVE  ~Owes(c, p) /\ Debt(c, p) = {}
<1>1. CASE c = "L1D"
  <2>1. c \in FirstLevel
    BY <1>1 DEF FirstLevel
  <2> QED BY <2>1, FirstOwesNot DEF Debt
<1>2. CASE c # "L1D"
  <2>1. p.fill_level >= FillLevel(c)
    BY <1>2 DEF WriteKind
  <2>2. p.fill_level \in Int /\ FillLevel(c) \in Int
    BY DEF Packet, FillLevel, FILL_L1, FILL_L2, FILL_LLC
  <2>3. ~Owes(c, p)
    BY <2>1, <2>2 DEF Owes
  <2> QED BY <2>3 DEF Debt
<1> QED BY <1>1, <1>2

LEMMA HandleWritebackSound ==
  ASSUME Sound(State, {}, {}), NEW c \in Caches, HandleWriteback(c)
  PROVE  \E t : Becomes(t) /\ Sound(t, {}, {})
<1> DEFINE p == Head(wq[c])
           a == p.address
           s == PopWq(State, c)
           hits == HitWays(s, c, a)
           way == CHOOSE w \in hits : \A v \in hits : w <= v
           D == Debt(c, p)
<1>1. Sound(s, {}, {}) /\ p \in Packet /\ WriteKind(c, p)
  <2>1. State.wq[c] = wq[c] /\ wq[c] # << >>
    BY StateFields DEF HandleWriteback
  <2> QED BY <2>1, PopWqSound
<1>2. \/ /\ hits # {}
         /\ Becomes(ReturnUp([s EXCEPT !.block[c][way].dirty = TRUE], c, p))
      \/ hits = {} /\ c = "L1D" /\ WriteMissL1D(s, p)
      \/ hits = {} /\ c # "L1D" /\ WriteAllocate(s, c, p)
  BY DEF HandleWriteback, Handler
<1>3. hits # {} => way \in 1 .. WAYS[c] /\ s.block[c][way].tag = a
  <2>1. hits \subseteq 1 .. WAYS[c] /\ \A w \in hits : s.block[c][w].tag = a
    BY DEF HitWays
  <2>2. ASSUME hits # {} PROVE \E w \in hits : \A v \in hits : w <= v
    BY <2>1, <2>2, LeastWay
  <2>3. ASSUME hits # {} PROVE way \in hits
    BY <2>2, <2>3
  <2> QED BY <2>1, <2>3
<1> HIDE DEF way, s, p
<1>4. Typed(s) /\ a \in Addr
  BY <1>1 DEF Sound, Packet
<1>5. ~Owes(c, p) /\ D = {}
  BY <1>1, WriteOwesNot
<1> HIDE DEF D
<1>6. ASSUME NEW u, Sound(u, {}, {})
      PROVE  Sound(ReturnUp(u, c, p), {}, {})
  <2>1. Sound(u, D, {})
    BY <1>5, <1>6
  <2> QED BY <1>1, <1>5, <2>1, ReturnUpSound DEF D
<1>7. CASE /\ hits # {}
           /\ Becomes(ReturnUp([s EXCEPT !.block[c][way].dirty = TRUE], c, p))
  <2> DEFINE yes == TRUE
             u == FillCache(s, c, way, a, yes)
  <2>1. [s EXCEPT !.block[c][way].dirty = TRUE] = u
    <3>1. s.block[c][way] \in Block
      BY <1>3, <1>7, <1>4, WayOk
    <3>2. [s.block[c][way] EXCEPT !.dirty = TRUE] = [tag |-> a, dirty |-> TRUE]
      BY <3>1, <1>3, <1>7, ModifiedBlock
    <3> QED BY <3>2 DEF FillCache
  <2>2. yes \in BOOLEAN
    OBVIOUS
  <2> HIDE DEF yes
  <2>3. Filled(s, u, c, way, a, yes)
    BY <1>3, <1>4, <1>7, <2>2, FillCacheWay
  <2> HIDE DEF u
  <2>4. Sound(u, {}, {})
    BY <1>1, <2>3, FilledSound
  <2>5. Sound(ReturnUp(u, c, p), {}, {})
    BY <1>6, <2>4
  <2> QED BY <1>7, <2>1, <2>5
<1>8. CASE hits = {} /\ c = "L1D" /\ WriteMissL1D(s, p)
  <2>0. Sound(s, D, {}) /\ c \in FirstLevel /\ ReadKind(c, p) /\ Classed(c, p)
    BY <1>1, <1>5, <1>8 DEF WriteKind, ReadKind, FirstLevel
  <2>1. CASE InMshr(s, c, a) /\ Becomes(SetMshr(s, c, MergeStore(s.mshr[c][a], p)))
    <3> DEFINE e == s.mshr[c][a]
               m == MergeStore(e, p)
    <3>1. a \in DOMAIN s.mshr[c] /\ e \in Packet /\ e.address = a /\ Classed(c, e)
      BY <1>1, <2>1, EntryKind DEF InMshr
    <3>2. m \in Packet /\ m.address = a /\ m.returned = e.returned /\ Classed(c, m)
      BY <1>1, <2>0, <3>1, StoreMerged
    <3> HIDE DEF m
    <3>3. ~Owes(c, m) /\ ~Owes(c, e)
      BY <2>0, <3>1, <3>2, FirstOwesNot
    <3>4. Sound(SetMshr(s, c, m), {}, {})
      BY <1>1, <1>5, <2>0, <3>1, <3>2, <3>3, MergeSound DEF D
    <3> QED BY <2>1, <3>4 DEF m
  <2>2. CASE /\ ~InMshr(s, c, a) /\ ~MshrFull(s, c)
             /\ Becomes(SendDown(AddMshr(s, c, p), c, p))
    <3> DEFINE u == AddMshr(s, c, p)
    <3>1. Sound(u, {<< Lower(c), a >>}, {})
      BY <1>1, <2>0, <2>2, AddMshrSound DEF D, InMshr
    <3> HIDE DEF u
    <3>2. Sound(SendDown(u, c, p), {}, {})
      BY <1>1, <1>8, <2>0, <3>1, SendDownSound
    <3> QED BY <2>2, <3>2 DEF u
  <2> QED BY <1>8, <2>1, <2>2 DEF WriteMissL1D, Handler
<1>9. CASE hits = {} /\ c # "L1D" /\ WriteAllocate(s, c, p)
  <2>1. PICK w \in Victims(s, c) :
          /\ CanEvict(s, c, w)
          /\ Becomes(ReturnUp(FillCache(Evict(s, c, w), c, w, a, TRUE), c, p))
    BY <1>9 DEF WriteAllocate, Handler
  <2>2. w \in 1 .. WAYS[c]
    BY DEF Victims
  <2> DEFINE yes == TRUE
             u == FillCache(Evict(s, c, w), c, w, a, yes)
  <2>3. yes \in BOOLEAN
    OBVIOUS
  <2>4. Becomes(ReturnUp(u, c, p))
    BY <2>1
  <2> HIDE DEF yes
  <2>5. Sound(u, {}, {})
    BY <1>1, <1>4, <2>1, <2>2, <2>3, FillSound
  <2> HIDE DEF u
  <2>6. Sound(ReturnUp(u, c, p), {}, {})
    BY <1>6, <2>5
  <2> QED BY <2>4, <2>6
<1> QED BY <1>2, <1>7, <1>8, <1>9

(* handle_fill: the miss pays what it owes, and is given back.             *)
LEMMA PaidSound ==
  ASSUME NEW s, NEW c \in Caches, NEW a \in DOMAIN s.mshr[c], NEW p, p = s.mshr[c][a],
         p.returned, p \in Packet, Classed(c, p), NEW D, D = Debt(c, p), NEW u, Sound(u, D, D),
         KeepsFiles(s, u)
  PROVE  /\ Sound(RemoveMshr(ReturnUp(u, c, p), c, a), {}, {})
         /\ Sound(RemoveMshr(Process(ReturnUp(u, c, p), c, p), c, a), {}, {})
<1> DEFINE v == ReturnUp(u, c, p)
           w == Process(v, c, p)
<1>1. Sound(v, {}, D) /\ Marked(u, v)
  BY ReturnUpSound
<1> HIDE DEF v
<1>2. KeepsFiles(v, w)
  BY <1>1, ProcessSame DEF Sound
<1>3. Sound(w, {}, D)
  BY <1>1, ProcessSound
<1>4. Marked(s, v)
  BY <1>1 DEF Marked, KeepsFiles
<1> HIDE DEF w
<1>5. Marked(s, w)
  BY <1>2, <1>4 DEF Marked, KeepsFiles
<1>6. ASSUME NEW t, Sound(t, {}, D), Marked(s, t)
      PROVE  Sound(RemoveMshr(t, c, a), {}, {})
  <2> DEFINE e == t.mshr[c][a]
  <2>1. a \in DOMAIN t.mshr[c] /\ Alike(e, p) /\ e.returned
    BY <1>6 DEF Marked
  <2>2. Debt(c, e) = D
    BY <2>1 DEF Debt, Owes, Alike
  <2> QED BY <1>6, <2>1, <2>2, RemoveMshrSound
<1> QED BY <1>1, <1>3, <1>4, <1>5, <1>6 DEF w, v

LEMMA HandleFillSound ==
  ASSUME Sound(State, {}, {}), NEW c \in Caches, HandleFill(c)
  PROVE  \E t : Becomes(t) /\ Sound(t, {}, {})
<1> DEFINE s == State
<1>1. s.mshr[c] = mshr[c] /\ Sound(s, {}, {}) /\ Typed(s)
  BY StateFields DEF Sound
<1>2. PICK a \in DOMAIN mshr[c] : mshr[c][a].returned /\ (FillMshr(c, a) \/ BypassLlc(c, a))
  BY DEF HandleFill
<1> DEFINE p == mshr[c][a]
           D == Debt(c, p)
<1> HIDE DEF s
<1>3. /\ a \in DOMAIN s.mshr[c] /\ p = s.mshr[c][a] /\ p \in Packet /\ a \in Addr
      /\ Classed(c, p) /\ p.returned
  BY <1>1, <1>2, EntryKind, EntryOk
<1> HIDE DEF p
<1>4. Sound(s, D, D)
  BY <1>1, <1>3, TakeUpSound
<1>5. CASE FillMshr(c, a)
  <2>1. PICK w \in Victims(s, c) :
          /\ CanEvict(s, c, w)
          /\ LET s1 == FillCache(Evict(s, c, w), c, w, a, c = "L1D" /\ p.type = "RFO")
                 s2 == Process(ReturnUp(s1, c, p), c, p)
             IN  Becomes(RemoveMshr(s2, c, a))
    BY <1>5 DEF FillMshr, Handler, s, p
  <2> DEFINE dirty == c = "L1D" /\ p.type = "RFO"
             u == FillCache(Evict(s, c, w), c, w, a, dirty)
             t == RemoveMshr(Process(ReturnUp(u, c, p), c, p), c, a)
  <2>2. w \in 1 .. WAYS[c] /\ CanEvict(s, c, w) /\ dirty \in BOOLEAN
    BY <2>1 DEF Victims
  <2>3. Becomes(t)
    BY <2>1
  <2> HIDE DEF dirty
  <2>5. Sound(u, D, D) /\ KeepsFiles(s, u)
    BY <1>3, <1>4, <2>2, FillSound
  <2> HIDE DEF u, D
  <2>7. Sound(t, {}, {})
    BY <1>3, <2>5, PaidSound DEF D
  <2> QED BY <2>3, <2>7
<1>6. CASE BypassLlc(c, a)
  <2>1. Becomes(RemoveMshr(ReturnUp(s, c, p), c, a))
    BY <1>6 DEF BypassLlc, Handler, s, p
  <2>2. KeepsFiles(s, s)
    BY DEF KeepsFiles
  <2> HIDE DEF D
  <2>3. Sound(RemoveMshr(ReturnUp(s, c, p), c, a), {}, {})
    BY <1>3, <1>4, <2>2, PaidSound DEF D
  <2> QED BY <2>1, <2>3
<1> QED BY <1>2, <1>5, <1>6

(* The DRAM controller.                                                    *)
LEMMA DramReadSound ==
  ASSUME Sound(State, {}, {}), DramRead
  PROVE  \E t : Becomes(t) /\ Sound(t, {}, {})
<1>1. PICK a \in dramRq : Becomes([ReturnData(State, "LLC", a) EXCEPT !.dramRq = @ \ {a}])
  BY DEF DramRead, Handler
<1> DEFINE s == State
           u == ReturnData(s, "LLC", a)
           D == {<< "DRAM", a >>}
<1>2. a \in s.dramRq /\ a \in Addr /\ Sound(s, {}, {})
  BY StateFields DEF Sound, Typed, States
<1> HIDE DEF s
<1>3. Sound(s, D, D)
  BY <1>2, TakeUpDramSound
<1>4. "DRAM" \in Below /\ Above("DRAM", a) = "LLC"
  BY AboveIs DEF Below
<1>5. Sound(u, {}, D)
  BY <1>2, <1>3, <1>4, PaySound
<1>6. a \in u.dramRq
  BY <1>2, ReturnDataAnswered DEF Answered, KeepsDram, Sound
<1> HIDE DEF u
<1>7. Sound([u EXCEPT !.dramRq = @ \ {a}], {}, {})
  BY <1>5, <1>6, RemoveDramSound
<1> QED BY <1>1, <1>7 DEF u, s

LEMMA DramWriteSound ==
  ASSUME Sound(State, {}, {}), DramWrite
  PROVE  \E t : Becomes(t) /\ Sound(t, {}, {})
<1>1. PICK a \in dramWq : Becomes([State EXCEPT !.dramWq = @ \ {a}])
  BY DEF DramWrite, Handler
<1> DEFINE s == State
           W == s.dramWq \ {a}
           t == PutDram(s, s.dramRq, W)
<1>2. Typed(s) /\ Sound(s, {}, {})
  BY DEF Sound
<1>a. Becomes([s EXCEPT !.dramWq = @ \ {a}])
  BY <1>1
<1> HIDE DEF s
<1>3. W \in SUBSET Addr /\ s.dramRq \in SUBSET Addr /\ IsFiniteSet(W) /\ Cardinality(W) <= DRAM_WQ_SIZE
  <2>1. s.dramWq \in SUBSET Addr /\ s.dramRq \in SUBSET Addr
    BY <1>2 DEF Typed, States
  <2>2. IsFiniteSet(s.dramWq) /\ Cardinality(s.dramWq) <= DRAM_WQ_SIZE /\ DRAM_WQ_SIZE \in Nat
    BY <1>2, SizeAssumption DEF Typed
  <2>3. IsFiniteSet(W) /\ Cardinality(W) <= Cardinality(s.dramWq)
    BY <2>2, FS_Subset
  <2>4. Cardinality(W) \in Nat /\ Cardinality(s.dramWq) \in Nat
    BY <2>2, <2>3, FS_CardinalityType
  <2> QED BY <2>1, <2>2, <2>3, <2>4
<1>4. [s EXCEPT !.dramWq = @ \ {a}] = t
  BY <1>2 DEF PutDram, Typed, States
<1> HIDE DEF W
<1>5. /\ Typed(t) /\ t.dramRq = s.dramRq /\ KeepsQueues(s, t) /\ KeepsFiles(s, t)
      /\ t.asserts = s.asserts
  BY <1>2, <1>3, WithDram
<1> HIDE DEF t
<1>6. WqKinds(t)
  BY <1>2, <1>5 DEF Sound, WqKinds, KeepsQueues
<1>7. Sound(t, {}, {})
  BY <1>2, <1>5, <1>6, SameLedger DEF KeepsQueues
<1> QED BY <1>a, <1>4, <1>7

(* The core takes an answer.                                               *)
LEMMA DeliverSound ==
  ASSUME Sound(State, {}, {}), NEW c \in Caches, Deliver(c)
  PROVE  \E t : Becomes(t) /\ Sound(t, {}, {})
<1> DEFINE s == State
           q == Tail(s.processed[c])
           t == PutProcessed(s, c, q)
<1>1. Typed(s) /\ Sound(s, {}, {}) /\ s.processed[c] = processed[c] /\ processed[c] # << >>
  BY StateFields DEF Sound, Deliver
<1>2. Becomes([s EXCEPT !.processed[c] = Tail(@)])
  BY DEF Deliver
<1> HIDE DEF s
<1>3. processed[c] \in Seq(SUBSET Demand)
  BY <1>1 DEF Typed, States
<1>4. q \in Seq(SUBSET Demand)
  BY <1>1, <1>3, HeadTailProperties
<1>5. Becomes(t)
  BY <1>2 DEF PutProcessed
<1> HIDE DEF q
<1>6. /\ Typed(t) /\ KeepsQueues(s, t) /\ KeepsFiles(s, t) /\ KeepsDram(s, t)
      /\ t.asserts = s.asserts
  BY <1>1, <1>4, WithProcessed
<1> HIDE DEF t
<1>7. WqKinds(t)
  BY <1>1, <1>6 DEF Sound, WqKinds, KeepsQueues
<1>8. Sound(t, {}, {})
  BY <1>1, <1>6, <1>7, SameLedger DEF KeepsQueues, KeepsDram
<1> QED BY <1>5, <1>8

(* What the core and the prefetchers ask for.                              *)
LEMMA RequestKind ==
  ASSUME NEW c \in Caches, NEW a \in CodeAddr \cup DataAddr, Fits(c, a), NEW w \in Word,
         NEW type \in {"LOAD", "RFO", "PREFETCH"}, NEW instr \in BOOLEAN,
         NEW level \in {1, 2, 4}, instr <=> a \in CodeAddr /\ level = 1,
         NEW ws \in SUBSET Demand
  PROVE  LET p == Request(a, w, type, instr, level, ws)
         IN  p \in Packet /\ Classed(c, p) /\ p.fill_level = level
<1> DEFINE p == Request(a, w, type, instr, level, ws)
<1>1. a \in Addr
  BY SizeAssumption
<1>2. /\ p \in Packet /\ p.address = a /\ p.fill_level = level
      /\ p.instruction = instr /\ p.is_data = ~instr /\ p.fill_l1i = instr
      /\ p.fill_l1d = (~instr /\ level = 1)
  BY <1>1, RequestPacket
<1> HIDE DEF p
<1>3. Classed(c, p)
  BY <1>2 DEF Classed
<1> QED BY <1>2, <1>3 DEF p

LEMMA AskSound ==
  ASSUME Sound(State, {}, {}), issued \in Counters, NEW c \in Caches \cap FirstLevel,
         NEW a \in CodeAddr \cup DataAddr, Fits(c, a), NEW w \in Word,
         NEW type \in {"LOAD", "RFO"}, NEW instr \in BOOLEAN, instr <=> a \in CodeAddr,
         Ask(c, a, w, type, instr)
  PROVE  \E t : Becomes(t) /\ Sound(t, {}, {})
<1> DEFINE ws == {issued.demand + 1}
           p == Request(a, w, type, instr, FILL_L1, ws)
<1>1. issued.demand < MaxDemand /\ Becomes(AddRq(State, c, p))
  BY DEF Ask
<1>2. MaxDemand \in Nat /\ issued.demand \in Nat
  BY SizeAssumption DEF Counters
<1>3. ws \in SUBSET Demand
  BY <1>1, <1>2 DEF Demand
<1> HIDE DEF ws
<1>4. FILL_L1 \in {1, 2, 4} /\ FILL_L1 = 1 /\ type \in {"LOAD", "RFO", "PREFETCH"}
  BY DEF FILL_L1
<1>5. p \in Packet /\ Classed(c, p) /\ p.fill_level = 1
  BY <1>3, <1>4, RequestKind
<1> HIDE DEF p
<1>6. ReadKind(c, p)
  BY <1>5 DEF ReadKind
<1> DEFINE D == Debt(c, p)
<1>7. D = {}
  BY <1>5, FirstOwesNot DEF Debt
<1> HIDE DEF D
<1>8. Sound(State, D, {})
  BY <1>7
<1>9. Sound(AddRq(State, c, p), {}, {})
  BY <1>5, <1>6, <1>8, AddRqSound DEF D
<1> QED BY <1>1, <1>9

LEMMA StoreSound ==
  ASSUME CodeAddr \cap DataAddr = {}, Sound(State, {}, {}), Store
  PROVE  \E t : Becomes(t) /\ Sound(t, {}, {})
<1> DEFINE c == "L1D"
           s == State
<1>1. PICK a \in DataAddr, w \in Word :
        Becomes(AddWq(s, c, Request(a, w, "RFO", FALSE, FILL_L1, {})))
  BY DEF Store
<1>2. c \in Caches /\ Len(s.wq[c]) < WQ_SIZE[c]
  BY StateFields DEF Store
<1> DEFINE p == Request(a, w, "RFO", FALSE, FILL_L1, {})
           q == Append(s.wq[c], p)
           t == PutWq(s, c, q)
<1>3. Typed(s) /\ Sound(s, {}, {})
  BY DEF Sound
<1> HIDE DEF s, c
<1>4. p \in Packet /\ WriteKind(c, p)
  <2> DEFINE instr == FALSE
             ws == {}
             r == Request(a, w, "RFO", instr, FILL_L1, ws)
  <2>1. /\ a \in CodeAddr \cup DataAddr /\ Fits(c, a)
        /\ (instr <=> a \in CodeAddr /\ FILL_L1 = 1)
        /\ FILL_L1 \in {1, 2, 4} /\ FILL_L1 = 1 /\ ws \in SUBSET Demand /\ instr \in BOOLEAN
        /\ "RFO" \in {"LOAD", "RFO", "PREFETCH"}
    BY DEF FILL_L1, Fits, c
  <2>2. r = p
    OBVIOUS
  <2> HIDE DEF instr, ws
  <2>3. r \in Packet /\ Classed(c, r) /\ r.fill_level = 1
    BY <1>2, <2>1, RequestKind
  <2> HIDE DEF r, p
  <2> QED BY <2>2, <2>3 DEF WriteKind, c
<1> HIDE DEF p
<1>5. \/ Becomes(s)
      \/ Becomes(t)
  <2>1. /\ c # "DRAM" /\ ~(Len(s.wq[c]) >= WQ_SIZE[c])
    BY <1>2, <1>3, QueueRoom DEF c
  <2>2. AddWq(s, c, p) = IF WqHits(s, c, p) # {} THEN s ELSE t
    BY <2>1 DEF AddWq, PutWq
  <2> QED BY <1>1, <2>2 DEF p
<1>6. Sound(t, {}, {})
  <2>1. s.wq[c] \in Seq(Packet) /\ Len(s.wq[c]) + 1 <= WQ_SIZE[c]
    BY <1>2, <1>3, QueueRoom
  <2>2. q \in Seq(Packet) /\ Len(q) <= WQ_SIZE[c] /\ In(q) = In(s.wq[c]) \cup {p}
    BY <1>4, <2>1, AppendIn
  <2> HIDE DEF q
  <2>3. /\ Typed(t) /\ t.wq[c] = q /\ \A d \in Caches \ {c} : t.wq[d] = s.wq[d]
        /\ t.rq = s.rq /\ t.pq = s.pq
        /\ KeepsFiles(s, t) /\ KeepsDram(s, t) /\ t.asserts = s.asserts
    BY <1>2, <1>3, <2>2, WithWq
  <2> HIDE DEF t
  <2>4. WqKinds(t)
    BY <1>3, <1>4, <2>2, <2>3 DEF Sound, WqKinds
  <2> QED BY <1>3, <2>3, <2>4, SameLedger DEF KeepsDram
<1> QED BY <1>3, <1>5, <1>6

LEMMA PrefetchSound ==
  ASSUME CodeAddr \cap DataAddr = {}, Sound(State, {}, {}), NEW c \in Caches, Prefetch(c)
  PROVE  \E t : Becomes(t) /\ Sound(t, {}, {})
<1>1. PICK level \in PrefetchLevels(c), a \in PrefetchAddr(c) :
        Becomes(AddPq(State, c, Request(a, AnyWord, "PREFETCH", c = "L1I", level, {})))
  BY DEF Prefetch
<1> DEFINE instr == c = "L1I"
           ws == {}
           p == Request(a, AnyWord, "PREFETCH", instr, level, ws)
<1>2. /\ c \notin {"ITLB", "DTLB", "STLB"} /\ level \in {1, 2, 4}
      /\ \/ c \in {"L1I", "L1D"} /\ level = 1
         \/ c = "L2C" /\ level >= 2
         \/ c = "LLC" /\ level = 4
  <2>1. level \in PrefetchLevels(c)
    OBVIOUS
  <2>2. PrefetchLevels(c) = IF c \in {"L1I", "L1D"} THEN {1} ELSE IF c = "L2C" THEN {2, 4}
                            ELSE IF c = "LLC" THEN {4} ELSE {}
    BY DEF PrefetchLevels, FILL_L1, FILL_L2, FILL_LLC
  <2>3. \/ c \in {"L1I", "L1D"} /\ level = 1
        \/ c = "L2C" /\ level \in {2, 4}
        \/ c = "LLC" /\ level = 4
    BY <2>1, <2>2
  <2> QED BY <2>3
<1>3. AnyWord \in Word
  BY SizeAssumption DEF AnyWord
<1>4. Becomes(AddPq(State, c, p))
  BY <1>1
<1>5. /\ a \in CodeAddr \cup DataAddr /\ Fits(c, a) /\ instr \in BOOLEAN
      /\ instr <=> a \in CodeAddr /\ level = 1
      /\ ws \in SUBSET Demand /\ "PREFETCH" \in {"LOAD", "RFO", "PREFETCH"}
  <2>0. a \in PrefetchAddr(c)
    OBVIOUS
  <2>1. CASE c = "L1I"
    <3>1. a \in CodeAddr
      BY <2>0, <2>1 DEF PrefetchAddr
    <3> QED BY <2>1, <3>1, <1>2 DEF Fits
  <2>2. CASE c = "L1D"
    <3>1. a \in DataAddr
      BY <2>0, <2>2 DEF PrefetchAddr
    <3> QED BY <2>2, <3>1, <1>2 DEF Fits
  <2>3. CASE c \in {"L2C", "LLC"}
    <3>1. a \in CodeAddr \cup DataAddr
      BY <2>0, <2>3 DEF PrefetchAddr
    <3> QED BY <2>3, <3>1, <1>2 DEF Fits
  <2> QED BY <1>2, <2>1, <2>2, <2>3
<1> HIDE DEF instr, ws
<1>6. p \in Packet /\ Classed(c, p) /\ p.fill_level = level
  BY <1>2, <1>3, <1>5, RequestKind
<1> HIDE DEF p
<1>7. PrefetchKind(c, p)
  BY <1>2, <1>6 DEF PrefetchKind, FirstLevel
<1>8. ~Owes(c, p)
  <2>1. FillLevel(c) <= level
    BY <1>2, LevelIs DEF FirstLevel
  <2>2. FillLevel(c) \in Int
    BY DEF FillLevel, FILL_L1, FILL_L2, FILL_LLC
  <2> QED BY <1>2, <1>6, <2>1, <2>2 DEF Owes
<1> DEFINE D == Debt(c, p)
<1>9. D = {}
  BY <1>8 DEF Debt
<1> HIDE DEF D
<1>10. Sound(State, D, {})
  BY <1>9
<1>11. Len(State.pq[c]) # PQ_SIZE[c]
  <2>1. Len(pq[c]) < PQ_SIZE[c] /\ State.pq = pq
    BY StateFields DEF Prefetch
  <2>2. Len(State.pq[c]) \in Nat /\ PQ_SIZE[c] \in Nat
    BY QueueRoom DEF Sound
  <2> QED BY <2>1, <2>2
<1>12. Sound(AddPq(State, c, p), {}, {})
  BY <1>2, <1>6, <1>7, <1>10, <1>11, AddPqSound DEF D
<1> QED BY <1>4, <1>12

-------------------------------------------------------------------------------
(* The invariant: between two handlers no debt is in hand.                 *)

AnswerInv == BlockInv /\ Sound(State, {}, {})

CodeApart == CodeAddr \cap DataAddr = {}

LEMMA InitAnswerInv == Init => AnswerInv
<1> SUFFICES ASSUME Init
             PROVE  Sound(State, {}, {})
  BY InitBlockInv DEF AnswerInv
<1> DEFINE s == State
<1>1. /\ Typed(s) /\ s.asserts = {} /\ s.dramRq = {}
      /\ \A c \in Caches : /\ s.rq[c] = << >> /\ s.wq[c] = << >> /\ s.pq[c] = << >>
                           /\ s.mshr[c] = << >>
  BY InitBlockInv, StateFields DEF Init, BlockInv, Shape
<1> HIDE DEF s
<1>2. In(<< >>) = {} /\ Distinct(<< >>) /\ DOMAIN << >> = {}
  BY DEF In, Distinct
<1>3. /\ RqKinds(s) /\ PqKinds(s) /\ WqKinds(s) /\ FileKinds(s)
  BY <1>1, <1>2 DEF RqKinds, PqKinds, WqKinds, FileKinds
<1>5. Owed(s, {}, {})
  <2>1. \A d, a : /\ ~Pending(s, d, a) /\ ~RqOwes(s, d, a) /\ ~PqOwes(s, d, a)
                  /\ ~MshrOwes(s, d, a) /\ ~DramOwes(s, d, a)
    BY <1>1, <1>2 DEF Pending, RqOwes, PqOwes, MshrOwes, DramOwes
  <2> QED BY <2>1 DEF Owed
<1> QED BY <1>1, <1>3, <1>5 DEF Sound, s

LEMMA StepAnswerInv ==
  ASSUME CodeApart
  PROVE  AnswerInv /\ [Next]_vars => AnswerInv'
<1> SUFFICES ASSUME AnswerInv, [Next]_vars
             PROVE  AnswerInv'
  OBVIOUS
<1>0. Sound(State, {}, {}) /\ issued \in Counters /\ CodeAddr \cap DataAddr = {}
  BY DEF AnswerInv, BlockInv, CodeApart
<1>1. BlockInv'
  BY StepBlockInv DEF AnswerInv
<1> DEFINE Goal == AnswerInv'
<1>2. ASSUME \E t : Becomes(t) /\ Sound(t, {}, {})
      PROVE  Goal
  <2>1. PICK t : Becomes(t) /\ Sound(t, {}, {})
    BY <1>2
  <2>2. State' = t
    BY <2>1, BecomesState DEF Sound
  <2>3. Sound(State, {}, {})'
    BY <2>1, <2>2
  <2> QED BY <1>1, <2>3 DEF AnswerInv
<1>3. CASE UNCHANGED vars
  <2>1. State' = State
    BY <1>3 DEF vars, State
  <2>2. Sound(State, {}, {})'
    BY <1>0, <2>1
  <2> QED BY <1>1, <2>2 DEF AnswerInv
<1> SUFFICES Goal
  OBVIOUS
<1> HIDE DEF Goal
<1>4. ASSUME NEW c \in Caches, HandlerOf(c) \/ Deliver(c) \/ Prefetch(c)
      PROVE  Goal
  BY <1>0, <1>2, <1>4, HandleFillSound, HandleWritebackSound, HandleReadSound,
     HandlePrefetchSound, DeliverSound, PrefetchSound DEF HandlerOf
<1>5. CASE DramRead \/ DramWrite \/ Store
  BY <1>0, <1>2, <1>5, DramReadSound, DramWriteSound, StoreSound
<1>6. ASSUME NEW c \in FirstLevel, NEW a \in CodeAddr \cup DataAddr, Fits(c, a),
             NEW w \in Word, NEW type \in {"LOAD", "RFO"}, NEW instr \in BOOLEAN,
             instr <=> a \in CodeAddr, Ask(c, a, w, type, instr)
      PROVE  Goal
  <2>1. c \in Caches \cap FirstLevel
    BY <1>6 DEF Ask
  <2> QED BY <1>0, <1>2, <1>6, <2>1, AskSound
<1>w. AnyWord \in Word /\ {"L1I", "ITLB", "L1D", "DTLB"} \subseteq FirstLevel
  BY SizeAssumption DEF AnyWord, FirstLevel
<1>7. CASE Fetch
  <2> DEFINE yes == TRUE
  <2>1. PICK a \in CodeAddr, c \in {"L1I", "ITLB"} : Ask(c, a, AnyWord, "LOAD", yes)
    BY <1>7 DEF Fetch
  <2>2. yes \in BOOLEAN /\ (yes <=> a \in CodeAddr)
    OBVIOUS
  <2> HIDE DEF yes
  <2>3. Fits(c, a)
    BY DEF Fits
  <2> QED BY <1>6, <1>w, <2>1, <2>2, <2>3
<1>8. CASE Load \/ Translate
  <2> DEFINE no == FALSE
  <2>1. PICK a \in DataAddr, w \in Word, c \in {"L1D", "DTLB"}, type \in {"LOAD", "RFO"} :
          Ask(c, a, w, type, no)
    <3>1. CASE Load
      BY <3>1 DEF Load
    <3>2. CASE Translate
      BY <3>2, <1>w DEF Translate
    <3> QED BY <1>8, <3>1, <3>2
  <2>2. no \in BOOLEAN /\ (no <=> a \in CodeAddr)
    BY <1>0
  <2> HIDE DEF no
  <2>3. Fits(c, a)
    BY <1>0 DEF Fits
  <2> QED BY <1>6, <1>w, <2>1, <2>2, <2>3
<1>9. CASE Finished
  BY <1>3, <1>9 DEF Finished, Goal
<1> QED BY <1>3, <1>4, <1>5, <1>7, <1>8, <1>9 DEF Next, Goal

(* No assert(0) is reached: an answer always finds its miss in flight      *)
(* (return_data), and a write queue that is written to has room (add_wq).  *)
THEOREM NoFailedAssert ==
  ASSUME CodeApart
  PROVE  Spec => []NoAssert
<1>1. AnswerInv => NoAssert
  BY StateFields DEF AnswerInv, Sound, NoAssert
<1> QED BY <1>1, InitAnswerInv, StepAnswerInv, PTL DEF Spec

(* A packet that owes the level above an answer names the right cache.     *)
LEMMA OwesAnswers ==
  ASSUME NEW d \in {"STLB", "L2C", "LLC"}, NEW p \in Packet, Classed(d, p), Owes(d, p)
  PROVE  Answers(p, d, Above(d, p.address))
<1>1. p.fill_level < FillLevel(d) /\ p.fill_level \in {1, 2, 4, 8}
  BY DEF Owes, Packet
<1>2. Above(d, p.address) = IF p.address \in CodeAddr THEN UpperInstr(d) ELSE UpperData(d)
  BY DEF Above
<1>3. FillLevel(d) = FILL_L2 => p.fill_level = 1
  BY <1>1, LevelIs DEF FILL_L2
<1> QED BY <1>1, <1>2, <1>3 DEF Answers, Classed

(* A miss that waits is awaited below: some queue or MSHR of the lower     *)
(* level holds a packet that will answer it, whatever was merged into      *)
(* what.                                                                   *)
THEOREM EveryMissAwaited ==
  ASSUME CodeApart
  PROVE  Spec => []NoOrphan
<1>1. AnswerInv => NoOrphan
  <2> SUFFICES ASSUME AnswerInv, NEW c \in Caches, NEW a \in DOMAIN mshr[c],
                      ~mshr[c][a].returned
               PROVE  Awaited(c, a)
    BY DEF NoOrphan
  <2> DEFINE s == State
  <2>1. /\ Sound(s, {}, {}) /\ s.rq = rq /\ s.pq = pq /\ s.mshr = mshr
        /\ s.dramRq = dramRq
    BY StateFields DEF AnswerInv
  <2> DEFINE d == Lower(c)
  <2> HIDE DEF s
  <2>2. Classed(c, s.mshr[c][a]) /\ s.mshr[c][a].address = a /\ a \in Addr
    BY <2>1, EntryKind, EntryOk DEF Sound
  <2>3. d \in Below /\ Above(d, a) = c
    BY <2>2, AboveLower DEF Classed
  <2>4. Pending(s, Above(d, a), a)
    BY <2>1, <2>3 DEF Pending
  <2>5. RqOwes(s, d, a) \/ PqOwes(s, d, a) \/ MshrOwes(s, d, a) \/ DramOwes(s, d, a)
    <3>1. Owed(s, {}, {})
      BY <2>1 DEF Sound
    <3> QED BY <2>2, <2>3, <2>4, <3>1 DEF Owed
  <2>6. CASE d = "DRAM"
    <3>1. DramOwes(s, d, a)
      BY <2>5, <2>6, CachesAre DEF RqOwes, PqOwes, MshrOwes
    <3> QED BY <2>1, <2>6, <3>1 DEF DramOwes, Awaited
  <2>7. CASE d # "DRAM"
    <3>0. d \in Caches /\ d \in {"STLB", "L2C", "LLC"}
      BY <2>3, <2>5, <2>7, CachesAre DEF RqOwes, PqOwes, MshrOwes, DramOwes, Below
    <3>1. ASSUME NEW p \in Packet, Classed(d, p), p.address = a, Owes(d, p)
          PROVE  Answers(p, d, c)
      BY <2>3, <3>0, <3>1, OwesAnswers
    <3>2. s.rq[d] \in Seq(Packet) /\ s.pq[d] \in Seq(Packet)
      BY <2>1, <3>0 DEF Sound, Typed, States
    <3>3. CASE RqOwes(s, d, a)
      <4>1. PICK k \in DOMAIN s.rq[d] : s.rq[d][k].address = a /\ Owes(d, s.rq[d][k])
        BY <3>3 DEF RqOwes, In
      <4>2. s.rq[d][k] \in Packet /\ Classed(d, s.rq[d][k])
        BY <2>1, <3>0, <3>2, <4>1 DEF Sound, RqKinds, ReadKind, In
      <4>3. k \in QueueHits(rq[d], a) /\ Answers(rq[d][k], d, c)
        BY <2>1, <3>1, <4>1, <4>2 DEF QueueHits
      <4> QED BY <2>7, <4>3 DEF Awaited
    <3>4. CASE PqOwes(s, d, a)
      <4>1. PICK k \in DOMAIN s.pq[d] : s.pq[d][k].address = a /\ Owes(d, s.pq[d][k])
        BY <3>4 DEF PqOwes, In
      <4>2. s.pq[d][k] \in Packet /\ Classed(d, s.pq[d][k])
        BY <2>1, <3>0, <3>2, <4>1 DEF Sound, PqKinds, PrefetchKind, In
      <4>3. k \in QueueHits(pq[d], a) /\ Answers(pq[d][k], d, c)
        BY <2>1, <3>1, <4>1, <4>2 DEF QueueHits
      <4> QED BY <2>7, <4>3 DEF Awaited
    <3>5. CASE MshrOwes(s, d, a)
      <4>1. a \in DOMAIN s.mshr[d] /\ Owes(d, s.mshr[d][a])
        BY <3>5 DEF MshrOwes
      <4>2. s.mshr[d][a] \in Packet /\ s.mshr[d][a].address = a /\ Classed(d, s.mshr[d][a])
        BY <2>1, <3>0, <4>1, EntryKind
      <4>3. InMshr(s, d, a) /\ Answers(mshr[d][a], d, c)
        BY <2>1, <3>1, <4>1, <4>2 DEF InMshr
      <4> QED BY <2>7, <4>3 DEF Awaited, s
    <3> QED BY <2>5, <2>7, <3>3, <3>4, <3>5 DEF DramOwes
  <2> QED BY <2>6, <2>7
<1> QED BY <1>1, InitAnswerInv, StepAnswerInv, PTL DEF Spec
===============================================================================
