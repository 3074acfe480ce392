-------------------------- MODULE ReorderBufferProofs --------------------------
(***************************************************************************)
(* The register side of the out-of-order core, for any size of the core,   *)
(* any registers and any programs: instructions wait for the registers     *)
(* they read, no longer than they have to, and are listed once when they   *)
(* may execute.  What the load and store queues do is kept apart: all that *)
(* is used of LoadStoreQueue is that its operators are Alike, that is      *)
(* leave every field alone that RobInv reads.                              *)
(***************************************************************************)
EXTENDS ReorderBuffer, SequenceTheorems, FiniteSetTheorems, FunctionTheorems, WellFoundedInduction, TLAPS

(* The slot of the k-th oldest entry of the ring that starts at h.         *)
At(h, k) == IF h + k - 1 < ROB_SIZE THEN h + k - 1 ELSE h + k - 1 - ROB_SIZE

Held == dispatched - retired

EntryFields == DOMAIN EmptyEntry

Types ==
  /\ program \in Seq(Instr)
  /\ head \in Slots /\ next_schedule \in Slots
  /\ retired \in Nat /\ dispatched \in retired .. Len(program)
  /\ DOMAIN ROB = Slots
  /\ \A i \in Slots :
       /\ DOMAIN ROB[i] = EntryFields /\ ROB[i].id \in 0 .. Len(program)
       /\ ROB[i].scheduled \in 0 .. COMPLETED /\ ROB[i].executed \in 0 .. COMPLETED
       /\ ROB[i].num_reg_dependent \in Nat /\ ROB[i].reg_ready \in BOOLEAN
       /\ ROB[i].reg_deps \subseteq Slots \X Reg

(* The entries in use are the slots from head on, in program order.        *)
Ring ==
  /\ Held <= ROB_SIZE /\ tail = At(head, Held + 1)
  /\ \A k \in 1 .. Held : ROB[At(head, k)].id = retired + k
  /\ \A k \in 1 .. ROB_SIZE : k > Held => ROB[At(head, k)].id = NoId

(* Instructions are scheduled in program order.                            *)
Prefix ==
  \A i \in LiveRob, k \in LiveRob :
    ROB[k].id < ROB[i].id /\ ROB[i].scheduled # 0 => ROB[k].scheduled # 0

(* What an unexecuted entry owes, it owes to a younger one that reads it.  *)
Debts ==
  \A p \in LiveRob : ROB[p].executed # COMPLETED =>
    \A o \in ROB[p].reg_deps :
      /\ o[1] \in LiveRob /\ ROB[o[1]].scheduled # 0 /\ ROB[p].id < ROB[o[1]].id
      /\ o[2] \in program[ROB[o[1]].id].reads

(* In the trace t, m is the last before n that writes r.                   *)
LastWriter(t, m, n, r) ==
  m < n /\ r \in t[m].writes /\ \A k \in m + 1 .. n - 1 : r \notin t[k].writes

Sources ==
  \A i \in LiveRob, p \in LiveRob : ROB[i].scheduled # 0 =>
    \A r \in program[ROB[i].id].reads :
      LastWriter(program, ROB[p].id, ROB[i].id, r) =>
        ROB[p].executed = COMPLETED \/ << i, r >> \in ROB[p].reg_deps

(* IsMemory in the variables.                                              *)
Memory(i) ==
  ROB[i].id # NoId /\ Len(program[ROB[i].id].loads) + Len(program[ROB[i].id].stores) > 0

Placed(i) == \E x \in Range(ROB[i].lq) \cup Range(ROB[i].sq) : x # NoIndex

Stages ==
  \A i \in Slots :
    /\ ROB[i].id = NoId => ROB[i].scheduled = 0
    /\ ROB[i].executed # 0 \/ Placed(i) => ROB[i].scheduled # 0 /\ ROB[i].reg_ready
    /\ Memory(i) /\ ROB[i].scheduled = COMPLETED => ROB[i].reg_ready

Waits(i) ==
  ROB[i].scheduled = COMPLETED /\ ~Memory(i) /\ ROB[i].executed = 0 /\ ROB[i].reg_ready

(* RTE0 and RTE1 together list the instructions that may execute, once.    *)
Queued ==
  /\ RTE0 \in Seq(Slots) /\ RTE1 \in Seq(Slots)
  /\ IsInjective(RTE0) /\ IsInjective(RTE1) /\ Range(RTE0) \cap Range(RTE1) = {}
  /\ Range(RTE0) \cup Range(RTE1) = {i \in Slots : Waits(i)}

RobInv == Types /\ Ring /\ Prefix /\ Debts /\ Sources /\ Stages /\ Queued /\ WakeupsCounted

-------------------------------------------------------------------------------
(* States as records: what the operators of LoadStoreQueue leave alone.    *)

StateFields ==
  {"program", "ROB", "head", "tail", "next_schedule", "LQ", "SQ", "sq_tail", "STA", "RTE0",
   "RTE1", "RTL0", "RTL1", "RTS0", "RTS1", "dtlb", "l1d", "wq", "inflight_reg",
   "inflight_mem", "dispatched", "retired", "memory", "seen", "asserts"}

Shaped(s) ==
  /\ DOMAIN s = StateFields /\ DOMAIN s.ROB = Slots
  /\ \A p \in Slots : DOMAIN s.ROB[p] = EntryFields

SameCore(s, t) ==
  /\ t.program = s.program /\ t.head = s.head /\ t.tail = s.tail
  /\ t.next_schedule = s.next_schedule /\ t.RTE0 = s.RTE0 /\ t.RTE1 = s.RTE1
  /\ t.dispatched = s.dispatched /\ t.retired = s.retired

SameEntry(e, f) ==
  /\ f.id = e.id /\ f.reg_ready = e.reg_ready /\ f.scheduled = e.scheduled
  /\ f.executed = e.executed /\ f.num_reg_dependent = e.num_reg_dependent
  /\ f.reg_deps = e.reg_deps

SamePlaces(e, f) == f.lq = e.lq /\ f.sq = e.sq

(* t is s but for the memory operations, and has placed no operation but   *)
(* those of the instruction at i.                                          *)
Alike(s, t, i) ==
  /\ Shaped(t) /\ SameCore(s, t)
  /\ \A p \in Slots : /\ SameEntry(s.ROB[p], t.ROB[p])
                      /\ p # i => SamePlaces(s.ROB[p], t.ROB[p])

LEMMA AlikeSelf ==
  ASSUME NEW s, Shaped(s), NEW i
  PROVE  Alike(s, s, i)
BY DEF Alike, SameCore, SameEntry, SamePlaces

LEMMA AlikeNext ==
  ASSUME NEW s, NEW t, NEW u, NEW i, Alike(s, t, i), Alike(t, u, i)
  PROVE  Alike(s, u, i)
BY DEF Alike, SameCore, SameEntry, SamePlaces

Aside == {"program", "head", "tail", "next_schedule", "RTE0", "RTE1", "dispatched", "retired"}

(* Fields that are not the core's may become anything.                     *)
LEMMA AlikeFields ==
  ASSUME NEW s, Shaped(s), NEW i, NEW t, DOMAIN t = StateFields,
         \A g \in Aside : t[g] = s[g], t.ROB = s.ROB
  PROVE  Alike(s, t, i)
<1>1. SameCore(s, t)
  BY DEF SameCore, Aside
<1> QED BY <1>1 DEF Alike, Shaped, SameEntry, SamePlaces

(* So may, in an entry, the fields that count memory operations.           *)
LEMMA AlikeEntry ==
  ASSUME NEW s, Shaped(s), NEW i, NEW t, DOMAIN t = StateFields,
         \A g \in Aside : t[g] = s[g], NEW k, NEW x, NEW f \in {"num_mem_ops", "mem_deps"},
         t.ROB = [s.ROB EXCEPT ![k] = [@ EXCEPT ![f] = x]]
  PROVE  Alike(s, t, i)
<1>1. SameCore(s, t)
  BY DEF SameCore, Aside
<1>2. DOMAIN t.ROB = Slots
  BY DEF Shaped
<1>3. ASSUME NEW p \in Slots
      PROVE  DOMAIN t.ROB[p] = EntryFields /\ SameEntry(s.ROB[p], t.ROB[p]) /\ SamePlaces(s.ROB[p], t.ROB[p])
  <2>1. CASE p = k
    <3>1. t.ROB[p] = [s.ROB[p] EXCEPT ![f] = x]
      BY <2>1 DEF Shaped
    <3> QED BY <3>1 DEF Shaped, SameEntry, SamePlaces, EntryFields, EmptyEntry
  <2>2. CASE p # k
    <3>1. t.ROB[p] = s.ROB[p]
      BY <2>2 DEF Shaped
    <3> QED BY <3>1 DEF Shaped, SameEntry, SamePlaces
  <2> QED BY <2>1, <2>2
<1> QED BY <1>1, <1>2, <1>3 DEF Alike, Shaped

(* A place of the instruction at i may be filled.                          *)
LEMMA AlikePlace ==
  ASSUME NEW s, Shaped(s), NEW i, NEW t, DOMAIN t = StateFields,
         \A g \in Aside : t[g] = s[g], NEW x, NEW f \in {"lq", "sq"},
         t.ROB = [s.ROB EXCEPT ![i] = [@ EXCEPT ![f] = x]]
  PROVE  Alike(s, t, i)
<1>1. SameCore(s, t)
  BY DEF SameCore, Aside
<1>2. DOMAIN t.ROB = Slots
  BY DEF Shaped
<1>3. ASSUME NEW p \in Slots
      PROVE  DOMAIN t.ROB[p] = EntryFields /\ SameEntry(s.ROB[p], t.ROB[p])
             /\ (p # i => SamePlaces(s.ROB[p], t.ROB[p]))
  <2>1. CASE p = i
    <3>1. t.ROB[p] = [s.ROB[p] EXCEPT ![f] = x]
      BY <2>1 DEF Shaped
    <3> QED BY <2>1, <3>1 DEF Shaped, SameEntry, EntryFields, EmptyEntry
  <2>2. CASE p # i
    <3>1. t.ROB[p] = s.ROB[p]
      BY <2>2 DEF Shaped
    <3> QED BY <3>1 DEF Shaped, SameEntry, SamePlaces
  <2> QED BY <2>1, <2>2
<1> QED BY <1>1, <1>2, <1>3 DEF Alike, Shaped

LEMMA TranslateStoreAlike ==
  ASSUME NEW s, Shaped(s), NEW i
  PROVE  Alike(s, TranslateStore(s), i)
<1> DEFINE t == TranslateStore(s)
<1>1. DOMAIN t = StateFields
  BY DEF TranslateStore, Shaped
<1>2. t.ROB = s.ROB /\ \A g \in Aside : t[g] = s[g]
  BY DEF TranslateStore, Shaped, StateFields, Aside
<1> HIDE DEF t
<1> QED BY <1>1, <1>2, AlikeFields DEF t

LEMMA OpsDoneAlike ==
  ASSUME NEW s, Shaped(s), NEW i, NEW k, NEW n
  PROVE  Alike(s, OpsDone(s, k, n), i)
<1> DEFINE t == OpsDone(s, k, n)
<1>1. DOMAIN t = StateFields
  BY DEF OpsDone, Shaped
<1>2. t.ROB = [s.ROB EXCEPT ![k] = [@ EXCEPT !["num_mem_ops"] = s.ROB[k].num_mem_ops - n]]
  BY DEF OpsDone, Shaped, StateFields
<1>3. \A g \in Aside : t[g] = s[g]
  BY DEF OpsDone, Shaped, StateFields, Aside
<1> HIDE DEF t
<1> QED BY <1>1, <1>2, <1>3, AlikeEntry DEF t

LEMMA TranslateLoadAlike ==
  ASSUME NEW s, Shaped(s), NEW i
  PROVE  Alike(s, TranslateLoad(s), i)
<1> DEFINE t == TranslateLoad(s)
<1>1. DOMAIN t = StateFields
  BY DEF TranslateLoad, Shaped
<1>2. t.ROB = s.ROB /\ \A g \in Aside : t[g] = s[g]
  BY DEF TranslateLoad, Shaped, StateFields, Aside
<1> HIDE DEF t
<1> QED BY <1>1, <1>2, AlikeFields DEF t

LEMMA ExecuteLoadAlike ==
  ASSUME NEW s, Shaped(s), NEW i
  PROVE  Alike(s, ExecuteLoad(s), i)
<1> DEFINE t == ExecuteLoad(s)
<1>1. DOMAIN t = StateFields
  BY DEF ExecuteLoad, Shaped
<1>2. t.ROB = s.ROB /\ \A g \in Aside : t[g] = s[g]
  BY DEF ExecuteLoad, Shaped, StateFields, Aside
<1> HIDE DEF t
<1> QED BY <1>1, <1>2, AlikeFields DEF t

LEMMA SeesAlike ==
  ASSUME NEW s, Shaped(s), NEW i, NEW q, NEW from
  PROVE  Alike(s, Sees(s, q, from), i)
<1> DEFINE t == Sees(s, q, from)
<1>1. DOMAIN t = StateFields
  BY DEF Sees, Shaped
<1>2. t.ROB = s.ROB /\ \A g \in Aside : t[g] = s[g]
  BY DEF Sees, Shaped, StateFields, Aside
<1> HIDE DEF t
<1> QED BY <1>1, <1>2, AlikeFields DEF t

LEMMA ReleaseLoadQueueAlike ==
  ASSUME NEW s, Shaped(s), NEW i, NEW q
  PROVE  Alike(s, ReleaseLoadQueue(s, q), i)
<1> DEFINE t == ReleaseLoadQueue(s, q)
<1>1. DOMAIN t = StateFields
  BY DEF ReleaseLoadQueue, Shaped
<1>2. t.ROB = s.ROB /\ \A g \in Aside : t[g] = s[g]
  BY DEF ReleaseLoadQueue, Shaped, StateFields, Aside
<1> HIDE DEF t
<1> QED BY <1>1, <1>2, AlikeFields DEF t

LEMMA CheckRobAlike ==
  ASSUME NEW s, Shaped(s), NEW i, NEW q
  PROVE  Alike(s, CheckRob(s, q), i)
<1> DEFINE t == CheckRob(s, q)
<1>1. DOMAIN t = StateFields
  BY DEF CheckRob, Shaped
<1>2. t.ROB = s.ROB /\ \A g \in Aside : t[g] = s[g]
  BY DEF CheckRob, Shaped, StateFields, Aside
<1> HIDE DEF t
<1> QED BY <1>1, <1>2, AlikeFields DEF t

LEMMA ForwardAlike ==
  ASSUME NEW s, Shaped(s), NEW i, NEW q, NEW from
  PROVE  Alike(s, Forward(s, q, from), i)
<1> DEFINE t == Sees(s, q, from)
           u == OpsDone(t, s.LQ[q].rob_index, 1)
<1>1. Alike(s, t, i) /\ Shaped(t)
  BY SeesAlike DEF Alike
<1>2. Alike(t, u, i) /\ Shaped(u)
  <2> HIDE DEF t
  <2> QED BY <1>1, OpsDoneAlike DEF Alike
<1>3. Alike(u, ReleaseLoadQueue(u, q), i)
  <2> HIDE DEF u
  <2> QED BY <1>2, ReleaseLoadQueueAlike
<1>4. Forward(s, q, from) = ReleaseLoadQueue(u, q)
  BY DEF Forward
<1> HIDE DEF t, u
<1> QED BY <1>1, <1>2, <1>3, <1>4, AlikeNext

LEMMA ForwardToAlike ==
  ASSUME NEW s, Shaped(s), NEW i, NEW x, NEW d, NEW j
  PROVE  Alike(s, ForwardTo(s, x, d, j), i)
<1> DEFINE q == s.ROB[d].lq[j]
           t == [s EXCEPT !.asserts = @ \cup {"producer_id"}]
<1>1. DOMAIN t = StateFields /\ t.ROB = s.ROB /\ \A g \in Aside : t[g] = s[g]
  BY DEF Shaped, StateFields, Aside
<1>2. Alike(s, t, i)
  <2> HIDE DEF t
  <2> QED BY <1>1, AlikeFields
<1>3. Alike(s, Forward(s, q, s.SQ[x].id), i)
  BY ForwardAlike
<1> QED BY <1>2, <1>3 DEF ForwardTo

LEMMA TranslatedAlike ==
  ASSUME NEW s, Shaped(s), NEW i, NEW r
  PROVE  Alike(s, Translated(s, r), i)
<1>1. CASE r[1] = "store"
  <2> DEFINE t == Translated(s, r)
  <2>1. t = [s EXCEPT !.dtlb = @ \ {r}, !.SQ[r[2]].translated = COMPLETED, !.RTS1 = Append(@, r[2])]
    BY <1>1 DEF Translated
  <2>2. DOMAIN t = StateFields /\ t.ROB = s.ROB /\ \A g \in Aside : t[g] = s[g]
    BY <2>1 DEF Shaped, StateFields, Aside
  <2> HIDE DEF t
  <2> QED BY <2>2, AlikeFields DEF t
<1>2. CASE r[1] # "store"
  <2> DEFINE t == Translated(s, r)
             u == CheckRob(s, r[2])
  <2>1. Alike(s, u, i) /\ Shaped(u)
    BY CheckRobAlike DEF Alike
  <2>2. t = [u EXCEPT !.dtlb = @ \ {r}, !.LQ[r[2]].translated = COMPLETED, !.RTL1 = Append(@, r[2])]
    BY <1>2 DEF Translated
  <2> HIDE DEF u, t
  <2>3. DOMAIN t = StateFields /\ t.ROB = u.ROB /\ \A g \in Aside : t[g] = u[g]
    BY <2>1, <2>2 DEF Shaped, StateFields, Aside
  <2>4. Alike(u, t, i)
    BY <2>1, <2>3, AlikeFields
  <2>5. Alike(s, t, i)
    BY <2>1, <2>4, AlikeNext
  <2> QED BY <2>5 DEF t
<1> QED BY <1>1, <1>2

LEMMA FetchedAlike ==
  ASSUME NEW s, Shaped(s), NEW i, NEW q
  PROVE  Alike(s, Fetched(s, q), i)
<1> DEFINE c == CheckRob(s, q)
           d == [c EXCEPT !.l1d = @ \ {q}]
           from == s.memory[LoadAddr(s, q)]
           t == Sees(d, q, from)
           u == OpsDone(t, s.LQ[q].rob_index, 1)
<1>1. Alike(s, c, i) /\ Shaped(c)
  BY CheckRobAlike DEF Alike
<1>2. Alike(c, d, i) /\ Shaped(d)
  <2> HIDE DEF c
  <2>1. DOMAIN d = StateFields /\ d.ROB = c.ROB /\ \A g \in Aside : d[g] = c[g]
    BY <1>1 DEF Shaped, StateFields, Aside
  <2> HIDE DEF d
  <2> QED BY <1>1, <2>1, AlikeFields DEF Alike
<1>3. Alike(d, t, i) /\ Shaped(t)
  <2> HIDE DEF d, from
  <2> QED BY <1>2, SeesAlike DEF Alike
<1>4. Alike(t, u, i) /\ Shaped(u)
  <2> HIDE DEF t
  <2> QED BY <1>3, OpsDoneAlike DEF Alike
<1>5. Alike(u, ReleaseLoadQueue(u, q), i)
  <2> HIDE DEF u
  <2> QED BY <1>4, ReleaseLoadQueueAlike
<1>6. Fetched(s, q) = ReleaseLoadQueue(u, q)
  BY DEF Fetched
<1> HIDE DEF c, d, t, u
<1>7. Alike(s, d, i)
  BY <1>1, <1>2, AlikeNext
<1>8. Alike(s, t, i)
  BY <1>3, <1>7, AlikeNext
<1>9. Alike(s, u, i)
  BY <1>4, <1>8, AlikeNext
<1> QED BY <1>5, <1>6, <1>9, AlikeNext

LEMMA AddStoreQueueAlike ==
  ASSUME NEW s, Shaped(s), NEW i, NEW k
  PROVE  Alike(s, AddStoreQueue(s, i, k), i)
<1> DEFINE t == AddStoreQueue(s, i, k)
<1>1. DOMAIN t = StateFields
  BY DEF AddStoreQueue, Shaped
<1>2. t.ROB = [s.ROB EXCEPT ![i] = [@ EXCEPT !["sq"] = [s.ROB[i].sq EXCEPT ![k] = s.sq_tail]]]
  BY DEF AddStoreQueue, Shaped, StateFields
<1>3. \A g \in Aside : t[g] = s[g]
  BY DEF AddStoreQueue, Shaped, StateFields, Aside
<1> HIDE DEF t
<1> QED BY <1>1, <1>2, <1>3, AlikePlace DEF t

LEMMA MarkProducerAlike ==
  ASSUME NEW s, Shaped(s), NEW i, NEW j, NEW q
  PROVE  Alike(s, MarkProducer(s, i, j, q), i)
<1> DEFINE p == Producer(s, i, Code(s, i).loads[j])
           t == [s EXCEPT !.ROB[p].mem_deps = @ \cup {i},
                          !.LQ[q].producer_id = s.ROB[p].id, !.LQ[q].translated = INFLIGHT]
<1>1. MarkProducer(s, i, j, q) = IF p = NoIndex THEN s ELSE t
  BY DEF MarkProducer
<1> HIDE DEF p
<1>2. DOMAIN t = StateFields
  BY DEF Shaped
<1>3. t.ROB = [s.ROB EXCEPT ![p] = [@ EXCEPT !["mem_deps"] = s.ROB[p].mem_deps \cup {i}]]
  BY DEF Shaped, StateFields
<1>4. \A g \in Aside : t[g] = s[g]
  BY DEF Shaped, StateFields, Aside
<1> HIDE DEF t
<1>5. Alike(s, t, i)
  BY <1>2, <1>3, <1>4, AlikeEntry
<1> QED BY <1>1, <1>5, AlikeSelf

LEMMA AddLoadQueueAlike ==
  ASSUME NEW s, Shaped(s), NEW i, NEW j
  PROVE  Alike(s, AddLoadQueue(s, i, j), i)
<1> DEFINE q == Min(Free(s.LQ))
           u == [s EXCEPT !.LQ[q] = [EmptyLoad EXCEPT !.id = s.ROB[i].id, !.data_index = j, !.rob_index = i],
                          !.ROB[i].lq[j] = q]
           t == MarkProducer(u, i, j, q)
           r == [t EXCEPT !.RTL0 = Append(@, q)]
           f == Forward(t, q, t.LQ[q].producer_id)
<1>1. AddLoadQueue(s, i, j) \in {r, f, t}
  BY DEF AddLoadQueue
<1>2. Alike(s, u, i) /\ Shaped(u)
  <2> HIDE DEF q
  <2>1. DOMAIN u = StateFields
    BY DEF Shaped
  <2>2. u.ROB = [s.ROB EXCEPT ![i] = [@ EXCEPT !["lq"] = [s.ROB[i].lq EXCEPT ![j] = q]]]
    BY DEF Shaped, StateFields
  <2>3. \A g \in Aside : u[g] = s[g]
    BY DEF Shaped, StateFields, Aside
  <2> HIDE DEF u
  <2>4. Alike(s, u, i)
    BY <2>1, <2>2, <2>3, AlikePlace
  <2> QED BY <2>4 DEF Alike
<1>3. Alike(u, t, i) /\ Shaped(t)
  <2> HIDE DEF u, q
  <2> QED BY <1>2, MarkProducerAlike DEF Alike
<1> HIDE DEF t
<1>4. Alike(s, t, i)
  <2> HIDE DEF u, q
  <2> QED BY <1>2, <1>3, AlikeNext
<1>5. Alike(t, r, i)
  <2> HIDE DEF q
  <2>1. DOMAIN r = StateFields /\ r.ROB = t.ROB /\ \A g \in Aside : r[g] = t[g]
    BY <1>3 DEF Shaped, StateFields, Aside
  <2> HIDE DEF r
  <2> QED BY <1>3, <2>1, AlikeFields
<1>6. Alike(t, f, i)
  <2> HIDE DEF q
  <2> QED BY <1>3, ForwardAlike
<1> HIDE DEF q, u, r, f
<1>7. Alike(s, r, i) /\ Alike(s, f, i)
  BY <1>4, <1>5, <1>6, AlikeNext
<1> QED BY <1>1, <1>4, <1>7

LEMMA AddLoadAlike ==
  ASSUME NEW s, Shaped(s), NEW i, NEW j
  PROVE  Alike(s, AddLoad(s, i, j), i)
BY AddLoadQueueAlike, AlikeSelf DEF AddLoad

LEMMA AddStoreAlike ==
  ASSUME NEW s, Shaped(s), NEW i, NEW k
  PROVE  Alike(s, AddStore(s, i, k), i)
BY AddStoreQueueAlike, AlikeSelf DEF AddStore

-------------------------------------------------------------------------------
(* The loops of check_and_add_lsq and execute_store.                       *)

(* A set of naturals that goes down for ever is empty.                     *)
LEMMA Descent ==
  ASSUME NEW B, B \subseteq Nat, \A m \in B : m - 1 \in B
  PROVE  B = {}
<1> SUFFICES ASSUME B # {} PROVE FALSE
  OBVIOUS
<1>1. PICK w \in B : \A v \in B : ~(<< v, w >> \in OpToRel(<, Nat))
  BY NatLessThanWellFounded, WFMin
<1>2. w - 1 \in B /\ w \in Nat /\ w - 1 \in Nat
  OBVIOUS
<1>3. << w - 1, w >> \in OpToRel(<, Nat)
  BY <1>2 DEF OpToRel
<1> QED BY <1>1, <1>2, <1>3

(* The partial results of LoadsAdded.                                     *)
LoadsAddedUpto(S, R, i, n) ==
  S = [j \in 0 .. n |-> IF j = 0 THEN R ELSE {AddLoad(t, i, j) : t \in S[j - 1]}]

LEMMA LoadsAddedExists ==
  ASSUME NEW R, NEW i, NEW n \in Nat
  PROVE  \E S : LoadsAddedUpto(S, R, i, n)
<1> DEFINE B == {m \in Nat : ~\E S : LoadsAddedUpto(S, R, i, m)}
<1>1. ASSUME NEW m \in B PROVE m - 1 \in B
  <2>1. m # 0
    <3> DEFINE S == [j \in 0 .. 0 |-> R]
    <3>1. S = [j \in 0 .. 0 |-> IF j = 0 THEN R ELSE {AddLoad(t, i, j) : t \in S[j - 1]}]
      OBVIOUS
    <3>2. LoadsAddedUpto(S, R, i, 0)
      BY <3>1 DEF LoadsAddedUpto
    <3> HIDE DEF S
    <3> QED BY <3>2
  <2>2. m - 1 \in Nat
    BY <2>1
  <2>3. ASSUME NEW S, LoadsAddedUpto(S, R, i, m - 1) PROVE FALSE
    <3> DEFINE U == [j \in 0 .. m |-> IF j = m THEN {AddLoad(t, i, m) : t \in S[m - 1]} ELSE S[j]]
    <3>1. ASSUME NEW j \in 0 .. m
          PROVE  U[j] = IF j = 0 THEN R ELSE {AddLoad(t, i, j) : t \in U[j - 1]}
      <4>1. CASE j = m
        <5>1. j # 0 /\ j - 1 \in 0 .. m /\ j - 1 # m
          BY <2>1, <2>2, <4>1
        <5>2. U[j - 1] = S[m - 1] /\ U[j] = {AddLoad(t, i, m) : t \in S[m - 1]}
          BY <4>1, <5>1
        <5> HIDE DEF U
        <5> QED BY <4>1, <5>1, <5>2
      <4>2. CASE j # m
        <5>1. j \in 0 .. m - 1
          BY <2>2, <4>2
        <5>2. S[j] = IF j = 0 THEN R ELSE {AddLoad(t, i, j) : t \in S[j - 1]}
          BY <2>3, <5>1 DEF LoadsAddedUpto
        <5>3. j # 0 => j - 1 \in 0 .. m /\ j - 1 # m
          BY <2>2, <4>2
        <5>4. U[j] = S[j] /\ (j # 0 => U[j - 1] = S[j - 1])
          BY <4>2, <5>3
        <5> HIDE DEF U
        <5> QED BY <5>2, <5>4
      <4> QED BY <4>1, <4>2
    <3>2. U = [j \in 0 .. m |-> U[j]]
      OBVIOUS
    <3> HIDE DEF U
    <3>3. U = [j \in 0 .. m |-> IF j = 0 THEN R ELSE {AddLoad(t, i, j) : t \in U[j - 1]}]
      BY <3>1, <3>2
    <3>4. LoadsAddedUpto(U, R, i, m)
      BY <3>3 DEF LoadsAddedUpto
    <3> QED BY <3>4
  <2> QED BY <2>2, <2>3
<1>2. B \subseteq Nat
  OBVIOUS
<1>3. B = {}
  <2> HIDE DEF B
  <2> QED BY <1>1, <1>2, Descent
<1> QED BY <1>3

LEMMA LoadsAddedAlike ==
  ASSUME NEW s, NEW R, NEW i, NEW n \in Nat, \A t \in R : Alike(s, t, i)
  PROVE  \A t \in LoadsAdded(R, i, n) : Alike(s, t, i)
<1> DEFINE S == CHOOSE S : LoadsAddedUpto(S, R, i, n)
<1>1. LoadsAdded(R, i, n) = S[n]
  BY DEF LoadsAdded, LoadsAddedUpto
<1>2. LoadsAddedUpto(S, R, i, n)
  BY LoadsAddedExists
<1> HIDE DEF S
<1> DEFINE B == {m \in 0 .. n : ~\A t \in S[m] : Alike(s, t, i)}
<1>3. ASSUME NEW m \in B PROVE m - 1 \in B
  <2>1. S[m] = IF m = 0 THEN R ELSE {AddLoad(t, i, m) : t \in S[m - 1]}
    BY <1>2 DEF LoadsAddedUpto
  <2>2. m # 0 /\ m - 1 \in 0 .. n
    BY <2>1
  <2>3. PICK t \in S[m - 1] : ~Alike(s, AddLoad(t, i, m), i)
    BY <2>1, <2>2
  <2>4. ASSUME Alike(s, t, i) PROVE FALSE
    <3>1. Alike(t, AddLoad(t, i, m), i)
      BY <2>4, AddLoadAlike DEF Alike
    <3> QED BY <2>3, <2>4, <3>1, AlikeNext
  <2> QED BY <2>2, <2>4
<1>4. B \subseteq Nat
  OBVIOUS
<1>5. B = {}
  <2> HIDE DEF B
  <2> QED BY <1>3, <1>4, Descent
<1> QED BY <1>1, <1>5

(* The partial results of StoresAdded.                                     *)
StoresAddedUpto(S, R, i, n) ==
  S = [j \in 0 .. n |-> IF j = 0 THEN R ELSE {AddStore(t, i, j) : t \in S[j - 1]}]

LEMMA StoresAddedExists ==
  ASSUME NEW R, NEW i, NEW n \in Nat
  PROVE  \E S : StoresAddedUpto(S, R, i, n)
<1> DEFINE B == {m \in Nat : ~\E S : StoresAddedUpto(S, R, i, m)}
<1>1. ASSUME NEW m \in B PROVE m - 1 \in B
  <2>1. m # 0
    <3> DEFINE S == [j \in 0 .. 0 |-> R]
    <3>1. S = [j \in 0 .. 0 |-> IF j = 0 THEN R ELSE {AddStore(t, i, j) : t \in S[j - 1]}]
      OBVIOUS
    <3>2. StoresAddedUpto(S, R, i, 0)
      BY <3>1 DEF StoresAddedUpto
    <3> HIDE DEF S
    <3> QED BY <3>2
  <2>2. m - 1 \in Nat
    BY <2>1
  <2>3. ASSUME NEW S, StoresAddedUpto(S, R, i, m - 1) PROVE FALSE
    <3> DEFINE U == [j \in 0 .. m |-> IF j = m THEN {AddStore(t, i, m) : t \in S[m - 1]} ELSE S[j]]
    <3>1. ASSUME NEW j \in 0 .. m
          PROVE  U[j] = IF j = 0 THEN R ELSE {AddStore(t, i, j) : t \in U[j - 1]}
      <4>1. CASE j = m
        <5>1. j # 0 /\ j - 1 \in 0 .. m /\ j - 1 # m
          BY <2>1, <2>2, <4>1
        <5>2. U[j - 1] = S[m - 1] /\ U[j] = {AddStore(t, i, m) : t \in S[m - 1]}
          BY <4>1, <5>1
        <5> HIDE DEF U
        <5> QED BY <4>1, <5>1, <5>2
      <4>2. CASE j # m
        <5>1. j \in 0 .. m - 1
          BY <2>2, <4>2
        <5>2. S[j] = IF j = 0 THEN R ELSE {AddStore(t, i, j) : t \in S[j - 1]}
          BY <2>3, <5>1 DEF StoresAddedUpto
        <5>3. j # 0 => j - 1 \in 0 .. m /\ j - 1 # m
          BY <2>2, <4>2
        <5>4. U[j] = S[j] /\ (j # 0 => U[j - 1] = S[j - 1])
          BY <4>2, <5>3
        <5> HIDE DEF U
        <5> QED BY <5>2, <5>4
      <4> QED BY <4>1, <4>2
    <3>2. U = [j \in 0 .. m |-> U[j]]
      OBVIOUS
    <3> HIDE DEF U
    <3>3. U = [j \in 0 .. m |-> IF j = 0 THEN R ELSE {AddStore(t, i, j) : t \in U[j - 1]}]
      BY <3>1, <3>2
    <3>4. StoresAddedUpto(U, R, i, m)
      BY <3>3 DEF StoresAddedUpto
    <3> QED BY <3>4
  <2> QED BY <2>2, <2>3
<1>2. B \subseteq Nat
  OBVIOUS
<1>3. B = {}
  <2> HIDE DEF B
  <2> QED BY <1>1, <1>2, Descent
<1> QED BY <1>3

LEMMA StoresAddedAlike ==
  ASSUME NEW s, NEW R, NEW i, NEW n \in Nat, \A t \in R : Alike(s, t, i)
  PROVE  \A t \in StoresAdded(R, i, n) : Alike(s, t, i)
<1> DEFINE S == CHOOSE S : StoresAddedUpto(S, R, i, n)
<1>1. StoresAdded(R, i, n) = S[n]
  BY DEF StoresAdded, StoresAddedUpto
<1>2. StoresAddedUpto(S, R, i, n)
  BY StoresAddedExists
<1> HIDE DEF S
<1> DEFINE B == {m \in 0 .. n : ~\A t \in S[m] : Alike(s, t, i)}
<1>3. ASSUME NEW m \in B PROVE m - 1 \in B
  <2>1. S[m] = IF m = 0 THEN R ELSE {AddStore(t, i, m) : t \in S[m - 1]}
    BY <1>2 DEF StoresAddedUpto
  <2>2. m # 0 /\ m - 1 \in 0 .. n
    BY <2>1
  <2>3. PICK t \in S[m - 1] : ~Alike(s, AddStore(t, i, m), i)
    BY <2>1, <2>2
  <2>4. ASSUME Alike(s, t, i) PROVE FALSE
    <3>1. Alike(t, AddStore(t, i, m), i)
      BY <2>4, AddStoreAlike DEF Alike
    <3> QED BY <2>3, <2>4, <3>1, AlikeNext
  <2> QED BY <2>2, <2>4
<1>4. B \subseteq Nat
  OBVIOUS
<1>5. B = {}
  <2> HIDE DEF B
  <2> QED BY <1>3, <1>4, Descent
<1> QED BY <1>1, <1>5

(* The partial results of the loop of execute_store, by what is done.      *)
Forwarded(g, x, S) ==
  LET w == CHOOSE w \in S : TRUE IN {ForwardTo(t, x, w[1], w[2]) : t \in g[S \ {w}]}

ForwardsUpto(g, R, x, D) == g = [S \in D |-> IF S = {} THEN R ELSE Forwarded(g, x, S)]

Small(W, m) == {S \in SUBSET W : Cardinality(S) <= m}

LEMMA SmallLess ==
  ASSUME NEW W, IsFiniteSet(W), NEW m \in Nat, NEW S \in Small(W, m), S # {}, NEW w \in S
  PROVE  m # 0 /\ S \ {w} \in Small(W, m - 1) /\ S \ {w} \in Small(W, m)
<1>1. IsFiniteSet(S) /\ Cardinality(S) \in Nat /\ Cardinality(S) <= m
  BY FS_Subset, FS_CardinalityType DEF Small
<1>2. Cardinality(S \ {w}) = Cardinality(S) - 1
  BY <1>1, FS_RemoveElement
<1>3. Cardinality(S) # 0
  BY <1>1, FS_EmptySet
<1>4. m # 0 /\ Cardinality(S) - 1 <= m - 1 /\ Cardinality(S) - 1 <= m
  BY <1>1, <1>3
<1> QED BY <1>2, <1>4 DEF Small

LEMMA ForwardsExist ==
  ASSUME NEW R, NEW x, NEW W, IsFiniteSet(W), NEW n \in Nat
  PROVE  \E g : ForwardsUpto(g, R, x, Small(W, n))
<1> DEFINE B == {m \in Nat : ~\E g : ForwardsUpto(g, R, x, Small(W, m))}
<1>1. ASSUME NEW m \in B PROVE m - 1 \in B
  <2>1. m # 0
    <3> DEFINE g == [S \in Small(W, 0) |-> R]
    <3>1. g = [S \in Small(W, 0) |-> IF S = {} THEN R ELSE Forwarded(g, x, S)]
      <4>1. \A S \in Small(W, 0) : S = {}
        BY SmallLess
      <4> QED BY <4>1
    <3>2. ForwardsUpto(g, R, x, Small(W, 0))
      BY <3>1 DEF ForwardsUpto
    <3> HIDE DEF g
    <3> QED BY <3>2
  <2>2. m - 1 \in Nat
    BY <2>1
  <2>3. ASSUME NEW g, ForwardsUpto(g, R, x, Small(W, m - 1)) PROVE FALSE
    <3> DEFINE h == [S \in Small(W, m) |->
                       IF S \in Small(W, m - 1) THEN g[S] ELSE IF S = {} THEN R ELSE Forwarded(g, x, S)]
    <3>1. ASSUME NEW S \in Small(W, m) PROVE h[S] = IF S = {} THEN R ELSE Forwarded(h, x, S)
      <4>1. h[S] = IF S = {} THEN R ELSE Forwarded(g, x, S)
        <5>1. S \in Small(W, m - 1) => g[S] = IF S = {} THEN R ELSE Forwarded(g, x, S)
          BY <2>3 DEF ForwardsUpto
        <5> QED BY <5>1
      <4>2. ASSUME S # {} PROVE Forwarded(h, x, S) = Forwarded(g, x, S)
        <5> DEFINE w == CHOOSE w \in S : TRUE
        <5>1. w \in S
          BY <4>2
        <5>2. S \ {w} \in Small(W, m - 1) /\ S \ {w} \in Small(W, m)
          <6> HIDE DEF w
          <6> QED BY <5>1, <4>2, <2>2, SmallLess
        <5>3. h[S \ {w}] = g[S \ {w}]
          <6> HIDE DEF w
          <6> QED BY <5>2
        <5> HIDE DEF h
        <5> QED BY <5>3 DEF Forwarded
      <4> HIDE DEF h
      <4> QED BY <4>1, <4>2
    <3>2. h = [S \in Small(W, m) |-> h[S]]
      OBVIOUS
    <3> HIDE DEF h
    <3>3. h = [S \in Small(W, m) |-> IF S = {} THEN R ELSE Forwarded(h, x, S)]
      BY <3>1, <3>2
    <3>4. ForwardsUpto(h, R, x, Small(W, m))
      BY <3>3 DEF ForwardsUpto
    <3> QED BY <3>4
  <2> QED BY <2>2, <2>3
<1>2. B \subseteq Nat
  OBVIOUS
<1>3. B = {}
  <2> HIDE DEF B
  <2> QED BY <1>1, <1>2, Descent
<1> QED BY <1>3

LEMMA ExecuteStoreAlike ==
  ASSUME NEW s, Shaped(s), NEW i
  PROVE  \A t \in ExecuteStore(s) : Alike(s, t, i)
<1> DEFINE x == Head(s.RTS1)
           r == [s EXCEPT !.RTS1 = Tail(@), !.SQ[x].fetched = COMPLETED]
           done == OpsDone(r, s.SQ[x].rob_index, 1)
           W == Waiting(s, x)
           n == Cardinality(W)
           g == CHOOSE g : ForwardsUpto(g, {done}, x, SUBSET W)
<1>1. ExecuteStore(s) = g[W]
  BY DEF ExecuteStore, FoldSet, MapThenFoldSet, ForwardsUpto, Forwarded
<1>2. Alike(s, done, i)
  <2>1. DOMAIN r = StateFields /\ r.ROB = s.ROB /\ \A f \in Aside : r[f] = s[f]
    BY DEF Shaped, StateFields, Aside
  <2> HIDE DEF r
  <2>2. Alike(s, r, i) /\ Shaped(r)
    BY <2>1, AlikeFields DEF Alike
  <2>3. Alike(r, done, i)
    BY <2>2, OpsDoneAlike
  <2> QED BY <2>2, <2>3, AlikeNext
<1> HIDE DEF done
<1>3. IsFiniteSet(W)
  <2>1. IsFiniteSet(Slots) /\ IsFiniteSet(1 .. NUM_INSTR_SOURCES)
    <3>1. ROB_SIZE - 1 \in Int /\ 0 \in Int /\ 1 \in Int /\ NUM_INSTR_SOURCES \in Int
      BY SizeAssumption DEF NUM_INSTR_SOURCES
    <3> QED BY <3>1, FS_Interval DEF Slots
  <2>2. IsFiniteSet(Slots \X (1 .. NUM_INSTR_SOURCES))
    BY <2>1, FS_Product
  <2>3. W \subseteq Slots \X (1 .. NUM_INSTR_SOURCES)
    BY DEF Waiting
  <2> QED BY <2>2, <2>3, FS_Subset
<1> HIDE DEF W, x
<1>4. n \in Nat /\ SUBSET W = Small(W, n)
  <2>1. n \in Nat /\ \A S \in SUBSET W : Cardinality(S) <= n
    BY <1>3, FS_CardinalityType, FS_Subset
  <2> QED BY <2>1 DEF Small
<1>5. ForwardsUpto(g, {done}, x, SUBSET W)
  <2> DEFINE R == {done}
  <2>1. \E h : ForwardsUpto(h, R, x, Small(W, n))
    <3> HIDE DEF R, n
    <3> QED BY <1>3, <1>4, ForwardsExist
  <2>2. \E h : ForwardsUpto(h, {done}, x, SUBSET W)
    BY <1>4, <2>1
  <2> QED BY <2>2
<1> HIDE DEF g, n
<1> DEFINE B == {m \in Nat : \E S \in Small(W, m) : ~\A t \in g[S] : Alike(s, t, i)}
<1>6. ASSUME NEW m \in B PROVE m - 1 \in B
  <2>1. PICK S \in Small(W, m) : ~\A t \in g[S] : Alike(s, t, i)
    OBVIOUS
  <2>2. S \in SUBSET W /\ g[S] = IF S = {} THEN {done} ELSE Forwarded(g, x, S)
    BY <1>5 DEF ForwardsUpto, Small
  <2>3. S # {}
    BY <1>2, <2>1, <2>2
  <2> DEFINE w == CHOOSE w \in S : TRUE
  <2>4. w \in S
    BY <2>3
  <2>5. g[S] = {ForwardTo(t, x, w[1], w[2]) : t \in g[S \ {w}]}
    BY <2>2, <2>3 DEF Forwarded
  <2> HIDE DEF w
  <2>6. m - 1 \in Nat /\ S \ {w} \in Small(W, m - 1)
    <3>1. m # 0 /\ m \in Nat
      BY <1>3, <2>3, <2>4, SmallLess
    <3> QED BY <1>3, <2>3, <2>4, <3>1, SmallLess
  <2>7. PICK t \in g[S \ {w}] : ~Alike(s, ForwardTo(t, x, w[1], w[2]), i)
    BY <2>1, <2>5
  <2>8. ASSUME Alike(s, t, i) PROVE FALSE
    <3>1. Alike(t, ForwardTo(t, x, w[1], w[2]), i)
      <4>1. Shaped(t)
        BY <2>8 DEF Alike
      <4> DEFINE d == w[1]
                 j == w[2]
      <4>2. Alike(t, ForwardTo(t, x, d, j), i)
        <5> HIDE DEF d, j
        <5> QED BY <4>1, ForwardToAlike
      <4> QED BY <4>2
    <3> QED BY <2>7, <2>8, <3>1, AlikeNext
  <2> QED BY <2>6, <2>8
<1>7. B = {}
  <2>1. B \subseteq Nat
    OBVIOUS
  <2> HIDE DEF B
  <2> QED BY <1>6, <2>1, Descent
<1> QED BY <1>1, <1>4, <1>7

-------------------------------------------------------------------------------
(* The record of the variables.                                            *)

LEMMA StateIs ==
  /\ DOMAIN State = StateFields
  /\ State.program = program /\ State.ROB = ROB /\ State.head = head /\ State.tail = tail
  /\ State.next_schedule = next_schedule /\ State.RTE0 = RTE0 /\ State.RTE1 = RTE1
  /\ State.dispatched = dispatched /\ State.retired = retired
BY DEF State, StateFields

LEMMA StateShaped ==
  ASSUME Types
  PROVE  Shaped(State)
BY StateIs DEF Types, Shaped

LEMMA MemoryIs ==
  \A i : IsMemory(State, i) <=> Memory(i)
BY StateIs DEF IsMemory, Memory, Code

LEMMA BecomeIs ==
  ASSUME NEW S, BecomeOneOf(S)
  PROVE  \E s \in S :
           /\ ROB' = s.ROB /\ head' = s.head /\ tail' = s.tail /\ next_schedule' = s.next_schedule
           /\ RTE0' = s.RTE0 /\ RTE1' = s.RTE1 /\ dispatched' = s.dispatched
           /\ retired' = s.retired /\ program' = program
BY DEF BecomeOneOf

-------------------------------------------------------------------------------
(* Steps that leave the order and the registers alone.                     *)

Quiet ==
  /\ program' = program /\ head' = head /\ tail' = tail /\ next_schedule' = next_schedule
  /\ dispatched' = dispatched /\ retired' = retired /\ DOMAIN ROB' = Slots
  /\ \A p \in Slots :
       /\ DOMAIN ROB'[p] = EntryFields
       /\ ROB'[p].id = ROB[p].id /\ ROB'[p].reg_ready = ROB[p].reg_ready
       /\ ROB'[p].num_reg_dependent = ROB[p].num_reg_dependent
       /\ ROB'[p].reg_deps = ROB[p].reg_deps
       /\ ROB'[p].scheduled \in 0 .. COMPLETED /\ (ROB'[p].scheduled = 0 <=> ROB[p].scheduled = 0)
       /\ ROB'[p].executed \in 0 .. COMPLETED
       /\ ROB'[p].executed = COMPLETED <=> ROB[p].executed = COMPLETED

LEMMA QuietLive ==
  ASSUME Quiet
  PROVE  LiveRob' = LiveRob
BY DEF Quiet, LiveRob

LEMMA AtSlots ==
  ASSUME NEW h \in Slots, NEW k \in 1 .. ROB_SIZE + 1
  PROVE  At(h, k) \in Slots
<1>1. ROB_SIZE \in Nat /\ ROB_SIZE >= 1
  BY SizeAssumption
<1>2. h \in Int /\ h >= 0 /\ h <= ROB_SIZE - 1
  BY <1>1 DEF Slots
<1>3. h + k - 1 \in Int /\ h + k - 1 >= 0 /\ h + k - 1 <= 2 * ROB_SIZE - 1
  BY <1>1, <1>2
<1> QED BY <1>1, <1>2, <1>3 DEF At, Slots

SameOrder ==
  /\ head' = head /\ tail' = tail /\ dispatched' = dispatched /\ retired' = retired
  /\ \A p \in Slots : ROB'[p].id = ROB[p].id

LEMMA RingSame ==
  ASSUME Types, Ring, SameOrder
  PROVE  Ring'
<1>1. Held' = Held /\ Held \in Nat /\ ROB_SIZE \in Nat
  BY SizeAssumption DEF Held, SameOrder, Types
<1>2. \A k \in 1 .. ROB_SIZE : At(head, k) \in Slots
  <2>1. \A k \in 1 .. ROB_SIZE : k \in 1 .. ROB_SIZE + 1
    BY <1>1
  <2> QED BY <2>1, AtSlots DEF Types
<1>3. \A k \in 1 .. ROB_SIZE : ROB'[At(head, k)].id = ROB[At(head, k)].id
  BY <1>2 DEF SameOrder
<1>4. \A k \in 1 .. Held : k \in 1 .. ROB_SIZE
  BY <1>1 DEF Ring
<1>5. \A k : At(head, k)' = At(head, k)
  BY DEF At, SameOrder
<1>6. tail' = tail /\ head' = head /\ retired' = retired
  BY DEF SameOrder
<1>7. Held' <= ROB_SIZE /\ tail' = At(head', Held' + 1)
  BY <1>1, <1>6 DEF Ring
<1>8. \A k \in 1 .. Held' : ROB'[At(head', k)].id = retired' + k
  BY <1>1, <1>3, <1>4, <1>6 DEF Ring
<1>9. \A k \in 1 .. ROB_SIZE : k > Held' => ROB'[At(head', k)].id = NoId
  BY <1>1, <1>3, <1>6 DEF Ring
<1> QED BY <1>7, <1>8, <1>9 DEF Ring

LEMMA QuietKeeps ==
  ASSUME Types, Ring, Prefix, Debts, Sources, WakeupsCounted, Quiet
  PROVE  Types' /\ Ring' /\ Prefix' /\ Debts' /\ Sources' /\ WakeupsCounted'
<1>1. LiveRob' = LiveRob /\ LiveRob \subseteq Slots
  BY QuietLive DEF LiveRob
<1>2. Types'
  BY DEF Types, Quiet
<1>3. Ring'
  BY RingSame DEF SameOrder, Quiet
<1>4. Prefix'
  BY <1>1 DEF Prefix, Quiet
<1>5. Debts'
  BY <1>1 DEF Debts, Quiet
<1>6. Sources'
  <2> SUFFICES ASSUME NEW i \in LiveRob, NEW p \in LiveRob, ROB'[i].scheduled # 0,
                      NEW r \in program'[ROB'[i].id].reads,
                      LastWriter(program', ROB'[p].id, ROB'[i].id, r)
               PROVE  ROB'[p].executed = COMPLETED \/ << i, r >> \in ROB'[p].reg_deps
    BY <1>1 DEF Sources
  <2>2. ROB'[i].id = ROB[i].id /\ ROB'[p].id = ROB[p].id /\ program' = program
    BY <1>1 DEF Quiet
  <2>3. LastWriter(program, ROB[p].id, ROB[i].id, r)
    BY <2>2
  <2>4. ROB[i].scheduled # 0 /\ r \in program[ROB[i].id].reads
    BY <1>1, <2>2 DEF Quiet
  <2>5. ROB[p].executed = COMPLETED \/ << i, r >> \in ROB[p].reg_deps
    BY <2>3, <2>4 DEF Sources
  <2> QED BY <1>1, <2>5 DEF Quiet
<1>7. WakeupsCounted'
  <2> SUFFICES ASSUME NEW i \in LiveRob, ROB'[i].scheduled # 0
               PROVE  /\ ROB'[i].num_reg_dependent =
                           Cardinality({o \in LiveRob \X Reg :
                             ROB'[o[1]].executed # COMPLETED /\ << i, o[2] >> \in ROB'[o[1]].reg_deps})
                      /\ ROB'[i].reg_ready <=> ROB'[i].num_reg_dependent = 0
    BY <1>1 DEF WakeupsCounted
  <2>1. {o \in LiveRob \X Reg :
           ROB'[o[1]].executed # COMPLETED /\ << i, o[2] >> \in ROB'[o[1]].reg_deps}
        = {o \in LiveRob \X Reg :
             ROB[o[1]].executed # COMPLETED /\ << i, o[2] >> \in ROB[o[1]].reg_deps}
    BY <1>1 DEF Quiet
  <2>2. ROB[i].scheduled # 0
    BY <1>1 DEF Quiet
  <2>3. ROB'[i].num_reg_dependent = ROB[i].num_reg_dependent /\ ROB'[i].reg_ready = ROB[i].reg_ready
    BY <1>1 DEF Quiet
  <2> QED BY <2>1, <2>2, <2>3 DEF WakeupsCounted
<1> QED BY <1>2, <1>3, <1>4, <1>5, <1>6, <1>7

(* Entries of memory instructions whose registers are ready may move on.   *)
Moves(p) ==
  \/ /\ ROB'[p].executed = ROB[p].executed /\ ROB'[p].scheduled = ROB[p].scheduled
     /\ ROB'[p].lq = ROB[p].lq /\ ROB'[p].sq = ROB[p].sq
  \/ Memory(p) /\ ROB[p].scheduled # 0 /\ ROB[p].reg_ready

LEMMA MovesKeep ==
  ASSUME RobInv, Quiet, RTE0' = RTE0, RTE1' = RTE1, \A p \in Slots : Moves(p)
  PROVE  RobInv'
<1>1. \A p \in Slots : ROB'[p].id = ROB[p].id /\ (Memory(p)' <=> Memory(p))
  BY DEF Quiet, Memory
<1>2. Stages'
  <2> SUFFICES ASSUME NEW i \in Slots
               PROVE  /\ ROB'[i].id = NoId => ROB'[i].scheduled = 0
                      /\ ROB'[i].executed # 0 \/ Placed(i)' => ROB'[i].scheduled # 0 /\ ROB'[i].reg_ready
                      /\ Memory(i)' /\ ROB'[i].scheduled = COMPLETED => ROB'[i].reg_ready
    BY DEF Stages
  <2>0. /\ ROB'[i].reg_ready = ROB[i].reg_ready /\ (ROB'[i].scheduled = 0 <=> ROB[i].scheduled = 0)
        /\ ROB'[i].id = ROB[i].id
    BY DEF Quiet
  <2>1. CASE /\ ROB'[i].executed = ROB[i].executed /\ ROB'[i].scheduled = ROB[i].scheduled
             /\ ROB'[i].lq = ROB[i].lq /\ ROB'[i].sq = ROB[i].sq
    <3>1. Placed(i)' <=> Placed(i)
      BY <2>1 DEF Placed
    <3> QED BY <1>1, <2>0, <2>1, <3>1 DEF RobInv, Stages
  <2>2. CASE Memory(i) /\ ROB[i].scheduled # 0 /\ ROB[i].reg_ready
    BY <2>0, <2>2 DEF Memory
  <2> QED BY <2>1, <2>2 DEF Moves
<1>3. Queued'
  <2>1. ASSUME NEW i \in Slots PROVE Waits(i)' <=> Waits(i)
    <3>1. ROB'[i].reg_ready = ROB[i].reg_ready
      BY DEF Quiet
    <3>2. CASE Memory(i)
      BY <1>1, <3>2 DEF Waits
    <3>3. CASE ~Memory(i)
      BY <1>1, <3>1, <3>3 DEF Waits, Moves
    <3> QED BY <3>2, <3>3
  <2>2. {i \in Slots : Waits(i)'} = {i \in Slots : Waits(i)}
    BY <2>1
  <2> QED BY <2>2 DEF RobInv, Queued
<1> QED BY <1>2, <1>3, QuietKeeps DEF RobInv

LEMMA AlikeKeeps ==
  ASSUME RobInv, NEW s, Alike(State, s, NoIndex), BecomeOneOf({s})
  PROVE  RobInv'
<1>1. /\ ROB' = s.ROB /\ head' = s.head /\ tail' = s.tail /\ next_schedule' = s.next_schedule
      /\ RTE0' = s.RTE0 /\ RTE1' = s.RTE1 /\ dispatched' = s.dispatched
      /\ retired' = s.retired /\ program' = program
  BY BecomeIs
<1>2. /\ head' = head /\ tail' = tail /\ next_schedule' = next_schedule
      /\ RTE0' = RTE0 /\ RTE1' = RTE1 /\ dispatched' = dispatched /\ retired' = retired
  BY <1>1, StateIs DEF Alike, SameCore
<1>3. \A p \in Slots :
        /\ SameEntry(ROB[p], ROB'[p]) /\ SamePlaces(ROB[p], ROB'[p]) /\ DOMAIN ROB'[p] = EntryFields
  <2>1. NoIndex \notin Slots
    BY DEF NoIndex, Slots
  <2> QED BY <1>1, <2>1, StateIs DEF Alike, Shaped
<1>4. DOMAIN ROB' = Slots
  BY <1>1 DEF Alike, Shaped
<1>5. Quiet
  BY <1>1, <1>2, <1>3, <1>4 DEF Quiet, SameEntry, RobInv, Types
<1>6. \A p \in Slots : Moves(p)
  BY <1>3 DEF Moves, SameEntry, SamePlaces
<1> QED BY <1>2, <1>5, <1>6, MovesKeep

LEMMA LsqKeeps ==
  ASSUME RobInv, OperateLsq \/ CompleteTranslation \/ CompleteDataFetch
  PROVE  RobInv'
<1>1. Shaped(State)
  BY StateShaped DEF RobInv
<1>2. \E s : Alike(State, s, NoIndex) /\ BecomeOneOf({s})
  <2>1. CASE RTS0 # << >> /\ Become(TranslateStore(State))
    BY <1>1, <2>1, TranslateStoreAlike DEF Become
  <2>2. CASE RTS1 # << >> /\ BecomeOneOf(ExecuteStore(State))
    <3>1. PICK s \in ExecuteStore(State) : BecomeOneOf({s})
      BY <2>2 DEF BecomeOneOf
    <3> QED BY <1>1, <3>1, ExecuteStoreAlike
  <2>3. CASE RTL0 # << >> /\ Become(TranslateLoad(State))
    BY <1>1, <2>3, TranslateLoadAlike DEF Become
  <2>4. CASE RTL1 # << >> /\ Become(ExecuteLoad(State))
    BY <1>1, <2>4, ExecuteLoadAlike DEF Become
  <2>5. CASE CompleteTranslation
    <3>1. PICK r \in dtlb : Become(Translated(State, r))
      BY <2>5 DEF CompleteTranslation
    <3> QED BY <1>1, <3>1, TranslatedAlike DEF Become
  <2>6. CASE CompleteDataFetch
    <3>1. PICK q \in l1d : Become(Fetched(State, q))
      BY <2>6 DEF CompleteDataFetch
    <3> QED BY <1>1, <3>1, FetchedAlike DEF Become
  <2> QED BY <2>1, <2>2, <2>3, <2>4, <2>5, <2>6 DEF OperateLsq
<1> QED BY <1>2, AlikeKeeps

LEMMA DrainKeeps ==
  ASSUME RobInv, DrainWq
  PROVE  RobInv'
<1> DEFINE s == [State EXCEPT !.wq = @ - 1]
<1>1. Become(s)
  BY DEF DrainWq
<1>2. Shaped(State)
  BY StateShaped DEF RobInv
<1>3. DOMAIN s = StateFields /\ s.ROB = State.ROB /\ \A g \in Aside : s[g] = State[g]
  BY <1>2 DEF Shaped, StateFields, Aside
<1> HIDE DEF s
<1>4. Alike(State, s, NoIndex)
  BY <1>2, <1>3, AlikeFields
<1> QED BY <1>1, <1>4, AlikeKeeps DEF Become

(* schedule_memory_instruction.                                            *)
LEMMA MemorySchedulingKeeps ==
  ASSUME RobInv, ScheduleMemoryInstruction
  PROVE  RobInv'
<1>1. PICK i \in Slots : Eligible(State, i) /\ BecomeOneOf(DoMemoryScheduling(State, i))
  <2>1. PICK L \in Loops : \E i \in L : Adds(i) /\ BecomeOneOf(DoMemoryScheduling(State, i))
    BY DEF ScheduleMemoryInstruction
  <2>a. PICK i \in L : Adds(i) /\ BecomeOneOf(DoMemoryScheduling(State, i))
    BY <2>1
  <2>2. ROB_SIZE \in Nat /\ head \in Int /\ next_schedule \in Int
        /\ head >= 0 /\ next_schedule <= ROB_SIZE - 1
    BY SizeAssumption DEF RobInv, Types, Slots
  <2>3. i \in Slots
    <3>1. CASE i \in head .. next_schedule - 1
      BY <2>2, <3>1 DEF Slots
    <3>2. CASE i \in head .. ROB_SIZE - 1
      BY <2>2, <3>2 DEF Slots
    <3>3. CASE i \in 0 .. next_schedule - 1
      BY <2>2, <3>3 DEF Slots
    <3> QED BY <3>1, <3>2, <3>3 DEF Loops
  <2> QED BY <2>a, <2>3 DEF Adds
<1>2. Memory(i) /\ ROB[i].scheduled = INFLIGHT /\ ROB[i].reg_ready
  BY <1>1, StateIs, MemoryIs DEF Eligible
<1>3. Shaped(State)
  BY StateShaped DEF RobInv
<1>4. \A t \in CheckAndAddLsq(State, i) : Alike(State, t, i)
  <2>1. Len(Code(State, i).loads) \in Nat /\ Len(Code(State, i).stores) \in Nat
    <3>1. ROB[i].id \in 1 .. Len(program) /\ program \in Seq(Instr)
      BY <1>2 DEF RobInv, Types, Memory, NoId
    <3>2. program[ROB[i].id] \in Instr
      BY <3>1, ElementOfSeq
    <3>3. program[ROB[i].id].loads \in Seq(Addr) /\ program[ROB[i].id].stores \in Seq(Addr)
      BY <3>2 DEF Instr
    <3> QED BY <3>3, LenProperties, StateIs DEF Code
  <2> DEFINE n == Len(Code(State, i).loads)
             m == Len(Code(State, i).stores)
             R == LoadsAdded({State}, i, n)
  <2>2. \A t \in R : Alike(State, t, i)
    <3>1. \A t \in {State} : Alike(State, t, i)
      BY <1>3, AlikeSelf
    <3> HIDE DEF n
    <3> QED BY <2>1, <3>1, LoadsAddedAlike DEF n
  <2>3. \A t \in StoresAdded(R, i, m) : Alike(State, t, i)
    <3> HIDE DEF R, m
    <3> QED BY <2>1, <2>2, StoresAddedAlike DEF m
  <2> QED BY <2>3 DEF CheckAndAddLsq
<1>5. PICK s \in DoMemoryScheduling(State, i) :
        /\ ROB' = s.ROB /\ head' = s.head /\ tail' = s.tail /\ next_schedule' = s.next_schedule
        /\ RTE0' = s.RTE0 /\ RTE1' = s.RTE1 /\ dispatched' = s.dispatched
        /\ retired' = s.retired /\ program' = program
  BY <1>1, BecomeIs
<1>6. PICK t \in CheckAndAddLsq(State, i) :
        s = IF ~Added(t, i) THEN t
            ELSE [t EXCEPT !.ROB[i].scheduled = COMPLETED,
                           !.ROB[i].executed = IF @ = 0 THEN INFLIGHT ELSE @]
  BY <1>5 DEF DoMemoryScheduling
<1>7. Alike(State, t, i)
  BY <1>4
<1>8. /\ \A g \in Aside : s[g] = t[g]
      /\ s.ROB = t.ROB \/ s.ROB = [t.ROB EXCEPT ![i].scheduled = COMPLETED,
                                                ![i].executed = IF @ = 0 THEN INFLIGHT ELSE @]
  BY <1>6, <1>7 DEF Alike, Shaped, StateFields, Aside
<1>9. /\ head' = head /\ tail' = tail /\ next_schedule' = next_schedule
      /\ RTE0' = RTE0 /\ RTE1' = RTE1 /\ dispatched' = dispatched /\ retired' = retired
  BY <1>5, <1>7, <1>8, StateIs DEF Alike, SameCore, Aside
<1>10. \A p \in Slots : /\ SameEntry(ROB[p], t.ROB[p]) /\ DOMAIN t.ROB[p] = EntryFields
                        /\ p # i => SamePlaces(ROB[p], t.ROB[p])
  BY <1>7, StateIs DEF Alike, Shaped
<1>11. DOMAIN t.ROB = Slots
  BY <1>7 DEF Alike, Shaped
<1>12. /\ DOMAIN ROB' = Slots
       /\ \A p \in Slots : /\ DOMAIN ROB'[p] = EntryFields
                           /\ p # i => ROB'[p] = t.ROB[p]
       /\ \/ ROB'[i] = t.ROB[i]
          \/ ROB'[i] = [t.ROB[i] EXCEPT !.scheduled = COMPLETED,
                                        !.executed = IF @ = 0 THEN INFLIGHT ELSE @]
  BY <1>5, <1>8, <1>10, <1>11
<1>13. /\ ROB'[i].id = ROB[i].id /\ ROB'[i].reg_ready = ROB[i].reg_ready
       /\ ROB'[i].num_reg_dependent = ROB[i].num_reg_dependent /\ ROB'[i].reg_deps = ROB[i].reg_deps
       /\ ROB'[i].scheduled \in {INFLIGHT, COMPLETED}
       /\ \/ ROB'[i].executed = ROB[i].executed
          \/ ROB[i].executed = 0 /\ ROB'[i].executed = INFLIGHT
  <2>1. t.ROB[i].scheduled = INFLIGHT /\ t.ROB[i].executed = ROB[i].executed
    BY <1>2, <1>10 DEF SameEntry
  <2>2. CASE ROB'[i] = t.ROB[i]
    BY <1>10, <2>1, <2>2 DEF SameEntry
  <2>3. CASE ROB'[i] = [t.ROB[i] EXCEPT !.scheduled = COMPLETED,
                                        !.executed = IF @ = 0 THEN INFLIGHT ELSE @]
    BY <1>10, <2>1, <2>3 DEF SameEntry, EntryFields, EmptyEntry
  <2> QED BY <1>12, <2>2, <2>3
<1>14. \A p \in Slots : p # i => SameEntry(ROB[p], ROB'[p]) /\ SamePlaces(ROB[p], ROB'[p])
  BY <1>10, <1>12
<1>15. Quiet
  <2>1. ASSUME NEW p \in Slots
        PROVE  /\ DOMAIN ROB'[p] = EntryFields
               /\ ROB'[p].id = ROB[p].id /\ ROB'[p].reg_ready = ROB[p].reg_ready
               /\ ROB'[p].num_reg_dependent = ROB[p].num_reg_dependent
               /\ ROB'[p].reg_deps = ROB[p].reg_deps
               /\ ROB'[p].scheduled \in 0 .. COMPLETED
               /\ ROB'[p].scheduled = 0 <=> ROB[p].scheduled = 0
               /\ ROB'[p].executed \in 0 .. COMPLETED
               /\ ROB'[p].executed = COMPLETED <=> ROB[p].executed = COMPLETED
    <3>1. CASE p = i
      <4>1. ROB[i].executed \in 0 .. COMPLETED
        BY DEF RobInv, Types
      <4>2. /\ ROB'[i].scheduled \in 0 .. COMPLETED
            /\ ROB'[i].scheduled = 0 <=> ROB[i].scheduled = 0
        BY <1>2, <1>13 DEF INFLIGHT, COMPLETED
      <4>3. /\ ROB'[i].executed \in 0 .. COMPLETED
            /\ ROB'[i].executed = COMPLETED <=> ROB[i].executed = COMPLETED
        BY <1>13, <4>1 DEF INFLIGHT, COMPLETED
      <4> QED BY <1>12, <1>13, <3>1, <4>2, <4>3
    <3>2. CASE p # i
      BY <1>12, <1>14, <3>2 DEF SameEntry, RobInv, Types
    <3> QED BY <3>1, <3>2
  <2> QED BY <1>5, <1>9, <1>12, <2>1 DEF Quiet
<1>16. \A p \in Slots : Moves(p)
  <2>1. Moves(i)
    BY <1>2 DEF Moves, INFLIGHT
  <2> QED BY <1>14, <2>1 DEF Moves, SameEntry, SamePlaces
<1> QED BY <1>9, <1>15, <1>16, MovesKeep

-------------------------------------------------------------------------------
(* execute_instruction.                                                    *)

LEMMA TakeHead ==
  ASSUME NEW S, NEW q \in Seq(S), q # << >>, IsInjective(q)
  PROVE  /\ Tail(q) \in Seq(S) /\ IsInjective(Tail(q)) /\ Head(q) \in S
         /\ Head(q) \in Range(q) /\ Range(Tail(q)) = Range(q) \ {Head(q)}
<1>1. /\ Len(q) \in Nat /\ Len(q) >= 1 /\ Tail(q) \in Seq(S) /\ Len(Tail(q)) = Len(q) - 1
      /\ Head(q) = q[1] /\ Head(q) \in S
      /\ \A k \in 1 .. Len(Tail(q)) : Tail(q)[k] = q[k + 1]
      /\ DOMAIN q = 1 .. Len(q) /\ DOMAIN Tail(q) = 1 .. Len(Tail(q))
  BY HeadTailProperties, LenProperties
<1>2. \A k \in 1 .. Len(q) - 1 : k + 1 \in 1 .. Len(q) /\ k + 1 # 1 /\ k \in Nat
  BY <1>1
<1>3. \A k \in 1 .. Len(q) : k # 1 => k - 1 \in 1 .. Len(q) - 1 /\ (k - 1) + 1 = k
  BY <1>1
<1>4. 1 \in 1 .. Len(q)
  BY <1>1
<1>5. IsInjective(Tail(q))
  <2> SUFFICES ASSUME NEW a \in 1 .. Len(q) - 1, NEW b \in 1 .. Len(q) - 1, Tail(q)[a] = Tail(q)[b]
               PROVE  a = b
    BY <1>1 DEF IsInjective
  <2>1. q[a + 1] = q[b + 1]
    BY <1>1
  <2>2. a + 1 = b + 1
    BY <1>1, <1>2, <2>1 DEF IsInjective
  <2> QED BY <1>2, <2>2
<1>6. ASSUME NEW x PROVE x \in Range(Tail(q)) <=> x \in Range(q) \ {Head(q)}
  <2>1. ASSUME x \in Range(Tail(q)) PROVE x \in Range(q) \ {Head(q)}
    <3>1. PICK k \in 1 .. Len(q) - 1 : x = Tail(q)[k]
      BY <1>1, <2>1 DEF Range
    <3>2. x = q[k + 1] /\ k + 1 \in 1 .. Len(q) /\ k + 1 # 1
      BY <1>1, <1>2, <3>1
    <3>3. x # q[1]
      BY <1>1, <1>4, <3>2 DEF IsInjective
    <3> QED BY <1>1, <3>2, <3>3 DEF Range
  <2>2. ASSUME x \in Range(q), x # Head(q) PROVE x \in Range(Tail(q))
    <3>1. PICK k \in 1 .. Len(q) : x = q[k]
      BY <1>1, <2>2 DEF Range
    <3>2. k # 1
      BY <1>1, <2>2, <3>1
    <3>3. k - 1 \in 1 .. Len(q) - 1 /\ Tail(q)[k - 1] = q[k]
      BY <1>1, <1>3, <3>2
    <3> QED BY <1>1, <3>1, <3>3 DEF Range
  <2> QED BY <2>1, <2>2
<1> QED BY <1>1, <1>4, <1>5, <1>6 DEF Range

LEMMA ExecutionKeeps ==
  ASSUME RobInv, NEW i \in Slots, Waits(i),
         /\ program' = program /\ head' = head /\ tail' = tail /\ next_schedule' = next_schedule
         /\ dispatched' = dispatched /\ retired' = retired,
         ROB' = [ROB EXCEPT ![i].executed = INFLIGHT],
         RTE0' \in Seq(Slots), RTE1' \in Seq(Slots), IsInjective(RTE0'), IsInjective(RTE1'),
         Range(RTE0') \cap Range(RTE1') = {},
         Range(RTE0') \cup Range(RTE1') = (Range(RTE0) \cup Range(RTE1)) \ {i}
  PROVE  RobInv'
<1>1. DOMAIN ROB = Slots /\ \A p \in Slots : DOMAIN ROB[p] = EntryFields
  BY DEF RobInv, Types
<1>2. DOMAIN ROB' = Slots /\ \A p \in Slots : p # i => ROB'[p] = ROB[p]
  BY <1>1
<1>3. ROB'[i] = [ROB[i] EXCEPT !.executed = INFLIGHT]
  BY <1>1
<1>4. /\ DOMAIN ROB'[i] = EntryFields /\ ROB'[i].executed = INFLIGHT /\ ROB'[i].id = ROB[i].id
      /\ ROB'[i].reg_ready = ROB[i].reg_ready /\ ROB'[i].scheduled = ROB[i].scheduled
      /\ ROB'[i].num_reg_dependent = ROB[i].num_reg_dependent /\ ROB'[i].reg_deps = ROB[i].reg_deps
      /\ ROB'[i].lq = ROB[i].lq /\ ROB'[i].sq = ROB[i].sq
  BY <1>1, <1>3 DEF EntryFields, EmptyEntry
<1>5. ROB[i].executed = 0 /\ ROB[i].scheduled = COMPLETED /\ ROB[i].reg_ready /\ ~Memory(i)
  BY DEF Waits
<1>6. Quiet
  <2>1. \A p \in Slots : ROB[p].scheduled \in 0 .. COMPLETED /\ ROB[p].executed \in 0 .. COMPLETED
    BY DEF RobInv, Types
  <2>2. INFLIGHT \in 0 .. COMPLETED /\ INFLIGHT # COMPLETED /\ 0 # COMPLETED
    BY DEF INFLIGHT, COMPLETED
  <2>3. ASSUME NEW p \in Slots
        PROVE  /\ DOMAIN ROB'[p] = EntryFields
               /\ ROB'[p].id = ROB[p].id /\ ROB'[p].reg_ready = ROB[p].reg_ready
               /\ ROB'[p].num_reg_dependent = ROB[p].num_reg_dependent
               /\ ROB'[p].reg_deps = ROB[p].reg_deps
               /\ ROB'[p].scheduled \in 0 .. COMPLETED
               /\ ROB'[p].scheduled = 0 <=> ROB[p].scheduled = 0
               /\ ROB'[p].executed \in 0 .. COMPLETED
               /\ ROB'[p].executed = COMPLETED <=> ROB[p].executed = COMPLETED
    <3>1. CASE p = i
      BY <1>4, <1>5, <2>1, <2>2, <3>1
    <3>2. CASE p # i
      BY <1>1, <1>2, <2>1, <3>2
    <3> QED BY <3>1, <3>2
  <2> QED BY <1>2, <2>3 DEF Quiet
<1>7. \A p \in Slots : Memory(p)' <=> Memory(p)
  BY <1>6 DEF Quiet, Memory
<1>8. Stages'
  <2> SUFFICES ASSUME NEW p \in Slots
               PROVE  /\ ROB'[p].id = NoId => ROB'[p].scheduled = 0
                      /\ ROB'[p].executed # 0 \/ Placed(p)' => ROB'[p].scheduled # 0 /\ ROB'[p].reg_ready
                      /\ Memory(p)' /\ ROB'[p].scheduled = COMPLETED => ROB'[p].reg_ready
    BY DEF Stages
  <2>1. CASE p = i
    <3>1. ROB[i].id # NoId
      BY <1>5 DEF RobInv, Stages, COMPLETED
    <3> QED BY <1>4, <1>5, <2>1, <3>1 DEF COMPLETED
  <2>2. CASE p # i
    <3>1. Placed(p)' <=> Placed(p)
      BY <1>2, <2>2 DEF Placed
    <3> QED BY <1>2, <1>7, <2>2, <3>1 DEF RobInv, Stages
  <2> QED BY <2>1, <2>2
<1>9. Queued'
  <2>1. ASSUME NEW p \in Slots PROVE Waits(p)' <=> Waits(p) /\ p # i
    <3>1. CASE p = i
      BY <1>4, <3>1 DEF Waits, INFLIGHT
    <3>2. CASE p # i
      BY <1>2, <1>7, <3>2 DEF Waits
    <3> QED BY <3>1, <3>2
  <2>2. {p \in Slots : Waits(p)'} = {p \in Slots : Waits(p)} \ {i}
    BY <2>1
  <2>3. Range(RTE0) \cup Range(RTE1) = {p \in Slots : Waits(p)}
    BY DEF RobInv, Queued
  <2>4. Range(RTE0') \cup Range(RTE1') = {p \in Slots : Waits(p)'}
    BY <2>2, <2>3
  <2> QED BY <2>4 DEF Queued
<1> QED BY <1>6, <1>8, <1>9, QuietKeeps DEF RobInv

LEMMA ExecuteReleasedKeeps ==
  ASSUME RobInv, ExecuteReleased
  PROVE  RobInv'
<1> DEFINE i == Head(RTE0)
           s == [DoExecution(State, i) EXCEPT !.RTE0 = Tail(@)]
<1>1. RTE0 # << >> /\ BecomeOneOf({s})
  BY DEF ExecuteReleased, Become
<1>2. /\ s.ROB = [ROB EXCEPT ![i].executed = INFLIGHT] /\ s.RTE0 = Tail(RTE0) /\ s.RTE1 = RTE1
      /\ s.head = head /\ s.tail = tail /\ s.next_schedule = next_schedule
      /\ s.dispatched = dispatched /\ s.retired = retired
  BY StateIs DEF DoExecution, StateFields
<1>3. /\ RTE0 \in Seq(Slots) /\ RTE1 \in Seq(Slots) /\ IsInjective(RTE0) /\ IsInjective(RTE1)
      /\ Range(RTE0) \cap Range(RTE1) = {} /\ Range(RTE0) \cup Range(RTE1) = {p \in Slots : Waits(p)}
  BY DEF RobInv, Queued
<1>4. /\ Tail(RTE0) \in Seq(Slots) /\ IsInjective(Tail(RTE0)) /\ i \in Slots
      /\ i \in Range(RTE0) /\ Range(Tail(RTE0)) = Range(RTE0) \ {i}
  BY <1>1, <1>3, TakeHead
<1> HIDE DEF i, s
<1>5. /\ ROB' = s.ROB /\ head' = s.head /\ tail' = s.tail /\ next_schedule' = s.next_schedule
      /\ RTE0' = s.RTE0 /\ RTE1' = s.RTE1 /\ dispatched' = s.dispatched
      /\ retired' = s.retired /\ program' = program
  BY <1>1, BecomeIs
<1>6. Waits(i)
  BY <1>3, <1>4
<1>7. RTE0' = Tail(RTE0) /\ RTE1' = RTE1
  BY <1>2, <1>5
<1>8. /\ Range(Tail(RTE0)) \cap Range(RTE1) = {}
      /\ Range(Tail(RTE0)) \cup Range(RTE1) = (Range(RTE0) \cup Range(RTE1)) \ {i}
  BY <1>3, <1>4
<1> QED BY <1>2, <1>3, <1>4, <1>5, <1>6, <1>7, <1>8, ExecutionKeeps

LEMMA ExecuteReadyKeeps ==
  ASSUME RobInv, ExecuteReady
  PROVE  RobInv'
<1> DEFINE i == Head(RTE1)
           s == [DoExecution(State, i) EXCEPT !.RTE1 = Tail(@)]
<1>1. RTE1 # << >> /\ BecomeOneOf({s})
  BY DEF ExecuteReady, Become
<1>2. /\ s.ROB = [ROB EXCEPT ![i].executed = INFLIGHT] /\ s.RTE0 = RTE0 /\ s.RTE1 = Tail(RTE1)
      /\ s.head = head /\ s.tail = tail /\ s.next_schedule = next_schedule
      /\ s.dispatched = dispatched /\ s.retired = retired
  BY StateIs DEF DoExecution, StateFields
<1>3. /\ RTE0 \in Seq(Slots) /\ RTE1 \in Seq(Slots) /\ IsInjective(RTE0) /\ IsInjective(RTE1)
      /\ Range(RTE0) \cap Range(RTE1) = {} /\ Range(RTE0) \cup Range(RTE1) = {p \in Slots : Waits(p)}
  BY DEF RobInv, Queued
<1>4. /\ Tail(RTE1) \in Seq(Slots) /\ IsInjective(Tail(RTE1)) /\ i \in Slots
      /\ i \in Range(RTE1) /\ Range(Tail(RTE1)) = Range(RTE1) \ {i}
  BY <1>1, <1>3, TakeHead
<1> HIDE DEF i, s
<1>5. /\ ROB' = s.ROB /\ head' = s.head /\ tail' = s.tail /\ next_schedule' = s.next_schedule
      /\ RTE0' = s.RTE0 /\ RTE1' = s.RTE1 /\ dispatched' = s.dispatched
      /\ retired' = s.retired /\ program' = program
  BY <1>1, BecomeIs
<1>6. Waits(i)
  BY <1>3, <1>4
<1>7. RTE1' = Tail(RTE1) /\ RTE0' = RTE0
  BY <1>2, <1>5
<1>8. /\ Range(RTE0) \cap Range(Tail(RTE1)) = {}
      /\ Range(RTE0) \cup Range(Tail(RTE1)) = (Range(RTE0) \cup Range(RTE1)) \ {i}
  BY <1>3, <1>4
<1> QED BY <1>2, <1>3, <1>4, <1>5, <1>6, <1>7, <1>8, ExecutionKeeps

-------------------------------------------------------------------------------
(* The slots of the ring, without the remainder.                           *)

LEMMA Size ==
  ROB_SIZE \in Nat /\ ROB_SIZE >= 1 /\ ROB_SIZE \in Int
BY SizeAssumption

LEMMA SlotIs ==
  ASSUME NEW i
  PROVE  i \in Slots <=> i \in Int /\ 0 <= i /\ i <= ROB_SIZE - 1
BY Size DEF Slots

LEMMA Wrap ==
  ASSUME NEW z \in Nat, z >= 1, NEW x \in 0 .. 2 * z - 1
  PROVE  x % z = IF x < z THEN x ELSE x - z
<1>1. CASE x < z
  BY <1>1
<1>2. CASE ~(x < z)
  BY <1>2
<1> QED BY <1>1, <1>2

LEMMA NextAt ==
  ASSUME NEW h \in Slots, NEW k \in 1 .. ROB_SIZE
  PROVE  (At(h, k) + 1) % ROB_SIZE = At(h, k + 1)
<1>1. h \in Int /\ 0 <= h /\ h <= ROB_SIZE - 1 /\ k \in Int /\ 1 <= k /\ k <= ROB_SIZE
  BY Size, SlotIs
<1> DEFINE x == At(h, k) + 1
<1>2. x = IF h + k - 1 < ROB_SIZE THEN h + k ELSE h + k - ROB_SIZE
  BY <1>1, Size DEF At
<1>3. x \in 0 .. 2 * ROB_SIZE - 1
  BY <1>1, <1>2, Size
<1>4. At(h, k + 1) = IF h + k < ROB_SIZE THEN h + k ELSE h + k - ROB_SIZE
  BY <1>1, Size DEF At
<1> HIDE DEF x
<1>5. x % ROB_SIZE = IF x < ROB_SIZE THEN x ELSE x - ROB_SIZE
  BY <1>3, Size, Wrap
<1>6. x % ROB_SIZE = At(h, k + 1)
  BY <1>1, <1>2, <1>3, <1>4, <1>5, Size
<1> QED BY <1>6 DEF x

LEMMA FirstAt ==
  ASSUME NEW h \in Slots
  PROVE  At(h, 1) = h /\ At(h, ROB_SIZE + 1) = h
BY Size, SlotIs DEF At

LEMMA AtNext ==
  ASSUME NEW h \in Slots, NEW k \in 1 .. ROB_SIZE
  PROVE  At(At(h, 2), k) = At(h, k + 1)
<1>1. h \in Int /\ 0 <= h /\ h <= ROB_SIZE - 1 /\ k \in Int /\ 1 <= k /\ k <= ROB_SIZE
  BY Size, SlotIs
<1>2. At(h, 2) = IF h + 1 < ROB_SIZE THEN h + 1 ELSE 0
  BY <1>1, Size DEF At
<1> DEFINE m == At(h, 2)
<1>3. At(m, k) = IF m + k - 1 < ROB_SIZE THEN m + k - 1 ELSE m + k - 1 - ROB_SIZE
  BY DEF At
<1>4. At(h, k + 1) = IF h + k < ROB_SIZE THEN h + k ELSE h + k - ROB_SIZE
  BY <1>1, Size DEF At
<1>5. CASE h + 1 < ROB_SIZE
  <2>1. m = h + 1
    BY <1>2, <1>5
  <2> HIDE DEF m
  <2>2. At(m, k) = IF h + k < ROB_SIZE THEN h + k ELSE h + k - ROB_SIZE
    BY <1>1, <1>3, <2>1, Size
  <2> QED BY <1>4, <2>2 DEF m
<1>6. CASE ~(h + 1 < ROB_SIZE)
  <2>1. m = 0 /\ h = ROB_SIZE - 1
    BY <1>1, <1>2, <1>6, Size
  <2> HIDE DEF m
  <2>2. At(m, k) = k - 1
    BY <1>1, <1>3, <2>1, Size
  <2>3. At(h, k + 1) = k - 1
    BY <1>1, <1>4, <2>1, Size
  <2> QED BY <2>2, <2>3 DEF m
<1> QED BY <1>5, <1>6

LEMMA AtInjective ==
  ASSUME NEW h \in Slots, NEW k \in 1 .. ROB_SIZE, NEW m \in 1 .. ROB_SIZE, At(h, k) = At(h, m)
  PROVE  k = m
<1>1. /\ h \in Int /\ 0 <= h /\ h <= ROB_SIZE - 1 /\ k \in Int /\ 1 <= k /\ k <= ROB_SIZE
      /\ m \in Int /\ 1 <= m /\ m <= ROB_SIZE
  BY Size, SlotIs
<1> QED BY <1>1, Size DEF At

(* The place of slot i in the ring that starts at h.                       *)
Place(h, i) == IF h <= i THEN i - h + 1 ELSE i - h + 1 + ROB_SIZE

LEMMA PlaceIs ==
  ASSUME NEW h \in Slots, NEW i \in Slots
  PROVE  Place(h, i) \in 1 .. ROB_SIZE /\ At(h, Place(h, i)) = i
<1>1. h \in Int /\ 0 <= h /\ h <= ROB_SIZE - 1 /\ i \in Int /\ 0 <= i /\ i <= ROB_SIZE - 1
  BY Size, SlotIs
<1> QED BY <1>1, Size DEF At, Place

LEMMA Held01 ==
  ASSUME Types, Ring
  PROVE  /\ Held \in Nat /\ Held <= ROB_SIZE /\ retired \in Nat /\ dispatched \in Nat
         /\ retired + Held = dispatched /\ head \in Slots
BY DEF Types, Ring, Held

(* What the ring says of an entry in use, and of an instruction in flight. *)
LEMMA LiveIs ==
  ASSUME Types, Ring, NEW i \in LiveRob
  PROVE  /\ i \in Slots /\ ROB[i].id \in Nat /\ ROB[i].id >= retired + 1 /\ ROB[i].id <= dispatched
         /\ Place(head, i) \in 1 .. Held /\ ROB[i].id = retired + Place(head, i)
<1>1. i \in Slots /\ ROB[i].id # NoId
  BY DEF LiveRob
<1>2. Place(head, i) \in 1 .. ROB_SIZE /\ At(head, Place(head, i)) = i
  BY <1>1, Held01, PlaceIs
<1> DEFINE k == Place(head, i)
<1> HIDE DEF k
<1>3. k \in 1 .. ROB_SIZE /\ At(head, k) = i
  BY <1>2 DEF k
<1>4. k <= Held
  <2>1. ~(k > Held)
    BY <1>1, <1>3 DEF Ring
  <2> QED BY <1>3, <2>1, Held01, Size
<1>5. k \in 1 .. Held
  BY <1>3, <1>4, Held01
<1>6. ROB[i].id = retired + k
  BY <1>3, <1>5 DEF Ring
<1> QED BY <1>1, <1>5, <1>6, Held01 DEF k

LEMMA HolderIs ==
  ASSUME Types, Ring, NEW n \in Nat, n >= retired + 1, n <= dispatched
  PROVE  /\ At(head, n - retired) \in LiveRob /\ ROB[At(head, n - retired)].id = n
         /\ n - retired \in 1 .. Held
<1>1. n - retired \in 1 .. Held /\ n - retired \in 1 .. ROB_SIZE + 1 /\ retired + (n - retired) = n
  BY Held01, Size
<1>2. ROB[At(head, n - retired)].id = n
  BY <1>1 DEF Ring
<1>3. At(head, n - retired) \in Slots
  BY <1>1, Held01, AtSlots
<1>4. n # NoId
  BY Held01 DEF NoId
<1> QED BY <1>1, <1>2, <1>3, <1>4 DEF LiveRob

LEMMA OneHolder ==
  ASSUME Types, Ring, NEW i \in LiveRob, NEW p \in LiveRob, ROB[i].id = ROB[p].id
  PROVE  i = p
<1>1. Place(head, i) = Place(head, p)
  <2> DEFINE k == Place(head, i)
             m == Place(head, p)
  <2>1. ROB[i].id = retired + k /\ k \in 1 .. Held
    BY LiveIs
  <2>2. ROB[p].id = retired + m /\ m \in 1 .. Held
    BY LiveIs
  <2>3. Held \in Nat /\ retired \in Nat
    BY Held01
  <2> HIDE DEF k, m
  <2>4. retired + k = retired + m
    BY <2>1, <2>2
  <2>6. k \in Int /\ m \in Int /\ retired \in Int
    <3>1. \A x \in 1 .. Held : x \in Int
      BY <2>3
    <3> QED BY <2>1, <2>2, <2>3, <3>1
  <2>5. k = m
    BY ONLY <2>4, <2>6
  <2> QED BY <2>5 DEF k, m
<1>2. i \in Slots /\ p \in Slots
  BY DEF LiveRob
<1> QED BY <1>1, <1>2, PlaceIs, Held01

-------------------------------------------------------------------------------
(* add_to_rob.                                                             *)

NewEntry(n, e) ==
  /\ DOMAIN e = EntryFields /\ e.id = n /\ e.reg_ready = FALSE /\ e.scheduled = 0 /\ e.executed = 0
  /\ e.num_reg_dependent = 0 /\ e.reg_deps = {}
  /\ \A x \in Range(e.lq) \cup Range(e.sq) : x = NoIndex

LEMMA DispatchIs ==
  ASSUME Types, Dispatch
  PROVE  /\ dispatched < Len(program) /\ ROB[tail].id = NoId /\ program' = program
         /\ \E e : NewEntry(dispatched + 1, e) /\ ROB' = [ROB EXCEPT ![tail] = e]
         /\ tail' = (tail + 1) % ROB_SIZE /\ dispatched' = dispatched + 1
         /\ head' = head /\ next_schedule' = next_schedule /\ retired' = retired
         /\ RTE0' = RTE0 /\ RTE1' = RTE1
<1> DEFINE n == dispatched + 1
           c == program[n]
           e == [EmptyEntry EXCEPT !.id = n, !.num_mem_ops = Len(c.loads) + Len(c.stores),
                           !.lq = [j \in DOMAIN c.loads |-> NoIndex],
                           !.sq = [k \in DOMAIN c.stores |-> NoIndex]]
           s == AddToRob(State)
<1>1. /\ s.ROB = [ROB EXCEPT ![tail] = e] /\ s.tail = (tail + 1) % ROB_SIZE /\ s.dispatched = n
      /\ s.head = head /\ s.next_schedule = next_schedule /\ s.retired = retired
      /\ s.RTE0 = RTE0 /\ s.RTE1 = RTE1
  BY StateIs DEF AddToRob, StateFields
<1>2. NewEntry(n, e)
  <2>1. e.lq = [j \in DOMAIN c.loads |-> NoIndex] /\ e.sq = [k \in DOMAIN c.stores |-> NoIndex]
    BY DEF EmptyEntry
  <2>2. \A x \in Range(e.lq) \cup Range(e.sq) : x = NoIndex
    BY <2>1 DEF Range
  <2>3. /\ DOMAIN e = EntryFields /\ e.id = n /\ e.reg_ready = FALSE /\ e.scheduled = 0
        /\ e.executed = 0 /\ e.num_reg_dependent = 0 /\ e.reg_deps = {}
    BY DEF EmptyEntry, EntryFields
  <2> HIDE DEF e
  <2> QED BY <2>2, <2>3 DEF NewEntry
<1>3. BecomeOneOf({s}) /\ dispatched < Len(program) /\ ROB[tail].id = NoId
  BY DEF Dispatch, Become
<1> HIDE DEF s, e
<1>4. /\ ROB' = s.ROB /\ head' = s.head /\ tail' = s.tail /\ next_schedule' = s.next_schedule
      /\ RTE0' = s.RTE0 /\ RTE1' = s.RTE1 /\ dispatched' = s.dispatched
      /\ retired' = s.retired /\ program' = program
  BY <1>3, BecomeIs
<1> QED BY <1>1, <1>2, <1>3, <1>4

LEMMA DispatchKeeps ==
  ASSUME RobInv, Dispatch
  PROVE  RobInv'
<1>1. Types /\ Ring /\ Prefix /\ Debts /\ Sources /\ Stages /\ Queued /\ WakeupsCounted
  BY DEF RobInv
<1>2. /\ dispatched < Len(program) /\ ROB[tail].id = NoId /\ program' = program
      /\ tail' = (tail + 1) % ROB_SIZE /\ dispatched' = dispatched + 1
      /\ head' = head /\ next_schedule' = next_schedule /\ retired' = retired
      /\ RTE0' = RTE0 /\ RTE1' = RTE1
  BY <1>1, DispatchIs
<1>3. PICK e : NewEntry(dispatched + 1, e) /\ ROB' = [ROB EXCEPT ![tail] = e]
  BY <1>1, DispatchIs
<1>4. /\ Held \in Nat /\ Held < ROB_SIZE /\ tail = At(head, Held + 1) /\ tail \in Slots
      /\ Held + 1 \in 1 .. ROB_SIZE
  <2>1. Held \in Nat /\ Held <= ROB_SIZE /\ tail = At(head, Held + 1) /\ head \in Slots
    BY <1>1, Held01 DEF Ring
  <2>2. Held # ROB_SIZE
    <3> SUFFICES ASSUME Held = ROB_SIZE PROVE FALSE
      OBVIOUS
    <3>1. tail = At(head, 1)
      BY <2>1, FirstAt
    <3>2. ROB[tail].id = retired + 1
      <4>1. 1 \in 1 .. Held
        BY Size
      <4> QED BY <1>1, <3>1, <4>1 DEF Ring
    <3> QED BY <1>1, <1>2, <3>2, Held01 DEF NoId
  <2>3. Held + 1 \in 1 .. ROB_SIZE /\ Held + 1 \in 1 .. ROB_SIZE + 1 /\ Held < ROB_SIZE
    BY <2>1, <2>2, Size
  <2> QED BY <2>1, <2>3, AtSlots
<1>5. /\ DOMAIN ROB' = Slots /\ ROB'[tail] = e
      /\ \A p \in Slots : p # tail => ROB'[p] = ROB[p]
  BY <1>1, <1>3, <1>4 DEF Types
<1>6. dispatched \in Nat /\ retired \in Nat /\ dispatched + 1 # NoId /\ Held' = Held + 1
  BY <1>1, <1>2, Held01 DEF NoId, Held
<1>7. /\ LiveRob' = LiveRob \cup {tail} /\ tail \notin LiveRob /\ tail \in Slots
      /\ LiveRob \subseteq Slots
  <2>1. e.id # NoId
    BY <1>3, <1>6 DEF NewEntry
  <2> QED BY <1>2, <1>4, <1>5, <2>1 DEF LiveRob
<1>8. \A i \in LiveRob : ROB'[i] = ROB[i] /\ ROB[i].id \in Nat /\ ROB[i].id <= dispatched
  BY <1>1, <1>5, <1>7, LiveIs
<1>9. /\ e.id = dispatched + 1 /\ e.scheduled = 0 /\ e.executed = 0 /\ e.reg_deps = {}
      /\ e.reg_ready = FALSE /\ e.num_reg_dependent = 0 /\ DOMAIN e = EntryFields
  BY <1>3 DEF NewEntry
<1>10. Types'
  <2>1. ASSUME NEW p \in Slots
        PROVE  /\ DOMAIN ROB'[p] = EntryFields /\ ROB'[p].id \in 0 .. Len(program)
               /\ ROB'[p].scheduled \in 0 .. COMPLETED /\ ROB'[p].executed \in 0 .. COMPLETED
               /\ ROB'[p].num_reg_dependent \in Nat /\ ROB'[p].reg_ready \in BOOLEAN
               /\ ROB'[p].reg_deps \subseteq Slots \X Reg
    <3>1. CASE p = tail
      <4>1. dispatched + 1 \in 0 .. Len(program)
        <5>1. Len(program) \in Nat
          BY <1>1, LenProperties DEF Types
        <5> QED BY <1>2, <1>6, <5>1
      <4>2. /\ 0 \in 0 .. COMPLETED /\ 0 \in Nat /\ FALSE \in BOOLEAN
            /\ {} \subseteq Slots \X Reg
        BY DEF COMPLETED
      <4>3. ROB'[p] = e
        BY <1>5, <3>1
      <4> QED BY <1>9, <4>1, <4>2, <4>3
    <3>2. CASE p # tail
      BY <1>1, <1>5, <3>2 DEF Types
    <3> QED BY <3>1, <3>2
  <2>2. dispatched + 1 \in retired .. Len(program)
    <3>1. Len(program) \in Nat /\ dispatched \in retired .. Len(program)
      BY <1>1, LenProperties DEF Types
    <3> QED BY <1>2, <1>6, <3>1
  <2> QED BY <1>1, <1>2, <1>5, <2>1, <2>2 DEF Types
<1>11. Ring'
  <2>1. \A k \in 1 .. ROB_SIZE : At(head, k) \in Slots /\ (k # Held + 1 => At(head, k) # tail)
    <3>1. \A k \in 1 .. ROB_SIZE : k \in 1 .. ROB_SIZE + 1
      BY Size
    <3> QED BY <1>1, <1>4, <3>1, AtSlots, AtInjective, Held01
  <2>2. tail' = At(head, Held + 2)
    <3>1. (Held + 1) + 1 = Held + 2
      BY <1>4
    <3> QED BY <1>1, <1>2, <1>4, <3>1, NextAt, Held01
  <2>3. ASSUME NEW k \in 1 .. Held + 1 PROVE ROB'[At(head, k)].id = retired + k
    <3>1. CASE k = Held + 1
      <4>1. dispatched + 1 = retired + k
        BY <1>1, <1>4, <1>6, <3>1, Held01
      <4> QED BY <1>4, <1>5, <1>9, <3>1, <4>1
    <3>2. CASE k # Held + 1
      <4>1. k \in 1 .. Held /\ k \in 1 .. ROB_SIZE
        BY <1>4, <3>2, Size
      <4> QED BY <1>1, <1>5, <2>1, <3>2, <4>1 DEF Ring
    <3> QED BY <3>1, <3>2
  <2>4. ASSUME NEW k \in 1 .. ROB_SIZE, k > Held + 1 PROVE ROB'[At(head, k)].id = NoId
    <3>1. k > Held /\ k # Held + 1
      BY <1>4, <2>4
    <3> QED BY <1>1, <1>5, <2>1, <3>1 DEF Ring
  <2>5. Held + 1 <= ROB_SIZE /\ (Held + 1) + 1 = Held + 2
    BY <1>4, Size
  <2>6. \A h, k : At(h, k)' = At(h, k)
    BY DEF At
  <2> QED BY <1>2, <1>6, <2>2, <2>3, <2>4, <2>5 DEF Ring
<1>12. Prefix'
  <2> SUFFICES ASSUME NEW i \in LiveRob', NEW k \in LiveRob', ROB'[k].id < ROB'[i].id,
                      ROB'[i].scheduled # 0
               PROVE  ROB'[k].scheduled # 0
    BY DEF Prefix
  <2>1. i \in LiveRob
    BY <1>5, <1>7, <1>9
  <2>2. k \in LiveRob
    <3>1. k # tail
      BY <1>5, <1>6, <1>8, <1>9, <2>1
    <3> QED BY <1>7, <3>1
  <2> QED BY <1>1, <1>8, <2>1, <2>2 DEF Prefix
<1>13. Debts'
  <2> SUFFICES ASSUME NEW p \in LiveRob', ROB'[p].executed # COMPLETED, NEW o \in ROB'[p].reg_deps
               PROVE  /\ o[1] \in LiveRob' /\ ROB'[o[1]].scheduled # 0 /\ ROB'[p].id < ROB'[o[1]].id
                      /\ o[2] \in program'[ROB'[o[1]].id].reads
    BY DEF Debts
  <2>1. p \in LiveRob
    BY <1>5, <1>7, <1>9
  <2>2. o[1] \in LiveRob /\ ROB[o[1]].scheduled # 0 /\ ROB[p].id < ROB[o[1]].id
        /\ o[2] \in program[ROB[o[1]].id].reads
    BY <1>1, <1>8, <2>1 DEF Debts
  <2> QED BY <1>2, <1>7, <1>8, <2>1, <2>2
<1>14. Sources'
  <2> SUFFICES ASSUME NEW i \in LiveRob', NEW p \in LiveRob', ROB'[i].scheduled # 0,
                      NEW r \in program'[ROB'[i].id].reads,
                      LastWriter(program', ROB'[p].id, ROB'[i].id, r)
               PROVE  ROB'[p].executed = COMPLETED \/ << i, r >> \in ROB'[p].reg_deps
    BY DEF Sources
  <2>1. i \in LiveRob
    BY <1>5, <1>7, <1>9
  <2>2. p \in LiveRob
    <3>1. ROB'[p].id < ROB'[i].id
      BY DEF LastWriter
    <3>2. p # tail
      BY <1>5, <1>6, <1>8, <1>9, <2>1, <3>1
    <3> QED BY <1>7, <3>2
  <2> QED BY <1>1, <1>2, <1>8, <2>1, <2>2 DEF Sources
<1>15. WakeupsCounted'
  <2> SUFFICES ASSUME NEW i \in LiveRob', ROB'[i].scheduled # 0
               PROVE  /\ ROB'[i].num_reg_dependent =
                           Cardinality({o \in LiveRob' \X Reg :
                             ROB'[o[1]].executed # COMPLETED /\ << i, o[2] >> \in ROB'[o[1]].reg_deps})
                      /\ ROB'[i].reg_ready <=> ROB'[i].num_reg_dependent = 0
    BY DEF WakeupsCounted
  <2>1. i \in LiveRob
    BY <1>5, <1>7, <1>9
  <2>2. {o \in LiveRob' \X Reg :
           ROB'[o[1]].executed # COMPLETED /\ << i, o[2] >> \in ROB'[o[1]].reg_deps}
        = {o \in LiveRob \X Reg :
             ROB[o[1]].executed # COMPLETED /\ << i, o[2] >> \in ROB[o[1]].reg_deps}
    BY <1>5, <1>7, <1>8, <1>9
  <2> QED BY <1>1, <1>8, <2>1, <2>2 DEF WakeupsCounted
<1>16. \A p \in Slots : p # tail => (Memory(p)' <=> Memory(p)) /\ (Placed(p)' <=> Placed(p))
  BY <1>2, <1>5 DEF Memory, Placed
<1>17. Stages'
  <2> SUFFICES ASSUME NEW p \in Slots
               PROVE  /\ ROB'[p].id = NoId => ROB'[p].scheduled = 0
                      /\ ROB'[p].executed # 0 \/ Placed(p)' => ROB'[p].scheduled # 0 /\ ROB'[p].reg_ready
                      /\ Memory(p)' /\ ROB'[p].scheduled = COMPLETED => ROB'[p].reg_ready
    BY DEF Stages
  <2>1. CASE p = tail
    <3>1. ~Placed(p)'
      BY <1>3, <1>5, <2>1 DEF Placed, NewEntry
    <3> QED BY <1>5, <1>9, <2>1, <3>1 DEF COMPLETED
  <2>2. CASE p # tail
    BY <1>1, <1>5, <1>16, <2>2 DEF Stages
  <2> QED BY <2>1, <2>2
<1>18. Queued'
  <2>1. ASSUME NEW p \in Slots PROVE Waits(p)' <=> Waits(p)
    <3>1. CASE p = tail
      <4>1. ROB[p].scheduled = 0
        BY <1>1, <1>2, <3>1 DEF Stages
      <4> QED BY <1>5, <1>9, <3>1, <4>1 DEF Waits, COMPLETED
    <3>2. CASE p # tail
      BY <1>5, <1>16, <3>2 DEF Waits
    <3> QED BY <3>1, <3>2
  <2>2. {p \in Slots : Waits(p)'} = {p \in Slots : Waits(p)}
    BY <2>1
  <2> QED BY <1>1, <1>2, <2>2 DEF Queued
<1> QED BY <1>10, <1>11, <1>12, <1>13, <1>14, <1>15, <1>17, <1>18 DEF RobInv

-------------------------------------------------------------------------------
(* retire_rob.                                                             *)

LEMMA EmptyIs ==
  NewEntry(NoId, EmptyEntry)
<1>1. EmptyEntry.lq = << >> /\ EmptyEntry.sq = << >>
  BY DEF EmptyEntry
<1>2. Range(EmptyEntry.lq) = {} /\ Range(EmptyEntry.sq) = {}
  BY <1>1 DEF Range
<1>3. /\ DOMAIN EmptyEntry = EntryFields /\ EmptyEntry.id = NoId /\ EmptyEntry.reg_ready = FALSE
      /\ EmptyEntry.scheduled = 0 /\ EmptyEntry.executed = 0
      /\ EmptyEntry.num_reg_dependent = 0 /\ EmptyEntry.reg_deps = {}
  BY DEF EmptyEntry, EntryFields
<1> QED BY <1>2, <1>3 DEF NewEntry

LEMMA RetireIs ==
  ASSUME Types, Retire
  PROVE  /\ ROB[head].id # NoId /\ ROB[head].executed = COMPLETED /\ program' = program
         /\ ROB' = [ROB EXCEPT ![head] = EmptyEntry]
         /\ head' = (head + 1) % ROB_SIZE /\ retired' = retired + 1
         /\ tail' = tail /\ next_schedule' = next_schedule /\ dispatched' = dispatched
         /\ RTE0' = RTE0 /\ RTE1' = RTE1
<1> DEFINE s == Retired(State)
<1>1. /\ s.ROB = [ROB EXCEPT ![head] = EmptyEntry] /\ s.head = (head + 1) % ROB_SIZE
      /\ s.retired = retired + 1 /\ s.tail = tail /\ s.next_schedule = next_schedule
      /\ s.dispatched = dispatched /\ s.RTE0 = RTE0 /\ s.RTE1 = RTE1
  BY StateIs DEF Retired, StateFields
<1>2. BecomeOneOf({s}) /\ ROB[head].id # NoId /\ ROB[head].executed = COMPLETED
  BY DEF Retire, Become
<1> HIDE DEF s
<1>3. /\ ROB' = s.ROB /\ head' = s.head /\ tail' = s.tail /\ next_schedule' = s.next_schedule
      /\ RTE0' = s.RTE0 /\ RTE1' = s.RTE1 /\ dispatched' = s.dispatched
      /\ retired' = s.retired /\ program' = program
  BY <1>2, BecomeIs
<1> QED BY <1>1, <1>2, <1>3

LEMMA RetireKeeps ==
  ASSUME RobInv, Retire
  PROVE  RobInv'
<1>1. Types /\ Ring /\ Prefix /\ Debts /\ Sources /\ Stages /\ Queued /\ WakeupsCounted
  BY DEF RobInv
<1>2. /\ ROB[head].id # NoId /\ ROB[head].executed = COMPLETED /\ program' = program
      /\ ROB' = [ROB EXCEPT ![head] = EmptyEntry]
      /\ head' = (head + 1) % ROB_SIZE /\ retired' = retired + 1
      /\ tail' = tail /\ next_schedule' = next_schedule /\ dispatched' = dispatched
      /\ RTE0' = RTE0 /\ RTE1' = RTE1
  BY <1>1, RetireIs
<1>3. NewEntry(NoId, EmptyEntry)
  BY EmptyIs
<1>4. /\ DOMAIN ROB' = Slots /\ head \in Slots /\ ROB'[head] = EmptyEntry
      /\ \A p \in Slots : p # head => ROB'[p] = ROB[p]
  BY <1>1, <1>2 DEF Types
<1>5. /\ head \in LiveRob /\ LiveRob \subseteq Slots /\ LiveRob' = LiveRob \ {head}
  BY <1>2, <1>3, <1>4 DEF LiveRob, NewEntry
<1>6. /\ Held \in Nat /\ Held >= 1 /\ Held <= ROB_SIZE /\ ROB[head].id = retired + 1
      /\ retired \in Nat /\ dispatched \in Nat /\ retired + Held = dispatched
  <2>1. Held \in Nat /\ Held <= ROB_SIZE /\ retired \in Nat /\ dispatched \in Nat /\ retired + Held = dispatched
    BY <1>1, Held01
  <2>2. Held >= 1
    <3>1. Place(head, head) \in 1 .. Held
      BY <1>1, <1>5, LiveIs
    <3> QED BY <2>1, <3>1
  <2>3. 1 \in 1 .. Held /\ At(head, 1) = head
    BY <1>4, <2>1, <2>2, FirstAt
  <2>4. ROB[head].id = retired + 1
    BY <1>1, <2>3 DEF Ring
  <2> QED BY <2>1, <2>2, <2>4
<1>7. \A i \in LiveRob' : i \in LiveRob /\ i \in Slots /\ i # head /\ ROB'[i] = ROB[i]
  BY <1>4, <1>5
<1>8. Types'
  <2>1. ASSUME NEW p \in Slots
        PROVE  /\ DOMAIN ROB'[p] = EntryFields /\ ROB'[p].id \in 0 .. Len(program)
               /\ ROB'[p].scheduled \in 0 .. COMPLETED /\ ROB'[p].executed \in 0 .. COMPLETED
               /\ ROB'[p].num_reg_dependent \in Nat /\ ROB'[p].reg_ready \in BOOLEAN
               /\ ROB'[p].reg_deps \subseteq Slots \X Reg
    <3>1. CASE p = head
      <4>1. Len(program) \in Nat
        BY <1>1, LenProperties DEF Types
      <4>2. /\ 0 \in 0 .. COMPLETED /\ 0 \in Nat /\ FALSE \in BOOLEAN
            /\ {} \subseteq Slots \X Reg /\ NoId \in 0 .. Len(program)
        BY <4>1 DEF COMPLETED, NoId
      <4>3. ROB'[p] = EmptyEntry
        BY <1>4, <3>1
      <4> QED BY <1>3, <4>2, <4>3 DEF NewEntry
    <3>2. CASE p # head
      BY <1>1, <1>4, <3>2 DEF Types
    <3> QED BY <3>1, <3>2
  <2>2. head' \in Slots
    <3>1. head' = At(head, 2)
      <4>1. 1 \in 1 .. ROB_SIZE /\ At(head, 1) = head /\ 1 + 1 = 2
        BY <1>4, FirstAt, Size
      <4> QED BY <1>2, <1>4, <4>1, NextAt
    <3>2. 2 \in 1 .. ROB_SIZE + 1
      BY Size
    <3> QED BY <1>4, <3>1, <3>2, AtSlots
  <2>3. retired' \in Nat /\ dispatched' \in retired' .. Len(program')
    <3>1. Len(program) \in Nat /\ dispatched \in retired .. Len(program)
      BY <1>1, LenProperties DEF Types
    <3> QED BY <1>2, <1>6, <3>1
  <2> QED BY <1>1, <1>2, <1>4, <2>1, <2>2, <2>3 DEF Types
<1>9. Ring'
  <2>1. head' = At(head, 2)
    <3>1. 1 \in 1 .. ROB_SIZE /\ At(head, 1) = head /\ 1 + 1 = 2
      BY <1>4, FirstAt, Size
    <3> QED BY <1>2, <1>4, <3>1, NextAt
  <2>2. \A k \in 1 .. ROB_SIZE : At(head', k) = At(head, k + 1)
    BY <1>4, <2>1, AtNext
  <2>3. Held' = Held - 1
    BY <1>2, <1>6 DEF Held
  <2>4. tail = At(head', Held)
    <3>1. Held \in 1 .. ROB_SIZE
      BY <1>6, Size
    <3> QED BY <1>1, <2>2, <3>1 DEF Ring
  <2>5. ASSUME NEW k \in 1 .. ROB_SIZE, k + 1 <= ROB_SIZE
        PROVE  ROB'[At(head', k)] = ROB[At(head, k + 1)]
    <3>1. k + 1 \in 1 .. ROB_SIZE /\ k + 1 \in 1 .. ROB_SIZE + 1 /\ 1 \in 1 .. ROB_SIZE /\ k + 1 # 1
      BY <2>5, Size
    <3>2. At(head, k + 1) \in Slots /\ At(head, k + 1) # head
      BY <1>4, <3>1, AtSlots, AtInjective, FirstAt
    <3> QED BY <1>4, <2>2, <3>2
  <2>6. ASSUME NEW k \in 1 .. Held - 1 PROVE ROB'[At(head', k)].id = (retired + 1) + k
    <3>1. k \in 1 .. ROB_SIZE /\ k + 1 <= ROB_SIZE /\ k + 1 \in 1 .. Held
      BY <1>6, Size
    <3>2. ROB[At(head, k + 1)].id = retired + (k + 1)
      BY <1>1, <3>1 DEF Ring
    <3>3. retired + (k + 1) = (retired + 1) + k
      BY <1>6
    <3> QED BY <2>5, <3>1, <3>2, <3>3
  <2>7. ASSUME NEW k \in 1 .. ROB_SIZE, k > Held - 1 PROVE ROB'[At(head', k)].id = NoId
    <3>1. CASE k = ROB_SIZE
      <4>1. At(head', k) = head
        BY <1>4, <2>2, <3>1, FirstAt
      <4> QED BY <1>3, <1>4, <4>1 DEF NewEntry
    <3>2. CASE k # ROB_SIZE
      <4>1. k + 1 <= ROB_SIZE /\ k + 1 \in 1 .. ROB_SIZE /\ k + 1 > Held
        BY <1>6, <2>7, <3>2, Size
      <4>2. ROB[At(head, k + 1)].id = NoId
        BY <1>1, <4>1 DEF Ring
      <4> QED BY <2>5, <4>1, <4>2
    <3> QED BY <3>1, <3>2
  <2>8. Held - 1 <= ROB_SIZE /\ (Held - 1) + 1 = Held
    BY <1>6, Size
  <2> QED BY <1>2, <2>3, <2>4, <2>6, <2>7, <2>8 DEF Ring
<1>10. Prefix'
  BY <1>1, <1>7 DEF Prefix
<1>11. Debts'
  <2> SUFFICES ASSUME NEW p \in LiveRob', ROB'[p].executed # COMPLETED, NEW o \in ROB'[p].reg_deps
               PROVE  /\ o[1] \in LiveRob' /\ ROB'[o[1]].scheduled # 0 /\ ROB'[p].id < ROB'[o[1]].id
                      /\ o[2] \in program'[ROB'[o[1]].id].reads
    BY DEF Debts
  <2>1. p \in LiveRob /\ ROB'[p] = ROB[p]
    BY <1>7
  <2>2. o[1] \in LiveRob /\ ROB[o[1]].scheduled # 0 /\ ROB[p].id < ROB[o[1]].id
        /\ o[2] \in program[ROB[o[1]].id].reads
    BY <1>1, <2>1 DEF Debts
  <2>3. o[1] # head
    <3>1. ROB[p].id \in Nat /\ ROB[p].id >= retired + 1
      BY <1>1, <2>1, LiveIs
    <3> QED BY <1>6, <2>2, <3>1
  <2> QED BY <1>2, <1>5, <1>7, <2>1, <2>2, <2>3
<1>12. Sources'
  BY <1>1, <1>2, <1>7 DEF Sources
<1>13. WakeupsCounted'
  <2> SUFFICES ASSUME NEW i \in LiveRob', ROB'[i].scheduled # 0
               PROVE  /\ ROB'[i].num_reg_dependent =
                           Cardinality({o \in LiveRob' \X Reg :
                             ROB'[o[1]].executed # COMPLETED /\ << i, o[2] >> \in ROB'[o[1]].reg_deps})
                      /\ ROB'[i].reg_ready <=> ROB'[i].num_reg_dependent = 0
    BY DEF WakeupsCounted
  <2>1. i \in LiveRob /\ ROB'[i] = ROB[i]
    BY <1>7
  <2>2. {o \in LiveRob' \X Reg :
           ROB'[o[1]].executed # COMPLETED /\ << i, o[2] >> \in ROB'[o[1]].reg_deps}
        = {o \in LiveRob \X Reg :
             ROB[o[1]].executed # COMPLETED /\ << i, o[2] >> \in ROB[o[1]].reg_deps}
    BY <1>2, <1>5, <1>7
  <2> QED BY <1>1, <2>1, <2>2 DEF WakeupsCounted
<1>14. \A p \in Slots : p # head => (Memory(p)' <=> Memory(p)) /\ (Placed(p)' <=> Placed(p))
  BY <1>2, <1>4 DEF Memory, Placed
<1>15. Stages'
  <2> SUFFICES ASSUME NEW p \in Slots
               PROVE  /\ ROB'[p].id = NoId => ROB'[p].scheduled = 0
                      /\ ROB'[p].executed # 0 \/ Placed(p)' => ROB'[p].scheduled # 0 /\ ROB'[p].reg_ready
                      /\ Memory(p)' /\ ROB'[p].scheduled = COMPLETED => ROB'[p].reg_ready
    BY DEF Stages
  <2>1. CASE p = head
    <3>1. ~Placed(p)'
      BY <1>3, <1>4, <2>1 DEF Placed, NewEntry
    <3> QED BY <1>3, <1>4, <2>1, <3>1 DEF COMPLETED, NewEntry
  <2>2. CASE p # head
    BY <1>1, <1>4, <1>14, <2>2 DEF Stages
  <2> QED BY <2>1, <2>2
<1>16. Queued'
  <2>1. ASSUME NEW p \in Slots PROVE Waits(p)' <=> Waits(p)
    <3>1. CASE p = head
      BY <1>2, <1>3, <1>4, <3>1 DEF Waits, COMPLETED, NewEntry
    <3>2. CASE p # head
      BY <1>4, <1>14, <3>2 DEF Waits
    <3> QED BY <3>1, <3>2
  <2>2. {p \in Slots : Waits(p)'} = {p \in Slots : Waits(p)}
    BY <2>1
  <2> QED BY <1>1, <1>2, <2>2 DEF Queued
<1> QED BY <1>8, <1>9, <1>10, <1>11, <1>12, <1>13, <1>15, <1>16 DEF RobInv

-------------------------------------------------------------------------------
(* Sets of slots in order.                                                 *)

LEMMA HasLargest ==
  ASSUME NEW n \in Nat, NEW S \in SUBSET (0 .. n), S # {}
  PROVE  \E x \in S : \A y \in S : y <= x
<1> DEFINE B == {n - x : x \in S}
<1>1. B \subseteq Nat /\ B # {}
  <2>1. \A x \in 0 .. n : n - x \in Nat
    OBVIOUS
  <2>2. \A x \in S : n - x \in Nat
    BY <2>1
  <2> QED BY <2>2
<1>2. PICK w \in B : \A v \in B : ~(<< v, w >> \in OpToRel(<, Nat))
  <2> HIDE DEF B
  <2> QED BY <1>1, NatLessThanWellFounded, WFMin
<1>3. PICK x \in S : w = n - x
  OBVIOUS
<1>4. ASSUME NEW y \in S PROVE y <= x
  <2>1. n - y \in B /\ n - y \in Nat /\ w \in Nat
    BY <1>1
  <2>2. ~(n - y < w)
    BY <1>2, <2>1 DEF OpToRel
  <2> QED BY <1>3, <2>1, <2>2
<1> QED BY <1>4

Ordered(q, S) ==
  /\ q \in [1 .. Cardinality(S) -> S]
  /\ \A k \in 2 .. Cardinality(S) : q[k - 1] < q[k]

LEMMA OrderedExists ==
  ASSUME NEW n \in Nat, NEW T \in SUBSET (0 .. n)
  PROVE  \E q : Ordered(q, T)
<1> DEFINE B == {m \in Nat : \E S \in SUBSET (0 .. n) : Cardinality(S) = m /\ ~\E q : Ordered(q, S)}
<1>1. \A S \in SUBSET (0 .. n) : IsFiniteSet(S) /\ Cardinality(S) \in Nat
  <2>1. IsFiniteSet(0 .. n)
    BY FS_Interval
  <2> QED BY <2>1, FS_Subset, FS_CardinalityType
<1>2. ASSUME NEW m \in B PROVE m - 1 \in B
  <2>1. PICK S \in SUBSET (0 .. n) : Cardinality(S) = m /\ ~\E q : Ordered(q, S)
    OBVIOUS
  <2>2. S # {}
    <3> SUFFICES ASSUME S = {} PROVE FALSE
      OBVIOUS
    <3>1. m = 0
      BY <2>1, FS_EmptySet
    <3>2. [k \in {} |-> 0] \in [{} -> S] /\ 1 .. 0 = {} /\ 2 .. 0 = {}
      OBVIOUS
    <3>3. Ordered([k \in {} |-> 0], S)
      BY <2>1, <3>1, <3>2 DEF Ordered
    <3> QED BY <2>1, <3>3
  <2>3. PICK x \in S : \A y \in S : y <= x
    BY <2>2, HasLargest
  <2> DEFINE U == S \ {x}
  <2>4. U \in SUBSET (0 .. n) /\ Cardinality(U) = m - 1 /\ Cardinality(U) \in Nat
    <3>1. U \in SUBSET (0 .. n)
      OBVIOUS
    <3>2. Cardinality(U) = m - 1
      BY <1>1, <2>1, FS_RemoveElement
    <3> QED BY <1>1, <3>1, <3>2
  <2>5. ASSUME NEW q, Ordered(q, U) PROVE FALSE
    <3> DEFINE p == [k \in 1 .. m |-> IF k = m THEN x ELSE q[k]]
    <3>1. q \in [1 .. m - 1 -> U] /\ \A k \in 2 .. m - 1 : q[k - 1] < q[k]
      BY <2>4, <2>5 DEF Ordered
    <3>2. m \in Nat /\ m - 1 \in Nat
      BY <2>4
    <3>3. \A k \in 1 .. m : k # m => k \in 1 .. m - 1
      BY <3>2
    <3>4. p \in [1 .. m -> S]
      BY <3>1, <3>3
    <3>5. ASSUME NEW k \in 2 .. m PROVE p[k - 1] < p[k]
      <4>1. k - 1 \in 1 .. m - 1 /\ k - 1 \in 1 .. m /\ k - 1 # m /\ k \in 1 .. m
        BY <3>2
      <4>2. p[k - 1] = q[k - 1] /\ q[k - 1] \in U
        BY <3>1, <4>1
      <4>3. CASE k = m
        <5>1. p[k] = x
          BY <4>1, <4>3
        <5>a. \A y \in 0 .. n : y \in Int
          OBVIOUS
        <5>b. \A y \in S : y \in Int
          BY <5>a
        <5>2. q[k - 1] \in S /\ q[k - 1] # x /\ q[k - 1] \in Int /\ x \in Int
          BY <4>2, <5>b
        <5>3. q[k - 1] < x
          BY <2>3, <5>2
        <5> QED BY <4>2, <5>1, <5>3
      <4>4. CASE k # m
        <5>1. k \in 2 .. m - 1 /\ p[k] = q[k]
          BY <3>2, <4>1, <4>4
        <5> QED BY <3>1, <4>2, <5>1
      <4> QED BY <4>3, <4>4
    <3> HIDE DEF p
    <3>6. Ordered(p, S)
      BY <2>1, <3>4, <3>5 DEF Ordered
    <3> QED BY <2>1, <3>6
  <2> QED BY <2>4, <2>5
<1>3. B \subseteq Nat
  OBVIOUS
<1>4. B = {}
  <2> HIDE DEF B
  <2> QED BY <1>2, <1>3, Descent
<1>5. ~(Cardinality(T) \in B)
  BY <1>4
<1> QED BY <1>1, <1>5

LEMMA InSlotOrderIs ==
  ASSUME NEW S \in SUBSET Slots
  PROVE  InSlotOrder(S) \in Seq(Slots) /\ IsInjective(InSlotOrder(S)) /\ Range(InSlotOrder(S)) = S
<1> DEFINE q == InSlotOrder(S)
           m == Cardinality(S)
<1>1. IsFiniteSet(S) /\ m \in Nat /\ S \subseteq Int
  <2>1. ROB_SIZE - 1 \in Int /\ 0 \in Int /\ Slots \subseteq Int
    BY Size DEF Slots
  <2>2. IsFiniteSet(Slots)
    BY <2>1, FS_Interval DEF Slots
  <2> QED BY <2>1, <2>2, FS_Subset, FS_CardinalityType
<1>2. Ordered(q, S)
  <2>1. ROB_SIZE - 1 \in Nat /\ S \in SUBSET (0 .. ROB_SIZE - 1)
    BY Size DEF Slots
  <2>2. \E p : Ordered(p, S)
    BY <2>1, OrderedExists
  <2>3. q = CHOOSE p \in [1 .. Cardinality(S) -> S] : \A k \in 2 .. Cardinality(S) : p[k - 1] < p[k]
    BY DEF InSlotOrder
  <2> HIDE DEF q
  <2> QED BY <2>2, <2>3 DEF Ordered
<1> HIDE DEF q
<1>3. q \in [1 .. m -> S] /\ \A k \in 2 .. m : q[k - 1] < q[k]
  BY <1>2 DEF Ordered
<1> HIDE DEF m
<1>4. \A b \in 1 .. m : \A a \in 1 .. b - 1 : q[a] < q[b]
  <2> DEFINE B == {b \in 1 .. m : ~\A a \in 1 .. b - 1 : q[a] < q[b]}
  <2>1. ASSUME NEW b \in B PROVE b - 1 \in B
    <3>1. PICK a \in 1 .. b - 1 : ~(q[a] < q[b])
      OBVIOUS
    <3>2. b \in 2 .. m /\ b - 1 \in 1 .. m /\ a \in 1 .. m
      BY <1>1, <3>1
    <3>3. q[b - 1] < q[b] /\ q[a] \in Int /\ q[b] \in Int /\ q[b - 1] \in Int
      BY <1>1, <1>3, <3>2
    <3>4. a # b - 1 /\ ~(q[a] < q[b - 1])
      BY <3>1, <3>3
    <3>5. a \in 1 .. (b - 1) - 1
      BY <3>2, <3>4
    <3> QED BY <3>2, <3>4, <3>5
  <2>2. B \subseteq Nat
    OBVIOUS
  <2>3. B = {}
    <3> HIDE DEF B
    <3> QED BY <2>1, <2>2, Descent
  <2> QED BY <2>3
<1>5. \A a \in 1 .. m, b \in 1 .. m : q[a] = q[b] => a = b
  <2> SUFFICES ASSUME NEW a \in 1 .. m, NEW b \in 1 .. m, q[a] = q[b], a # b
               PROVE  FALSE
    OBVIOUS
  <2>1. a \in 1 .. b - 1 \/ b \in 1 .. a - 1
    BY <1>1
  <2>2. q[a] < q[b] \/ q[b] < q[a]
    BY <1>4, <2>1
  <2>3. q[a] \in Int
    BY <1>1, <1>3
  <2> QED BY <2>2, <2>3
<1>6. q \in Injection(1 .. m, S)
  BY <1>3, <1>5 DEF Injection, IsInjective
<1>7. q \in Surjection(1 .. m, S)
  <2>1. IsFiniteSet(1 .. m) /\ Cardinality(1 .. m) = m
    BY <1>1, FS_Interval
  <2>2. Cardinality(1 .. m) = Cardinality(S)
    BY <2>1 DEF m
  <2> QED BY <1>1, <1>6, <2>2, FS_Injection
<1>8. Range(q) = S
  <2>1. DOMAIN q = 1 .. m
    BY <1>3
  <2> QED BY <1>3, <1>7, <2>1 DEF Range, Surjection
<1>9. IsInjective(q)
  BY <1>3, <1>5 DEF IsInjective
<1>10. q \in Seq(Slots)
  <2>1. q \in [1 .. m -> Slots]
    BY <1>3
  <2> QED BY <1>1, <2>1
<1> QED BY <1>8, <1>9, <1>10 DEF q

LEMMA JoinInjective ==
  ASSUME NEW S, NEW p \in Seq(S), NEW q \in Seq(S), IsInjective(p), IsInjective(q),
         Range(p) \cap Range(q) = {}
  PROVE  p \o q \in Seq(S) /\ IsInjective(p \o q) /\ Range(p \o q) = Range(p) \cup Range(q)
<1> DEFINE m == Len(p)
           n == Len(q)
           r == p \o q
<1>1. /\ m \in Nat /\ n \in Nat /\ DOMAIN p = 1 .. m /\ DOMAIN q = 1 .. n
  BY LenProperties
<1>2. /\ r \in Seq(S) /\ Len(r) = m + n
      /\ \A k \in 1 .. m + n : r[k] = IF k <= m THEN p[k] ELSE q[k - m]
  BY ConcatProperties
<1>3. DOMAIN r = 1 .. m + n
  BY <1>2, LenProperties
<1> HIDE DEF m, n, r
<1>4. \A k \in 1 .. m + n : /\ k <= m => k \in 1 .. m /\ r[k] = p[k] /\ r[k] \in Range(p)
                            /\ ~(k <= m) => k - m \in 1 .. n /\ r[k] = q[k - m] /\ r[k] \in Range(q)
  <2>1. \A k \in 1 .. m + n : (k <= m => k \in 1 .. m) /\ (~(k <= m) => k - m \in 1 .. n)
    BY <1>1
  <2> QED BY <1>1, <1>2, <2>1 DEF Range
<1>5. IsInjective(r)
  <2> SUFFICES ASSUME NEW a \in 1 .. m + n, NEW b \in 1 .. m + n, r[a] = r[b]
               PROVE  a = b
    BY <1>3 DEF IsInjective
  <2>1. CASE a <= m /\ b <= m
    BY <1>1, <1>4, <2>1 DEF IsInjective
  <2>2. CASE ~(a <= m) /\ ~(b <= m)
    <3>1. q[a - m] = q[b - m] /\ a - m \in 1 .. n /\ b - m \in 1 .. n
      BY <1>4, <2>2
    <3>2. a - m = b - m
      BY <1>1, <3>1 DEF IsInjective
    <3> QED BY <1>1, <3>2
  <2>3. CASE (a <= m /\ ~(b <= m)) \/ (~(a <= m) /\ b <= m)
    BY <1>4, <2>3
  <2> QED BY <2>1, <2>2, <2>3
<1>6. Range(r) = Range(p) \cup Range(q)
  <2>1. \A k \in 1 .. m + n : r[k] \in Range(p) \cup Range(q)
    BY <1>4
  <2>2. ASSUME NEW k \in 1 .. m PROVE p[k] \in Range(r)
    <3>1. k \in 1 .. m + n /\ k <= m
      BY <1>1
    <3> QED BY <1>2, <1>3, <3>1 DEF Range
  <2>3. ASSUME NEW k \in 1 .. n PROVE q[k] \in Range(r)
    <3>1. k + m \in 1 .. m + n /\ ~(k + m <= m) /\ (k + m) - m = k
      BY <1>1
    <3>2. r[k + m] = q[k]
      BY <1>2, <3>1
    <3> QED BY <1>3, <3>1, <3>2 DEF Range
  <2> QED BY <1>1, <1>3, <2>1, <2>2, <2>3 DEF Range
<1> QED BY <1>2, <1>5, <1>6 DEF r

-------------------------------------------------------------------------------
(* complete_execution.                                                     *)

(* The registers that the entry at i owes the one at d, and the entries    *)
(* that it is the last to owe something.                                   *)
Owed(i, d) == {r \in Reg : << d, r >> \in ROB[i].reg_deps}

Woken(i) ==
  {d \in Slots : /\ Cardinality(Owed(i, d)) > 0
                 /\ ROB[d].num_reg_dependent = Cardinality(Owed(i, d))}

WokenAlu(i) == {d \in Woken(i) : ~Memory(d)}

(* What becomes of the entry at d when that at i has executed.             *)
Released1(i, d) ==
  /\ DOMAIN ROB'[d] = EntryFields
  /\ ROB'[d].id = ROB[d].id /\ ROB'[d].reg_deps = ROB[d].reg_deps
  /\ ROB'[d].lq = ROB[d].lq /\ ROB'[d].sq = ROB[d].sq
  /\ ROB'[d].executed = IF d = i THEN COMPLETED ELSE ROB[d].executed
  /\ ROB'[d].num_reg_dependent = ROB[d].num_reg_dependent - Cardinality(Owed(i, d))
  /\ ROB'[d].reg_ready = (ROB[d].reg_ready \/ d \in Woken(i))
  /\ ROB'[d].scheduled = IF d \notin Woken(i) THEN ROB[d].scheduled
                         ELSE IF Memory(d) THEN INFLIGHT ELSE COMPLETED

LEMMA RegRawReleaseIs ==
  ASSUME Types, NEW i \in Slots, NEW s, Shaped(s), SameCore(State, s), s.ROB = [ROB EXCEPT ![i].executed = COMPLETED],
         Become(RegRawRelease(s, i))
  PROVE  /\ program' = program /\ head' = head /\ tail' = tail /\ next_schedule' = next_schedule
         /\ dispatched' = dispatched /\ retired' = retired /\ DOMAIN ROB' = Slots
         /\ RTE0' = RTE0 \o InSlotOrder(WokenAlu(i)) /\ RTE1' = RTE1
         /\ \A d \in Slots : Released1(i, d)
<1> DEFINE t == RegRawRelease(s, i)
<1>1. DOMAIN ROB = Slots /\ \A d \in Slots : DOMAIN ROB[d] = EntryFields
  BY DEF Types
<1>2. ASSUME NEW d \in Slots
      PROVE  /\ s.ROB[d].id = ROB[d].id /\ s.ROB[d].reg_deps = ROB[d].reg_deps
             /\ s.ROB[d].lq = ROB[d].lq /\ s.ROB[d].sq = ROB[d].sq
             /\ s.ROB[d].executed = IF d = i THEN COMPLETED ELSE ROB[d].executed
             /\ s.ROB[d].num_reg_dependent = ROB[d].num_reg_dependent
             /\ s.ROB[d].reg_ready = ROB[d].reg_ready /\ s.ROB[d].scheduled = ROB[d].scheduled
  <2>1. CASE d = i
    <3>1. s.ROB[d] = [ROB[d] EXCEPT !.executed = COMPLETED]
      BY <1>1, <2>1
    <3> QED BY <1>1, <2>1, <3>1 DEF EntryFields, EmptyEntry
  <2>2. CASE d # i
    BY <1>1, <2>2
  <2> QED BY <2>1, <2>2
<1>3. \A d : Released(s, i, d) = Cardinality(Owed(i, d))
  BY <1>2 DEF Released, Owed
<1>4. Freed(s, i) = Woken(i)
  BY <1>2, <1>3 DEF Freed, Woken
<1>5. s.program = program
  BY StateIs DEF SameCore
<1>6. \A d \in Slots : IsMemory(s, d) <=> Memory(d)
  BY <1>2, <1>5 DEF IsMemory, Memory, Code
<1>7. {d \in Freed(s, i) : ~IsMemory(s, d)} = WokenAlu(i)
  BY <1>4, <1>6 DEF WokenAlu, Woken
<1>8. /\ t.program = s.program /\ t.head = s.head /\ t.tail = s.tail
      /\ t.next_schedule = s.next_schedule /\ t.RTE1 = s.RTE1
      /\ t.dispatched = s.dispatched /\ t.retired = s.retired
      /\ t.RTE0 = s.RTE0 \o InSlotOrder({d \in Freed(s, i) : ~IsMemory(s, d)})
  BY DEF RegRawRelease, Shaped, StateFields
<1>9. t.ROB = [d \in Slots |->
                [s.ROB[d] EXCEPT
                   !.num_reg_dependent = @ - Released(s, i, d),
                   !.reg_ready = @ \/ d \in Freed(s, i),
                   !.scheduled = IF d \notin Freed(s, i) THEN @
                                 ELSE IF IsMemory(s, d) THEN INFLIGHT ELSE COMPLETED]]
  BY DEF RegRawRelease, Shaped, StateFields
<1>10. BecomeOneOf({t})
  BY DEF Become
<1> HIDE DEF t
<1>11. /\ ROB' = t.ROB /\ head' = t.head /\ tail' = t.tail /\ next_schedule' = t.next_schedule
       /\ RTE0' = t.RTE0 /\ RTE1' = t.RTE1 /\ dispatched' = t.dispatched
       /\ retired' = t.retired /\ program' = program
  BY <1>10, BecomeIs
<1>12. ASSUME NEW d \in Slots PROVE Released1(i, d)
  <2>1. ROB'[d] = [s.ROB[d] EXCEPT
                   !.num_reg_dependent = @ - Released(s, i, d),
                   !.reg_ready = @ \/ d \in Freed(s, i),
                   !.scheduled = IF d \notin Freed(s, i) THEN @
                                 ELSE IF IsMemory(s, d) THEN INFLIGHT ELSE COMPLETED]
    BY <1>9, <1>11
  <2>2. DOMAIN s.ROB[d] = EntryFields
    BY DEF Shaped
  <2>3. /\ DOMAIN ROB'[d] = EntryFields
        /\ ROB'[d].id = s.ROB[d].id /\ ROB'[d].reg_deps = s.ROB[d].reg_deps
        /\ ROB'[d].lq = s.ROB[d].lq /\ ROB'[d].sq = s.ROB[d].sq /\ ROB'[d].executed = s.ROB[d].executed
        /\ ROB'[d].num_reg_dependent = s.ROB[d].num_reg_dependent - Released(s, i, d)
        /\ ROB'[d].reg_ready = (s.ROB[d].reg_ready \/ d \in Freed(s, i))
        /\ ROB'[d].scheduled = IF d \notin Freed(s, i) THEN s.ROB[d].scheduled
                               ELSE IF IsMemory(s, d) THEN INFLIGHT ELSE COMPLETED
    BY <2>1, <2>2 DEF EntryFields, EmptyEntry
  <2> QED BY <1>2, <1>3, <1>4, <1>6, <2>3 DEF Released1
<1> QED BY <1>5, <1>7, <1>8, <1>9, <1>11, <1>12, StateIs DEF SameCore

LEMMA CompleteIs ==
  ASSUME Types, NEW i \in Slots, CompleteExecution(i)
  PROVE  /\ ROB[i].executed = INFLIGHT
         /\ program' = program /\ head' = head /\ tail' = tail /\ next_schedule' = next_schedule
         /\ dispatched' = dispatched /\ retired' = retired /\ DOMAIN ROB' = Slots
         /\ RTE0' = RTE0 \o InSlotOrder(WokenAlu(i)) /\ RTE1' = RTE1
         /\ \A d \in Slots : Released1(i, d)
<1> DEFINE s == [State EXCEPT !.ROB[i].executed = COMPLETED]
           m == [s EXCEPT !.inflight_mem = @ - 1]
           a == [s EXCEPT !.inflight_reg = @ - 1]
<1>1. ROB[i].executed = INFLIGHT
  BY DEF CompleteExecution
<1>2. Shaped(State)
  BY StateShaped
<1>3. DOMAIN s = StateFields /\ s.ROB = [ROB EXCEPT ![i].executed = COMPLETED] /\ \A g \in Aside : s[g] = State[g]
  BY <1>2, StateIs DEF Shaped, StateFields, Aside
<1>4. Shaped(s)
  <2>1. DOMAIN s.ROB = Slots
    BY <1>2, <1>3, StateIs DEF Shaped
  <2>2. ASSUME NEW p \in Slots PROVE DOMAIN s.ROB[p] = EntryFields
    <3>1. DOMAIN ROB = Slots /\ DOMAIN ROB[p] = EntryFields
      BY DEF Types
    <3> QED BY <1>3, <3>1
  <2> HIDE DEF s
  <2> QED BY <1>3, <2>1, <2>2 DEF Shaped
<1>5. Become(RegRawRelease(m, i)) \/ Become(RegRawRelease(a, i))
  BY DEF CompleteExecution
<1> HIDE DEF s
<1>6. /\ DOMAIN m = StateFields /\ m.ROB = s.ROB /\ \A g \in Aside : m[g] = s[g]
      /\ DOMAIN a = StateFields /\ a.ROB = s.ROB /\ \A g \in Aside : a[g] = s[g]
  BY <1>3 DEF StateFields, Aside
<1> HIDE DEF m, a
<1>7. Shaped(m) /\ SameCore(State, m) /\ Shaped(a) /\ SameCore(State, a)
  BY <1>3, <1>4, <1>6 DEF Shaped, SameCore, Aside
<1>8. m.ROB = [ROB EXCEPT ![i].executed = COMPLETED] /\ a.ROB = [ROB EXCEPT ![i].executed = COMPLETED]
  BY <1>3, <1>6
<1>9. CASE Become(RegRawRelease(m, i))
  BY <1>1, <1>7, <1>8, <1>9, RegRawReleaseIs
<1>10. CASE Become(RegRawRelease(a, i))
  BY <1>1, <1>7, <1>8, <1>10, RegRawReleaseIs
<1> QED BY <1>5, <1>9, <1>10

(* The registers owed to the entry at d.                                   *)
Dues(d) ==
  {o \in LiveRob \X Reg : ROB[o[1]].executed # COMPLETED /\ << d, o[2] >> \in ROB[o[1]].reg_deps}

LEMMA FiniteSlots ==
  IsFiniteSet(Slots) /\ \A S \in SUBSET Slots : IsFiniteSet(S) /\ Cardinality(S) \in Nat
<1>1. ROB_SIZE - 1 \in Int /\ 0 \in Int
  BY Size
<1>2. IsFiniteSet(Slots)
  BY <1>1, FS_Interval DEF Slots
<1> QED BY <1>2, FS_Subset, FS_CardinalityType

LEMMA DuesFinite ==
  ASSUME NEW d
  PROVE  IsFiniteSet(Dues(d)) /\ Cardinality(Dues(d)) \in Nat
<1>1. IsFiniteSet(LiveRob)
  <2>1. LiveRob \in SUBSET Slots
    BY DEF LiveRob
  <2> QED BY <2>1, FiniteSlots
<1>2. IsFiniteSet(LiveRob \X Reg)
  BY <1>1, FS_Product, RegAssumption
<1>3. Dues(d) \in SUBSET (LiveRob \X Reg)
  BY DEF Dues
<1> QED BY <1>2, <1>3, FS_Subset, FS_CardinalityType

LEMMA OwedIs ==
  ASSUME NEW i, NEW d
  PROVE  /\ IsFiniteSet(Owed(i, d)) /\ Cardinality(Owed(i, d)) \in Nat
         /\ (Cardinality(Owed(i, d)) = 0 <=> Owed(i, d) = {})
         /\ IsFiniteSet({i} \X Owed(i, d)) /\ Cardinality({i} \X Owed(i, d)) = Cardinality(Owed(i, d))
<1> DEFINE S == Owed(i, d)
<1>1. S \in SUBSET Reg
  BY DEF Owed
<1>2. IsFiniteSet(S) /\ Cardinality(S) \in Nat /\ (Cardinality(S) = 0 <=> S = {})
  <2> HIDE DEF S
  <2> QED BY <1>1, RegAssumption, FS_Subset, FS_CardinalityType, FS_EmptySet
<1>3. IsFiniteSet({i}) /\ Cardinality({i}) = 1
  BY FS_Singleton
<1>4. IsFiniteSet({i} \X S) /\ Cardinality({i} \X S) = 1 * Cardinality(S)
  <2> HIDE DEF S
  <2> QED BY <1>2, <1>3, FS_Product
<1> HIDE DEF S
<1>5. 1 * Cardinality(S) = Cardinality(S)
  BY <1>2
<1> QED BY <1>2, <1>4, <1>5 DEF S

LEMMA CompletionKeeps ==
  ASSUME RobInv, NEW i \in Slots, CompleteExecution(i)
  PROVE  RobInv'
<1>1. Types /\ Ring /\ Prefix /\ Debts /\ Sources /\ Stages /\ Queued /\ WakeupsCounted
  BY DEF RobInv
<1>2. /\ ROB[i].executed = INFLIGHT
      /\ program' = program /\ head' = head /\ tail' = tail /\ next_schedule' = next_schedule
      /\ dispatched' = dispatched /\ retired' = retired /\ DOMAIN ROB' = Slots
      /\ RTE0' = RTE0 \o InSlotOrder(WokenAlu(i)) /\ RTE1' = RTE1
      /\ \A d \in Slots : Released1(i, d)
  BY <1>1, CompleteIs
<1>3. \A d \in Slots : ROB'[d].id = ROB[d].id /\ ROB'[d].reg_deps = ROB[d].reg_deps
  BY <1>2 DEF Released1
<1>4. LiveRob' = LiveRob /\ LiveRob \subseteq Slots
  BY <1>3 DEF LiveRob
<1>5. i \in LiveRob /\ ROB[i].scheduled # 0 /\ ROB[i].reg_ready
  <2>1. ROB[i].executed # 0
    BY <1>2 DEF INFLIGHT
  <2> QED BY <1>1, <2>1 DEF Stages, LiveRob
<1>6. ASSUME NEW d \in Slots, Owed(i, d) # {}
      PROVE  d \in LiveRob /\ ROB[d].scheduled # 0 /\ ROB[i].id < ROB[d].id
  <2>1. PICK r \in Reg : << d, r >> \in ROB[i].reg_deps
    BY <1>6 DEF Owed
  <2>2. ROB[i].executed # COMPLETED
    BY <1>2 DEF INFLIGHT, COMPLETED
  <2>3. << d, r >>[1] = d
    OBVIOUS
  <2> QED BY <1>1, <1>5, <2>1, <2>2, <2>3 DEF Debts
<1>7. \A d \in LiveRob : ROB[d].scheduled # 0 =>
        ROB[d].num_reg_dependent = Cardinality(Dues(d)) /\ (ROB[d].reg_ready <=> ROB[d].num_reg_dependent = 0)
  BY <1>1 DEF WakeupsCounted, Dues
<1>8. ASSUME NEW d
      PROVE  /\ {i} \X Owed(i, d) \subseteq Dues(d) /\ Dues(d)' = Dues(d) \ ({i} \X Owed(i, d))
             /\ Cardinality(Owed(i, d)) <= Cardinality(Dues(d))
             /\ Cardinality(Dues(d)') = Cardinality(Dues(d)) - Cardinality(Owed(i, d))
  <2>1. {i} \X Owed(i, d) \subseteq Dues(d)
    <3>1. ROB[i].executed # COMPLETED
      BY <1>2 DEF INFLIGHT, COMPLETED
    <3> QED BY <1>5, <3>1 DEF Dues, Owed
  <2>2. Dues(d)' = Dues(d) \ ({i} \X Owed(i, d))
    <3>1. Dues(d)' = {o \in LiveRob \X Reg : ROB'[o[1]].executed # COMPLETED /\ << d, o[2] >> \in ROB'[o[1]].reg_deps}
      BY <1>4 DEF Dues
    <3>2. \A p \in LiveRob : ROB'[p].executed # COMPLETED <=> ROB[p].executed # COMPLETED /\ p # i
      BY <1>2, <1>4 DEF Released1
    <3>3. \A p \in LiveRob : ROB'[p].reg_deps = ROB[p].reg_deps
      BY <1>3, <1>4
    <3>4. ASSUME NEW o \in LiveRob \X Reg
          PROVE  ROB'[o[1]].executed # COMPLETED /\ << d, o[2] >> \in ROB'[o[1]].reg_deps
                 <=> o \in Dues(d) /\ o \notin {i} \X Owed(i, d)
      <4>1. o[1] \in LiveRob /\ o[2] \in Reg /\ o = << o[1], o[2] >>
        OBVIOUS
      <4>2. o \in Dues(d) <=> ROB[o[1]].executed # COMPLETED /\ << d, o[2] >> \in ROB[o[1]].reg_deps
        BY DEF Dues
      <4>3. o \in {i} \X Owed(i, d) <=> o[1] = i /\ << d, o[2] >> \in ROB[i].reg_deps
        BY <4>1 DEF Owed
      <4> QED BY <3>2, <3>3, <4>1, <4>2, <4>3
    <3>5. Dues(d) \subseteq LiveRob \X Reg
      BY DEF Dues
    <3> QED BY <3>1, <3>4, <3>5
  <2> DEFINE S == {i} \X Owed(i, d)
             T == Dues(d)
  <2>3. IsFiniteSet(T) /\ Cardinality(S) = Cardinality(Owed(i, d)) /\ S \in SUBSET T
    BY <2>1, DuesFinite, OwedIs
  <2>4. T \cap S = S
    BY <2>1
  <2> HIDE DEF S, T
  <2>5. Cardinality(T \ S) = Cardinality(T) - Cardinality(T \cap S) /\ Cardinality(S) <= Cardinality(T)
    BY <2>3, FS_Difference, FS_Subset
  <2>6. Cardinality(T \ S) = Cardinality(T) - Cardinality(S)
    BY <2>4, <2>5
  <2> QED BY <2>1, <2>2, <2>3, <2>5, <2>6 DEF S, T
<1>9. ASSUME NEW d \in Woken(i)
      PROVE  /\ d \in LiveRob /\ ROB[d].scheduled # 0 /\ ~ROB[d].reg_ready /\ d # i /\ ROB[d].executed = 0
             /\ ~Placed(d)
  <2>1. d \in Slots /\ Cardinality(Owed(i, d)) > 0 /\ ROB[d].num_reg_dependent = Cardinality(Owed(i, d))
    BY DEF Woken
  <2>2. Owed(i, d) # {} /\ Cardinality(Owed(i, d)) # 0
    <3>1. Cardinality(Owed(i, d)) \in Nat /\ (Cardinality(Owed(i, d)) = 0 <=> Owed(i, d) = {})
      BY OwedIs
    <3>2. Cardinality(Owed(i, d)) # 0
      BY <2>1, <3>1
    <3> QED BY <3>1, <3>2
  <2>3. d \in LiveRob /\ ROB[d].scheduled # 0 /\ ROB[i].id < ROB[d].id
    BY <1>6, <2>1, <2>2
  <2>4. ~ROB[d].reg_ready
    BY <1>7, <2>1, <2>2, <2>3
  <2> QED BY <1>1, <1>5, <2>1, <2>3, <2>4 DEF Stages
<1>10. \A d \in Slots : ROB'[d].scheduled = 0 <=> ROB[d].scheduled = 0
  BY <1>2, <1>9 DEF Released1, INFLIGHT, COMPLETED
<1>11. Types'
  <2>1. ASSUME NEW d \in Slots
        PROVE  /\ DOMAIN ROB'[d] = EntryFields /\ ROB'[d].id \in 0 .. Len(program)
               /\ ROB'[d].scheduled \in 0 .. COMPLETED /\ ROB'[d].executed \in 0 .. COMPLETED
               /\ ROB'[d].num_reg_dependent \in Nat /\ ROB'[d].reg_ready \in BOOLEAN
               /\ ROB'[d].reg_deps \subseteq Slots \X Reg
    <3>1. ROB'[d].num_reg_dependent \in Nat
      <4>1. ROB[d].num_reg_dependent \in Nat
        BY <1>1 DEF Types
      <4>2. ROB'[d].num_reg_dependent = ROB[d].num_reg_dependent - Cardinality(Owed(i, d))
        BY <1>2 DEF Released1
      <4>3. Cardinality(Owed(i, d)) \in Nat /\ Cardinality(Dues(d)) \in Nat
        BY OwedIs, DuesFinite
      <4>4. CASE Owed(i, d) = {}
        <5>1. Cardinality(Owed(i, d)) = 0 <=> Owed(i, d) = {}
          BY OwedIs
        <5>2. Cardinality(Owed(i, d)) = 0
          BY <4>4, <5>1
        <5> QED BY <4>1, <4>2, <5>2
      <4>5. CASE Owed(i, d) # {}
        <5>1. ROB[d].num_reg_dependent = Cardinality(Dues(d))
          BY <1>6, <1>7, <4>5
        <5>2. Cardinality(Owed(i, d)) <= Cardinality(Dues(d))
          BY <1>8
        <5> QED BY <4>2, <4>3, <5>1, <5>2
      <4> QED BY <4>4, <4>5
    <3>2. /\ ROB[d].id \in 0 .. Len(program) /\ ROB[d].reg_deps \subseteq Slots \X Reg
          /\ ROB[d].scheduled \in 0 .. COMPLETED /\ ROB[d].executed \in 0 .. COMPLETED
          /\ ROB[d].reg_ready \in BOOLEAN
      BY <1>1 DEF Types
    <3>3. INFLIGHT \in 0 .. COMPLETED /\ COMPLETED \in 0 .. COMPLETED
      BY DEF INFLIGHT, COMPLETED
    <3>4. ROB'[d].scheduled \in 0 .. COMPLETED
      BY <1>2, <3>2, <3>3 DEF Released1
    <3>5. ROB'[d].executed \in 0 .. COMPLETED
      BY <1>2, <3>2, <3>3 DEF Released1
    <3>6. ROB'[d].reg_ready \in BOOLEAN
      BY <1>2 DEF Released1
    <3> QED BY <1>2, <3>1, <3>2, <3>4, <3>5, <3>6 DEF Released1
  <2> QED BY <1>1, <1>2, <2>1 DEF Types
<1>12. Ring'
  BY <1>1, <1>2, <1>3, RingSame DEF SameOrder
<1>13. Prefix'
  BY <1>1, <1>3, <1>4, <1>10 DEF Prefix
<1>14. Debts'
  <2> SUFFICES ASSUME NEW p \in LiveRob, ROB'[p].executed # COMPLETED, NEW o \in ROB'[p].reg_deps
               PROVE  /\ o[1] \in LiveRob /\ ROB'[o[1]].scheduled # 0 /\ ROB'[p].id < ROB'[o[1]].id
                      /\ o[2] \in program'[ROB'[o[1]].id].reads
    BY <1>4 DEF Debts
  <2>1. ROB[p].executed # COMPLETED /\ o \in ROB[p].reg_deps /\ p \in Slots
    BY <1>2, <1>4 DEF Released1
  <2>2. o[1] \in LiveRob /\ ROB[o[1]].scheduled # 0 /\ ROB[p].id < ROB[o[1]].id
        /\ o[2] \in program[ROB[o[1]].id].reads
    BY <1>1, <2>1 DEF Debts
  <2>3. o[1] \in Slots
    BY <1>4, <2>2
  <2> QED BY <1>2, <1>3, <1>10, <2>1, <2>2, <2>3
<1>15. Sources'
  <2> SUFFICES ASSUME NEW d \in LiveRob, NEW p \in LiveRob, ROB'[d].scheduled # 0,
                      NEW r \in program'[ROB'[d].id].reads,
                      LastWriter(program', ROB'[p].id, ROB'[d].id, r)
               PROVE  ROB'[p].executed = COMPLETED \/ << d, r >> \in ROB'[p].reg_deps
    BY <1>4 DEF Sources
  <2>1. d \in Slots /\ p \in Slots
    BY <1>4
  <2>2. ROB[d].scheduled # 0 /\ r \in program[ROB[d].id].reads /\ LastWriter(program, ROB[p].id, ROB[d].id, r)
    BY <1>2, <1>3, <1>10, <2>1
  <2>3. ROB[p].executed = COMPLETED \/ << d, r >> \in ROB[p].reg_deps
    BY <1>1, <2>2 DEF Sources
  <2>4. ROB[p].executed = COMPLETED => ROB'[p].executed = COMPLETED
    BY <1>2, <2>1 DEF Released1
  <2> QED BY <1>3, <2>1, <2>3, <2>4
<1>16. WakeupsCounted'
  <2>1. ASSUME NEW d \in LiveRob, ROB'[d].scheduled # 0
        PROVE  ROB'[d].num_reg_dependent = Cardinality(Dues(d)') /\ (ROB'[d].reg_ready <=> ROB'[d].num_reg_dependent = 0)
    <3>1. d \in Slots /\ ROB[d].scheduled # 0
      BY <1>4, <1>10, <2>1
    <3>2. ROB[d].num_reg_dependent = Cardinality(Dues(d)) /\ (ROB[d].reg_ready <=> ROB[d].num_reg_dependent = 0)
      BY <1>7, <3>1
    <3>3. /\ ROB'[d].num_reg_dependent = ROB[d].num_reg_dependent - Cardinality(Owed(i, d))
          /\ ROB'[d].reg_ready = (ROB[d].reg_ready \/ d \in Woken(i))
      BY <1>2, <3>1 DEF Released1
    <3>4. Cardinality(Dues(d)') = Cardinality(Dues(d)) - Cardinality(Owed(i, d))
          /\ Cardinality(Owed(i, d)) <= Cardinality(Dues(d))
      BY <1>8
    <3>5. Cardinality(Owed(i, d)) \in Nat /\ Cardinality(Dues(d)) \in Nat
      BY OwedIs, DuesFinite
    <3>6. d \in Woken(i) <=> Cardinality(Owed(i, d)) > 0 /\ Cardinality(Dues(d)) = Cardinality(Owed(i, d))
      BY <3>1, <3>2 DEF Woken
    <3> DEFINE n == Cardinality(Dues(d))
               w == Cardinality(Owed(i, d))
    <3> HIDE DEF n, w
    <3>7. n \in Nat /\ w \in Nat /\ w <= n /\ (d \in Woken(i) <=> w > 0 /\ n = w)
      BY <3>4, <3>5, <3>6 DEF n, w
    <3>8. (n = 0 \/ (w > 0 /\ n = w)) <=> n - w = 0
      BY <3>7
    <3>9. ROB'[d].num_reg_dependent = n - w /\ (ROB'[d].reg_ready <=> n = 0 \/ d \in Woken(i))
      BY <3>2, <3>3 DEF n, w
    <3> QED BY <3>2, <3>3, <3>4, <3>7, <3>8, <3>9
  <2> QED BY <1>4, <2>1 DEF WakeupsCounted, Dues
<1>17. \A d \in Slots : (Memory(d)' <=> Memory(d)) /\ (Placed(d)' <=> Placed(d))
  BY <1>2, <1>3 DEF Memory, Placed, Released1
<1>18. Stages'
  <2> SUFFICES ASSUME NEW d \in Slots
               PROVE  /\ ROB'[d].id = NoId => ROB'[d].scheduled = 0
                      /\ ROB'[d].executed # 0 \/ Placed(d)' => ROB'[d].scheduled # 0 /\ ROB'[d].reg_ready
                      /\ Memory(d)' /\ ROB'[d].scheduled = COMPLETED => ROB'[d].reg_ready
    BY DEF Stages
  <2>1. ROB'[d].reg_ready = (ROB[d].reg_ready \/ d \in Woken(i))
    BY <1>2 DEF Released1
  <2>2. ROB'[d].executed # 0 \/ Placed(d)' => ROB[d].scheduled # 0 /\ ROB[d].reg_ready
    <3>1. CASE d = i
      BY <1>5, <3>1
    <3>2. CASE d # i
      <4>1. ROB'[d].executed = ROB[d].executed
        BY <1>2, <3>2 DEF Released1
      <4> QED BY <1>1, <1>17, <4>1 DEF Stages
    <3> QED BY <3>1, <3>2
  <2>3. Memory(d)' /\ ROB'[d].scheduled = COMPLETED => ROB'[d].reg_ready
    <3>1. CASE d \in Woken(i)
      BY <2>1, <3>1
    <3>2. CASE d \notin Woken(i)
      <4>1. ROB'[d].scheduled = ROB[d].scheduled
        BY <1>2, <3>2 DEF Released1
      <4> QED BY <1>1, <1>17, <2>1, <4>1 DEF Stages
    <3> QED BY <3>1, <3>2
  <2>4. ROB'[d].id = NoId => ROB'[d].scheduled = 0
    BY <1>1, <1>3, <1>10 DEF Stages
  <2> QED BY <1>10, <2>1, <2>2, <2>3, <2>4
<1>19. Queued'
  <2> DEFINE W == WokenAlu(i)
             q == InSlotOrder(W)
  <2>1. W \in SUBSET Slots
    BY DEF WokenAlu, Woken
  <2>2. q \in Seq(Slots) /\ IsInjective(q) /\ Range(q) = W
    BY <2>1, InSlotOrderIs
  <2>3. /\ RTE0 \in Seq(Slots) /\ RTE1 \in Seq(Slots) /\ IsInjective(RTE0) /\ IsInjective(RTE1)
        /\ Range(RTE0) \cap Range(RTE1) = {} /\ Range(RTE0) \cup Range(RTE1) = {p \in Slots : Waits(p)}
    BY <1>1 DEF Queued
  <2>4. \A d \in W : ~Waits(d)
    BY <1>9 DEF WokenAlu, Waits
  <2>5. Range(RTE0) \cap W = {} /\ Range(RTE1) \cap W = {}
    BY <2>3, <2>4
  <2>6. ASSUME NEW d \in Slots PROVE Waits(d)' <=> Waits(d) \/ d \in W
    <3>0. (Memory(d)' <=> Memory(d)) /\ Released1(i, d)
      BY <1>2, <1>17
    <3>1. CASE d \in Woken(i)
      <4>1. ROB[d].executed = 0 /\ d # i /\ ~ROB[d].reg_ready
        BY <1>9, <3>1
      <4>2. ROB'[d].executed = 0 /\ ROB'[d].reg_ready
            /\ ROB'[d].scheduled = IF Memory(d) THEN INFLIGHT ELSE COMPLETED
        BY <3>0, <3>1, <4>1 DEF Released1
      <4> QED BY <3>0, <3>1, <4>1, <4>2 DEF Waits, WokenAlu
    <3>2. CASE d \notin Woken(i)
      <4>1. ROB'[d].scheduled = ROB[d].scheduled /\ ROB'[d].reg_ready = ROB[d].reg_ready
        BY <1>1, <3>0, <3>2 DEF Released1, Types
      <4>2. ROB'[d].executed = 0 <=> ROB[d].executed = 0
        BY <1>2, <3>0 DEF Released1, INFLIGHT, COMPLETED
      <4> QED BY <3>0, <3>2, <4>1, <4>2 DEF Waits, WokenAlu
    <3> QED BY <3>1, <3>2
  <2> HIDE DEF W, q
  <2>7. RTE0 \o q \in Seq(Slots) /\ IsInjective(RTE0 \o q) /\ Range(RTE0 \o q) = Range(RTE0) \cup W
    BY <2>2, <2>3, <2>5, JoinInjective
  <2>8. RTE0' = RTE0 \o q /\ RTE1' = RTE1
    BY <1>2 DEF q, W
  <2>9. {p \in Slots : Waits(p)'} = {p \in Slots : Waits(p)} \cup W
    BY <2>1, <2>6
  <2>10. Range(RTE0 \o q) \cap Range(RTE1) = {} /\ Range(RTE0 \o q) \cup Range(RTE1) = {p \in Slots : Waits(p)'}
    BY <2>3, <2>5, <2>7, <2>9
  <2> QED BY <2>3, <2>7, <2>8, <2>10 DEF Queued
<1> QED BY <1>11, <1>12, <1>13, <1>14, <1>15, <1>16, <1>18, <1>19 DEF RobInv

-------------------------------------------------------------------------------
(* reg_dependency.                                                         *)

LEMMA LeastIs ==
  ASSUME NEW S \in SUBSET Nat, S # {}
  PROVE  Min(S) \in S /\ \A y \in S : Min(S) <= y
<1>1. PICK w \in S : \A v \in S : ~(<< v, w >> \in OpToRel(<, Nat))
  BY NatLessThanWellFounded, WFMin
<1>2. \A y \in S : w <= y
  <2>1. ASSUME NEW y \in S PROVE w <= y
    <3>1. ~(y < w)
      BY <1>1 DEF OpToRel
    <3> QED BY <3>1
  <2> QED BY <2>1
<1>3. \E x \in S : \A y \in S : x <= y
  BY <1>2
<1> QED BY <1>3 DEF Min

(* The entry that schedule_instruction takes.                              *)
Next2Schedule(i) ==
  /\ i \in Slots /\ head <= i /\ ROB[i].id # NoId /\ ROB[i].scheduled = 0
  /\ \A k \in head .. i - 1 : ROB[k].scheduled # 0

Producing(p, r) == ROB[p].executed # COMPLETED /\ r \in program[ROB[p].id].writes

(* Those before it in the program are those before it in the array.        *)
LEMMA OlderIs ==
  ASSUME Types, Ring, Stages, NEW i, Next2Schedule(i)
  PROVE  /\ i \in LiveRob /\ head \in Int /\ i \in Int
         /\ \A k \in head .. i - 1 : k \in LiveRob /\ k # i /\ ROB[k].id < ROB[i].id
         /\ \A k \in LiveRob : ROB[k].id < ROB[i].id => k \in head .. i - 1
         /\ \A k, m \in head .. i - 1 : k < m => ROB[k].id < ROB[m].id
<1>1. i \in LiveRob /\ i \in Slots /\ head \in Slots
  BY DEF LiveRob, Next2Schedule, Types
<1>2. /\ i \in Int /\ 0 <= i /\ i <= ROB_SIZE - 1 /\ head \in Int /\ 0 <= head /\ head <= i
      /\ ROB_SIZE \in Int
  BY <1>1, SlotIs, Size DEF Next2Schedule
<1>3. \A k \in head .. i - 1 : k \in Slots /\ k # i
  BY <1>2, SlotIs
<1>4. \A k \in head .. i - 1 : k \in LiveRob
  BY <1>3 DEF Next2Schedule, Stages, LiveRob
<1>5. retired \in Int
  BY Held01
<1>6. ASSUME NEW k \in LiveRob, head <= k
      PROVE  ROB[k].id = retired + (k - head + 1)
  BY <1>6, LiveIs DEF Place
<1>7. ROB[i].id = retired + (i - head + 1)
  BY <1>1, <1>2, <1>6
<1>8. ASSUME NEW k \in head .. i - 1
      PROVE  ROB[k].id = retired + (k - head + 1) /\ k \in Int
  BY <1>2, <1>4, <1>6
<1>9. ASSUME NEW k \in head .. i - 1
      PROVE  ROB[k].id < ROB[i].id
  <2>1. ROB[k].id = retired + (k - head + 1) /\ k \in Int /\ k < i
    BY <1>2, <1>8
  <2> QED BY <1>2, <1>5, <1>7, <2>1
<1>10. ASSUME NEW k \in LiveRob, ROB[k].id < ROB[i].id
       PROVE  k \in head .. i - 1
  <2>1. k \in Int /\ k <= ROB_SIZE - 1 /\ 0 <= k /\ ROB[k].id = retired + Place(head, k)
    BY LiveIs, SlotIs
  <2>2. CASE head <= k
    <3>1. ROB[k].id = retired + (k - head + 1)
      BY <1>6, <2>2
    <3>2. k < i
      BY <1>2, <1>5, <1>7, <1>10, <2>1, <3>1
    <3> QED BY <1>2, <2>1, <2>2, <3>2
  <2>3. CASE ~(head <= k)
    <3>1. ROB[k].id = retired + (k - head + 1 + ROB_SIZE)
      BY <2>1, <2>3 DEF Place
    <3> QED BY <1>2, <1>5, <1>7, <1>10, <2>1, <3>1
  <2> QED BY <2>2, <2>3
<1>11. ASSUME NEW k \in head .. i - 1, NEW m \in head .. i - 1, k < m
       PROVE  ROB[k].id < ROB[m].id
  <2>1. /\ ROB[k].id = retired + (k - head + 1) /\ k \in Int
        /\ ROB[m].id = retired + (m - head + 1) /\ m \in Int
    BY <1>8
  <2> QED BY <1>2, <1>5, <1>11, <2>1
<1> QED BY <1>1, <1>2, <1>3, <1>4, <1>9, <1>10, <1>11

LEMMA RegProducerIs ==
  ASSUME Types, Ring, Stages, NEW i, Next2Schedule(i), NEW r
  PROVE  LET q == RegProducer(State, i, r) IN
         /\ q = NoIndex => \A p \in head .. i - 1 : ~Producing(p, r)
         /\ q # NoIndex => /\ q \in head .. i - 1 /\ Producing(q, r)
                           /\ \A p \in head .. i - 1 : Producing(p, r) => p <= q
<1>1. /\ i \in Int /\ 0 <= i /\ i <= ROB_SIZE - 1 /\ head \in Int /\ 0 <= head /\ head <= i
      /\ ROB_SIZE \in Nat /\ ROB_SIZE >= 1
  BY SlotIs, Size DEF Next2Schedule, Types
<1>2. Distance(State, i) = i - head
  <2>1. i - head \in 0 .. 2 * ROB_SIZE - 1 /\ i - head < ROB_SIZE
    BY <1>1
  <2>2. (i - head) % ROB_SIZE = i - head
    BY <1>1, <2>1, Wrap
  <2> QED BY <2>2, StateIs DEF Distance
<1>3. ASSUME NEW d \in 1 .. i - head
      PROVE  Before(i, d) = i - d /\ i - d \in head .. i - 1
  <2>1. i - d \in 0 .. 2 * ROB_SIZE - 1 /\ i - d < ROB_SIZE /\ i - d \in head .. i - 1
    BY <1>1
  <2>2. (i - d) % ROB_SIZE = i - d
    BY <1>1, <2>1, Wrap
  <2> QED BY <2>1, <2>2 DEF Before
<1> DEFINE D == {d \in 1 .. Distance(State, i) :
                   LET p == Before(i, d) IN State.ROB[p].executed # COMPLETED /\ r \in Code(State, p).writes}
           E == {d \in 1 .. i - head : Producing(i - d, r)}
           q == RegProducer(State, i, r)
<1>4. D = E
  <2>1. \A p : State.ROB[p].executed # COMPLETED /\ r \in Code(State, p).writes <=> Producing(p, r)
    BY StateIs DEF Producing, Code
  <2> QED BY <1>2, <1>3, <2>1
<1>5. q = IF E = {} THEN NoIndex ELSE Before(i, Min(E))
  <2>1. q = IF D = {} THEN NoIndex ELSE Before(i, Min(D))
    BY DEF RegProducer
  <2> HIDE DEF q, D, E
  <2> QED BY <1>4, <2>1
<1>6. \A p \in head .. i - 1 : i - p \in 1 .. i - head /\ i - (i - p) = p
  BY <1>1
<1>7. CASE E = {}
  <2>1. q = NoIndex
    BY <1>5, <1>7
  <2>2. \A p \in head .. i - 1 : ~Producing(p, r)
    <3>1. ASSUME NEW p \in head .. i - 1, Producing(p, r) PROVE FALSE
      <4>1. i - p \in E
        BY <1>6, <3>1
      <4> QED BY <1>7, <4>1
    <3> QED BY <3>1
  <2> HIDE DEF q
  <2> QED BY <2>1, <2>2 DEF q
<1>8. CASE E # {}
  <2> DEFINE d == Min(E)
  <2>1. d \in E /\ \A y \in E : d <= y
    <3>1. E \subseteq Nat
      BY <1>1
    <3> HIDE DEF E
    <3> QED BY <1>8, <3>1, LeastIs
  <2> HIDE DEF d
  <2>2. d \in 1 .. i - head /\ Producing(i - d, r) /\ d \in Int
    BY <1>1, <2>1
  <2>3. q = i - d /\ q \in head .. i - 1
    <3>1. q = Before(i, d)
      BY <1>5, <1>8 DEF d
    <3> HIDE DEF q
    <3> QED BY <1>3, <2>2, <3>1
  <2>4. q # NoIndex
    BY <1>1, <2>3 DEF NoIndex
  <2>5. ASSUME NEW p \in head .. i - 1, Producing(p, r) PROVE p <= q
    <3>1. i - p \in E
      BY <1>6, <2>5
    <3> HIDE DEF q, E
    <3>2. d <= i - p
      BY <2>1, <3>1
    <3>3. p \in Int
      BY <1>1
    <3> QED BY <1>1, <2>2, <2>3, <3>2, <3>3
  <2> HIDE DEF q
  <2> QED BY <2>2, <2>3, <2>4, <2>5 DEF q
<1> QED BY <1>7, <1>8

-------------------------------------------------------------------------------
(* do_scheduling.                                                          *)

Needs(i) == Depends(State, i)

OwedBy(i, p) == {<< i, r >> : r \in {x \in Needs(i) : RegProducer(State, i, x) = p}}

(* What becomes of the entry at p when that at i is scheduled.             *)
Scheduled1(i, p) ==
  /\ DOMAIN ROB'[p] = EntryFields
  /\ ROB'[p].id = ROB[p].id /\ ROB'[p].executed = ROB[p].executed
  /\ ROB'[p].lq = ROB[p].lq /\ ROB'[p].sq = ROB[p].sq
  /\ p # i => /\ ROB'[p].scheduled = ROB[p].scheduled /\ ROB'[p].reg_ready = ROB[p].reg_ready
              /\ ROB'[p].num_reg_dependent = ROB[p].num_reg_dependent
              /\ ROB'[p].reg_deps = ROB[p].reg_deps \cup OwedBy(i, p)
  /\ p = i => /\ ROB'[p].scheduled = IF Memory(i) THEN INFLIGHT ELSE COMPLETED
              /\ ROB'[p].reg_ready = (Needs(i) = {})
              /\ ROB'[p].num_reg_dependent = Cardinality(Needs(i))
              /\ ROB'[p].reg_deps = ROB[p].reg_deps

LEMMA RegDependencyIs ==
  ASSUME Types, NEW i \in Slots
  PROVE  LET t == RegDependency(State, i) IN
         /\ DOMAIN t = StateFields /\ DOMAIN t.ROB = Slots /\ SameCore(State, t)
         /\ \A p \in Slots :
              /\ DOMAIN t.ROB[p] = EntryFields
              /\ t.ROB[p].id = ROB[p].id /\ t.ROB[p].executed = ROB[p].executed
              /\ t.ROB[p].lq = ROB[p].lq /\ t.ROB[p].sq = ROB[p].sq
              /\ t.ROB[p].scheduled = ROB[p].scheduled
              /\ p # i => /\ t.ROB[p].reg_ready = ROB[p].reg_ready
                          /\ t.ROB[p].num_reg_dependent = ROB[p].num_reg_dependent
                          /\ t.ROB[p].reg_deps = ROB[p].reg_deps \cup OwedBy(i, p)
              /\ p = i => /\ t.ROB[p].reg_ready = (Needs(i) = {})
                          /\ t.ROB[p].num_reg_dependent = Cardinality(Needs(i))
                          /\ t.ROB[p].reg_deps = ROB[p].reg_deps
<1> DEFINE t == RegDependency(State, i)
           R == [p \in Slots |->
                  IF p = i THEN [State.ROB[i] EXCEPT !.reg_ready = Depends(State, i) = {},
                                                     !.num_reg_dependent = Cardinality(Depends(State, i))]
                  ELSE [State.ROB[p] EXCEPT
                          !.reg_deps = @ \cup {<< i, r >> : r \in {r \in Depends(State, i) : RegProducer(State, i, r) = p}}]]
<1>1. DOMAIN State = StateFields /\ State.ROB = ROB
  BY StateIs
<1>2. t = [State EXCEPT !.ROB = R]
  BY DEF RegDependency
<1> HIDE DEF R, t
<1>3. /\ DOMAIN t = StateFields /\ t.ROB = R
      /\ t.program = State.program /\ t.head = State.head /\ t.tail = State.tail
      /\ t.next_schedule = State.next_schedule /\ t.RTE0 = State.RTE0 /\ t.RTE1 = State.RTE1
      /\ t.dispatched = State.dispatched /\ t.retired = State.retired
  BY <1>1, <1>2 DEF StateFields
<1>4. SameCore(State, t)
  BY <1>3 DEF SameCore
<1>5. DOMAIN R = Slots
  BY DEF R
<1>6. ASSUME NEW p \in Slots
      PROVE  /\ DOMAIN R[p] = EntryFields
             /\ R[p].id = ROB[p].id /\ R[p].executed = ROB[p].executed
             /\ R[p].lq = ROB[p].lq /\ R[p].sq = ROB[p].sq
             /\ R[p].scheduled = ROB[p].scheduled
             /\ p # i => /\ R[p].reg_ready = ROB[p].reg_ready
                         /\ R[p].num_reg_dependent = ROB[p].num_reg_dependent
                         /\ R[p].reg_deps = ROB[p].reg_deps \cup OwedBy(i, p)
             /\ p = i => /\ R[p].reg_ready = (Needs(i) = {})
                         /\ R[p].num_reg_dependent = Cardinality(Needs(i))
                         /\ R[p].reg_deps = ROB[p].reg_deps
  <2>1. DOMAIN ROB[p] = EntryFields
    BY DEF Types
  <2>2. CASE p = i
    <3>1. R[p] = [ROB[p] EXCEPT !.reg_ready = Needs(i) = {}, !.num_reg_dependent = Cardinality(Needs(i))]
      BY <1>1, <2>2 DEF R, Needs
    <3> DEFINE b == Needs(i) = {}
               c == Cardinality(Needs(i))
    <3>2. R[p] = [ROB[p] EXCEPT !.reg_ready = b, !.num_reg_dependent = c]
      BY <3>1
    <3> HIDE DEF b, c
    <3>3. /\ DOMAIN R[p] = EntryFields
          /\ R[p].id = ROB[p].id /\ R[p].executed = ROB[p].executed
          /\ R[p].lq = ROB[p].lq /\ R[p].sq = ROB[p].sq
          /\ R[p].scheduled = ROB[p].scheduled
          /\ R[p].reg_ready = b /\ R[p].num_reg_dependent = c
          /\ R[p].reg_deps = ROB[p].reg_deps
      BY <2>1, <3>2 DEF EntryFields, EmptyEntry
    <3> QED BY <2>2, <3>3 DEF b, c
  <2>3. CASE p # i
    <3> DEFINE o == OwedBy(i, p)
    <3>1. R[p] = [ROB[p] EXCEPT !.reg_deps = @ \cup o]
      BY <1>1, <2>3 DEF R, Needs, OwedBy
    <3> HIDE DEF o
    <3>2. /\ DOMAIN R[p] = EntryFields
          /\ R[p].id = ROB[p].id /\ R[p].executed = ROB[p].executed
          /\ R[p].lq = ROB[p].lq /\ R[p].sq = ROB[p].sq
          /\ R[p].scheduled = ROB[p].scheduled
          /\ R[p].reg_ready = ROB[p].reg_ready
          /\ R[p].num_reg_dependent = ROB[p].num_reg_dependent
          /\ R[p].reg_deps = ROB[p].reg_deps \cup o
      BY <2>1, <3>1 DEF EntryFields, EmptyEntry
    <3> QED BY <2>3, <3>2 DEF o
  <2> QED BY <2>2, <2>3
<1> QED BY <1>3, <1>4, <1>5, <1>6 DEF t

LEMMA ScheduleIs ==
  ASSUME Types, ScheduleInstruction
  PROVE  \E i \in Slots :
           /\ Next2Schedule(i)
           /\ program' = program /\ head' = head /\ tail' = tail /\ next_schedule' = (i + 1) % ROB_SIZE
           /\ dispatched' = dispatched /\ retired' = retired /\ DOMAIN ROB' = Slots
           /\ RTE0' = RTE0
           /\ RTE1' = IF ~Memory(i) /\ Needs(i) = {} THEN Append(RTE1, i) ELSE RTE1
           /\ \A p \in Slots : Scheduled1(i, p)
<1>1. PICK i \in head .. ROB_SIZE - 1 :
        /\ ROB[i].id # NoId /\ ROB[i].scheduled = 0
        /\ \A k \in head .. i - 1 : ROB[k].scheduled # 0
        /\ Become(DoScheduling(State, i))
  BY DEF ScheduleInstruction
<1>2. i \in Slots /\ head <= i
  <2>1. head \in Int /\ 0 <= head /\ ROB_SIZE - 1 \in Int
    BY SlotIs, Size DEF Types
  <2> QED BY <2>1, SlotIs
<1>3. Next2Schedule(i)
  BY <1>1, <1>2 DEF Next2Schedule
<1> DEFINE r == RegDependency(State, i)
           t == [r EXCEPT !.next_schedule = (i + 1) % ROB_SIZE]
           m == [t EXCEPT !.ROB[i].scheduled = INFLIGHT]
           a == [t EXCEPT !.ROB[i].scheduled = COMPLETED,
                          !.RTE1 = IF t.ROB[i].reg_ready THEN Append(@, i) ELSE @]
           s == DoScheduling(State, i)
<1>4. s = IF Memory(i) THEN m ELSE a
  BY MemoryIs DEF DoScheduling
<1>5. /\ DOMAIN r = StateFields /\ DOMAIN r.ROB = Slots /\ SameCore(State, r)
      /\ \A p \in Slots : DOMAIN r.ROB[p] = EntryFields
  BY <1>2, RegDependencyIs
<1>6. BecomeOneOf({s})
  BY <1>1 DEF Become
<1> HIDE DEF r, s
<1>7. /\ DOMAIN t = StateFields /\ t.ROB = r.ROB /\ t.next_schedule = (i + 1) % ROB_SIZE
      /\ t.program = r.program /\ t.head = r.head /\ t.tail = r.tail
      /\ t.RTE0 = r.RTE0 /\ t.RTE1 = r.RTE1
      /\ t.dispatched = r.dispatched /\ t.retired = r.retired
  BY <1>5 DEF StateFields
<1> HIDE DEF t
<1>8. /\ m.next_schedule = t.next_schedule
      /\ m.program = t.program /\ m.head = t.head /\ m.tail = t.tail
      /\ m.RTE0 = t.RTE0 /\ m.RTE1 = t.RTE1
      /\ m.dispatched = t.dispatched /\ m.retired = t.retired
      /\ m.ROB = [r.ROB EXCEPT ![i].scheduled = INFLIGHT]
  BY <1>7 DEF StateFields
<1>9. /\ a.next_schedule = t.next_schedule
      /\ a.program = t.program /\ a.head = t.head /\ a.tail = t.tail
      /\ a.RTE0 = t.RTE0 /\ a.RTE1 = IF r.ROB[i].reg_ready THEN Append(t.RTE1, i) ELSE t.RTE1
      /\ a.dispatched = t.dispatched /\ a.retired = t.retired
      /\ a.ROB = [r.ROB EXCEPT ![i].scheduled = COMPLETED]
  BY <1>7 DEF StateFields
<1> HIDE DEF m, a
<1>10. r.ROB[i].reg_ready = (Needs(i) = {})
  BY <1>2, RegDependencyIs DEF r
<1>11. /\ s.next_schedule = (i + 1) % ROB_SIZE
       /\ s.head = head /\ s.tail = tail /\ s.RTE0 = RTE0
       /\ s.RTE1 = IF ~Memory(i) /\ Needs(i) = {} THEN Append(RTE1, i) ELSE RTE1
       /\ s.dispatched = dispatched /\ s.retired = retired
       /\ s.ROB = [r.ROB EXCEPT ![i].scheduled = IF Memory(i) THEN INFLIGHT ELSE COMPLETED]
  <2>1. /\ r.head = head /\ r.tail = tail /\ r.RTE0 = RTE0 /\ r.RTE1 = RTE1
        /\ r.dispatched = dispatched /\ r.retired = retired
    BY <1>5, StateIs DEF SameCore
  <2>2. CASE Memory(i)
    BY <1>4, <1>7, <1>8, <2>1, <2>2
  <2>3. CASE ~Memory(i)
    BY <1>4, <1>7, <1>9, <1>10, <2>1, <2>3
  <2> QED BY <2>2, <2>3
<1>12. /\ ROB' = s.ROB /\ head' = s.head /\ tail' = s.tail /\ next_schedule' = s.next_schedule
       /\ RTE0' = s.RTE0 /\ RTE1' = s.RTE1 /\ dispatched' = s.dispatched
       /\ retired' = s.retired /\ program' = program
  BY <1>6, BecomeIs
<1>13. DOMAIN ROB' = Slots
  BY <1>5, <1>11, <1>12
<1>14. ASSUME NEW p \in Slots PROVE Scheduled1(i, p)
  <2> DEFINE v == IF Memory(i) THEN INFLIGHT ELSE COMPLETED
  <2>1. /\ DOMAIN r.ROB[p] = EntryFields
        /\ r.ROB[p].id = ROB[p].id /\ r.ROB[p].executed = ROB[p].executed
        /\ r.ROB[p].lq = ROB[p].lq /\ r.ROB[p].sq = ROB[p].sq
        /\ r.ROB[p].scheduled = ROB[p].scheduled
        /\ p # i => /\ r.ROB[p].reg_ready = ROB[p].reg_ready
                    /\ r.ROB[p].num_reg_dependent = ROB[p].num_reg_dependent
                    /\ r.ROB[p].reg_deps = ROB[p].reg_deps \cup OwedBy(i, p)
        /\ p = i => /\ r.ROB[p].reg_ready = (Needs(i) = {})
                    /\ r.ROB[p].num_reg_dependent = Cardinality(Needs(i))
                    /\ r.ROB[p].reg_deps = ROB[p].reg_deps
    BY <1>2, RegDependencyIs DEF r
  <2>2. ROB' = [r.ROB EXCEPT ![i].scheduled = v]
    BY <1>11, <1>12
  <2> HIDE DEF v
  <2>3. CASE p = i
    <3>1. ROB'[p] = [r.ROB[p] EXCEPT !.scheduled = v]
      BY <1>2, <1>5, <2>2, <2>3
    <3>2. /\ DOMAIN ROB'[p] = EntryFields
          /\ ROB'[p].id = r.ROB[p].id /\ ROB'[p].executed = r.ROB[p].executed
          /\ ROB'[p].lq = r.ROB[p].lq /\ ROB'[p].sq = r.ROB[p].sq
          /\ ROB'[p].reg_ready = r.ROB[p].reg_ready
          /\ ROB'[p].num_reg_dependent = r.ROB[p].num_reg_dependent
          /\ ROB'[p].reg_deps = r.ROB[p].reg_deps /\ ROB'[p].scheduled = v
      BY <2>1, <3>1 DEF EntryFields, EmptyEntry
    <3> QED BY <2>1, <2>3, <3>2 DEF Scheduled1, v
  <2>4. CASE p # i
    <3>1. ROB'[p] = r.ROB[p]
      BY <1>5, <2>2, <2>4
    <3> QED BY <2>1, <2>4, <3>1 DEF Scheduled1
  <2> QED BY <2>3, <2>4
<1> QED BY <1>2, <1>3, <1>11, <1>12, <1>13, <1>14

LEMMA NextSlot ==
  ASSUME NEW i \in Slots
  PROVE  (i + 1) % ROB_SIZE \in Slots
<1> DEFINE x == i + 1
<1>1. i \in Int /\ 0 <= i /\ i <= ROB_SIZE - 1
  BY SlotIs
<1>2. x \in 0 .. 2 * ROB_SIZE - 1 /\ x \in Int /\ 0 <= x /\ x <= ROB_SIZE
  BY <1>1, Size
<1> HIDE DEF x
<1>3. x % ROB_SIZE = IF x < ROB_SIZE THEN x ELSE x - ROB_SIZE
  BY <1>2, Size, Wrap
<1>4. x % ROB_SIZE \in Slots
  BY <1>2, <1>3, Size, SlotIs
<1> QED BY <1>4 DEF x

LEMMA ProgramIs ==
  ASSUME Types, NEW i \in Slots, ROB[i].id # NoId
  PROVE  ROB[i].id \in DOMAIN program /\ program[ROB[i].id] \in Instr
         /\ program[ROB[i].id].reads \subseteq Reg
<1>1. program \in Seq(Instr) /\ Len(program) \in Nat /\ DOMAIN program = 1 .. Len(program)
  BY LenProperties DEF Types
<1>2. ROB[i].id \in 1 .. Len(program)
  <2>1. ROB[i].id \in 0 .. Len(program)
    BY DEF Types
  <2> QED BY <1>1, <2>1 DEF NoId
<1>3. program[ROB[i].id] \in Instr
  BY <1>1, <1>2, ElementOfSeq
<1> QED BY <1>1, <1>2, <1>3 DEF Instr

LEMMA NeedsIs ==
  ASSUME Types, NEW i \in Slots, ROB[i].id # NoId
  PROVE  /\ Needs(i) = {r \in program[ROB[i].id].reads : RegProducer(State, i, r) # NoIndex}
         /\ Needs(i) \subseteq Reg /\ Needs(i) \subseteq program[ROB[i].id].reads
         /\ IsFiniteSet(Needs(i)) /\ Cardinality(Needs(i)) \in Nat
         /\ (Cardinality(Needs(i)) = 0 <=> Needs(i) = {})
<1>1. Needs(i) = {r \in program[ROB[i].id].reads : RegProducer(State, i, r) # NoIndex}
  BY StateIs DEF Needs, Depends, Code
<1>2. Needs(i) \in SUBSET Reg /\ Needs(i) \subseteq program[ROB[i].id].reads
  BY <1>1, ProgramIs
<1> DEFINE S == Needs(i)
<1> HIDE DEF S
<1>3. IsFiniteSet(S) /\ Cardinality(S) \in Nat /\ (Cardinality(S) = 0 <=> S = {})
  <2>1. S \in SUBSET Reg
    BY <1>2 DEF S
  <2> QED BY <2>1, RegAssumption, FS_Subset, FS_CardinalityType, FS_EmptySet
<1> QED BY <1>1, <1>2, <1>3 DEF S

(* As many entries owe a register as registers are needed.                 *)
LEMMA SourcesCounted ==
  ASSUME NEW S, NEW f, IsFiniteSet(S)
  PROVE  Cardinality({<< f[r], r >> : r \in S}) = Cardinality(S)
<1> DEFINE g == [r \in S |-> << f[r], r >>]
           T == {<< f[r], r >> : r \in S}
<1>1. g \in [S -> T] /\ \A r \in S : g[r] = << f[r], r >>
  OBVIOUS
<1>2. \A t \in T : \E r \in S : g[r] = t
  OBVIOUS
<1>3. \A r, u \in S : g[r] = g[u] => r = u
  OBVIOUS
<1> HIDE DEF g
<1>4. g \in Bijection(S, T)
  BY <1>1, <1>2, <1>3 DEF Bijection, Injection, Surjection, IsInjective
<1> HIDE DEF T
<1>5. ExistsBijection(S, T)
  BY <1>4 DEF ExistsBijection
<1>6. Cardinality(T) = Cardinality(S)
  BY <1>5, FS_Bijection
<1> QED BY <1>6 DEF T

LEMMA OneMore ==
  ASSUME NEW S, NEW q \in Seq(S), IsInjective(q), NEW x \in S, x \notin Range(q)
  PROVE  Append(q, x) \in Seq(S) /\ IsInjective(Append(q, x)) /\ Range(Append(q, x)) = Range(q) \cup {x}
<1> DEFINE p == Append(q, x)
<1>1. /\ Len(q) \in Nat /\ DOMAIN q = 1 .. Len(q) /\ p \in Seq(S)
      /\ DOMAIN p = 1 .. Len(q) + 1 /\ p[Len(q) + 1] = x
      /\ \A k \in 1 .. Len(q) : p[k] = q[k]
  BY AppendProperties, LenProperties
<1> HIDE DEF p
<1>2. \A k \in 1 .. Len(q) + 1 : k = Len(q) + 1 \/ k \in 1 .. Len(q)
  BY <1>1
<1>3. \A k \in 1 .. Len(q) : k \in 1 .. Len(q) + 1
  BY <1>1
<1>4. Len(q) + 1 \in 1 .. Len(q) + 1
  BY <1>1
<1>5. IsInjective(p)
  <2> SUFFICES ASSUME NEW a \in 1 .. Len(q) + 1, NEW b \in 1 .. Len(q) + 1, p[a] = p[b]
               PROVE  a = b
    BY <1>1 DEF IsInjective
  <2>1. CASE a \in 1 .. Len(q) /\ b \in 1 .. Len(q)
    BY <1>1, <2>1 DEF IsInjective
  <2>2. CASE a = Len(q) + 1 /\ b = Len(q) + 1
    BY <2>2
  <2>3. CASE a = Len(q) + 1 /\ b \in 1 .. Len(q)
    <3>1. q[b] = x
      BY <1>1, <2>3
    <3> QED BY <1>1, <2>3, <3>1 DEF Range
  <2>4. CASE a \in 1 .. Len(q) /\ b = Len(q) + 1
    <3>1. q[a] = x
      BY <1>1, <2>4
    <3> QED BY <1>1, <2>4, <3>1 DEF Range
  <2> QED BY <1>2, <2>1, <2>2, <2>3, <2>4
<1>6. Range(p) = Range(q) \cup {x}
  <2>1. \A k \in 1 .. Len(q) + 1 : p[k] \in Range(q) \cup {x}
    BY <1>1, <1>2 DEF Range
  <2>2. \A k \in 1 .. Len(q) : q[k] \in Range(p)
    BY <1>1, <1>3 DEF Range
  <2>3. x \in Range(p)
    BY <1>1, <1>4 DEF Range
  <2> QED BY <1>1, <2>1, <2>2, <2>3 DEF Range
<1> QED BY <1>1, <1>5, <1>6 DEF p

LEMMA ScheduleKeeps ==
  ASSUME RobInv, ScheduleInstruction
  PROVE  RobInv'
<1>1. Types /\ Ring /\ Prefix /\ Debts /\ Sources /\ Stages /\ Queued /\ WakeupsCounted
  BY DEF RobInv
<1>2. PICK i \in Slots :
           /\ Next2Schedule(i)
           /\ program' = program /\ head' = head /\ tail' = tail /\ next_schedule' = (i + 1) % ROB_SIZE
           /\ dispatched' = dispatched /\ retired' = retired /\ DOMAIN ROB' = Slots
           /\ RTE0' = RTE0
           /\ RTE1' = IF ~Memory(i) /\ Needs(i) = {} THEN Append(RTE1, i) ELSE RTE1
           /\ \A p \in Slots : Scheduled1(i, p)
  BY <1>1, ScheduleIs
<1>3. ROB[i].id # NoId /\ ROB[i].scheduled = 0 /\ ROB[i].executed = 0 /\ ~Placed(i)
  BY <1>1, <1>2 DEF Next2Schedule, Stages
<1>4. /\ i \in LiveRob /\ head \in Int /\ i \in Int
      /\ \A k \in head .. i - 1 : k \in LiveRob /\ k # i /\ ROB[k].id < ROB[i].id
      /\ \A k \in LiveRob : ROB[k].id < ROB[i].id => k \in head .. i - 1
      /\ \A k, m \in head .. i - 1 : k < m => ROB[k].id < ROB[m].id
  BY <1>1, <1>2, OlderIs
<1>5. /\ Needs(i) = {r \in program[ROB[i].id].reads : RegProducer(State, i, r) # NoIndex}
      /\ Needs(i) \subseteq Reg /\ Needs(i) \subseteq program[ROB[i].id].reads
      /\ IsFiniteSet(Needs(i)) /\ Cardinality(Needs(i)) \in Nat
      /\ (Cardinality(Needs(i)) = 0 <=> Needs(i) = {})
  BY <1>1, <1>3, NeedsIs
<1> DEFINE Src(r) == RegProducer(State, i, r)
<1>6. ASSUME NEW r
      PROVE  /\ Src(r) = NoIndex => \A p \in head .. i - 1 : ~Producing(p, r)
             /\ Src(r) # NoIndex => /\ Src(r) \in head .. i - 1 /\ Producing(Src(r), r)
                                    /\ \A p \in head .. i - 1 : Producing(p, r) => p <= Src(r)
  BY <1>1, <1>2, RegProducerIs
<1>7. ASSUME NEW p, NEW o \in OwedBy(i, p)
      PROVE  /\ o = << i, o[2] >> /\ o[1] = i /\ o[2] \in Needs(i) /\ Src(o[2]) = p
             /\ p \in head .. i - 1
  <2>1. PICK r \in Needs(i) : Src(r) = p /\ o = << i, r >>
    BY DEF OwedBy
  <2>2. o[1] = i /\ o[2] = r
    BY <2>1
  <2>3. Src(r) # NoIndex
    BY <1>5
  <2> QED BY <1>6, <2>1, <2>2, <2>3
<1> HIDE DEF Src
<1>8. \A p \in Slots : ROB'[p].id = ROB[p].id /\ ROB'[p].executed = ROB[p].executed
                       /\ ROB[p].reg_deps \subseteq ROB'[p].reg_deps
  BY <1>2 DEF Scheduled1
<1>9. LiveRob' = LiveRob /\ LiveRob \subseteq Slots
  BY <1>8 DEF LiveRob
<1>10. ROB'[i].scheduled # 0 /\ \A p \in Slots : p # i => ROB'[p].scheduled = ROB[p].scheduled
  BY <1>2 DEF Scheduled1, INFLIGHT, COMPLETED
<1>11. Types'
  <2>1. ASSUME NEW p \in Slots
        PROVE  /\ DOMAIN ROB'[p] = EntryFields /\ ROB'[p].id \in 0 .. Len(program)
               /\ ROB'[p].scheduled \in 0 .. COMPLETED /\ ROB'[p].executed \in 0 .. COMPLETED
               /\ ROB'[p].num_reg_dependent \in Nat /\ ROB'[p].reg_ready \in BOOLEAN
               /\ ROB'[p].reg_deps \subseteq Slots \X Reg
    <3>1. /\ ROB[p].id \in 0 .. Len(program) /\ ROB[p].reg_deps \subseteq Slots \X Reg
          /\ ROB[p].scheduled \in 0 .. COMPLETED /\ ROB[p].executed \in 0 .. COMPLETED
          /\ ROB[p].num_reg_dependent \in Nat /\ ROB[p].reg_ready \in BOOLEAN
      BY <1>1 DEF Types
    <3>2. INFLIGHT \in 0 .. COMPLETED /\ COMPLETED \in 0 .. COMPLETED
      BY DEF INFLIGHT, COMPLETED
    <3>3. OwedBy(i, p) \subseteq Slots \X Reg
      BY <1>5, <1>7
    <3>4. CASE p = i
      <4>1. (Needs(i) = {}) \in BOOLEAN
        OBVIOUS
      <4> QED BY <1>2, <1>5, <3>1, <3>2, <3>4, <4>1 DEF Scheduled1
    <3>5. CASE p # i
      BY <1>2, <3>1, <3>3, <3>5 DEF Scheduled1
    <3> QED BY <3>4, <3>5
  <2>2. (i + 1) % ROB_SIZE \in Slots
    BY NextSlot
  <2> QED BY <1>1, <1>2, <2>1, <2>2 DEF Types
<1>12. Ring'
  BY <1>1, <1>2, <1>8, RingSame DEF SameOrder
<1>13. Prefix'
  <2> SUFFICES ASSUME NEW a \in LiveRob, NEW k \in LiveRob, ROB'[k].id < ROB'[a].id, ROB'[a].scheduled # 0
               PROVE  ROB'[k].scheduled # 0
    BY <1>9 DEF Prefix
  <2>1. ROB[k].id < ROB[a].id /\ k \in Slots /\ a \in Slots
    BY <1>8, <1>9
  <2>2. CASE k = i
    BY <1>10, <2>2
  <2>3. CASE k # i /\ a = i
    <3>1. k \in head .. i - 1
      BY <1>4, <2>1, <2>3
    <3> QED BY <1>2, <1>10, <2>1, <2>3, <3>1 DEF Next2Schedule
  <2>4. CASE k # i /\ a # i
    BY <1>1, <1>10, <2>1, <2>4 DEF Prefix
  <2> QED BY <2>2, <2>3, <2>4
<1>14. Debts'
  <2> SUFFICES ASSUME NEW p \in LiveRob, ROB'[p].executed # COMPLETED, NEW o \in ROB'[p].reg_deps
               PROVE  /\ o[1] \in LiveRob /\ ROB'[o[1]].scheduled # 0 /\ ROB'[p].id < ROB'[o[1]].id
                      /\ o[2] \in program'[ROB'[o[1]].id].reads
    BY <1>9 DEF Debts
  <2>1. p \in Slots /\ ROB[p].executed # COMPLETED
    BY <1>8, <1>9
  <2>2. o \in ROB[p].reg_deps \/ o \in OwedBy(i, p)
    BY <1>2, <2>1 DEF Scheduled1
  <2>3. CASE o \in ROB[p].reg_deps
    <3>1. o[1] \in LiveRob /\ ROB[o[1]].scheduled # 0 /\ ROB[p].id < ROB[o[1]].id
          /\ o[2] \in program[ROB[o[1]].id].reads
      BY <1>1, <2>1, <2>3 DEF Debts
    <3>2. o[1] \in Slots
      BY <1>9, <3>1
    <3> QED BY <1>2, <1>8, <1>10, <2>1, <3>1, <3>2
  <2>4. CASE o \in OwedBy(i, p)
    <3>1. o[1] = i /\ o[2] \in program[ROB[i].id].reads /\ p \in head .. i - 1
      BY <1>5, <1>7, <2>4
    <3>2. ROB[p].id < ROB[i].id
      BY <1>4, <3>1
    <3> QED BY <1>2, <1>4, <1>8, <1>10, <2>1, <3>1, <3>2
  <2> QED BY <2>2, <2>3, <2>4
<1>15. Sources'
  <2> SUFFICES ASSUME NEW a \in LiveRob, NEW p \in LiveRob, ROB'[a].scheduled # 0,
                      NEW r \in program'[ROB'[a].id].reads,
                      LastWriter(program', ROB'[p].id, ROB'[a].id, r)
               PROVE  ROB'[p].executed = COMPLETED \/ << a, r >> \in ROB'[p].reg_deps
    BY <1>9 DEF Sources
  <2>1. a \in Slots /\ p \in Slots
    BY <1>9
  <2>2. r \in program[ROB[a].id].reads /\ LastWriter(program, ROB[p].id, ROB[a].id, r)
    BY <1>2, <1>8, <2>1
  <2>3. CASE a # i
    <3>1. ROB[a].scheduled # 0
      BY <1>10, <2>1, <2>3
    <3>2. ROB[p].executed = COMPLETED \/ << a, r >> \in ROB[p].reg_deps
      BY <1>1, <2>2, <3>1 DEF Sources
    <3> QED BY <1>8, <2>1, <3>2
  <2>4. CASE a = i /\ ROB[p].executed # COMPLETED
    <3>1. /\ ROB[p].id < ROB[i].id /\ r \in program[ROB[p].id].writes
          /\ \A k \in ROB[p].id + 1 .. ROB[i].id - 1 : r \notin program[k].writes
      BY <2>2, <2>4 DEF LastWriter
    <3>2. p \in head .. i - 1 /\ Producing(p, r)
      BY <1>4, <2>4, <3>1 DEF Producing
    <3>3. Src(r) # NoIndex /\ Src(r) \in head .. i - 1 /\ Producing(Src(r), r) /\ p <= Src(r)
      BY <1>6, <3>2
    <3> DEFINE q == Src(r)
    <3> HIDE DEF q
    <3>4. q \in head .. i - 1 /\ Producing(q, r) /\ p <= q
      BY <3>3 DEF q
    <3>5. q = p
      <4> SUFFICES ASSUME q # p PROVE FALSE
        OBVIOUS
      <4>1. p < q
        <5>1. p \in Int /\ q \in Int
          BY <1>4, <3>2, <3>4
        <5> QED BY <3>4, <5>1
      <4>2. ROB[p].id < ROB[q].id /\ ROB[q].id < ROB[i].id /\ q \in LiveRob
        BY <1>4, <3>2, <3>4, <4>1
      <4>3. ROB[p].id \in Int /\ ROB[q].id \in Int /\ ROB[i].id \in Int
        <5>1. ROB[p].id \in Nat /\ ROB[q].id \in Nat /\ ROB[i].id \in Nat
          BY <1>1, <1>4, <4>2, LiveIs
        <5> QED BY <5>1
      <4> DEFINE x == ROB[p].id
                 y == ROB[q].id
                 z == ROB[i].id
      <4> HIDE DEF x, y, z
      <4>4. x < y /\ y < z /\ x \in Int /\ y \in Int /\ z \in Int
        BY <4>2, <4>3 DEF x, y, z
      <4>5. y \in x + 1 .. z - 1
        BY <4>4
      <4>6. r \notin program[y].writes
        BY <3>1, <4>5 DEF x, z
      <4> QED BY <3>4, <4>6 DEF Producing, y
    <3>6. r \in Needs(i)
      BY <1>5, <2>2, <2>4, <3>3 DEF Src
    <3>7. << i, r >> \in OwedBy(i, p)
      BY <3>5, <3>6 DEF OwedBy, Src, q
    <3>8. p # i
      BY <1>4, <3>2
    <3> QED BY <1>2, <2>1, <2>4, <3>7, <3>8 DEF Scheduled1
  <2>5. CASE ROB[p].executed = COMPLETED
    BY <1>8, <2>1, <2>5
  <2> QED BY <2>3, <2>4, <2>5
<1>16. WakeupsCounted'
  <2>1. ASSUME NEW d
        PROVE  Dues(d)' = {o \in LiveRob \X Reg : ROB[o[1]].executed # COMPLETED /\ << d, o[2] >> \in ROB'[o[1]].reg_deps}
    <3>1. Dues(d)' = {o \in LiveRob \X Reg : ROB'[o[1]].executed # COMPLETED /\ << d, o[2] >> \in ROB'[o[1]].reg_deps}
      BY <1>9 DEF Dues
    <3>2. \A o \in LiveRob \X Reg : ROB'[o[1]].executed = ROB[o[1]].executed
      BY <1>8, <1>9
    <3> QED BY <3>1, <3>2
  <2>2. ASSUME NEW d \in LiveRob, d # i PROVE Dues(d)' = Dues(d)
    <3>1. ASSUME NEW p \in LiveRob, NEW r \in Reg
          PROVE  << d, r >> \in ROB'[p].reg_deps <=> << d, r >> \in ROB[p].reg_deps
      <4>1. p \in Slots
        BY <1>9
      <4>2. << d, r >> \notin OwedBy(i, p)
        <5>1. << d, r >>[1] = d
          OBVIOUS
        <5> QED BY <1>7, <2>2, <5>1
      <4>3. ROB'[p].reg_deps = ROB[p].reg_deps \/ ROB'[p].reg_deps = ROB[p].reg_deps \cup OwedBy(i, p)
        BY <1>2, <4>1 DEF Scheduled1
      <4> QED BY <4>2, <4>3
    <3>2. \A o \in LiveRob \X Reg : << d, o[2] >> \in ROB'[o[1]].reg_deps <=> << d, o[2] >> \in ROB[o[1]].reg_deps
      BY <3>1
    <3> QED BY <2>1, <3>2 DEF Dues
  <2>3. Dues(i)' = {<< Src(r), r >> : r \in Needs(i)}
    <3>1. ASSUME NEW p \in LiveRob, NEW r \in Reg
          PROVE  ROB[p].executed # COMPLETED /\ << i, r >> \in ROB'[p].reg_deps
                 <=> r \in Needs(i) /\ Src(r) = p
      <4>1. p \in Slots
        BY <1>9
      <4>2. ASSUME ROB[p].executed # COMPLETED PROVE << i, r >> \notin ROB[p].reg_deps
        <5> SUFFICES ASSUME << i, r >> \in ROB[p].reg_deps PROVE FALSE
          OBVIOUS
        <5>1. << i, r >>[1] = i
          OBVIOUS
        <5> QED BY <1>1, <1>3, <4>2, <5>1 DEF Debts
      <4>3. ASSUME ROB[p].executed # COMPLETED, << i, r >> \in ROB'[p].reg_deps
            PROVE  r \in Needs(i) /\ Src(r) = p
        <5>1. << i, r >> \in OwedBy(i, p)
          BY <1>2, <4>1, <4>2, <4>3 DEF Scheduled1
        <5>2. << i, r >>[2] = r
          OBVIOUS
        <5> QED BY <1>7, <5>1, <5>2
      <4>4. ASSUME r \in Needs(i), Src(r) = p
            PROVE  ROB[p].executed # COMPLETED /\ << i, r >> \in ROB'[p].reg_deps
        <5>1. Src(r) # NoIndex
          BY <1>5, <4>4 DEF Src
        <5>2. p \in head .. i - 1 /\ Producing(p, r)
          BY <1>6, <4>4, <5>1
        <5>3. p # i
          BY <1>4, <5>2
        <5>4. << i, r >> \in OwedBy(i, p)
          BY <4>4 DEF OwedBy, Src
        <5> QED BY <1>2, <4>1, <5>2, <5>3, <5>4 DEF Scheduled1, Producing
      <4> QED BY <4>3, <4>4
    <3>2. ASSUME NEW o \in Dues(i)' PROVE o \in {<< Src(r), r >> : r \in Needs(i)}
      <4>1. o \in LiveRob \X Reg /\ ROB[o[1]].executed # COMPLETED /\ << i, o[2] >> \in ROB'[o[1]].reg_deps
        BY <2>1
      <4>2. o[1] \in LiveRob /\ o[2] \in Reg /\ o = << o[1], o[2] >>
        BY <4>1
      <4>3. o[2] \in Needs(i) /\ Src(o[2]) = o[1]
        BY <3>1, <4>1, <4>2
      <4> QED BY <4>2, <4>3
    <3>3. ASSUME NEW r \in Needs(i) PROVE << Src(r), r >> \in Dues(i)'
      <4>1. Src(r) # NoIndex /\ r \in Reg
        BY <1>5 DEF Src
      <4>2. Src(r) \in LiveRob
        BY <1>4, <1>6, <4>1
      <4>3. ROB[Src(r)].executed # COMPLETED /\ << i, r >> \in ROB'[Src(r)].reg_deps
        BY <3>1, <4>1, <4>2
      <4> DEFINE o == << Src(r), r >>
      <4>4. o \in LiveRob \X Reg /\ o[1] = Src(r) /\ o[2] = r
        BY <4>1, <4>2
      <4> HIDE DEF o
      <4>5. o \in Dues(i)'
        BY <2>1, <4>3, <4>4
      <4> QED BY <4>5 DEF o
    <3> QED BY <3>2, <3>3
  <2>4. Cardinality(Dues(i)') = Cardinality(Needs(i))
    <3> DEFINE f == [r \in Needs(i) |-> Src(r)]
    <3>1. {<< f[r], r >> : r \in Needs(i)} = {<< Src(r), r >> : r \in Needs(i)}
      OBVIOUS
    <3> HIDE DEF f
    <3>2. Cardinality({<< f[r], r >> : r \in Needs(i)}) = Cardinality(Needs(i))
      BY <1>5, SourcesCounted
    <3> QED BY <2>3, <3>1, <3>2
  <2>5. ASSUME NEW d \in LiveRob, ROB'[d].scheduled # 0
        PROVE  ROB'[d].num_reg_dependent = Cardinality(Dues(d)') /\ (ROB'[d].reg_ready <=> ROB'[d].num_reg_dependent = 0)
    <3>1. d \in Slots
      BY <1>9
    <3>2. CASE d = i
      <4>1. ROB'[d].reg_ready = (Needs(i) = {}) /\ ROB'[d].num_reg_dependent = Cardinality(Needs(i))
        BY <1>2, <3>1, <3>2 DEF Scheduled1
      <4>2. Cardinality(Dues(d)') = Cardinality(Needs(i))
        BY <2>4, <3>2
      <4> QED BY <1>5, <4>1, <4>2
    <3>3. CASE d # i
      <4>1. ROB'[d].reg_ready = ROB[d].reg_ready /\ ROB'[d].num_reg_dependent = ROB[d].num_reg_dependent
            /\ ROB[d].scheduled # 0
        BY <1>2, <2>5, <3>1, <3>3 DEF Scheduled1
      <4>2. ROB[d].num_reg_dependent = Cardinality(Dues(d)) /\ (ROB[d].reg_ready <=> ROB[d].num_reg_dependent = 0)
        BY <1>1, <4>1 DEF WakeupsCounted, Dues
      <4> QED BY <2>2, <3>3, <4>1, <4>2
    <3> QED BY <3>2, <3>3
  <2> QED BY <1>9, <2>5 DEF WakeupsCounted, Dues
<1>17. \A d \in Slots : (Memory(d)' <=> Memory(d)) /\ (Placed(d)' <=> Placed(d))
  BY <1>2 DEF Memory, Placed, Scheduled1
<1>18. Stages'
  <2> SUFFICES ASSUME NEW d \in Slots
               PROVE  /\ ROB'[d].id = NoId => ROB'[d].scheduled = 0
                      /\ ROB'[d].executed # 0 \/ Placed(d)' => ROB'[d].scheduled # 0 /\ ROB'[d].reg_ready
                      /\ Memory(d)' /\ ROB'[d].scheduled = COMPLETED => ROB'[d].reg_ready
    BY DEF Stages
  <2>1. CASE d = i
    <3>1. ROB'[d].id # NoId /\ ROB'[d].executed = 0 /\ ~Placed(d)'
      BY <1>3, <1>8, <1>17, <2>1
    <3>2. Memory(d) => ROB'[d].scheduled = INFLIGHT
      BY <1>2, <2>1 DEF Scheduled1
    <3>3. INFLIGHT # COMPLETED
      BY DEF INFLIGHT, COMPLETED
    <3> QED BY <1>17, <3>1, <3>2, <3>3
  <2>2. CASE d # i
    <3>1. /\ ROB'[d].id = ROB[d].id /\ ROB'[d].executed = ROB[d].executed
          /\ ROB'[d].scheduled = ROB[d].scheduled /\ ROB'[d].reg_ready = ROB[d].reg_ready
      BY <1>2, <2>2 DEF Scheduled1
    <3> QED BY <1>1, <1>17, <3>1 DEF Stages
  <2> QED BY <2>1, <2>2
<1>19. Queued'
  <2>1. /\ RTE0 \in Seq(Slots) /\ RTE1 \in Seq(Slots) /\ IsInjective(RTE0) /\ IsInjective(RTE1)
        /\ Range(RTE0) \cap Range(RTE1) = {} /\ Range(RTE0) \cup Range(RTE1) = {p \in Slots : Waits(p)}
    BY <1>1 DEF Queued
  <2>2. ~Waits(i)
    BY <1>3 DEF Waits, COMPLETED
  <2>3. i \notin Range(RTE0) /\ i \notin Range(RTE1)
    BY <2>1, <2>2
  <2>4. Waits(i)' <=> ~Memory(i) /\ Needs(i) = {}
    <3>1. /\ ROB'[i].executed = 0 /\ ROB'[i].reg_ready = (Needs(i) = {})
          /\ ROB'[i].scheduled = IF Memory(i) THEN INFLIGHT ELSE COMPLETED
      BY <1>2, <1>3 DEF Scheduled1
    <3> QED BY <1>17, <3>1 DEF Waits
  <2>5. ASSUME NEW d \in Slots, d # i PROVE Waits(d)' <=> Waits(d)
    <3>1. /\ ROB'[d].executed = ROB[d].executed
          /\ ROB'[d].scheduled = ROB[d].scheduled /\ ROB'[d].reg_ready = ROB[d].reg_ready
      BY <1>2, <2>5 DEF Scheduled1
    <3> QED BY <1>17, <3>1 DEF Waits
  <2>6. CASE ~Memory(i) /\ Needs(i) = {}
    <3> DEFINE q == Append(RTE1, i)
    <3>1. q \in Seq(Slots) /\ IsInjective(q) /\ Range(q) = Range(RTE1) \cup {i}
      BY <2>1, <2>3, OneMore
    <3>2. RTE0' = RTE0 /\ RTE1' = q
      BY <1>2, <2>6
    <3> HIDE DEF q
    <3>3. {p \in Slots : Waits(p)'} = {p \in Slots : Waits(p)} \cup {i}
      BY <2>4, <2>5, <2>6
    <3>4. Range(RTE0) \cap Range(q) = {} /\ Range(RTE0) \cup Range(q) = {p \in Slots : Waits(p)'}
      BY <2>1, <2>3, <3>1, <3>3
    <3> QED BY <2>1, <3>1, <3>2, <3>4 DEF Queued
  <2>7. CASE ~(~Memory(i) /\ Needs(i) = {})
    <3>1. RTE0' = RTE0 /\ RTE1' = RTE1
      BY <1>2, <2>7
    <3>2. {p \in Slots : Waits(p)'} = {p \in Slots : Waits(p)}
      BY <2>2, <2>4, <2>5, <2>7
    <3> QED BY <2>1, <3>1, <3>2 DEF Queued
  <2> QED BY <2>6, <2>7
<1> QED BY <1>11, <1>12, <1>13, <1>14, <1>15, <1>16, <1>18, <1>19 DEF RobInv

-------------------------------------------------------------------------------
(* The invariant.                                                          *)

LEMMA InitKeeps ==
  ASSUME Init
  PROVE  RobInv
<1>1. /\ program \in Programs /\ DOMAIN ROB = Slots /\ head = 0 /\ tail = 0 /\ next_schedule = 0
      /\ \A i \in Slots : ROB[i] = EmptyEntry
      /\ RTE0 = << >> /\ RTE1 = << >> /\ dispatched = 0 /\ retired = 0
  BY DEF Init
<1>2. NewEntry(NoId, EmptyEntry)
  BY EmptyIs
<1> DEFINE e == EmptyEntry
<1> HIDE DEF e
<1>3. /\ DOMAIN e = EntryFields /\ e.id = NoId /\ e.reg_ready = FALSE /\ e.scheduled = 0 /\ e.executed = 0
      /\ e.num_reg_dependent = 0 /\ e.reg_deps = {}
      /\ \A x \in Range(e.lq) \cup Range(e.sq) : x = NoIndex
  BY <1>2 DEF NewEntry, e
<1>4. \A i \in Slots : ROB[i] = e
  BY <1>1 DEF e
<1>5. 0 \in Slots /\ Held = 0
  BY <1>1, Size, SlotIs DEF Held
<1>6. LiveRob = {}
  BY <1>3, <1>4 DEF LiveRob
<1>7. program \in Seq(Instr) /\ Len(program) \in Nat
  BY <1>1, ProgramAssumption, LenProperties
<1>8. Types
  <2>1. /\ 0 \in 0 .. Len(program) /\ 0 \in 0 .. COMPLETED /\ 0 \in Nat /\ FALSE \in BOOLEAN
        /\ {} \subseteq Slots \X Reg
    BY <1>7 DEF COMPLETED
  <2>2. NoId = 0
    BY DEF NoId
  <2> QED BY <1>1, <1>3, <1>4, <1>5, <1>7, <2>1, <2>2 DEF Types
<1>9. Ring
  <2>1. tail = At(head, Held + 1)
    <3>1. At(0, 1) = 0
      BY <1>5, FirstAt
    <3>2. Held + 1 = 1
      BY <1>5
    <3> QED BY <1>1, <3>1, <3>2
  <2>2. \A k \in 1 .. ROB_SIZE : ROB[At(head, k)].id = NoId
    <3>1. \A k \in 1 .. ROB_SIZE : k \in 1 .. ROB_SIZE + 1
      BY Size
    <3>2. \A k \in 1 .. ROB_SIZE : At(head, k) \in Slots
      BY <1>1, <1>5, <3>1, AtSlots
    <3> QED BY <1>3, <1>4, <3>2
  <2>3. 1 .. Held = {} /\ Held <= ROB_SIZE
    BY <1>5, Size
  <2> QED BY <2>1, <2>2, <2>3 DEF Ring
<1>10. Prefix /\ Debts /\ Sources /\ WakeupsCounted
  BY <1>6 DEF Prefix, Debts, Sources, WakeupsCounted
<1>11. \A i \in Slots : ~Placed(i)
  BY <1>3, <1>4 DEF Placed
<1>12. Stages
  BY <1>3, <1>4, <1>11 DEF Stages, COMPLETED
<1>13. \A i \in Slots : ~Waits(i)
  BY <1>3, <1>4 DEF Waits, COMPLETED
<1>14. Queued
  <2> DEFINE q == << >>
  <2>1. q \in Seq(Slots) /\ IsInjective(q) /\ Range(q) = {}
    <3>1. q \in Seq(Slots) /\ DOMAIN q = {}
      OBVIOUS
    <3> HIDE DEF q
    <3> QED BY <3>1 DEF IsInjective, Range
  <2> HIDE DEF q
  <2>2. RTE0 = q /\ RTE1 = q
    BY <1>1 DEF q
  <2> QED BY <1>13, <2>1, <2>2 DEF Queued
<1> QED BY <1>8, <1>9, <1>10, <1>12, <1>14 DEF RobInv

LEMMA StutterKeeps ==
  ASSUME RobInv, UNCHANGED vars
  PROVE  RobInv'
<1>1. /\ ROB' = ROB /\ head' = head /\ tail' = tail /\ next_schedule' = next_schedule
      /\ RTE0' = RTE0 /\ RTE1' = RTE1 /\ dispatched' = dispatched
      /\ retired' = retired /\ program' = program
  BY DEF vars
<1>2. Types /\ Ring /\ Prefix /\ Debts /\ Sources /\ Stages /\ Queued /\ WakeupsCounted
  BY DEF RobInv
<1>3. Quiet
  BY <1>1, <1>2 DEF Quiet, Types
<1>4. \A p \in Slots : Moves(p)
  BY <1>1, <1>2 DEF Moves, Types
<1> QED BY <1>1, <1>3, <1>4, MovesKeep

LEMMA StepKeeps ==
  ASSUME RobInv, [Next]_vars
  PROVE  RobInv'
<1>1. CASE Dispatch
  BY <1>1, DispatchKeeps
<1>2. CASE ScheduleInstruction
  BY <1>2, ScheduleKeeps
<1>3. CASE ExecuteReleased
  BY <1>3, ExecuteReleasedKeeps
<1>4. CASE ExecuteReady
  BY <1>4, ExecuteReadyKeeps
<1>5. CASE ScheduleMemoryInstruction
  BY <1>5, MemorySchedulingKeeps
<1>6. CASE OperateLsq \/ CompleteTranslation \/ CompleteDataFetch
  BY <1>6, LsqKeeps
<1>7. CASE UpdateRob
  <2>1. PICK i \in Slots : CompleteExecution(i)
    BY <1>7 DEF UpdateRob
  <2> QED BY <2>1, CompletionKeeps
<1>8. CASE Retire
  BY <1>8, RetireKeeps
<1>9. CASE DrainWq
  BY <1>9, DrainKeeps
<1>10. CASE Finished \/ UNCHANGED vars
  BY <1>10, StutterKeeps DEF Finished
<1> QED BY <1>1, <1>2, <1>3, <1>4, <1>5, <1>6, <1>7, <1>8, <1>9, <1>10 DEF Next

(* In every state the ring holds the instructions between the last retired *)
(* and the last dispatched in order, they were scheduled in order, and     *)
(* each scheduled one counts what unexecuted older ones owe it.            *)
THEOREM Inductive == Spec => []RobInv
<1>1. Init => RobInv
  BY InitKeeps
<1>2. RobInv /\ [Next]_vars => RobInv'
  BY StepKeeps
<1> QED BY <1>1, <1>2, PTL DEF Spec

-------------------------------------------------------------------------------
(* What follows for the operands and the queues.                           *)

LEMMA GreatestIs ==
  ASSUME NEW n \in Nat, NEW S \in SUBSET (0 .. n), S # {}
  PROVE  Max(S) \in S /\ \A y \in S : y <= Max(S)
<1>1. PICK x \in S : \A y \in S : y <= x
  BY HasLargest
<1>2. \A y \in S : y \in Int /\ x \in Int
  <2>1. \A y \in 0 .. n : y \in Int
    OBVIOUS
  <2> QED BY <2>1
<1>3. \A y \in S : x >= y
  BY <1>1, <1>2
<1>4. Max(S) \in S /\ \A y \in S : Max(S) >= y
  BY <1>3 DEF Max
<1>5. \A y \in S : Max(S) \in Int /\ y \in Int
  BY <1>2, <1>4
<1>6. \A y \in S : y <= Max(S)
  BY <1>4, <1>5
<1> QED BY <1>4, <1>6

LEMMA OperandsFollow ==
  ASSUME RobInv
  PROVE  OperandsReady
<1>1. Types /\ Ring /\ Prefix /\ Debts /\ Sources /\ Stages /\ Queued /\ WakeupsCounted
  BY DEF RobInv
<1> SUFFICES ASSUME NEW i \in LiveRob, Issued(i), NEW r \in program[ROB[i].id].reads,
                    {m \in 1 .. ROB[i].id - 1 : r \in program[m].writes} # {}
             PROVE  LET W == {m \in 1 .. ROB[i].id - 1 : r \in program[m].writes} IN
                    \/ Max(W) <= retired
                    \/ \E p \in LiveRob : ROB[p].id = Max(W) /\ ROB[p].executed = COMPLETED
  BY DEF OperandsReady
<1> DEFINE W == {m \in 1 .. ROB[i].id - 1 : r \in program[m].writes}
           n == ROB[i].id
           m == Max(W)
<1>2. i \in Slots /\ n \in Nat /\ n >= retired + 1 /\ n <= dispatched /\ retired \in Nat /\ dispatched \in Nat
  BY <1>1, LiveIs, Held01
<1>3. ROB[i].scheduled # 0 /\ ROB[i].reg_ready
  <2>1. CASE ROB[i].executed # 0 \/ Placed(i)
    BY <1>1, <1>2, <2>1 DEF Stages
  <2>2. CASE i \in Range(RTE0) \cup Range(RTE1)
    <3>1. Waits(i)
      BY <1>1, <2>2 DEF Queued
    <3> QED BY <3>1 DEF Waits, COMPLETED
  <2> QED BY <2>1, <2>2 DEF Issued, Placed
<1>4. Dues(i) = {}
  <2>1. ROB[i].num_reg_dependent = Cardinality(Dues(i)) /\ (ROB[i].reg_ready <=> ROB[i].num_reg_dependent = 0)
    BY <1>1, <1>3 DEF WakeupsCounted, Dues
  <2>2. IsFiniteSet(Dues(i)) /\ Cardinality(Dues(i)) = 0
    BY <1>3, <2>1, DuesFinite
  <2> DEFINE S == Dues(i)
  <2> HIDE DEF S
  <2>3. IsFiniteSet(S) /\ Cardinality(S) = 0
    BY <2>2 DEF S
  <2>4. S = {}
    BY <2>3, FS_EmptySet
  <2> QED BY <2>4 DEF S
<1> HIDE DEF n
<1>5. m \in W /\ \A y \in W : y <= m
  <2>1. W \in SUBSET (0 .. n)
    <3>1. \A x \in 1 .. n - 1 : x \in 0 .. n
      BY <1>2
    <3> QED BY <3>1 DEF n
  <2> HIDE DEF W, m
  <2>2. W # {}
    BY DEF W
  <2> QED BY <1>2, <2>1, <2>2, GreatestIs DEF m
<1> HIDE DEF m
<1>6. m \in 1 .. n - 1 /\ r \in program[m].writes /\ m \in Nat /\ m < n
  <2>1. m \in 1 .. n - 1 /\ r \in program[m].writes
    BY <1>5 DEF n
  <2> QED BY <1>2, <2>1
<1>7. LastWriter(program, m, n, r)
  <2>1. ASSUME NEW k \in m + 1 .. n - 1 PROVE r \notin program[k].writes
    <3> SUFFICES ASSUME r \in program[k].writes PROVE FALSE
      OBVIOUS
    <3>1. k \in 1 .. n - 1 /\ ~(k <= m)
      BY <1>2, <1>6
    <3>2. k \in W
      BY <3>1 DEF n
    <3> QED BY <1>5, <3>1, <3>2
  <2> QED BY <1>6, <2>1 DEF LastWriter
<1>8. CASE m <= retired
  BY <1>8 DEF m
<1>9. CASE ~(m <= retired)
  <2>1. m >= retired + 1 /\ m <= dispatched
    BY <1>2, <1>6, <1>9
  <2>2. PICK p \in LiveRob : ROB[p].id = m
    BY <1>1, <1>6, <2>1, HolderIs
  <2>3. ROB[p].executed = COMPLETED \/ << i, r >> \in ROB[p].reg_deps
    BY <1>1, <1>3, <1>7, <2>2 DEF Sources, n
  <2>4. ROB[p].executed = COMPLETED
    <3> SUFFICES ASSUME ROB[p].executed # COMPLETED PROVE FALSE
      OBVIOUS
    <3>1. r \in Reg
      <4>1. ROB[i].id # NoId
        BY DEF LiveRob
      <4> QED BY <1>1, <1>2, <4>1, ProgramIs
    <3> DEFINE o == << p, r >>
    <3>2. o \in LiveRob \X Reg /\ o[1] = p /\ o[2] = r
      BY <3>1
    <3> HIDE DEF o
    <3>3. o \in Dues(i)
      BY <2>3, <3>2 DEF Dues
    <3> QED BY <1>4, <3>3
  <2> QED BY <2>2, <2>4 DEF m
<1> QED BY <1>8, <1>9

(* An instruction that may execute, or has sent a memory operation on its  *)
(* way, has the value of the last writer of each register it reads, though *)
(* reg_dependency looks once, and only at entries that have not executed.  *)
THEOREM OperandsThere == Spec => []OperandsReady
<1>1. RobInv => OperandsReady
  BY OperandsFollow
<1> QED BY <1>1, Inductive, PTL

LEMMA TimesIs ==
  ASSUME NEW S, NEW q \in Seq(S), IsInjective(q), NEW x
  PROVE  Times(x, q) = One(x \in Range(q))
<1> DEFINE K == {k \in DOMAIN q : q[k] = x}
<1>1. Times(x, q) = Cardinality(K)
  BY DEF Times
<1>2. CASE x \in Range(q)
  <2>1. PICK k \in DOMAIN q : q[k] = x
    BY <1>2 DEF Range
  <2>2. K = {k}
    BY <2>1 DEF IsInjective
  <2>3. Cardinality(K) = 1
    BY <2>2, FS_Singleton
  <2> QED BY <1>1, <1>2, <2>3 DEF One
<1>3. CASE x \notin Range(q)
  <2>1. K = {}
    BY <1>3 DEF Range
  <2>2. Cardinality(K) = 0
    BY <2>1, FS_EmptySet
  <2> QED BY <1>1, <1>3, <2>2 DEF One
<1> QED BY <1>2, <1>3

LEMMA ReadyFollows ==
  ASSUME RobInv
  PROVE  ReadyOnce
<1>1. /\ RTE0 \in Seq(Slots) /\ RTE1 \in Seq(Slots) /\ IsInjective(RTE0) /\ IsInjective(RTE1)
      /\ Range(RTE0) \cap Range(RTE1) = {} /\ Range(RTE0) \cup Range(RTE1) = {i \in Slots : Waits(i)}
  BY DEF RobInv, Queued
<1>2. ASSUME NEW i \in Slots
      PROVE  Times(i, RTE0) + Times(i, RTE1) = One(Waits(i))
  <2>1. Times(i, RTE0) = One(i \in Range(RTE0)) /\ Times(i, RTE1) = One(i \in Range(RTE1))
    BY <1>1, TimesIs
  <2>2. /\ i \in Range(RTE0) \/ i \in Range(RTE1) <=> Waits(i)
        /\ ~(i \in Range(RTE0) /\ i \in Range(RTE1))
    BY <1>1
  <2>3. One(i \in Range(RTE0)) + One(i \in Range(RTE1)) = One(Waits(i))
    BY <2>2 DEF One
  <2> QED BY <2>1, <2>3
<1>3. ASSUME NEW i \in Slots
      PROVE  One(ROB[i].scheduled = COMPLETED /\ ~IsMemory(State, i) /\ ROB[i].executed = 0 /\ ROB[i].reg_ready)
             = One(Waits(i))
  BY MemoryIs DEF Waits, One
<1> QED BY <1>2, <1>3 DEF ReadyOnce

(* No wake-up is lost or comes twice, whatever the sizes of the core, the  *)
(* registers and the programs: do_scheduling and reg_RAW_release keep      *)
(* num_reg_dependent equal to what is still owed, over every wrap of the   *)
(* ring and every reuse of a slot, and put an instruction into RTE0 or     *)
(* RTE1 when nothing is, never twice, and leave none out.                  *)
THEOREM NoWakeupLost == Spec => []WakeupsOwed
<1>1. RobInv => WakeupsOwed
  BY ReadyFollows DEF RobInv, WakeupsOwed
<1> QED BY <1>1, Inductive, PTL
===============================================================================
