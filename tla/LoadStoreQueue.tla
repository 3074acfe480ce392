---------------------------- MODULE LoadStoreQueue ----------------------------
(***************************************************************************)
(* The load and store queues of an out-of-order core (O3_CPU in            *)
(* champsim/src/ooo_cpu.cc): how the memory operations of an instruction   *)
(* get their slots, wait for an older store to the same address or go      *)
(* through the DTLB and L1D, and complete.                                 *)
(*                                                                         *)
(* The functions of the core work on its tables as a whole, so the state   *)
(* is passed as a record s through the operators that model them; the      *)
(* module ReorderBuffer holds the variables and the actions.               *)
(*                                                                         *)
(* Time: event_cycle and the *_WIDTH limits only decide which of the       *)
(* enabled steps of a cycle come in this one; here any may.                *)
(***************************************************************************)
EXTENDS Integers, Sequences, FiniteSets, FiniteSetsExt, SequencesExt

CONSTANTS
  ROB_SIZE, LQ_SIZE, SQ_SIZE,
  WQ_SIZE,    \* of L1D's write queue
  Reg, Addr,  \* registers, and the virtual addresses of loads and stores
  Programs    \* the traces: sequences of instructions

ASSUME SizeAssumption == {ROB_SIZE, LQ_SIZE, SQ_SIZE, WQ_SIZE} \subseteq Nat \ {0}

(* What the core reads of a trace record: register and memory operands.    *)
Instr == [reads : SUBSET Reg, writes : SUBSET Reg, loads : Seq(Addr), stores : Seq(Addr)]

ASSUME RegAssumption == IsFiniteSet(Reg)

INFLIGHT  == 1
COMPLETED == 2
NoId      == 0    \* instr_id of an empty entry, and producer_id UINT64_MAX
NoIndex   == -1   \* UINT32_MAX
NUM_INSTR_SOURCES == 4

(* source_memory is an array of NUM_INSTR_SOURCES addresses.               *)
ASSUME ProgramAssumption ==
  \A p \in Programs :
    p \in Seq(Instr) /\ \A n \in DOMAIN p : Len(p[n].loads) <= NUM_INSTR_SOURCES

Slots     == 0 .. ROB_SIZE - 1

(* An entry of the ROB.  lq[j] is lq_index[j], and source_added[j] is that *)
(* it was set; likewise sq.  reg_deps holds << i, r >> for every i of      *)
(* registers_index_depend_on_me at the source register r.                  *)
EmptyEntry ==
  [id |-> NoId, reg_ready |-> FALSE, scheduled |-> 0, executed |-> 0,
   num_reg_dependent |-> 0, num_mem_ops |-> 0, reg_deps |-> {}, mem_deps |-> {},
   lq |-> << >>, sq |-> << >>]

EmptyLoad  == [id |-> NoId, data_index |-> 0, rob_index |-> 0, producer_id |-> NoId,
               translated |-> 0, fetched |-> 0]
EmptyStore == [id |-> NoId, data_index |-> 0, rob_index |-> 0, translated |-> 0, fetched |-> 0]

Code(s, i)  == s.program[s.ROB[i].id]
IsMemory(s, i) == s.ROB[i].id # NoId /\ Len(Code(s, i).loads) + Len(Code(s, i).stores) > 0
LoadAddr(s, q)  == s.program[s.LQ[q].id].loads[s.LQ[q].data_index]
StoreAddr(s, x) == s.program[s.SQ[x].id].stores[s.SQ[x].data_index]

Free(Q)     == {q \in DOMAIN Q : Q[q].id = NoId}
Occupancy(Q) == Cardinality(DOMAIN Q \ Free(Q))

(* The distances at which the two loops of reg_dependency and of           *)
(* add_load_queue look: from the entry before i back to head, over the     *)
(* wrap of the ring.                                                       *)
Distance(s, i) == (i - s.head) % ROB_SIZE
Before(i, d)   == (i - d) % ROB_SIZE

MutProducerOldest(s, i, a) ==
  LET D == {d \in 1 .. Distance(s, i) : a \in Range(Code(s, Before(i, d)).stores)}
  IN  IF D = {} THEN NoIndex ELSE Before(i, Max(D))

(* The youngest older store to the address, or NoIndex.                    *)
Producer(s, i, a) ==
  LET D == {d \in 1 .. Distance(s, i) : a \in Range(Code(s, Before(i, d)).stores)}
  IN  IF D = {} THEN NoIndex ELSE Before(i, Min(D))

ReleaseLoadQueue(s, q) == [s EXCEPT !.LQ[q] = EmptyLoad]

MutOpsDoneUncounted(s, i, n) ==
  LET left == s.ROB[i].num_mem_ops - n IN
  [s EXCEPT !.ROB[i].num_mem_ops = left,
            !.asserts = @ \cup (IF left < 0 THEN {"num_mem_ops"} ELSE {})]

(* n operations of the instruction at i are done.                          *)
OpsDone(s, i, n) ==
  LET left == s.ROB[i].num_mem_ops - n IN
  [s EXCEPT !.ROB[i].num_mem_ops = left,
            !.inflight_mem = @ + (IF left = 0 THEN 1 ELSE 0),
            !.asserts = @ \cup (IF left < 0 THEN {"num_mem_ops"} ELSE {})]

(* What the load got its data from: the id of a store, or NoId for the     *)
(* memory as it was before the program.  History, not code.                *)
Sees(s, q, from) ==
  [s EXCEPT !.seen = @ \cup {[id |-> s.LQ[q].id, op |-> s.LQ[q].data_index, from |-> from]}]

(* The slot in the store queue of the producer of the load at q, if it has *)
(* one already.                                                            *)
ForwardingSlot(s, q) ==
  {x \in DOMAIN s.SQ \ Free(s.SQ) :
     s.LQ[q].producer_id = s.SQ[x].id /\ StoreAddr(s, x) = LoadAddr(s, q)}

Forward(s, q, from) ==
  ReleaseLoadQueue(OpsDone(Sees(s, q, from), s.LQ[q].rob_index, 1), q)

MutMarkProducerSilent(s, i, j, q) ==
  LET p == Producer(s, i, Code(s, i).loads[j]) IN
  IF p = NoIndex THEN s
  ELSE [s EXCEPT !.LQ[q].producer_id = s.ROB[p].id, !.LQ[q].translated = INFLIGHT]

(* mem_RAW_dependency, in the loop of add_load_queue.                      *)
MarkProducer(s, i, j, q) ==
  LET p == Producer(s, i, Code(s, i).loads[j]) IN
  IF p = NoIndex THEN s
  ELSE [s EXCEPT !.ROB[p].mem_deps = @ \cup {i},
                 !.LQ[q].producer_id = s.ROB[p].id, !.LQ[q].translated = INFLIGHT]

(* A load that finds no producer is ready for its translation.  The WAR    *)
(* case resets fields that are still zero.                                 *)
AddLoadQueue(s, i, j) ==
  LET q == Min(Free(s.LQ))
      t == MarkProducer(
             [s EXCEPT !.LQ[q] = [EmptyLoad EXCEPT !.id = s.ROB[i].id, !.data_index = j, !.rob_index = i],
                       !.ROB[i].lq[j] = q], i, j, q)
      F == ForwardingSlot(t, q)
  IN  IF t.LQ[q].producer_id = NoId THEN [t EXCEPT !.RTL0 = Append(@, q)]
      ELSE IF \E x \in F : t.SQ[x].fetched = COMPLETED
           THEN Forward(t, q, t.LQ[q].producer_id)
           ELSE t

MutAddStoreQueueNoPop(s, i, k) ==
  LET x == s.sq_tail IN
  [s EXCEPT !.SQ[x] = [EmptyStore EXCEPT !.id = s.ROB[i].id, !.data_index = k, !.rob_index = i],
            !.sq_tail = (x + 1) % SQ_SIZE,
            !.ROB[i].sq[k] = x,
            !.RTS0 = Append(@, x)]

AddStoreQueue(s, i, k) ==
  LET x == s.sq_tail IN
  [s EXCEPT !.SQ[x] = [EmptyStore EXCEPT !.id = s.ROB[i].id, !.data_index = k, !.rob_index = i],
            !.sq_tail = (x + 1) % SQ_SIZE,
            !.ROB[i].sq[k] = x,
            !.STA = Tail(@),
            !.RTS0 = Append(@, x),
            !.asserts = @ \cup (IF s.SQ[x].id # NoId THEN {"add_store_queue"} ELSE {})]

(* check_and_add_lsq: every operation that is not in its queue yet enters  *)
(* it if there is room, and keeps its slot while the others wait.          *)
AddLoad(s, i, j) ==
  IF s.ROB[i].lq[j] # NoIndex \/ Occupancy(s.LQ) = LQ_SIZE THEN s ELSE AddLoadQueue(s, i, j)

AddStore(s, i, k) ==
  IF \/ s.ROB[i].sq[k] # NoIndex
     \/ Occupancy(s.SQ) = SQ_SIZE
     \/ s.STA = << >> \/ Head(s.STA) # s.ROB[i].id
  THEN s ELSE AddStoreQueue(s, i, k)

(* Where a step is a loop its outcome is written as a set of one state.    *)
LoadsAdded(R, i, n) ==
  LET S[j \in 0 .. n] == IF j = 0 THEN R ELSE {AddLoad(t, i, j) : t \in S[j - 1]} IN S[n]

StoresAdded(R, i, n) ==
  LET S[k \in 0 .. n] == IF k = 0 THEN R ELSE {AddStore(t, i, k) : t \in S[k - 1]} IN S[n]

CheckAndAddLsq(s, i) ==
  StoresAdded(LoadsAdded({s}, i, Len(Code(s, i).loads)), i, Len(Code(s, i).stores))

Added(s, i) == NoIndex \notin Range(s.ROB[i].lq) \cup Range(s.ROB[i].sq)

DoMemoryScheduling(s, i) ==
  {IF ~Added(t, i) THEN t
   ELSE [t EXCEPT !.ROB[i].scheduled = COMPLETED,
                  !.ROB[i].executed = IF @ = 0 THEN INFLIGHT ELSE @] : t \in CheckAndAddLsq(s, i)}

(* operate_lsq, its four loops.  A full DTLB or L1D answers -2 and the     *)
(* entry stays at the head of its ring.                                    *)
TranslateStore(s) ==
  LET x == Head(s.RTS0) IN
  [s EXCEPT !.RTS0 = Tail(@), !.dtlb = @ \cup {<< "store", x >>}, !.SQ[x].translated = INFLIGHT]

TranslateLoad(s) ==
  LET q == Head(s.RTL0) IN
  [s EXCEPT !.RTL0 = Tail(@), !.dtlb = @ \cup {<< "load", q >>}, !.LQ[q].translated = INFLIGHT]

ExecuteLoad(s) ==
  LET q == Head(s.RTL1) IN
  [s EXCEPT !.RTL1 = Tail(@), !.l1d = @ \cup {q}, !.LQ[q].fetched = INFLIGHT]

(* The loads that wait for the store at x, as execute_store finds them:    *)
(* operands of the instructions in memory_instrs_depend_on_me that have    *)
(* been added and have its address.                                        *)
Waiting(s, x) ==
  {w \in Slots \X (1 .. NUM_INSTR_SOURCES) :
     /\ w[1] \in s.ROB[s.SQ[x].rob_index].mem_deps /\ s.ROB[w[1]].id # NoId
     /\ w[2] \in DOMAIN Code(s, w[1]).loads
     /\ s.ROB[w[1]].lq[w[2]] # NoIndex
     /\ Code(s, w[1]).loads[w[2]] = StoreAddr(s, x)}

ForwardTo(s, x, d, j) ==
  LET q == s.ROB[d].lq[j] IN
  IF s.LQ[q].producer_id # s.SQ[x].id
  THEN [s EXCEPT !.asserts = @ \cup {"producer_id"}]
  ELSE Forward(s, q, s.SQ[x].id)

ExecuteStore(s) ==
  LET x == Head(s.RTS1)
      done == OpsDone([s EXCEPT !.RTS1 = Tail(@), !.SQ[x].fetched = COMPLETED], s.SQ[x].rob_index, 1)
  IN  FoldSet(LAMBDA w, S : {ForwardTo(t, x, w[1], w[2]) : t \in S}, {done}, Waiting(s, x))

(* The answer is for an instruction that is still in the ROB where it was. *)
CheckRob(s, q) ==
  [s EXCEPT !.asserts = @ \cup (IF s.ROB[s.LQ[q].rob_index].id # s.LQ[q].id THEN {"check_rob"} ELSE {})]

(* complete_data_fetch for one request that the DTLB has answered, its own *)
(* or one that was merged into it (handle_merged_translation).             *)
Translated(s, r) ==
  IF r[1] = "store"
  THEN [s EXCEPT !.dtlb = @ \ {r}, !.SQ[r[2]].translated = COMPLETED, !.RTS1 = Append(@, r[2])]
  ELSE [CheckRob(s, r[2]) EXCEPT !.dtlb = @ \ {r}, !.LQ[r[2]].translated = COMPLETED,
                                 !.RTL1 = Append(@, r[2])]

(* complete_data_fetch and handle_merged_load for a load L1D has answered. *)
Fetched(s, q) ==
  ReleaseLoadQueue(
    OpsDone(Sees([CheckRob(s, q) EXCEPT !.l1d = @ \ {q}], q, s.memory[LoadAddr(s, q)]), s.LQ[q].rob_index, 1), q)
===============================================================================
