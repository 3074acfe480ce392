----------------------------- MODULE ReorderBuffer -----------------------------
(***************************************************************************)
(* The out-of-order back end of O3_CPU (champsim/src/ooo_cpu.cc): entries  *)
(* come in program order from the decode buffer, are scheduled, execute in *)
(* any order their register and memory dependences allow, and retire in    *)
(* program order.  The memory operations are those of LoadStoreQueue.      *)
(*                                                                         *)
(* DTLB, STLB, L1D and what is below are what CacheHierarchy shows them to *)
(* be: every request is answered once, in some order.  A load reads what   *)
(* the retired stores have left (L1D looks into its write queue).          *)
(***************************************************************************)
EXTENDS LoadStoreQueue

CONSTANT SCHEDULER_SIZE

VARIABLES
  program,        \* the trace
  ROB, head, tail, next_schedule,
  LQ, SQ, sq_tail,
  STA,            \* instr_ids of the stores that have no slot in SQ yet
  RTE0, RTE1,     \* ready to execute: released by a producer, and without one
  RTL0, RTL1,     \* loads ready for the DTLB, and for L1D
  RTS0, RTS1,     \* stores ready for the DTLB, and for execution
  dtlb, l1d,      \* requests in flight
  wq,             \* L1D.WQ.occupancy
  inflight_reg, inflight_mem,  \* inflight_reg_executions, inflight_mem_executions
  dispatched, retired,         \* how many instructions came in, and left
  memory,         \* the last retired store to each address
  seen,           \* where each load got its data
  asserts         \* the assert(0) that were reached

vars == << program, ROB, head, tail, next_schedule, LQ, SQ, sq_tail, STA, RTE0, RTE1, RTL0,
           RTL1, RTS0, RTS1, dtlb, l1d, wq, inflight_reg, inflight_mem, dispatched,
           retired, memory, seen, asserts >>

State ==
  [program |-> program, ROB |-> ROB, head |-> head, tail |-> tail,
   next_schedule |-> next_schedule, LQ |-> LQ, SQ |-> SQ, sq_tail |-> sq_tail, STA |-> STA,
   RTE0 |-> RTE0, RTE1 |-> RTE1, RTL0 |-> RTL0, RTL1 |-> RTL1, RTS0 |-> RTS0, RTS1 |-> RTS1,
   dtlb |-> dtlb, l1d |-> l1d, wq |-> wq, inflight_reg |-> inflight_reg,
   inflight_mem |-> inflight_mem, dispatched |-> dispatched, retired |-> retired,
   memory |-> memory, seen |-> seen, asserts |-> asserts]

(* The step to a state in S.  After a failed assertion there is none.      *)
BecomeOneOf(S) ==
  /\ asserts = {}
  /\ \E s \in S :
       /\ ROB' = s.ROB /\ head' = s.head /\ tail' = s.tail /\ next_schedule' = s.next_schedule
       /\ LQ' = s.LQ /\ SQ' = s.SQ /\ sq_tail' = s.sq_tail /\ STA' = s.STA
       /\ RTE0' = s.RTE0 /\ RTE1' = s.RTE1 /\ RTL0' = s.RTL0 /\ RTL1' = s.RTL1
       /\ RTS0' = s.RTS0 /\ RTS1' = s.RTS1 /\ dtlb' = s.dtlb /\ l1d' = s.l1d /\ wq' = s.wq
       /\ inflight_reg' = s.inflight_reg /\ inflight_mem' = s.inflight_mem
       /\ dispatched' = s.dispatched /\ retired' = s.retired /\ memory' = s.memory
       /\ seen' = s.seen /\ asserts' = s.asserts
  /\ UNCHANGED program
Become(s) == BecomeOneOf({s})

Init ==
  /\ program \in Programs
  /\ ROB = [i \in Slots |-> EmptyEntry] /\ head = 0 /\ tail = 0 /\ next_schedule = 0
  /\ LQ = [q \in 0 .. LQ_SIZE - 1 |-> EmptyLoad]
  /\ SQ = [x \in 0 .. SQ_SIZE - 1 |-> EmptyStore] /\ sq_tail = 0
  /\ STA = << >> /\ RTE0 = << >> /\ RTE1 = << >>
  /\ RTL0 = << >> /\ RTL1 = << >> /\ RTS0 = << >> /\ RTS1 = << >>
  /\ dtlb = {} /\ l1d = {} /\ wq = 0 /\ inflight_reg = 0 /\ inflight_mem = 0
  /\ dispatched = 0 /\ retired = 0
  /\ memory = [a \in Addr |-> NoId] /\ seen = {} /\ asserts = {}

--------------------------------------------------------------------------------
(* decode_and_dispatch and add_to_rob.  The stores of the instruction were *)
(* pushed into STA when the trace was read; before its turn no other entry *)
(* of the ROB can match them, so they are pushed here (FrontEnd has the    *)
(* ring STA).                                                              *)
AddToRob(s) ==
  LET n == s.dispatched + 1
      c == s.program[n]
  IN [s EXCEPT
        !.ROB[s.tail] = [EmptyEntry EXCEPT !.id = n,
                           !.num_mem_ops = Len(c.loads) + Len(c.stores),
                           !.lq = [j \in DOMAIN c.loads |-> NoIndex],
                           !.sq = [k \in DOMAIN c.stores |-> NoIndex]],
        !.tail = (@ + 1) % ROB_SIZE, !.dispatched = n,
        !.STA = @ \o [k \in DOMAIN c.stores |-> n]]

Dispatch ==
  /\ dispatched < Len(program) /\ ROB[tail].id = NoId
  /\ Become(AddToRob(State))

--------------------------------------------------------------------------------
MutRegProducerShort(s, i, r) ==
  LET D == {d \in 1 .. Distance(s, i) - 1 :
              LET p == Before(i, d) IN s.ROB[p].executed # COMPLETED /\ r \in Code(s, p).writes}
  IN  IF D = {} THEN NoIndex ELSE Before(i, Min(D))

MutRegProducerExecuted(s, i, r) ==
  LET D == {d \in 1 .. Distance(s, i) : r \in Code(s, Before(i, d)).writes}
  IN  IF D = {} THEN NoIndex ELSE Before(i, Min(D))

(* reg_dependency: the producer of the source register r is the youngest   *)
(* older entry that writes it among those that have not executed.          *)
RegProducer(s, i, r) ==
  LET D == {d \in 1 .. Distance(s, i) :
              LET p == Before(i, d) IN s.ROB[p].executed # COMPLETED /\ r \in Code(s, p).writes}
  IN  IF D = {} THEN NoIndex ELSE Before(i, Min(D))

Depends(s, i) == {r \in Code(s, i).reads : RegProducer(s, i, r) # NoIndex}

RegDependency(s, i) ==
  [s EXCEPT
     !.ROB = [p \in Slots |->
                IF p = i THEN [s.ROB[i] EXCEPT !.reg_ready = Depends(s, i) = {},
                                               !.num_reg_dependent = Cardinality(Depends(s, i))]
                ELSE [s.ROB[p] EXCEPT
                        !.reg_deps = @ \cup {<< i, r >> : r \in {r \in Depends(s, i) : RegProducer(s, i, r) = p}}]]]

DoScheduling(s, i) ==
  LET t == [RegDependency(s, i) EXCEPT !.next_schedule = (i + 1) % ROB_SIZE] IN
  IF IsMemory(s, i) THEN [t EXCEPT !.ROB[i].scheduled = INFLIGHT]
  ELSE [t EXCEPT !.ROB[i].scheduled = COMPLETED,
                 !.RTE1 = IF t.ROB[i].reg_ready THEN Append(@, i) ELSE @]

(* schedule_instruction looks from head to the end of the array, and no    *)
(* further, because limit (ROB.next_fetch[1]) is always zero; main() calls *)
(* it when the entry at next_schedule is not scheduled.                    *)
ScheduleInstruction ==
  /\ ROB[next_schedule].scheduled = 0
  /\ \E i \in head .. ROB_SIZE - 1 :
       /\ i - head < SCHEDULER_SIZE
       /\ ROB[i].id # NoId /\ ROB[i].scheduled = 0
       /\ \A k \in head .. i - 1 : ROB[k].scheduled # 0
       /\ Become(DoScheduling(State, i))

--------------------------------------------------------------------------------
MutDoExecutionTwice(s, i) == [s EXCEPT !.ROB[i].executed = INFLIGHT + COMPLETED, !.inflight_reg = @ + 1]

(* execute_instruction.                                                    *)
DoExecution(s, i) == [s EXCEPT !.ROB[i].executed = INFLIGHT, !.inflight_reg = @ + 1]

ExecuteReleased ==
  RTE0 # << >> /\ Become([DoExecution(State, Head(RTE0)) EXCEPT !.RTE0 = Tail(@)])
ExecuteReady ==
  RTE1 # << >> /\ Become([DoExecution(State, Head(RTE1)) EXCEPT !.RTE1 = Tail(@)])

--------------------------------------------------------------------------------
(* schedule_memory_instruction tries the entries from head to              *)
(* next_schedule, in one or two loops, in order.  An entry whose time has  *)
(* not come ends the loop it is in, so an entry has its turn after those   *)
(* before it in its loop: here, when they have nothing left to add.        *)
Eligible(s, i) ==
  IsMemory(s, i) /\ s.ROB[i].reg_ready /\ s.ROB[i].scheduled = INFLIGHT

Loops == IF head < next_schedule THEN {head .. next_schedule - 1}
         ELSE {head .. ROB_SIZE - 1, 0 .. next_schedule - 1}

Adds(i) == Eligible(State, i) /\ DoMemoryScheduling(State, i) # {State}

ScheduleMemoryInstruction ==
  \E L \in Loops : \E i \in L :
    /\ Adds(i) /\ \A k \in L : k < i => ~Adds(k)
    /\ BecomeOneOf(DoMemoryScheduling(State, i))

OperateLsq ==
  \/ RTS0 # << >> /\ Become(TranslateStore(State))
  \/ RTS1 # << >> /\ BecomeOneOf(ExecuteStore(State))
  \/ RTL0 # << >> /\ Become(TranslateLoad(State))
  \/ RTL1 # << >> /\ Become(ExecuteLoad(State))

CompleteTranslation == \E r \in dtlb : Become(Translated(State, r))
CompleteDataFetch   == \E q \in l1d : Become(Fetched(State, q))

--------------------------------------------------------------------------------
(* reg_RAW_release: the consumers whose last producer this was become      *)
(* ready, in the order of their slots.                                     *)
Released(s, i, d) == Cardinality({r \in Reg : << d, r >> \in s.ROB[i].reg_deps})
Freed(s, i)       == {d \in Slots : Released(s, i, d) > 0 /\ s.ROB[d].num_reg_dependent = Released(s, i, d)}

InSlotOrder(S) ==
  CHOOSE q \in [1 .. Cardinality(S) -> S] : \A k \in 2 .. Cardinality(S) : q[k - 1] < q[k]

RegRawRelease(s, i) ==
  [s EXCEPT
     !.ROB = [d \in Slots |->
                [s.ROB[d] EXCEPT
                   !.num_reg_dependent = @ - Released(s, i, d),
                   !.reg_ready = @ \/ d \in Freed(s, i),
                   !.scheduled = IF d \notin Freed(s, i) THEN @
                                 ELSE IF IsMemory(s, d) THEN INFLIGHT ELSE COMPLETED]],
     !.RTE0 = @ \o InSlotOrder({d \in Freed(s, i) : ~IsMemory(s, d)})]

(* complete_execution, for one entry; update_rob tries them when one of    *)
(* the two counters says there is something to complete.                   *)
CompleteExecution(i) ==
  /\ inflight_reg > 0 \/ inflight_mem > 0
  /\ ROB[i].executed = INFLIGHT
  /\ IsMemory(State, i) => ROB[i].num_mem_ops = 0
  /\ LET s == [State EXCEPT !.ROB[i].executed = COMPLETED] IN
     Become(RegRawRelease(IF IsMemory(State, i) THEN [s EXCEPT !.inflight_mem = @ - 1]
                          ELSE [s EXCEPT !.inflight_reg = @ - 1], i))

UpdateRob == \E i \in Slots : CompleteExecution(i)

--------------------------------------------------------------------------------
(* retire_rob: the stores go to L1D's write queue, all or none, and leave  *)
(* the store queue.                                                        *)
Retired(s) ==
  LET e == s.ROB[s.head]
      c == Code(s, s.head)
  IN [s EXCEPT
        !.wq = @ + Len(c.stores),
        !.memory = [a \in Addr |-> IF a \in Range(c.stores) THEN e.id ELSE @[a]],
        !.SQ = [x \in DOMAIN @ |-> IF x \in Range(e.sq) THEN EmptyStore ELSE @[x]],
        !.ROB[s.head] = EmptyEntry,
        !.head = (@ + 1) % ROB_SIZE, !.retired = @ + 1]

Retire ==
  /\ ROB[head].id # NoId /\ ROB[head].executed = COMPLETED
  /\ wq + Len(Code(State, head).stores) <= WQ_SIZE
  /\ Become(Retired(State))

(* L1D handles a write.                                                    *)
DrainWq == wq > 0 /\ Become([State EXCEPT !.wq = @ - 1])

Finished == retired = Len(program) /\ wq = 0 /\ UNCHANGED vars

Next ==
  \/ Dispatch \/ ScheduleInstruction \/ ExecuteReleased \/ ExecuteReady
  \/ ScheduleMemoryInstruction \/ OperateLsq \/ CompleteTranslation \/ CompleteDataFetch
  \/ UpdateRob \/ Retire \/ DrainWq \/ Finished

(* main() runs every stage in every cycle and the caches answer.           *)
Fairness == WF_vars(Next)

Spec == Init /\ [][Next]_vars /\ Fairness

--------------------------------------------------------------------------------
LiveRob   == {i \in Slots : ROB[i].id # NoId}
LiveLoad  == DOMAIN LQ \ Free(LQ)
LiveStore == DOMAIN SQ \ Free(SQ)
Times(e, q) == Cardinality({k \in DOMAIN q : q[k] = e})
One(b) == IF b THEN 1 ELSE 0

(* The types of the tables, and the sizes of the rings.                    *)
TypeOK ==
  /\ program \in Programs /\ {head, tail, next_schedule} \subseteq Slots
  /\ \A i \in Slots :
       /\ ROB[i].id \in 0 .. Len(program) /\ ROB[i].num_mem_ops \in Nat
       /\ ROB[i].num_reg_dependent \in Nat
       /\ ROB[i].scheduled \in 0 .. COMPLETED /\ ROB[i].executed \in 0 .. COMPLETED
       /\ ROB[i].mem_deps \subseteq Slots /\ ROB[i].reg_deps \subseteq Slots \X Reg
  /\ sq_tail \in DOMAIN SQ /\ dtlb \subseteq {"load", "store"} \X Nat /\ l1d \subseteq DOMAIN LQ
  /\ wq \in 0 .. WQ_SIZE /\ {inflight_reg, inflight_mem} \subseteq 0 .. ROB_SIZE
  /\ Len(RTE0) <= ROB_SIZE /\ Len(RTE1) <= ROB_SIZE
  /\ Len(RTL0) <= LQ_SIZE /\ Len(RTL1) <= LQ_SIZE /\ Len(RTS0) <= SQ_SIZE /\ Len(RTS1) <= SQ_SIZE

(* An instruction that may execute, or has sent a memory operation on its  *)
(* way, has its operands: the last writer of each source register before   *)
(* it in the program has executed.  reg_dependency runs once and skips     *)
(* executed entries, so later wake-ups have to make up for the rest.       *)
Issued(i) ==
  \/ ROB[i].executed # 0 \/ i \in Range(RTE0) \cup Range(RTE1)
  \/ \E x \in Range(ROB[i].lq) \cup Range(ROB[i].sq) : x # NoIndex
OperandsReady ==
  \A i \in LiveRob : Issued(i) =>
    \A r \in program[ROB[i].id].reads :
      LET W == {m \in 1 .. ROB[i].id - 1 : r \in program[m].writes} IN
      W # {} => \/ Max(W) <= retired
                \/ \E p \in LiveRob : ROB[p].id = Max(W) /\ ROB[p].executed = COMPLETED

(* A scheduled instruction counts exactly the entries that still owe it a  *)
(* register, none of which is gone or was reused.                          *)
WakeupsCounted ==
  \A i \in LiveRob : ROB[i].scheduled # 0 =>
    /\ ROB[i].num_reg_dependent =
         Cardinality({o \in LiveRob \X Reg :
           ROB[o[1]].executed # COMPLETED /\ << i, o[2] >> \in ROB[o[1]].reg_deps})
    /\ ROB[i].reg_ready <=> ROB[i].num_reg_dependent = 0

(* An instruction without memory operations is in RTE0 or RTE1 once, from  *)
(* when it is ready to when it executes, and at no other time.             *)
ReadyOnce ==
  \A i \in Slots :
    Times(i, RTE0) + Times(i, RTE1) =
      One(ROB[i].scheduled = COMPLETED /\ ~IsMemory(State, i) /\ ROB[i].executed = 0 /\ ROB[i].reg_ready)

(* No wake-up is lost or comes twice, although do_scheduling takes the     *)
(* count and fills one list, and reg_RAW_release counts down and fills the *)
(* other.                                                                  *)
WakeupsOwed == WakeupsCounted /\ ReadyOnce

(* A load in the queue is held by a store that will find it when it        *)
(* executes.                                                               *)
AwaitsStore(q) ==
  /\ LQ[q].producer_id # NoId
  /\ \E p \in LiveRob :
       /\ ROB[p].id = LQ[q].producer_id /\ LQ[q].rob_index \in ROB[p].mem_deps
       /\ \E k \in DOMAIN ROB[p].sq :
            /\ program[ROB[p].id].stores[k] = LoadAddr(State, q)
            /\ ROB[p].sq[k] # NoIndex => SQ[ROB[p].sq[k]].fetched # COMPLETED

(* A memory operation on its way is in one place: a load waits for its     *)
(* translation, for L1D, or for a store; a store waits until it has        *)
(* executed.  The store queue is a ring in program order, whatever order   *)
(* the stores became ready in, because STA holds the later ones back.  The *)
(* assertions that rely on all this hold: slots are free when they are     *)
(* taken, no operation completes twice, a store finds its own loads.       *)
OpsPlaced ==
  /\ \A q \in LiveLoad :
       Times(q, RTL0) + Times(q, RTL1) + One(<< "load", q >> \in dtlb) + One(q \in l1d)
         + One(AwaitsStore(q)) = 1
  /\ \A x \in LiveStore :
       Times(x, RTS0) + Times(x, RTS1) + One(<< "store", x >> \in dtlb)
         + One(SQ[x].fetched = COMPLETED) = 1
  /\ LET n == Cardinality(LiveStore)
         slot(k) == (sq_tail - k) % SQ_SIZE
     IN  /\ \A k \in 1 .. n : slot(k) \in LiveStore
         /\ \A k \in 1 .. n - 1 : SQ[slot(k)].id >= SQ[slot(k + 1)].id
  /\ asserts = {}

(* In the trace t, m is the last instruction before n that stores to a, or *)
(* NoId if there is none.                                                  *)
LastStore(t, m, n, a) ==
  /\ m < n /\ (m # NoId => a \in Range(t[m].stores))
  /\ \A k \in m + 1 .. n - 1 : a \notin Range(t[k].stores)

(* The traces in which a store finds its own loads and no others: no       *)
(* instruction stores twice to an address (the tracer lists an address     *)
(* once), and one that takes an operand from m has no other operand that m *)
(* stores to as well and that a later instruction overwrites.  All traces  *)
(* of instructions with at most one store are such.                        *)
Apart(t) ==
  \A n \in DOMAIN t :
    /\ IsInjective(t[n].stores)
    /\ \A m \in 1 .. n - 1, j \in DOMAIN t[n].loads, h \in DOMAIN t[n].loads :
         LastStore(t, m, n, t[n].loads[j]) /\ t[n].loads[h] \in Range(t[m].stores)
           => LastStore(t, m, n, t[n].loads[h])
StoresApart == \A t \in Programs : Apart(t)

(* What execute_store asserts of every load it finds: that its producer_id *)
(* is the store, so that only the loads that wait for it are released.     *)
NoAssertFails == asserts = {}

(* The counters agree with the queues they stand for: num_mem_ops is the   *)
(* number of operations that are not in a queue yet, or in it and          *)
(* unfinished, and those that let update_rob look for completed            *)
(* instructions are not zero while there is one.                           *)
CountersAgree ==
  /\ \A i \in LiveRob :
       ROB[i].num_mem_ops =
         Cardinality({j \in DOMAIN ROB[i].lq :
           \/ ROB[i].lq[j] = NoIndex
           \/ LQ[ROB[i].lq[j]].id = ROB[i].id /\ LQ[ROB[i].lq[j]].data_index = j})
         + Cardinality({k \in DOMAIN ROB[i].sq :
             ROB[i].sq[k] = NoIndex \/ SQ[ROB[i].sq[k]].fetched # COMPLETED})
  /\ inflight_reg = Cardinality({i \in LiveRob : ~IsMemory(State, i) /\ ROB[i].executed = INFLIGHT})
  /\ inflight_mem = Cardinality({i \in LiveRob :
       IsMemory(State, i) /\ ROB[i].num_mem_ops = 0 /\ ROB[i].executed # COMPLETED})

InOrder == INSTANCE InOrderCore WITH seen <- {o \in seen : o.id <= retired}

(* Out of order inside, in order outside: every load of a retired          *)
(* instruction has the data of the last store before it, by forwarding     *)
(* from the store queue, early or late, or from L1D.                       *)
ImplementsInOrder == InOrder!Spec

(* Every instruction retires, under the fairness of the stages.            *)
Retires == <>(retired = Len(program))
===============================================================================
