---------------------------- MODULE DramController ----------------------------
(***************************************************************************)
(* One channel of the DRAM controller (class MEMORY_CONTROLLER,            *)
(* champsim/src/dram_controller.cc): a read and a write queue in front of  *)
(* banks with row buffers, and one data bus that serves either reads or    *)
(* writes.  Once per cycle operate() may turn the bus around, starts the   *)
(* best request of the queue whose turn it is in its bank (schedule) and   *)
(* transfers the earliest one that was started (process).                  *)
(*                                                                         *)
(* The functions update several tables of the controller in turn, so the   *)
(* state is passed through them as a record s; operate() is one action.    *)
(***************************************************************************)
EXTENDS Integers, FiniteSets

CONSTANTS
  Addr,           \* block addresses
  Bank,           \* banks of the channel (rank and bank)
  BankOf, RowOf,  \* dram_get_rank / dram_get_bank and dram_get_row
  NoAddr, NoRow,  \* address 0 and open_row UINT32_MAX
  SIZE,           \* DRAM_RQ_SIZE and DRAM_WQ_SIZE, per queue
  HIGH_WM, LOW_WM,\* DRAM_WRITE_HIGH_WM, DRAM_WRITE_LOW_WM
  tRP, tRCD, tCAS,
  RETURN_TIME,    \* DRAM_DBUS_RETURN_TIME
  TURN_AROUND,    \* DRAM_DBUS_TURN_AROUND_TIME
  MaxCycle,       \* bound: cycles the controller runs
  LastArrival,    \* bound: the last cycle in which a request arrives
  MaxAge          \* bound: how long a request was on its way to the controller

Queue == {"RQ", "WQ"}
Slot(q) == 1 .. SIZE[q]
Cycle == 0 .. MaxCycle

ASSUME DramAssumption ==
  /\ SIZE \in [Queue -> Nat \ {0}]
  /\ BankOf \in [Addr -> Bank] /\ NoAddr \notin Addr
  /\ \A a \in Addr : RowOf[a] # NoRow
  /\ {HIGH_WM, LOW_WM, tRP, tRCD, tCAS, RETURN_TIME, TURN_AROUND, MaxAge, MaxCycle,
      LastArrival} \subseteq Nat
  /\ 1 <= LOW_WM /\ LOW_WM <= HIGH_WM /\ HIGH_WM <= SIZE["WQ"]

VARIABLES
  queue,        \* per queue and slot: address, scheduled, event_cycle
  bank,         \* bank_request: request_index, working with is_read / is_write (the
                \* queue it works for), cycle_available, open_row
  dbus,         \* dbus_cycle_available
  writeMode,    \* write_mode
  scheduled,    \* scheduled_reads ("RQ") and scheduled_writes ("WQ")
  nextSchedule, \* per queue: next_schedule_index and next_schedule_cycle
  nextProcess,  \* per queue: next_process_index and next_process_cycle
  waiting,      \* blocks whose miss waits in the LLC's MSHR
  now,          \* current_core_cycle
  warm,         \* all_warmup_complete
  failed,       \* whether an assert(0) was reached
  last          \* history: the queue and the cycle of the last transfer

vars == << queue, bank, dbus, writeMode, scheduled, nextSchedule, nextProcess,
           waiting, now, warm, failed, last >>

State ==
  [queue |-> queue, bank |-> bank, dbus |-> dbus, writeMode |-> writeMode,
   scheduled |-> scheduled, nextSchedule |-> nextSchedule, nextProcess |-> nextProcess,
   waiting |-> waiting, failed |-> failed, last |-> last]

Becomes(s) ==
  /\ queue' = s.queue /\ bank' = s.bank /\ dbus' = s.dbus /\ writeMode' = s.writeMode
  /\ scheduled' = s.scheduled /\ nextSchedule' = s.nextSchedule
  /\ nextProcess' = s.nextProcess /\ waiting' = s.waiting /\ failed' = s.failed
  /\ last' = s.last

Empty   == [address |-> NoAddr, scheduled |-> FALSE, event |-> 0]
Idle    == [index |-> 0, worksFor |-> "none", available |-> 0, row |-> NoRow]
Nothing == [index |-> 0, cycle |-> 0]   \* next_..._index = SIZE

Init ==
  /\ queue = [q \in Queue |-> [i \in Slot(q) |-> Empty]]
  /\ bank = [b \in Bank |-> Idle]
  /\ dbus = 0 /\ writeMode = FALSE
  /\ scheduled = [q \in Queue |-> 0]
  /\ nextSchedule = [q \in Queue |-> Nothing] /\ nextProcess = [q \in Queue |-> Nothing]
  /\ waiting = {} /\ now = 0 /\ warm = FALSE /\ failed = FALSE
  /\ last = [queue |-> "none", cycle |-> 0]

-------------------------------------------------------------------------------
(* The two cached indices.                                                 *)

Occupied(s, q)  == {i \in Slot(q) : s.queue[q][i].address # NoAddr}
Started(s, q)   == {i \in Slot(q) : s.queue[q][i].scheduled}
Unstarted(s, q) == Occupied(s, q) \ Started(s, q)

BankAt(s, q, i) == BankOf[s.queue[q][i].address]

(* The slot of S with the least event_cycle, the first of them.            *)
Earliest(slots, S) ==
  CHOOSE i \in S : \A j \in S :
    \/ slots[i].event < slots[j].event
    \/ slots[i].event = slots[j].event /\ i <= j

NextOf(slots, S) ==
  IF S = {} THEN Nothing
  ELSE [index |-> Earliest(slots, S), cycle |-> slots[Earliest(slots, S)].event]

UpdateScheduleCycle(s, q) == [s EXCEPT !.nextSchedule[q] = NextOf(s.queue[q], Unstarted(s, q))]
UpdateProcessCycle(s, q)  == [s EXCEPT !.nextProcess[q]  = NextOf(s.queue[q], Started(s, q))]

-------------------------------------------------------------------------------
(* Turning the bus around: requests that were started but not transferred  *)
(* go back to the queue, and their banks become free.                      *)

ResetBank(k) ==
  [index |-> 0, worksFor |-> "none", available |-> now,
   row |-> IF k.available - tCAS <= now THEN k.row ELSE NoRow]

ResetRemainRequests(s, q) ==
  LET on(b) == {i \in Started(s, q) : BankAt(s, q, i) = b}
      for(r) == {i \in Started(s, q) : s.bank[BankAt(s, q, i)].worksFor = r}
      row(i) == RowOf[s.queue[q][i].address]
      s1 == [s EXCEPT
               !.bank = [b \in Bank |->
                           IF on(b) = {} THEN @[b]
                           ELSE ResetBank([@[b] EXCEPT !.row = row(CHOOSE i \in on(b) : TRUE)])],
               !.scheduled = [r \in Queue |-> @[r] - Cardinality(for(r))],
               !.queue[q] = [i \in Slot(q) |->
                               IF i \in Started(s, q)
                               THEN [@[i] EXCEPT !.scheduled = FALSE, !.event = now]
                               ELSE @[i]]]
      s2 == UpdateScheduleCycle(UpdateScheduleCycle(s1, "RQ"), "WQ")
      s3 == UpdateProcessCycle(UpdateProcessCycle(s2, "RQ"), "WQ")
  IN  [s3 EXCEPT !.failed = @ \/ s3.scheduled[q] # 0]

MutTurnToWrites(s) == ~s.writeMode /\ Cardinality(Occupied(s, "WQ")) >= HIGH_WM

(* Writes go when their queue is nearly full, or the read queue is empty.  *)
TurnToWrites(s) ==
  /\ ~s.writeMode
  /\ \/ Cardinality(Occupied(s, "WQ")) >= HIGH_WM
     \/ Occupied(s, "RQ") = {} /\ Occupied(s, "WQ") # {}

TurnToReads(s) ==
  /\ s.writeMode
  /\ \/ Occupied(s, "WQ") = {}
     \/ Occupied(s, "RQ") # {} /\ Cardinality(Occupied(s, "WQ")) < LOW_WM

MutTurnAroundFree(s, toWrites) ==
  ResetRemainRequests([s EXCEPT !.writeMode = toWrites], IF toWrites THEN "RQ" ELSE "WQ")

TurnAround(s, toWrites) ==
  [ResetRemainRequests([s EXCEPT !.writeMode = toWrites], IF toWrites THEN "RQ" ELSE "WQ")
     EXCEPT !.dbus = @ + TURN_AROUND]

SwitchMode(s) ==
  IF TurnToWrites(s) \/ TurnToReads(s) THEN TurnAround(s, ~s.writeMode) ELSE s

-------------------------------------------------------------------------------
(* schedule(): an open row first, then the oldest request, in a free bank. *)

Startable(s, q) == {i \in Unstarted(s, q) : s.bank[BankAt(s, q, i)].worksFor = "none"}
RowHits(s, q) ==
  {i \in Startable(s, q) : s.bank[BankAt(s, q, i)].row = RowOf[s.queue[q][i].address]}

Latency(s, q, i) == IF i \in RowHits(s, q) THEN tCAS ELSE tRP + tRCD + tCAS

Start(s, q, i) ==
  LET ready == now + Latency(s, q, i)
      s1 == [s EXCEPT
               !.bank[BankAt(s, q, i)] =
                  [index |-> i, worksFor |-> q, available |-> ready,
                   row |-> RowOf[s.queue[q][i].address]],
               !.scheduled[q] = @ + 1,
               !.queue[q][i] = [@ EXCEPT !.scheduled = TRUE, !.event = ready]]
  IN  UpdateProcessCycle(UpdateScheduleCycle(s1, q), q)

Schedule(s, q) ==
  CASE RowHits(s, q) # {} -> Start(s, q, Earliest(s.queue[q], RowHits(s, q)))
    [] RowHits(s, q) = {} /\ Startable(s, q) # {} -> Start(s, q, Earliest(s.queue[q], Startable(s, q)))
    [] OTHER -> s

-------------------------------------------------------------------------------
(* process(): the transfer of the request that was ready first.            *)

(* return_data of the LLC, which asserts that the miss is in its MSHR.     *)
ReturnData(s, a) ==
  [s EXCEPT !.waiting = @ \ {a}, !.failed = @ \/ a \notin s.waiting]

MutFreeBank(s, b) == [s EXCEPT !.bank[b].index = 0]

FreeBank(s, b) == [s EXCEPT !.bank[b] = [@ EXCEPT !.index = 0, !.worksFor = "none"]]

MutRemoveQueue(s, q, i) == [s EXCEPT !.queue[q][i].address = NoAddr]

RemoveQueue(s, q, i) == [s EXCEPT !.queue[q][i] = Empty]

Transfer(s, q, i) ==
  LET a  == s.queue[q][i].address
      s1 == IF q = "RQ" THEN ReturnData(s, a) ELSE s
      s2 == [s1 EXCEPT !.dbus = now + RETURN_TIME, !.last = [queue |-> q, cycle |-> now],
                       !.scheduled[q] = @ - 1]
  IN  UpdateProcessCycle(RemoveQueue(FreeBank(s2, BankOf[a]), q, i), q)

Process(s, q) ==
  LET i == s.nextProcess[q].index
      b == BankAt(s, q, i)
  IN  CASE s.bank[b].index # i -> [s EXCEPT !.failed = TRUE]
        [] s.bank[b].index = i /\ s.bank[b].available > now -> s
        [] s.bank[b].index = i /\ s.bank[b].available <= now /\ s.dbus <= now -> Transfer(s, q, i)
        [] OTHER -> [s EXCEPT !.bank[b].available = s.dbus]

Due(next) == next.index # 0 /\ next.cycle <= now

-------------------------------------------------------------------------------
(* operate(), once in every cycle.                                         *)

Operate ==
  /\ ~failed /\ now < MaxCycle
  /\ LET s0 == SwitchMode(State)
         q  == IF s0.writeMode THEN "WQ" ELSE "RQ"
         s1 == IF Due(s0.nextSchedule[q]) THEN Schedule(s0, q) ELSE s0
         s2 == IF Due(s1.nextProcess[q]) THEN Process(s1, q) ELSE s1
     IN  Becomes(s2)
  /\ now' = now + 1
  /\ UNCHANGED warm

-------------------------------------------------------------------------------
(* add_rq and add_wq, called by the LLC, which has made sure of room.  The *)
(* packet's event_cycle is from when it entered the LLC.                   *)

Full(q) == Occupied(State, q) = Slot(q)

Holds(q, a) == \E i \in Slot(q) : queue[q][i].address = a

MutEnqueue(s, q, a, age) ==
  LET free == Slot(q) \ Occupied(s, q)
      i    == CHOOSE i \in free : \A j \in free : i <= j
      e    == [address |-> a, scheduled |-> FALSE, event |-> IF age <= now THEN now - age ELSE 0]
  IN  IF Holds(q, a) \/ free = {} THEN s ELSE [s EXCEPT !.queue[q][i] = e]

(* A packet for a block the queue holds already is dropped.                *)
Enqueue(s, q, a, age) ==
  LET free == Slot(q) \ Occupied(s, q)
      i    == CHOOSE i \in free : \A j \in free : i <= j
      e    == [address |-> a, scheduled |-> FALSE, event |-> IF age <= now THEN now - age ELSE 0]
  IN  IF Holds(q, a) \/ free = {} THEN s
      ELSE UpdateScheduleCycle([s EXCEPT !.queue[q][i] = e], q)

MutAddRq(a, age) ==
  /\ now <= LastArrival /\ ~failed
  /\ a \notin waiting /\ ~Full("RQ")
  /\ LET s == [State EXCEPT !.waiting = @ \cup {a}]
     IN  \/ /\ ~warm
            /\ Becomes(s)
         \/ /\ warm
            /\ Becomes(Enqueue(s, "RQ", a, age))
  /\ UNCHANGED << now, warm >>

(* A read miss of the LLC, or a prefetch's.  Before the end of the warmup, *)
(* and when the block waits in the write queue, the answer comes at once.  *)
AddRq(a, age) ==
  /\ now <= LastArrival /\ ~failed
  /\ a \notin waiting /\ ~Full("RQ")
  /\ LET s == [State EXCEPT !.waiting = @ \cup {a}]
     IN  \/ /\ ~warm \/ Holds("WQ", a)
            /\ Becomes(ReturnData(s, a))
         \/ /\ warm /\ ~Holds("WQ", a)
            /\ Becomes(Enqueue(s, "RQ", a, age))
  /\ UNCHANGED << now, warm >>

(* A dirty victim of the LLC.  Nothing is written before the end of the    *)
(* warmup.                                                                 *)
AddWq(a, age) ==
  /\ now <= LastArrival /\ ~failed /\ ~Full("WQ")
  /\ warm /\ Becomes(Enqueue(State, "WQ", a, age))
  /\ UNCHANGED << now, warm >>

(* finish_warmup() of main.cc.                                             *)
FinishWarmup == ~warm /\ ~failed /\ warm' = TRUE /\ Becomes(State) /\ UNCHANGED now

(* The end of the run.                                                     *)
Finished == now = MaxCycle /\ UNCHANGED vars

Next ==
  \/ Operate
  \/ \E a \in Addr, age \in 0 .. MaxAge : AddRq(a, age) \/ AddWq(a, age)
  \/ FinishWarmup
  \/ Finished

Spec == Init /\ [][Next]_vars

-------------------------------------------------------------------------------
(* Properties.                                                             *)

Entry    == [address : Addr \cup {NoAddr}, scheduled : BOOLEAN, event : Nat]
BankType == [index : Nat, worksFor : Queue \cup {"none"}, available : Int,
             row : {RowOf[a] : a \in Addr} \cup {NoRow}]

(* The tables of the controller are well-formed, and only an occupied slot *)
(* is scheduled.                                                           *)
TypeOK ==
  /\ DOMAIN queue = Queue
  /\ \A q \in Queue : /\ queue[q] \in [Slot(q) -> Entry]
                       /\ Started(State, q) \subseteq Occupied(State, q)
  /\ bank \in [Bank -> BankType]
  /\ writeMode \in BOOLEAN /\ warm \in BOOLEAN /\ failed \in BOOLEAN
  /\ waiting \subseteq Addr /\ now \in Nat /\ dbus \in Int

(* Banks and queues agree, through starts, transfers and turn-arounds: a   *)
(* busy bank works for one started request that lies in it, and every      *)
(* started request has its bank.                                           *)
BanksAgree ==
  /\ \A q \in Queue : \A i \in Started(State, q) :
       LET k == bank[BankAt(State, q, i)] IN k.worksFor = q /\ k.index = i
  /\ \A b \in Bank : bank[b].worksFor # "none" =>
       LET q == bank[b].worksFor
       IN  bank[b].index \in Started(State, q) /\ BankAt(State, q, bank[b].index) = b

(* Requests are started only for the direction the bus is turned to: a     *)
(* turn-around leaves none of the other direction behind.                  *)
OneDirection ==
  /\ writeMode => Started(State, "RQ") = {}
  /\ ~writeMode => Started(State, "WQ") = {}

(* scheduled_reads and scheduled_writes count the started requests.        *)
Counted == \A q \in Queue : scheduled[q] = Cardinality(Started(State, q))

(* The cached next_schedule and next_process are those a fresh search      *)
(* finds: no function that changes a queue forgets to renew them.          *)
NextFresh ==
  \A q \in Queue : /\ nextSchedule[q] = NextOf(queue[q], Unstarted(State, q))
                   /\ nextProcess[q] = NextOf(queue[q], Started(State, q))

(* No assert(0): process() finds its request in its bank, a turn-around    *)
(* leaves nothing scheduled, and every answer has a miss in the LLC that   *)
(* waits for it.                                                           *)
NoAssert == ~failed

(* A miss of the LLC waits exactly while its request is in the read queue: *)
(* it is never dropped, not by a turn-around, and is answered once.        *)
Answered == waiting = {queue["RQ"][i].address : i \in Occupied(State, "RQ")}

(* "the data bus must wait this amount of time when switching between      *)
(* reads and writes, and vice versa" (dram_controller.h): a transfer       *)
(* starts after the one before it, and after the turn-around when the      *)
(* direction changed, whichever way the bus was turned in between.         *)
BusSeparated ==
  [][last' # last /\ last.queue # "none" =>
       last'.cycle >= last.cycle + RETURN_TIME
                      + (IF last'.queue # last.queue THEN TURN_AROUND ELSE 0)]_vars

(* Every request is served in bounded time once no more arrive: reads wait *)
(* for a burst of writes and writes for the reads, but no turn-around      *)
(* makes the two undo each other's work for ever.                          *)
ServedInTime ==
  now = MaxCycle => waiting = {} /\ \A q \in Queue : Occupied(State, q) = {}
===============================================================================
