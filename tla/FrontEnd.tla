----------------------------- MODULE FrontEnd ------------------------------
(***************************************************************************)
(* The front end of a core: read_from_trace, fetch_instruction and         *)
(* decode_and_dispatch of src/ooo_cpu.cc, run in this order by main() in   *)
(* each cycle after the back end.  An instruction waits in IFETCH_BUFFER   *)
(* until L1I has answered for its line, in DECODE_BUFFER until it is       *)
(* decoded, and in the ROB until it retires.  A mispredicted branch stops  *)
(* the reading of the trace until it has executed and a penalty has        *)
(* passed; STA remembers the stores in program order.                      *)
(*                                                                         *)
(* Times are kept as distances from current_core_cycle.  L1I and the back  *)
(* end are environment: L1I answers its requests in any order, the ROB     *)
(* executes in any order.                                                  *)
(***************************************************************************)
EXTENDS Integers, Sequences, FiniteSets, SequencesExt

CONSTANTS
  IFETCH_SIZE, DECODE_SIZE, ROB_SIZE, STA_SIZE,
  FETCH_WIDTH, DECODE_WIDTH, DECODE_LATENCY, BRANCH_MISPREDICT_PENALTY,
  L1I_SIZE,   \* lines that L1I's read queue takes
  Traced,     \* what the trace may hold: [line, outcome, stores]
  MaxRead     \* bound: instructions read

ASSUME SizesAssumption ==
  /\ {IFETCH_SIZE, DECODE_SIZE, ROB_SIZE, STA_SIZE, FETCH_WIDTH, DECODE_WIDTH,
      L1I_SIZE, BRANCH_MISPREDICT_PENALTY, MaxRead} \subseteq Nat \ {0}
  /\ DECODE_LATENCY \in Nat
  /\ \A i \in Traced : i.outcome \in {"plain", "taken", "mispredicted"} /\ i.stores \in Nat

(* STA_SIZE is ROB_SIZE * 4, and a traced instruction has two destinations *)
(* at most: STA has room for all stores between the trace and the SQ.      *)
ASSUME StaAssumption == \A i \in Traced :
  i.stores * (IFETCH_SIZE + DECODE_SIZE + ROB_SIZE) <= STA_SIZE

VARIABLES
  ifetch, decode, rob,     \* the three buffers, oldest first
  STA, STA_head, STA_tail,
  fetch_stall, resume,     \* resume: cycles until fetch_resume_cycle, or Never
  l1i,                     \* lines that L1I has been asked for
  processed,               \* lines in L1I.PROCESSED
  warm,                    \* warmup_complete
  phase,                   \* where main() is in the cycle
  read, retired,           \* instructions read and retired
  asserts                  \* assertions that have failed

buffers == <<ifetch, decode, rob>>
sta == <<STA, STA_head, STA_tail>>
stall == <<fetch_stall, resume>>
cache == <<l1i, processed>>
vars == <<buffers, sta, stall, cache, warm, phase, read, retired, asserts>>

Never == -1       \* fetch_resume_cycle == 0
Undecoded == DECODE_LATENCY + 1  \* event_cycle == 0
Decoded == -1     \* event_cycle < current_core_cycle
Empty == 0        \* UINT64_MAX
UNFETCHED == 0  INFLIGHT == 1  COMPLETED == 2

(* The simulation starts with an empty ring; it is as empty, and about to  *)
(* turn, when all stores so far have left it.                              *)
Init ==
  /\ ifetch = <<>> /\ decode = <<>> /\ rob = <<>>
  /\ STA = [i \in 0 .. STA_SIZE - 1 |-> Empty]
  /\ STA_head \in {0, STA_SIZE - 1} /\ STA_tail = STA_head
  /\ fetch_stall = FALSE /\ resume = Never
  /\ l1i = {} /\ processed = <<>>
  /\ warm = FALSE /\ phase = "back" /\ read = 0 /\ retired = 0 /\ asserts = {}

(* How many instructions leave the front of a buffer together: ready says  *)
(* of each of them whether it may.                                         *)
Longest(ready, limit) ==
  CHOOSE n \in 0 .. Len(ready) :
    /\ n <= limit /\ \A i \in 1 .. n : ready[i]
    /\ n = Len(ready) \/ n = limit \/ ~ready[n + 1]

Smaller(a, b) == IF a < b THEN a ELSE b
First(s, n) == SubSeq(s, 1, n)
Rest(s, n) == SubSeq(s, n + 1, Len(s))
-----------------------------------------------------------------------------
(* Environment.  L1I answers (fetches merge, and each has one answer).     *)
Answer(line) ==
  /\ line \in l1i
  /\ l1i' = l1i \ {line} /\ processed' = Append(processed, line)
  /\ UNCHANGED <<buffers, sta, stall, warm, phase, read, retired, asserts>>

(* complete_instr_fetch: every buffered instruction of the line, also one  *)
(* that was read after the request, is fetched.                            *)
Arrived(line) == [i \in DOMAIN ifetch |->
  IF ifetch[i].line = line THEN [ifetch[i] EXCEPT !.fetched = COMPLETED] ELSE ifetch[i]]

CompleteInstrFetch ==
  /\ phase = "back" /\ processed # <<>>
  /\ ifetch' = Arrived(Head(processed))
  /\ processed' = Tail(processed)
  /\ UNCHANGED <<decode, rob, sta, stall, l1i, warm, phase, read, retired, asserts>>

(* check_and_add_lsq and add_store_queue: the instruction at the head of   *)
(* STA puts its next store into the store queue.                           *)
PlaceStore(i) ==
  /\ phase = "back" /\ rob[i].stores > 0 /\ STA[STA_head] = rob[i].id
  /\ rob' = [rob EXCEPT ![i].stores = @ - 1]
  /\ STA' = [STA EXCEPT ![STA_head] = Empty]
  /\ STA_head' = (STA_head + 1) % STA_SIZE
  /\ UNCHANGED <<ifetch, decode, STA_tail, stall, cache, warm, phase, read, retired, asserts>>

(* complete_execution.                                                     *)
CompleteExecution(i) ==
  /\ phase = "back" /\ ~rob[i].executed /\ rob[i].stores = 0
  /\ rob' = [rob EXCEPT ![i].executed = TRUE]
  /\ resume' = IF rob[i].mispredicted THEN BRANCH_MISPREDICT_PENALTY ELSE resume
  /\ UNCHANGED <<ifetch, decode, sta, fetch_stall, cache, warm, phase, read, retired, asserts>>

(* Mutant: an executed instruction passes older ones.                      *)
MutRetireAny ==
  /\ phase = "back"
  /\ \E i \in DOMAIN rob : rob[i].executed /\ rob' = Remove(rob, rob[i])
  /\ retired' = retired + 1
  /\ UNCHANGED <<ifetch, decode, sta, stall, cache, warm, phase, read, asserts>>

(* retire_rob.                                                             *)
Retire ==
  /\ phase = "back" /\ rob # <<>> /\ rob[1].executed
  /\ rob' = Tail(rob) /\ retired' = retired + 1
  /\ UNCHANGED <<ifetch, decode, sta, stall, cache, warm, phase, read, asserts>>

(* main(): num_retired has passed warmup_instructions.                     *)
FinishWarmup ==
  /\ phase = "back" /\ ~warm /\ warm' = TRUE
  /\ UNCHANGED <<buffers, sta, stall, cache, phase, read, retired, asserts>>

StartDecode ==
  /\ phase = "back" /\ phase' = "decode"
  /\ UNCHANGED <<buffers, sta, stall, cache, warm, read, retired, asserts>>
-----------------------------------------------------------------------------
(* decode_and_dispatch.  During the warmup nothing pays for decoding.      *)
MayDispatch == [i \in DOMAIN decode |-> ~warm \/ decode[i].wait = Decoded]

(* Mutant: the room in the ROB is not looked at.                           *)
MutDispatchedNoRoom == Longest(MayDispatch, DECODE_WIDTH)

Dispatched == Longest(MayDispatch, Smaller(DECODE_WIDTH, ROB_SIZE - Len(rob)))

(* Mutant: a full buffer looks empty to the loop.                          *)
MutStartsFull(left, i) ==
  /\ left[i].wait = Undecoded
  /\ Len(left) # DECODE_SIZE
  /\ Cardinality({j \in 1 .. i : left[j].wait = Undecoded}) <= DECODE_WIDTH

(* The second loop stops at the slot of the tail, which is also the slot   *)
(* of the head when the buffer is full: then only the head is decoded.     *)
Starts(left, i) ==
  /\ left[i].wait = Undecoded
  /\ Len(left) = DECODE_SIZE => i = 1
  /\ Cardinality({j \in 1 .. i : left[j].wait = Undecoded}) <= DECODE_WIDTH

PayDecode(left) == [i \in DOMAIN left |->
  IF Starts(left, i) THEN [left[i] EXCEPT !.wait = IF warm THEN DECODE_LATENCY ELSE 0]
  ELSE left[i]]

DecodeAndDispatch ==
  /\ phase = "decode" /\ phase' = "fetch"
  /\ rob' = rob \o [i \in 1 .. Dispatched |->
       [id |-> decode[i].id, stores |-> decode[i].stores,
        mispredicted |-> decode[i].mispredicted, executed |-> FALSE]]
  /\ decode' = PayDecode(Rest(decode, Dispatched))
  /\ UNCHANGED <<ifetch, sta, stall, cache, warm, read, retired, asserts>>
-----------------------------------------------------------------------------
(* fetch_instruction.  Instructions are translated where they are read, so *)
(* the ITLB is never asked.  The lines of the unfetched instructions are   *)
(* asked for in the order of the buffer, as long as L1I takes them, and    *)
(* all instructions of such a line wait for the answer, those for which    *)
(* the line had arrived once included.                                     *)
Wanted == {ifetch[i].line : i \in {j \in DOMAIN ifetch : ifetch[j].fetched = UNFETCHED}}

Position(line) == CHOOSE i \in DOMAIN ifetch :
  /\ ifetch[i].line = line /\ ifetch[i].fetched = UNFETCHED
  /\ \A j \in DOMAIN ifetch :
       ifetch[j].line = line /\ ifetch[j].fetched = UNFETCHED => i <= j

Taken == {line \in Wanted :
  \/ line \in l1i
  \/ Cardinality(l1i) + Cardinality({w \in Wanted \ l1i : Position(w) < Position(line)})
       < L1I_SIZE}

(* Mutant: a line that L1I refused is marked as well.                      *)
MutAskedRefused == [i \in DOMAIN ifetch |->
  IF ifetch[i].line \in Wanted THEN [ifetch[i] EXCEPT !.fetched = INFLIGHT] ELSE ifetch[i]]

Asked == [i \in DOMAIN ifetch |->
  IF ifetch[i].line \in Taken THEN [ifetch[i] EXCEPT !.fetched = INFLIGHT] ELSE ifetch[i]]

Fetched == [i \in DOMAIN Asked |-> Asked[i].fetched = COMPLETED]

ToDecode == Longest(Fetched, Smaller(DECODE_WIDTH, DECODE_SIZE - Len(decode)))

(* Mutant: fetch_resume_cycle is not compared with 0.                      *)
MutResumeFetchUnset == fetch_stall /\ resume <= 0

ResumeFetch == fetch_stall /\ resume = 0

FetchInstruction ==
  /\ phase = "fetch" /\ phase' = "read"
  /\ fetch_stall' = (fetch_stall /\ ~ResumeFetch)
  /\ resume' = IF ResumeFetch THEN Never ELSE resume
  /\ l1i' = l1i \cup Taken
  /\ decode' = decode \o [i \in 1 .. ToDecode |->
       [id |-> ifetch[i].id, stores |-> ifetch[i].stores,
        mispredicted |-> ifetch[i].mispredicted, wait |-> Undecoded]]
  /\ ifetch' = Rest(Asked, ToDecode)
  /\ UNCHANGED <<rob, sta, processed, warm, read, retired, asserts>>
-----------------------------------------------------------------------------
(* The end of the cycle: every event comes one cycle closer.               *)
Closer(wait) == IF wait \in {Undecoded, Decoded} THEN wait ELSE wait - 1

TimePasses(queue, due) ==
  /\ decode' = [i \in DOMAIN queue |-> [queue[i] EXCEPT !.wait = Closer(@)]]
  /\ resume' = IF due > 0 THEN due - 1 ELSE due

(* read_from_trace.  A batch ends with a branch that is predicted taken or *)
(* mispredicted, or when FETCH_WIDTH instructions are read or the buffer   *)
(* is full.  During the warmup a mispredicted branch costs nothing.        *)
Stops(i) == i.outcome = "taken" \/ (warm /\ i.outcome = "mispredicted")

Room == Smaller(Smaller(FETCH_WIDTH, IFETCH_SIZE - Len(ifetch)), MaxRead - read)

IsBatch(batch) ==
  /\ \A i \in 1 .. Len(batch) - 1 : ~Stops(batch[i])
  /\ Len(batch) = Room \/ Stops(batch[Len(batch)])

Entry(i, id) == [id |-> id, line |-> i.line, fetched |-> UNFETCHED, stores |-> i.stores,
                 mispredicted |-> warm /\ i.outcome = "mispredicted"]

(* The stores of a batch in program order, and the slots they are put in.  *)
Stores(batch) == FlattenSeq([i \in DOMAIN batch |->
                   [k \in 1 .. batch[i].stores |-> read + i]])
Slot(k) == (STA_tail + k - 1) % STA_SIZE

PushStores(ids) ==
  /\ STA' = [s \in DOMAIN STA |->
       IF \E k \in DOMAIN ids : Slot(k) = s
       THEN ids[CHOOSE k \in DOMAIN ids : Slot(k) = s] ELSE STA[s]]
  /\ STA_tail' = (STA_tail + Len(ids)) % STA_SIZE
  /\ asserts' = asserts \cup
       {"STA" : k \in {j \in DOMAIN ids : STA[Slot(j)] # Empty /\ STA_head # Slot(j)}}
  /\ UNCHANGED STA_head

ReadFromTrace ==
  /\ phase = "read" /\ phase' = "back"
  /\ ~fetch_stall /\ Room > 0
  /\ \E n \in 1 .. Room : \E batch \in [1 .. n -> Traced] :
       /\ IsBatch(batch)
       /\ ifetch' = ifetch \o [i \in 1 .. n |-> Entry(batch[i], read + i)]
       /\ PushStores(Stores(batch))
       /\ read' = read + n
       /\ fetch_stall' = (warm /\ batch[n].outcome = "mispredicted")
  /\ TimePasses(decode, resume)
  /\ UNCHANGED <<rob, cache, warm, retired>>

(* main() does not call it while fetch is stalled or the buffer is full.   *)
NoRead ==
  /\ phase = "read" /\ phase' = "back"
  /\ fetch_stall \/ Room = 0
  /\ TimePasses(decode, resume)
  /\ UNCHANGED <<ifetch, rob, sta, fetch_stall, cache, warm, read, retired, asserts>>

(* A cycle in which stall_cycle holds the whole core back (a data page     *)
(* was walked).                                                            *)
CoreStalled ==
  /\ phase = "back"
  /\ TimePasses(decode, resume)
  /\ UNCHANGED <<ifetch, rob, sta, fetch_stall, cache, warm, phase, read, retired, asserts>>

Lines == {i.line : i \in Traced}

Cycle == StartDecode \/ DecodeAndDispatch \/ FetchInstruction \/ ReadFromTrace \/ NoRead

Next ==
  \/ \E line \in Lines : Answer(line)
  \/ CompleteInstrFetch
  \/ \E i \in DOMAIN rob : PlaceStore(i) \/ CompleteExecution(i)
  \/ Retire \/ FinishWarmup \/ CoreStalled
  \/ Cycle

(* main() goes through the stages for ever.  L1I answers every request     *)
(* (CacheHierarchy), and update_rob, the back end and retire_rob are       *)
(* called in each cycle (ReorderBuffer): what they can do in cycle after   *)
(* cycle they do.                                                          *)
Fairness ==
  /\ WF_vars(Cycle)
  /\ \A line \in Lines : WF_vars(Answer(line))
  /\ SF_vars(CompleteInstrFetch) /\ SF_vars(Retire)
  /\ \A i \in 1 .. ROB_SIZE : /\ SF_vars(i \in DOMAIN rob /\ PlaceStore(i))
                              /\ SF_vars(i \in DOMAIN rob /\ CompleteExecution(i))

Spec == Init /\ [][Next]_vars /\ Fairness
-----------------------------------------------------------------------------
Window == [i \in DOMAIN rob |-> rob[i].id] \o [i \in DOMAIN decode |-> decode[i].id]
            \o [i \in DOMAIN ifetch |-> ifetch[i].id]

(* The type invariant of the buffers and rings.                            *)
TypeOK ==
  /\ Len(ifetch) <= IFETCH_SIZE /\ Len(decode) <= DECODE_SIZE /\ Len(rob) <= ROB_SIZE
  /\ \A i \in DOMAIN ifetch : ifetch[i].fetched \in 0 .. COMPLETED /\ ifetch[i].stores \in Nat
  /\ \A i \in DOMAIN decode : decode[i].wait \in -1 .. Undecoded
  /\ STA \in [0 .. STA_SIZE - 1 -> 0 .. MaxRead] /\ {STA_head, STA_tail} \subseteq DOMAIN STA
  /\ fetch_stall \in BOOLEAN /\ resume \in Never .. BRANCH_MISPREDICT_PENALTY
  /\ l1i \subseteq Lines /\ processed \in Seq(Lines)
  /\ phase \in {"back", "decode", "fetch", "read"} /\ warm \in BOOLEAN
  /\ read \in 0 .. MaxRead /\ retired \in 0 .. read

(* An instruction that is marked as being fetched has an answer coming,    *)
(* although a line may be asked for again after it has arrived, and an     *)
(* answer may come for instructions that did not ask (ooo_cpu.cc:644-652). *)
AnswerComing == \A i \in DOMAIN ifetch :
  ifetch[i].fetched = INFLIGHT => ifetch[i].line \in l1i \cup ToSet(processed)

Unresolved ==
  {ifetch[i].id : i \in {j \in DOMAIN ifetch : ifetch[j].mispredicted}}
  \cup {decode[i].id : i \in {j \in DOMAIN decode : decode[j].mispredicted}}
  \cup {rob[i].id : i \in {j \in DOMAIN rob : rob[j].mispredicted /\ ~rob[j].executed}}

(* fetch_stall, branch_mispredicted and fetch_resume_cycle are three       *)
(* tables of one fact: while fetch is stalled the youngest instruction is  *)
(* the branch that stalled it and will set fetch_resume_cycle, or has set  *)
(* it; while it is not, no branch is left that could (ooo_cpu.cc:558,      *)
(* 1727).                                                                  *)
StallOwed ==
  /\ fetch_stall /\ resume = Never => Unresolved = {read}
  /\ ~fetch_stall \/ resume # Never => Unresolved = {}
  /\ resume # Never => fetch_stall

StoresOf(buffer) == FlattenSeq([i \in DOMAIN buffer |->
                      [k \in 1 .. buffer[i].stores |-> buffer[i].id]])

(* The buffers hold every instruction that was read and has not retired,   *)
(* once and in program order, through partial moves and full buffers.      *)
(* From head to tail, STA names their stores that are not in the store     *)
(* queue yet, in the same order; its other slots are empty, and the ring   *)
(* is never overrun (ooo_cpu.cc:222-236).                                  *)
ProgramOrder ==
  LET pending == StoresOf(rob) \o StoresOf(decode) \o StoresOf(ifetch)
      slot(k) == (STA_head + k - 1) % STA_SIZE
  IN  /\ Window = [i \in 1 .. read - retired |-> retired + i]
      /\ \A k \in DOMAIN pending : STA[slot(k)] = pending[k]
      /\ Cardinality({s \in DOMAIN STA : STA[s] # Empty}) = Len(pending)
      /\ STA_tail = (STA_head + Len(pending)) % STA_SIZE
      /\ asserts = {}

(* Every instruction that is read retires, past full buffers, refused      *)
(* requests and stalls; so fetch resumes after each mispredicted branch.   *)
AllRetire == \A n \in 1 .. MaxRead : (read >= n) ~> (retired >= n)
=============================================================================
