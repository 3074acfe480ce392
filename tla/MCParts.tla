------------------------------ MODULE MCParts ------------------------------
(***************************************************************************)
(* The sequential parts of the program, which share nothing with each      *)
(* other: the tracer, the sets of numbers, the data-flow graph, the        *)
(* best-offset prefetcher with its table of requests, the replacement      *)
(* policies, and the ring of a packet queue.  part says which of them      *)
(* runs; the others stay in their initial state.                           *)
(***************************************************************************)
EXTENDS RecentRequests, LruReplacement, PacketQueue

VARIABLE part

(* The tracer.  Registers 9 and 1 are one byte, 8 is none; lists overflow. *)
VARIABLES instrCount, tracing_on, curr_instr, out, output_file_closed, closes,
          calls, program, executed

tracer == <<instrCount, tracing_on, curr_instr, out, output_file_closed, closes,
            calls, program, executed>>

Traced(branch, reads, writes, memory) ==
  [branch |-> branch, reads |-> reads, writes |-> writes, memory |-> memory]
Mem(addr, write) == [addr |-> addr, write |-> write]

Program == {
  Traced("no", <<1, 9, 2, 3>>, <<1>>, <<Mem(5, FALSE), Mem(5, TRUE), Mem(6, FALSE)>>),
  Traced("taken", <<8>>, <<>>, <<>>),
  Traced("not taken", <<2>>, <<4>>, <<>>),
  Traced("no", <<>>, <<3, 2, 4>>, <<Mem(6, TRUE), Mem(7, TRUE)>>)}

TR == INSTANCE Tracer WITH
  Thread <- {1}, Instr <- Program, Skip <- 1, Trace <- 2,
  NUM_INSTR_SOURCES <- 2, NUM_INSTR_DESTINATIONS <- 2, Byte <- 8

(* Two sets, with arrays of up to three and words of two bits.             *)
VARIABLES sets, pc, this, other, x, begin, end, i, before, v, answer

numbers == <<sets, pc, this, other, x, begin, end, i, before, v, answer>>

FS == INSTANCE FastSet WITH
  Name <- {"s", "t"}, MAX_SIZE <- 6, WORD <- 2, SMALL_SIZE <- 4, SMALLER_SIZE <- 2, N <- 5

(* A loop that loads through a pointer in memory: the miss, the load of    *)
(* its address, a register that counts up (and so reads what it wrote),    *)
(* and a store.                                                            *)
VARIABLES current, window, vertices, edges, cur_index, cur_parent, phase

graph == <<current, window, vertices, edges, cur_index, cur_parent, phase>>

Looped(ip, reg, dregs, loads, stores) ==
  [ip |-> ip, source_register |-> reg, destination_registers |-> dregs,
   source_memory |-> loads, destination_memory |-> stores]

Loop == {
  Looped(1, 2, <<1, 0>>, <<0, 0>>, <<0, 0>>),
  Looped(2, 2, <<2, 1>>, <<7, 0>>, <<0, 0>>),
  Looped(3, 1, <<1, 2>>, <<0, 0>>, <<0, 0>>),
  Looped(4, 1, <<0, 0>>, <<0, 0>>, <<7, 0>>)}

DF == INSTANCE DataFlowGraph WITH
  Instr <- Loop, MissIp <- {1, 4}, WINDOW <- 4, FETCH_WIDTH <- 2, MaxRead <- 5

(* Two offsets to learn.                                                   *)
Offsets == [p \in 0 .. 1 |-> IF p = 0 THEN 1 ELSE -1]

(* Two lines that share a slot of the left bank.                           *)
Tags == <<1, 2>>
Lefts == <<0, 0>>
Rights == <<0, 1>>

(* A leader set of each policy and a set that follows.                     *)
VARIABLES rrpv, bip_counter, PSEL, searched

dueling == <<rrpv, bip_counter, PSEL, searched>>

SD == INSTANCE SetDueling WITH
  LLC_SET <- 0 .. 2, LLC_WAY <- 2, Leader <- [s \in 0 .. 2 |-> s - 1],
  maxRRPV <- 2, BIP_MAX <- 2, PSEL_MAX <- 3

vars == <<part, tracer, numbers, graph, bo_vars, rr_vars, lru_vars, pq_vars, dueling>>

Init ==
  /\ part \in {"tracer", "sets", "graph", "offset", "requests", "lru", "queue", "dueling"}
  /\ TR!Init /\ FS!Init /\ DF!Init
  /\ BoInit /\ RrInit /\ LruInit /\ PqInit /\ SD!RripInit

Next ==
  /\ UNCHANGED part
  /\ \/ /\ part = "tracer" /\ TR!Next
        /\ UNCHANGED <<numbers, graph, bo_vars, rr_vars, lru_vars, pq_vars, dueling>>
     \/ /\ part = "sets" /\ FS!Next
        /\ UNCHANGED <<tracer, graph, bo_vars, rr_vars, lru_vars, pq_vars, dueling>>
     \/ /\ part = "graph" /\ DF!Next
        /\ UNCHANGED <<tracer, numbers, bo_vars, rr_vars, lru_vars, pq_vars, dueling>>
     \/ /\ part = "offset" /\ BoNext
        /\ UNCHANGED <<tracer, numbers, graph, rr_vars, lru_vars, pq_vars, dueling>>
     \/ /\ part = "requests" /\ RrNext
        /\ UNCHANGED <<tracer, numbers, graph, bo_vars, lru_vars, pq_vars, dueling>>
     \/ /\ part = "lru" /\ LruNext
        /\ UNCHANGED <<tracer, numbers, graph, bo_vars, rr_vars, pq_vars, dueling>>
     \/ /\ part = "queue" /\ PqNext
        /\ UNCHANGED <<tracer, numbers, graph, bo_vars, rr_vars, lru_vars, dueling>>
     \/ /\ part = "dueling" /\ SD!RripNext
        /\ UNCHANGED <<tracer, numbers, graph, bo_vars, rr_vars, lru_vars, pq_vars>>

(* A call that is in progress goes on.                                     *)
Round ==
  /\ UNCHANGED <<part, tracer, bo_vars, rr_vars, lru_vars, pq_vars>>
  /\ \/ part = "sets" /\ FS!Round /\ UNCHANGED <<graph, dueling>>
     \/ part = "graph" /\ DF!Trace /\ UNCHANGED <<numbers, dueling>>
     \/ part = "dueling" /\ SD!Search /\ UNCHANGED <<numbers, graph>>

Spec == Init /\ [][Next]_vars /\ WF_vars(Round)
-----------------------------------------------------------------------------
(* The type invariants of the parts.                                       *)
TypeOK ==
  /\ TR!TypeOK /\ FS!TypeOK /\ DF!TypeOK
  /\ BoTypeOK /\ RrTypeOK /\ LruTypeOK /\ PqTypeOK /\ SD!RripTypeOK

(* The trace is the program (Tracer.tla).                                  *)
TraceFaithful == TR!TraceFaithful

(* The calls of a fastset do what they would do to a set (FastSet.tla).    *)
ImplementsSets == FS!ImplementsSets

(* The graph of a miss is the path of its nearest producers                *)
(* (DataFlowGraph.tla).                                                    *)
NearestProducer == DF!NearestProducer

(* The loops without a bound of their own end: the traceback of            *)
(* build_graph, the binary search of a fastset and the search for a victim *)
(* of DRRIP.                                                               *)
LoopsEnd == DF!BuildEnds /\ FS!CallsReturn /\ SD!SearchEnds
=============================================================================
