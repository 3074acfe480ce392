--------------------------- MODULE DataFlowGraph ---------------------------
(***************************************************************************)
(* The data-flow graph of the instructions that lead to a miss             *)
(* (src/builder.cc, inc/builder.h, and the callback of CACHE::operate).    *)
(* In each cycle L2C calls update_graph, which puts the instruction that   *)
(* was read last into a window, and, when its ip is one of the recorded    *)
(* misses, goes back through the window from producer to producer.  The    *)
(* graph is dropped as soon as it is built.                                *)
(*                                                                         *)
(* A vertex also says which instruction of the window it was added for     *)
(* (at), and an instruction when it was read (id): the code keeps neither. *)
(***************************************************************************)
EXTENDS Integers, Sequences, FiniteSets

CONSTANTS
  Instr,        \* [ip, source_register, destination_registers, source_memory,
                \*  destination_memory], the sets of operands as pairs
  MissIp,       \* the file cache_misses
  WINDOW,       \* max_window_size
  FETCH_WIDTH,
  MaxRead       \* bound: instructions read

NoInstr == [ip |-> 0, source_register |-> 0, destination_registers |-> <<0, 0>>,
            source_memory |-> <<0, 0>>, destination_memory |-> <<0, 0>>]

VARIABLES
  current,     \* O3_CPU::current_instr, with its id
  window,      \* youngest first
  vertices,    \* the values of the graph's vertices, the root first
  edges,       \* <<source, target>>
  cur_index, cur_parent,
  phase        \* where the core is in its cycle

graph == <<vertices, edges>>
vars == <<current, window, graph, cur_index, cur_parent, phase>>

Init ==
  /\ current = [instr |-> NoInstr, id |-> 0]
  /\ window = <<>> /\ vertices = <<>> /\ edges = {}
  /\ cur_index = 0 /\ cur_parent = 0 /\ phase = "callback"
-----------------------------------------------------------------------------
(* is_memory, as copy_into_format sets it: stores are not counted.         *)
IsMemory(i) == \E k \in DOMAIN i.source_memory : i.source_memory[k] # 0

(* What an instruction is taken to read, and whether another is taken to   *)
(* have written it: the first operands only.                               *)
Reads(i) == IF IsMemory(i) THEN [memory |-> TRUE, value |-> i.source_memory[1]]
                           ELSE [memory |-> FALSE, value |-> i.source_register]

Writes(i, operand) ==
  operand.value = IF operand.memory THEN i.destination_memory[1]
                                    ELSE i.destination_registers[1]

(* traceback_reg and traceback_ea.                                         *)
Producers(operand, index) == {k \in index .. Len(window) : Writes(window[k].instr, operand)}

First(indices) == CHOOSE k \in indices : \A j \in indices : k <= j

(* Mutant: the search starts with the instruction itself.                  *)
MutEarlierSelf(index) == Producers(Reads(window[index].instr), index)

(* The instructions that may be taken for the producer; empty for -1.      *)
Earlier(index) == Producers(Reads(window[index].instr), index + 1)

Push == <<current>> \o (IF Len(window) = WINDOW THEN SubSeq(window, 1, WINDOW - 1) ELSE window)
-----------------------------------------------------------------------------
(* update_graph, and the start of build_graph.                             *)
UpdateGraph ==
  /\ phase = "callback"
  /\ window' = Push
  /\ IF current.instr.ip \in MissIp
     THEN /\ vertices' = <<[source |-> [memory |-> FALSE,
                                        value |-> current.instr.destination_registers[1]],
                            at |-> 0]>>
          /\ cur_index' = 1 /\ cur_parent' = 1 /\ phase' = "build"
     ELSE /\ phase' = "operate" /\ UNCHANGED <<vertices, cur_index, cur_parent>>
  /\ UNCHANGED <<current, edges>>

(* One round of the loop of build_graph: a vertex for what the instruction *)
(* reads, an edge to what it writes, and on to its producer.               *)
Leaves(index) == window[index].instr.ip = window[1].instr.ip

Added(index) == Append(vertices, [source |-> Reads(window[index].instr), at |-> index])

Trace ==
  /\ phase = "build"
  /\ vertices' = Added(cur_index)
  /\ edges' = edges \cup {<<Len(vertices) + 1, cur_parent>>}
  /\ IF Earlier(cur_index) = {}
     THEN phase' = "built" /\ UNCHANGED <<cur_index, cur_parent>>
     ELSE /\ cur_index' = First(Earlier(cur_index)) /\ cur_parent' = Len(vertices) + 1
          /\ phase' = IF Leaves(First(Earlier(cur_index))) THEN "built" ELSE phase
  /\ UNCHANGED <<current, window>>

(* The end of update_graph.                                                *)
DropGraph ==
  /\ phase = "built" /\ phase' = "operate"
  /\ vertices' = <<>> /\ edges' = {}
  /\ UNCHANGED <<current, window, cur_index, cur_parent>>

(* The handlers of L2C, and the rest of the core's cycle; read_from_trace  *)
(* leaves the last instruction of its batch in current_instr, or reads     *)
(* none (fetch is stalled, the buffer is full).                            *)
Read ==
  /\ phase = "operate" /\ phase' = "callback"
  /\ \E n \in 0 .. FETCH_WIDTH, i \in Instr :
       /\ current.id + n <= MaxRead
       /\ current' = IF n = 0 THEN current ELSE [instr |-> i, id |-> current.id + n]
  /\ UNCHANGED <<window, graph, cur_index, cur_parent>>

Next == UpdateGraph \/ Trace \/ DropGraph \/ Read

Spec == Init /\ [][Next]_vars /\ WF_vars(Next)
-----------------------------------------------------------------------------
(* The type invariant, of the window and the graph.                        *)
TypeOK ==
  /\ current \in [instr : Instr \cup {NoInstr}, id : Nat]
  /\ window \in Seq([instr : Instr \cup {NoInstr}, id : Nat]) /\ Len(window) <= WINDOW
  /\ vertices \in Seq([source : [memory : BOOLEAN, value : Nat], at : Nat])
  /\ edges \subseteq (DOMAIN vertices) \X (DOMAIN vertices)
  /\ cur_index \in Nat /\ cur_parent \in Nat
  /\ phase \in {"callback", "build", "built", "operate"}
  /\ phase = "build" => cur_index \in DOMAIN window /\ cur_parent \in DOMAIN vertices

(* The window goes back in time (builder.cc:294-302), with as many copies  *)
(* of an instruction as cycles it stayed current, although update_graph is *)
(* said to be "called just when we transitioned, onto the next             *)
(* instruction" (builder.cc:285).  The graph is one path that ends in the  *)
(* root.  Each step goes to the youngest instruction read before that      *)
(* wrote the first operand (builder.cc:166-208), or, when an instruction   *)
(* writes what it reads and has a copy left, back to itself; and no vertex *)
(* but the first stands for an instruction of the miss: "If we see the     *)
(* miss pc again, the graph is completed" (builder.cc:256).                *)
StepsBack(from, to) ==
  LET operand == Reads(from.instr)
      between == {k \in DOMAIN window : window[k].id \in to.id + 1 .. from.id - 1}
  IN  /\ Writes(to.instr, operand)
      /\ IF Writes(from.instr, operand)
            /\ \E k, j \in DOMAIN window : k < j /\ window[k] = from /\ window[j] = from
         THEN to.id <= from.id
         ELSE to.id < from.id
      /\ \A k \in between : ~Writes(window[k].instr, operand)

NearestProducer ==
  /\ \A a, b \in DOMAIN window : a < b => window[a].id >= window[b].id
  /\ edges = {<<k + 1, k>> : k \in 1 .. Len(vertices) - 1}
  /\ \A k \in 2 .. Len(vertices) - 1 :
       /\ vertices[k].source = Reads(window[vertices[k].at].instr)
       /\ StepsBack(window[vertices[k].at], window[vertices[k + 1].at])
  /\ \A k \in 3 .. Len(vertices) :
       window[vertices[k].at].instr.ip # window[1].instr.ip

(* The loop of build_graph has no bound of its own; it ends.               *)
BuildEnds == phase = "build" ~> phase = "built"
=============================================================================
