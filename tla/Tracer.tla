------------------------------- MODULE Tracer ------------------------------
(***************************************************************************)
(* The tracer (tracer/champsim_tracer.cpp): Pin calls an analysis routine  *)
(* for each part of an instruction before it is executed, and the routines *)
(* put a record together in the global curr_instr.  The first Skip         *)
(* instructions are counted only; after the next Trace instructions the    *)
(* file is closed and the program ended.                                   *)
(***************************************************************************)
EXTENDS Integers, Sequences, FiniteSets, SequencesExt

CONSTANTS
  Thread,
  Instr,    \* what the program executes: [branch, reads, writes, memory],
            \* memory a sequence of [addr, write]
  Skip, Trace,  \* the knobs
  NUM_INSTR_SOURCES, NUM_INSTR_DESTINATIONS,
  Byte      \* registers are stored as unsigned char

VARIABLES
  instrCount, tracing_on, curr_instr,
  out,                 \* the records written
  output_file_closed, closes,
  calls,               \* per thread, the routines still to call for its instruction
  program,             \* running, exiting (Fini is still to come) or gone
  executed             \* history: the instructions in the order they were begun

file == <<out, output_file_closed, closes>>
vars == <<instrCount, tracing_on, curr_instr, file, calls, program, executed>>

Blank == [branch |-> "no",
          source_registers |-> [i \in 1 .. NUM_INSTR_SOURCES |-> 0],
          destination_registers |-> [i \in 1 .. NUM_INSTR_DESTINATIONS |-> 0],
          source_memory |-> [i \in 1 .. NUM_INSTR_SOURCES |-> 0],
          destination_memory |-> [i \in 1 .. NUM_INSTR_DESTINATIONS |-> 0]]

Init ==
  /\ instrCount = 0 /\ tracing_on = FALSE /\ curr_instr = Blank
  /\ out = <<>> /\ output_file_closed = FALSE /\ closes = 0
  /\ calls = [t \in Thread |-> <<>>] /\ program = "running" /\ executed = <<>>
-----------------------------------------------------------------------------
(* The two loops of RegRead, RegWrite, MemoryRead and MemoryWrite: what is *)
(* not in the list yet is put into the first slot that is 0.               *)
Noted(slots, x) ==
  IF x \in ToSet(slots) \/ 0 \notin ToSet(slots) THEN slots
  ELSE [slots EXCEPT ![CHOOSE i \in DOMAIN slots :
                         slots[i] = 0 /\ \A j \in 1 .. i - 1 : slots[j] # 0] = x]

(* Instruction: the calls that are inserted before an instruction.         *)
Call(f, x) == [routine |-> f, operand |-> x]
Calls(f, operands) == [i \in DOMAIN operands |-> Call(f, operands[i])]

MemoryCalls(operands) == [i \in DOMAIN operands |->
  Call(IF operands[i].write THEN "MemoryWrite" ELSE "MemoryRead", operands[i].addr)]

Instrumented(i) ==
  (IF i.branch = "no" THEN <<>> ELSE <<Call("BranchOrNot", i.branch)>>)
    \o Calls("RegRead", i.reads) \o Calls("RegWrite", i.writes)
    \o MemoryCalls(i.memory) \o <<Call("EndInstruction", 0)>>
-----------------------------------------------------------------------------
(* Mutant: the record of the instruction before is kept.                   *)
MutBeginInstructionKeep(t, i) ==
  /\ program = "running" /\ calls[t] = <<>>
  /\ instrCount' = instrCount + 1
  /\ tracing_on' = IF instrCount' > Trace + Skip THEN FALSE
                   ELSE instrCount' > Skip \/ tracing_on
  /\ calls' = [calls EXCEPT ![t] = Instrumented(i)]
  /\ executed' = Append(executed, i)
  /\ UNCHANGED <<curr_instr, file, program>>

BeginInstruction(t, i) ==
  /\ program = "running" /\ calls[t] = <<>>
  /\ instrCount' = instrCount + 1
  /\ tracing_on' = IF instrCount' > Trace + Skip THEN FALSE
                   ELSE instrCount' > Skip \/ tracing_on
  /\ curr_instr' = IF tracing_on' THEN Blank ELSE curr_instr
  /\ calls' = [calls EXCEPT ![t] = Instrumented(i)]
  /\ executed' = Append(executed, i)
  /\ UNCHANGED <<file, program>>

(* A routine is called; BranchOrNot does not look at tracing_on.           *)
Routine(t, f) ==
  /\ program = "running" /\ calls[t] # <<>> /\ Head(calls[t]).routine = f
  /\ calls' = [calls EXCEPT ![t] = Tail(@)]

Called(t) == Head(calls[t]).operand

BranchOrNot(t) ==
  /\ Routine(t, "BranchOrNot")
  /\ curr_instr' = [curr_instr EXCEPT !.branch =
       IF Called(t) = "taken" \/ @ = "taken" THEN "taken" ELSE "not taken"]
  /\ UNCHANGED <<instrCount, tracing_on, file, program, executed>>

Register(r) == r % Byte

Operand(t, f, field, stored) ==
  /\ Routine(t, f)
  /\ curr_instr' = IF tracing_on
       THEN [curr_instr EXCEPT ![field] = Noted(@, stored)]
       ELSE curr_instr
  /\ UNCHANGED <<instrCount, tracing_on, file, program, executed>>

RegRead(t) == Operand(t, "RegRead", "source_registers", Register(Called(t)))
RegWrite(t) == Operand(t, "RegWrite", "destination_registers", Register(Called(t)))
MemoryRead(t) == Operand(t, "MemoryRead", "source_memory", Called(t))
MemoryWrite(t) == Operand(t, "MemoryWrite", "destination_memory", Called(t))
-----------------------------------------------------------------------------
CloseFile ==
  /\ output_file_closed' = TRUE
  /\ closes' = IF output_file_closed THEN closes ELSE closes + 1

EndInstruction(t) ==
  /\ Routine(t, "EndInstruction")
  /\ IF instrCount <= Skip
     THEN UNCHANGED <<tracing_on, file, program>>
     ELSE IF instrCount <= Trace + Skip
     THEN /\ out' = Append(out, curr_instr) /\ tracing_on' = TRUE
          /\ UNCHANGED <<output_file_closed, closes, program>>
     ELSE /\ tracing_on' = FALSE /\ program' = "exiting"
          /\ CloseFile /\ UNCHANGED out
  /\ UNCHANGED <<instrCount, curr_instr, executed>>

(* The program ends before the tracer has seen enough.                     *)
Exit ==
  /\ program = "running" /\ program' = "exiting"
  /\ \A t \in Thread : calls[t] = <<>>
  /\ UNCHANGED <<instrCount, tracing_on, curr_instr, file, calls, executed>>

(* Pin calls Fini when the program ends, also by the exit of EndInstruction. *)
Fini ==
  /\ program = "exiting" /\ program' = "gone"
  /\ CloseFile
  /\ UNCHANGED <<instrCount, tracing_on, curr_instr, out, calls, executed>>

Step(t) ==
  \/ \E i \in Instr : BeginInstruction(t, i)
  \/ BranchOrNot(t) \/ RegRead(t) \/ RegWrite(t) \/ MemoryRead(t) \/ MemoryWrite(t)
  \/ EndInstruction(t)

Next == (\E t \in Thread : Step(t)) \/ Exit \/ Fini

Spec == Init /\ [][Next]_vars
-----------------------------------------------------------------------------
(* The type invariant.                                                     *)
TypeOK ==
  /\ instrCount \in Nat /\ tracing_on \in BOOLEAN /\ output_file_closed \in BOOLEAN
  /\ closes \in Nat /\ program \in {"running", "exiting", "gone"}
  /\ curr_instr.branch \in {"no", "not taken", "taken"}
  /\ curr_instr.source_registers \in [1 .. NUM_INSTR_SOURCES -> 0 .. Byte - 1]
  /\ curr_instr.destination_registers \in [1 .. NUM_INSTR_DESTINATIONS -> 0 .. Byte - 1]

(* What a record of the trace should hold, said without the loops: the     *)
(* first operands of each kind that are not 0 and have not occurred.       *)
Slots(operands, n) ==
  LET fresh == {k \in DOMAIN operands :
                  operands[k] # 0 /\ \A j \in 1 .. k - 1 : operands[j] # operands[k]}
      nth(m) == {k \in fresh : Cardinality({j \in fresh : j < k}) = m - 1}
  IN  [m \in 1 .. n |-> IF nth(m) = {} THEN 0 ELSE operands[CHOOSE k \in nth(m) : TRUE]]

Bytes(registers) == [k \in DOMAIN registers |-> registers[k] % Byte]

Addresses(i, write) == [k \in DOMAIN i.memory |->
  IF i.memory[k].write = write THEN i.memory[k].addr ELSE 0]

RecordOf(i) ==
  [branch |-> i.branch,
   source_registers |-> Slots(Bytes(i.reads), NUM_INSTR_SOURCES),
   destination_registers |-> Slots(Bytes(i.writes), NUM_INSTR_DESTINATIONS),
   source_memory |-> Slots(Addresses(i, FALSE), NUM_INSTR_SOURCES),
   destination_memory |-> Slots(Addresses(i, TRUE), NUM_INSTR_DESTINATIONS)]

(* The trace is the program from the first instruction after Skip on, each *)
(* instruction with its own operands, wherever tracing starts and stops    *)
(* (champsim_tracer.cpp:77-109).  It is complete when the program has      *)
(* ended, the first instruction that is not traced ends it, and the file   *)
(* is closed once, by that instruction or by Fini.                         *)
TraceFaithful ==
  /\ \A k \in DOMAIN out : out[k] = RecordOf(executed[Skip + k])
  /\ program # "running" =>
       Len(out) = (IF instrCount > Skip + Trace THEN Trace
                   ELSE IF instrCount > Skip THEN instrCount - Skip ELSE 0)
  /\ instrCount <= Skip + Trace + 1
  /\ closes <= 1 /\ (output_file_closed <=> closes = 1)
  /\ program = "gone" => closes = 1
  /\ program = "running" => closes = 0
=============================================================================
