------------------------------ MODULE InOrderCore ------------------------------
(***************************************************************************)
(* What the back end of the core promises: the instructions of a trace     *)
(* take effect one after the other, in program order.  A load gets its     *)
(* data from the last store before it to the same address, and the stores  *)
(* of an instruction come after its loads.                                 *)
(***************************************************************************)
EXTENDS Naturals, Sequences

CONSTANTS Addr, Programs

VARIABLES
  program,   \* a sequence of instructions, of which loads and stores matter here
  retired,   \* how many of them have taken effect
  memory,    \* per address: the last instruction that stored to it, or 0
  seen       \* per load operand: whose data it got

Init ==
  /\ program \in Programs
  /\ retired = 0 /\ memory = [a \in Addr |-> 0] /\ seen = {}

Step ==
  /\ retired < Len(program)
  /\ LET n == retired + 1
         c == program[n]
     IN /\ retired' = n
        /\ seen' = seen \cup {[id |-> n, op |-> j, from |-> memory[c.loads[j]]] : j \in DOMAIN c.loads}
        /\ memory' = [a \in Addr |-> IF \E k \in DOMAIN c.stores : c.stores[k] = a THEN n ELSE memory[a]]
  /\ UNCHANGED program

Spec == Init /\ [][Step]_<< program, retired, memory, seen >>
================================================================================
