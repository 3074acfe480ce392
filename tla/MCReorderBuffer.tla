---------------------------- MODULE MCReorderBuffer ----------------------------
(* Short traces over two registers and two addresses, and cores with a     *)
(* handful of entries, so that rings wrap and queues fill up.              *)
EXTENDS ReorderBuffer

CONSTANTS r1, r2, a1, a2  \* model values

Op(rd, wr, ld, st) == [reads |-> rd, writes |-> wr, loads |-> ld, stores |-> st]

Alu      == Op({}, {r1}, << >>, << >>)
AluDep   == Op({r1}, {r2}, << >>, << >>)
Both     == Op({r1, r2}, {r2}, << >>, << >>)
Load     == Op({}, {r1}, << a1 >>, << >>)
LoadDep  == Op({r1}, {r2}, << a2 >>, << >>)
Store    == Op({r2}, {}, << >>, << a1 >>)
StoreDep == Op({r1}, {}, << >>, << a1 >>)
Modify   == Op({r1}, {}, << a1 >>, << a1 >>)
Gather   == Op({}, {r2}, << a1, a2 >>, << >>)
Move     == Op({}, {}, << a1 >>, << a2 >>)

(* Traces of five with dependences through r1, r2 and a1, one more than    *)
(* the ROB holds; and of three with instructions that need several slots.  *)
Narrow == {<< u, w, x, y, z >> : u \in {Load, Store}, w \in {AluDep, LoadDep, Alu}, x \in {Store, Modify},
                                 y \in {Alu, Modify, Load}, z \in {Load, Gather}}
Broad  == {<< x, y, z >> : x \in {Load, StoreDep}, y \in {Modify, Gather, Move},
                           z \in {Gather, Modify, Store, Both}}

(* Traces with an instruction that stores twice, into two slots of SQ, and *)
(* loads that take their data from both stores or from one.                *)
Scatter   == Op({}, {}, << >>, << a1, a2 >>)
Scattered == {<< x, y, z >> : x \in {Scatter, StoreDep}, y \in {Scatter, Gather, Alu}, z \in {Gather, Load, Modify}}
Traces    == Narrow \cup Scattered

(* A load waits for a store that waits for a load.                         *)
HoldAndWait == {<< Alu, LoadDep, Store, Load >>}

(* One of the two stores of an instruction is overtaken by a later one.    *)
Overtaken == {<< Scatter, Op({}, {}, << >>, << a1 >>), Gather >>}

(* What OpsKept and AssertsHold assume of the traces, but for this one.    *)
ASSUME ApartAssumption == StoresApart <=> Programs # Overtaken
================================================================================
