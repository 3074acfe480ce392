--------------------------- MODULE MCDramController ---------------------------
(* Two banks; two of the three blocks share a bank and lie in different    *)
(* rows of it.  The requests of the first cycles fill both queues, and the *)
(* controller then runs until it has served them.                          *)
EXTENDS DramController

CONSTANTS x1, x2, x3, b1, b2

MCBankOf == [x \in Addr |-> IF x = x3 THEN b2 ELSE b1]
MCRowOf  == [x \in Addr |-> IF x = x2 THEN 2 ELSE 1]
Sizes    == [q \in Queue |-> IF q = "RQ" THEN 2 ELSE 3]
===============================================================================
