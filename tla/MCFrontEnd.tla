----------------------------- MODULE MCFrontEnd ----------------------------
(* Buffers of two or three and an STA that fits them exactly; two lines.   *)
EXTENDS FrontEnd

CONSTANTS lineA, lineB

Kind(l, o, s) == [line |-> l, outcome |-> o, stores |-> s]
Mixed == {Kind(lineA, "plain", 0), Kind(lineA, "mispredicted", 1), Kind(lineB, "taken", 1)}
=============================================================================
