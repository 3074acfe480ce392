---------------------------- MODULE MCPageTable ----------------------------
(* Instances of PageTable: frames 0 to 3, of which a run may leave the     *)
(* range that draw_rand() has.                                             *)
EXTENDS PageTable

OneCore == {0}
Code == {2, 4}
Data == {1, 3}
CodeOnly == {2}
DataOnly == {1}
DrawnFrames == {0, 1, 2}
RunLengths == {1, 2}
=============================================================================
