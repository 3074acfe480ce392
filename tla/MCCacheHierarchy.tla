--------------------------- MODULE MCCacheHierarchy ---------------------------
(* Small hierarchies for TLC: direct-mapped sets and queues of one or two  *)
(* entries, so that evictions, merges and full queues happen at once.      *)
EXTENDS CacheHierarchy, TLC

CONSTANTS d1, d2, i1, w1  \* model values: data blocks, a code block, a word

Split == {"L1I", "L1D", "L2C", "LLC"}
All   == Split \cup {"ITLB", "DTLB", "STLB"}

OneWay == [c \in All |-> 1]
L1ITwo == [c \in All |-> IF c = "L1I" THEN 2 ELSE 1]
Ones   == [c \in All |-> 1]
Twos   == [c \in All |-> 2]

(* Prefetches merge in L2C's prefetch queue.                               *)
Pqs == [c \in All |-> IF c = "L2C" THEN 2 ELSE 1]

(* One miss in flight per first-level cache, two below.                    *)
Mshrs == [c \in All |-> IF c \in FirstLevel THEN 1 ELSE 2]

(* The two data blocks may change places.                                  *)
Symmetry == Permutations({d1, d2})
===============================================================================
