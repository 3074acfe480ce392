--------------------------- MODULE LruReplacement --------------------------
(***************************************************************************)
(* The LRU replacement of a set (replacement/base_replacement.cc, called   *)
(* by the handlers of src/cache.cc).  Each way has a position, 0 for the   *)
(* one used last; older is what the positions stand for: the pairs of ways *)
(* of which the first was used longer ago.                                 *)
(***************************************************************************)
EXTENDS Integers

CONSTANT NUM_WAY

ASSUME WayAssumption == NUM_WAY \in Nat \ {0}

VARIABLES valid, lru, older

lru_vars == <<valid, lru, older>>

Way == 0 .. NUM_WAY - 1

(* The constructor of CACHE; no way has been used, the last is the oldest. *)
LruInit ==
  /\ valid = [w \in Way |-> FALSE]
  /\ lru = [w \in Way |-> w]
  /\ older = {pair \in Way \X Way : pair[1] > pair[2]}

(* Mutant: positions that are equal to the way's move as well.             *)
MutPromotedAll(w) == [i \in Way |-> IF i = w THEN 0 ELSE lru[i] + 1]

(* lru_update.                                                             *)
Promoted(w) == [i \in Way |->
  IF i = w THEN 0 ELSE IF lru[i] < lru[w] THEN lru[i] + 1 ELSE lru[i]]

Used(w) ==
  /\ lru' = Promoted(w)
  /\ older' = {pair \in Way \X Way :
       pair[1] # w /\ (pair[1] # pair[2]) /\ (pair[2] = w \/ pair \in older)}

(* lru_victim: the first invalid way, or the way at the last position.     *)
Invalid == {w \in Way : ~valid[w]}

IsVictim(w) ==
  IF Invalid # {} THEN w \in Invalid /\ \A v \in Invalid : w <= v
  ELSE lru[w] = NUM_WAY - 1 /\ \A v \in Way : lru[v] = NUM_WAY - 1 => w <= v

(* A fill; also of a block that was written back.                          *)
Fill(w) ==
  /\ IsVictim(w)
  /\ valid' = [valid EXCEPT ![w] = TRUE] /\ Used(w)

(* A hit of a load, a store or a prefetch.  One of a writeback does not    *)
(* count as a use (base_replacement.cc:11-14).                             *)
Hit(w) == valid[w] /\ Used(w) /\ UNCHANGED valid

(* invalidate_entry keeps the position.                                    *)
InvalidateEntry(w) ==
  /\ valid[w] /\ valid' = [valid EXCEPT ![w] = FALSE]
  /\ UNCHANGED <<lru, older>>

LruNext == \E w \in Way : Fill(w) \/ Hit(w) \/ InvalidateEntry(w)

LruSpec == LruInit /\ [][LruNext]_lru_vars
-----------------------------------------------------------------------------
(* The type invariant of the ways.                                         *)
LruTypeOK == valid \in [Way -> BOOLEAN] /\ lru \in [Way -> Way]

(* Each position has one way: the search for the last position ends with a *)
(* way, so "no victim!" (base_replacement.cc:50-53) is never reached.      *)
Positions ==
  /\ \A v, w \in Way : lru[v] = lru[w] => v = w
  /\ \A n \in Way : \E w \in Way : lru[w] = n

(* The positions are the order of use: when all ways are valid the victim  *)
(* is the way that was used longest ago, through invalidations too.        *)
VictimOldest ==
  /\ Positions
  /\ older = {pair \in Way \X Way : lru[pair[1]] > lru[pair[2]]}
=============================================================================
