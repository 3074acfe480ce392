--------------------------- MODULE CachePartsProofs --------------------------
(***************************************************************************)
(* The parts of a cache that stand by themselves: the best-offset          *)
(* prefetcher, LRU replacement and PACKET_QUEUE.                           *)
(*                                                                         *)
(* The learning phase ends by "max_score == SCORE_MAX" and the throttle    *)
(* keeps a value that is derived from two others; both are sound for every *)
(* list of offsets and every setting of the limits.  The invariant is the  *)
(* property itself with the types; between the score of an offset and the  *)
(* step to the next one it holds in the form of Tested.                    *)
(*                                                                         *)
(* The delay queue is the list of what was pushed and has not left.  Its   *)
(* invariant adds what the truncated cycle of a slot says of its line.     *)
(*                                                                         *)
(* The positions of lru_update are the order of use, for every number of   *)
(* ways.  The invariant is inductive as it stands: that each position has  *)
(* one way is what makes "the positions below that of w move up by one" a  *)
(* permutation again, and with it the order of the other ways is kept.     *)
(*                                                                         *)
(* PacketQueue is proved for every capacity and every set of addresses:    *)
(* the ring's inductive invariant, its lookup, and that it implements the  *)
(* bounded FIFO of PacketFifo.                                             *)
(***************************************************************************)
EXTENDS RecentRequests, LruReplacement, PacketQueue, SequenceTheorems, WellFoundedInduction, TLAPS

Scores == [score : [Index -> Nat], max_score : Nat, best_offset : Int,
           round : 0 .. ROUND_MAX - 1, p : Index]

Throttle == [mshr_threshold : Int, prefetch_score : 0 .. SCORE_MAX,
             llc_rate : 0 .. LLC_RATE_MAX, llc_rate_gauge : 0 .. GAUGE_MAX]

(* max_score and best_offset belong to the scores.                         *)
Best(s) ==
  /\ \A q \in Index : s.score[q] <= s.max_score
  /\ s.max_score <= SCORE_MAX
  /\ IF s.best_offset = 0 THEN s.max_score = 0
     ELSE \E q \in Index : OFFSET[q] = s.best_offset /\ s.score[q] = s.max_score

(* What ScoresSound says, before offset s.p is tested and after.           *)
Untested(s) ==
  /\ Best(s)
  /\ \A q \in Index : /\ s.score[q] <= s.round + (IF q < s.p THEN 1 ELSE 0)
                      /\ q >= s.p => s.score[q] < SCORE_MAX

Tested(s) ==
  /\ Best(s)
  /\ \A q \in Index : /\ s.score[q] <= s.round + (IF q <= s.p THEN 1 ELSE 0)
                      /\ q > s.p => s.score[q] < SCORE_MAX

Fresh(t) == t.mshr_threshold = Threshold(t.llc_rate, t.prefetch_score)

(* The definitions are those of the model.                                 *)
LEMMA SoundMeans == ScoresSound <=> Untested(os)
BY DEF ScoresSound, Untested, Best

-------------------------------------------------------------------------------
(* What the assumption says, one constant at a time.                       *)
LEMMA BoConstants ==
  /\ NOFFSETS \in Nat \ {0} /\ SCORE_MAX \in Nat \ {0} /\ ROUND_MAX \in Nat \ {0}
  /\ \A q \in Index : q \in Nat /\ q <= NOFFSETS - 1 /\ OFFSET[q] \in Int \ {0}
  /\ 0 \in Index
<1>1. /\ NOFFSETS \in Nat \ {0} /\ SCORE_MAX \in Nat \ {0} /\ ROUND_MAX \in Nat \ {0}
      /\ OFFSET \in [0 .. NOFFSETS - 1 -> Int \ {0}]
  BY BoAssumption
<1> QED BY <1>1 DEF Index

(* The threshold is a number.                                              *)
LEMMA ThresholdType ==
  ASSUME NEW rate \in 0 .. LLC_RATE_MAX, NEW score \in 0 .. SCORE_MAX
  PROVE  Threshold(rate, score) \in Int
<1> DEFINE spread == (MSHR_THRESHOLD_MAX - MSHR_THRESHOLD_MIN) * (rate - BANDWIDTH)
<1>1. spread \in Int /\ BANDWIDTH \in Nat \ {0}
      /\ MSHR_THRESHOLD_MIN \in Int /\ MSHR_THRESHOLD_MAX \in Int
  BY BoAssumption
<1>2. spread \div BANDWIDTH \in Int
  <2> HIDE DEF spread
  <2> QED BY <1>1
<1>3. MSHR_THRESHOLD_MIN + spread \div BANDWIDTH \in Int
  <2> HIDE DEF spread
  <2> QED BY <1>1, <1>2
<1> QED BY <1>1, <1>3 DEF Threshold

(* A fresh computation makes the throttle fresh.                           *)
LEMMA UpdatedFresh ==
  ASSUME NEW t \in Throttle
  PROVE  Updated(t) \in Throttle /\ Fresh(Updated(t))
<1>1. Threshold(t.llc_rate, t.prefetch_score) \in Int
  BY ThresholdType DEF Throttle
<1> QED BY <1>1 DEF Updated, Throttle, Fresh

(* An access of the LLC keeps it fresh, whatever the time since the last.  *)
LEMMA AccessedFresh ==
  ASSUME NEW t \in Throttle, Fresh(t), NEW dt \in Nat
  PROVE  Accessed(t, dt) \in Throttle /\ Fresh(Accessed(t, dt))
<1> DEFINE gauge == t.llc_rate_gauge + dt - t.llc_rate
<1>0. gauge \in Int /\ GAUGE_MAX \in Nat /\ LLC_RATE_MAX \in Nat
  <2>1. GAUGE_MAX \in Nat /\ LLC_RATE_MAX \in Nat
    BY BoAssumption
  <2>2. t.llc_rate_gauge \in 0 .. GAUGE_MAX /\ t.llc_rate \in 0 .. LLC_RATE_MAX
    BY DEF Throttle
  <2> QED BY <2>1, <2>2
<1>1. CASE gauge > GAUGE_MAX
  <2>1. Accessed(t, dt) = Full(t)
    BY <1>1 DEF Accessed
  <2>2. CASE t.llc_rate < LLC_RATE_MAX
    <3> DEFINE u == [t EXCEPT !.llc_rate_gauge = GAUGE_MAX, !.llc_rate = @ + 1]
    <3>0. t.llc_rate + 1 \in 0 .. LLC_RATE_MAX /\ GAUGE_MAX \in 0 .. GAUGE_MAX
      BY <1>0, <2>2 DEF Throttle
    <3>1. u \in Throttle
      BY <3>0 DEF Throttle
    <3>2. Full(t) = Updated(u)
      BY <2>2 DEF Full
    <3> HIDE DEF u
    <3> QED BY <2>1, <3>1, <3>2, UpdatedFresh
  <2>3. CASE ~(t.llc_rate < LLC_RATE_MAX)
    BY <1>0, <2>1, <2>3 DEF Full, Throttle, Fresh
  <2> QED BY <2>2, <2>3
<1>2. CASE ~(gauge > GAUGE_MAX) /\ gauge < 0
  <2>1. Accessed(t, dt) = Drained(t)
    BY <1>2 DEF Accessed
  <2>2. CASE t.llc_rate > 0
    <3> DEFINE u == [t EXCEPT !.llc_rate_gauge = 0, !.llc_rate = @ - 1]
    <3>0. t.llc_rate - 1 \in 0 .. LLC_RATE_MAX /\ 0 \in 0 .. GAUGE_MAX
      BY <1>0, <2>2 DEF Throttle
    <3>1. u \in Throttle
      BY <3>0 DEF Throttle
    <3>2. Drained(t) = Updated(u)
      BY <2>2 DEF Drained
    <3> HIDE DEF u
    <3> QED BY <2>1, <3>1, <3>2, UpdatedFresh
  <2>3. CASE ~(t.llc_rate > 0)
    BY <1>0, <2>1, <2>3 DEF Drained, Throttle, Fresh
  <2> QED BY <2>2, <2>3
<1>3. CASE ~(gauge > GAUGE_MAX) /\ ~(gauge < 0)
  <2>1. Accessed(t, dt) = [t EXCEPT !.llc_rate_gauge = gauge]
    BY <1>3 DEF Accessed
  <2>2. gauge \in 0 .. GAUGE_MAX
    BY <1>0, <1>3
  <2> HIDE DEF gauge
  <2> QED BY <2>1, <2>2 DEF Throttle, Fresh
<1> QED BY <1>1, <1>2, <1>3
-------------------------------------------------------------------------------
(* The score of the offset whose turn it is may rise by one.               *)
LEMMA ScoredTested ==
  ASSUME NEW s \in Scores, Untested(s), NEW hit \in BOOLEAN
  PROVE  Scored(s, hit) \in Scores /\ Tested(Scored(s, hit))
<1> DEFINE n == s.score[s.p] + 1
           r == Scored(s, hit)
<1>0. /\ s.p \in Index /\ s.score \in [Index -> Nat] /\ s.max_score \in Nat
      /\ s.best_offset \in Int /\ s.round \in Nat
      /\ SCORE_MAX \in Nat /\ n \in Nat /\ OFFSET[s.p] \in Int \ {0}
      /\ \A q \in Index : q \in Int /\ s.score[q] \in Nat
  <2>1. /\ s.p \in Index /\ s.score \in [Index -> Nat] /\ s.max_score \in Nat
        /\ s.best_offset \in Int /\ s.round \in 0 .. ROUND_MAX - 1
    BY DEF Scores
  <2> QED BY <2>1, BoConstants
<1>1. CASE ~hit
  <2>1. r = s
    BY <1>1 DEF Scored
  <2> HIDE DEF r
  <2>2. \A q \in Index : s.score[q] <= s.round + (IF q <= s.p THEN 1 ELSE 0)
    BY <1>0 DEF Untested
  <2>3. \A q \in Index : q > s.p => s.score[q] < SCORE_MAX
    BY <1>0 DEF Untested
  <2> QED BY <2>1, <2>2, <2>3 DEF Untested, Tested, r
<1>2. CASE hit
  <2>1. /\ r.score = [s.score EXCEPT ![s.p] = n]
        /\ r.max_score = IF n >= s.max_score THEN n ELSE s.max_score
        /\ r.best_offset = IF n >= s.max_score THEN OFFSET[s.p] ELSE s.best_offset
        /\ r.round = s.round /\ r.p = s.p
        /\ r \in Scores
    BY <1>0, <1>2 DEF Scored, Scores
  <2> HIDE DEF r
  <2>2. /\ \A q \in Index : r.score[q] = IF q = s.p THEN n ELSE s.score[q]
        /\ n <= SCORE_MAX /\ n <= s.round + 1
    BY <1>0, <2>1 DEF Untested
  <2>3. \A q \in Index : r.score[q] <= r.max_score
    BY <1>0, <2>1, <2>2 DEF Untested, Best
  <2>4. r.max_score <= SCORE_MAX
    BY <1>0, <2>1, <2>2 DEF Untested, Best
  <2>5. IF r.best_offset = 0 THEN r.max_score = 0
        ELSE \E q \in Index : OFFSET[q] = r.best_offset /\ r.score[q] = r.max_score
    <3>1. CASE n >= s.max_score
      <4>1. r.best_offset = OFFSET[s.p] /\ r.best_offset # 0 /\ r.score[s.p] = r.max_score
        BY <1>0, <2>1, <2>2, <3>1
      <4> QED BY <1>0, <4>1
    <3>2. CASE ~(n >= s.max_score)
      <4>1. r.best_offset = s.best_offset /\ r.max_score = s.max_score
        BY <2>1, <3>2
      <4>2. s.best_offset # 0
        BY <1>0, <3>2 DEF Untested, Best
      <4>3. PICK q \in Index : OFFSET[q] = s.best_offset /\ s.score[q] = s.max_score
        BY <4>2 DEF Untested, Best
      <4>4. q # s.p
        BY <1>0, <3>2, <4>3
      <4> QED BY <2>2, <4>1, <4>2, <4>3, <4>4
    <3> QED BY <3>1, <3>2
  <2>6. \A q \in Index : r.score[q] <= r.round + (IF q <= r.p THEN 1 ELSE 0)
    BY <1>0, <2>1, <2>2 DEF Untested
  <2>7. \A q \in Index : q > r.p => r.score[q] < SCORE_MAX
    BY <1>0, <2>1, <2>2 DEF Untested
  <2> QED BY <2>1, <2>3, <2>4, <2>5, <2>6, <2>7 DEF Tested, Best, r
<1> QED BY <1>1, <1>2

(* If the phase goes on, every score is still below SCORE_MAX at the start *)
(* of a round: this is what the test for equality relies on.               *)
LEMMA NextUntested ==
  ASSUME NEW s \in Scores, Tested(s), ~PhaseOver(s)
  PROVE  NextTest(s) \in Scores /\ Untested(NextTest(s))
<1> DEFINE r == NextTest(s)
<1>0. /\ s.p \in Index /\ s.score \in [Index -> Nat] /\ s.max_score \in Nat
      /\ s.best_offset \in Int /\ s.round \in 0 .. ROUND_MAX - 1
      /\ \A q \in Index : q \in Nat /\ q <= NOFFSETS - 1 /\ s.score[q] \in Nat
  <2>1. /\ s.p \in Index /\ s.score \in [Index -> Nat] /\ s.max_score \in Nat
        /\ s.best_offset \in Int /\ s.round \in 0 .. ROUND_MAX - 1
    BY DEF Scores
  <2> QED BY <2>1, BoConstants
<1>1. CASE s.p = NOFFSETS - 1
  <2>1. s.max_score # SCORE_MAX /\ s.round + 1 # ROUND_MAX
    BY <1>1 DEF PhaseOver
  <2>2. /\ r.score = s.score /\ r.max_score = s.max_score /\ r.best_offset = s.best_offset
        /\ r.round = s.round + 1 /\ r.p = 0
        /\ r \in Scores
    <3>1. s.round + 1 \in 0 .. ROUND_MAX - 1 /\ 0 \in Index
      BY <1>0, <2>1, BoConstants
    <3>2. r = [s EXCEPT !.round = @ + 1, !.p = 0]
      BY <1>1 DEF NextTest
    <3> QED BY <3>1, <3>2 DEF Scores
  <2> HIDE DEF r
  <2>3. Best(r)
    BY <2>2 DEF Tested, Best
  <2>4. \A q \in Index : s.score[q] < SCORE_MAX
    BY <1>0, <2>1, BoConstants DEF Tested, Best
  <2>5. \A q \in Index : s.score[q] <= s.round + 1
    BY <1>0, <1>1 DEF Tested
  <2>6. \A q \in Index : r.score[q] <= r.round + (IF q < r.p THEN 1 ELSE 0)
    BY <1>0, <2>2, <2>5
  <2> QED BY <1>0, <2>2, <2>3, <2>4, <2>6 DEF Untested, r
<1>2. CASE s.p # NOFFSETS - 1
  <2>1. /\ r.score = s.score /\ r.max_score = s.max_score /\ r.best_offset = s.best_offset
        /\ r.round = s.round /\ r.p = s.p + 1
        /\ r \in Scores
    <3>1. s.p + 1 \in Index
      BY <1>0, <1>2, BoConstants DEF Index
    <3>2. r = [s EXCEPT !.p = @ + 1]
      BY <1>2 DEF NextTest
    <3> QED BY <3>1, <3>2 DEF Scores
  <2> HIDE DEF r
  <2>2. Best(r)
    BY <2>1 DEF Tested, Best
  <2>3. \A q \in Index : (q < r.p <=> q <= s.p) /\ (q >= r.p <=> q > s.p)
    BY <1>0, <2>1
  <2> QED BY <1>0, <2>1, <2>2, <2>3 DEF Tested, Untested, r
<1> QED BY <1>1, <1>2

(* The empty scores of a new phase.                                        *)
LEMMA ResetUntested == os_reset \in Scores /\ Untested(os_reset)
<1>1. {SCORE_MAX, ROUND_MAX, NOFFSETS} \subseteq Nat \ {0}
  BY BoAssumption
<1>2. /\ os_reset.score = [q \in Index |-> 0] /\ os_reset.max_score = 0
      /\ os_reset.best_offset = 0 /\ os_reset.round = 0 /\ os_reset.p = 0
  BY DEF os_reset
<1>3. os_reset \in Scores
  BY <1>1 DEF os_reset, Scores, Index
<1>4. Best(os_reset)
  BY <1>1, <1>2 DEF Best
<1> QED BY <1>1, <1>2, <1>3, <1>4 DEF Untested, Index
-------------------------------------------------------------------------------
(* The types and the property, as one inductive invariant.                 *)
BoInv == BoTypeOK /\ LearningSound

(* It speaks of the records.                                               *)
LEMMA InvMeans ==
  BoInv <=> prefetch_offset \in Int /\ os \in Scores /\ Untested(os) /\ pt \in Throttle /\ Fresh(pt)
BY SoundMeans DEF BoInv, BoTypeOK, LearningSound, ThrottleFresh, Fresh, Scores, Throttle

(* bo_prefetcher_initialize establishes it: a throttle with the highest    *)
(* score has the highest threshold.                                        *)
LEMMA BoInitially == BoInit => BoInv
<1> SUFFICES ASSUME BoInit PROVE BoInv
  OBVIOUS
<1>0. /\ SCORE_MAX \in Nat /\ LOW_SCORE \in Nat /\ LOW_SCORE < SCORE_MAX
      /\ GAUGE_MAX \in Nat /\ LLC_RATE_MAX \in Nat /\ MSHR_THRESHOLD_MAX \in Nat
  BY BoAssumption
<1>1. prefetch_offset \in Int
  BY BoAssumption DEF BoInit
<1>2. os \in Scores /\ Untested(os)
  BY ResetUntested DEF BoInit
<1>3. GAUGE_MAX \div 2 \in 0 .. GAUGE_MAX
  BY <1>0
<1>4. pt \in Throttle
  BY <1>0, <1>3 DEF BoInit, Throttle
<1>5. Fresh(pt)
  BY <1>0 DEF BoInit, Fresh, Threshold
<1> QED BY <1>1, <1>2, <1>4, <1>5, InvMeans

(* bo_prefetcher_operate keeps it.                                         *)
LEMMA BoOperates ==
  ASSUME BoInv, NEW l2_hit \in BOOLEAN, NEW dt \in 0 .. TIME - 1, NEW hit \in BOOLEAN,
         NEW held, NEW taken \in BOOLEAN, BoOperate(l2_hit, dt, hit, held, taken)
  PROVE  BoInv'
<1> DEFINE s == Scored(os, hit)
           a == IF l2_hit THEN pt ELSE Accessed(pt, dt)
           t == Learnt(a, s)
<1>0. prefetch_offset \in Int /\ os \in Scores /\ Untested(os) /\ pt \in Throttle /\ Fresh(pt)
  BY InvMeans
<1>1. /\ os' = IF PhaseOver(s) THEN os_reset ELSE NextTest(s)
      /\ prefetch_offset' = IF PhaseOver(s) THEN NewOffset(s) ELSE prefetch_offset
      /\ pt' = Accessed(t, 0) \/ pt' = Accessed(t, dt) \/ pt' = t
  BY DEF BoOperate
<1>2. s \in Scores /\ Tested(s)
  BY <1>0, ScoredTested
<1>3. dt \in Nat /\ a \in Throttle /\ Fresh(a)
  <2>1. dt \in Nat
    BY BoAssumption
  <2> QED BY <1>0, <2>1, AccessedFresh
<1> HIDE DEF s, a
<1>4. t \in Throttle /\ Fresh(t)
  <2>1. CASE PhaseOver(s)
    <3> DEFINE u == [a EXCEPT !.prefetch_score = s.max_score]
    <3>1. s.max_score \in 0 .. SCORE_MAX
      BY <1>2, BoAssumption DEF Scores, Tested, Best
    <3>2. u \in Throttle
      BY <1>3, <3>1 DEF Throttle
    <3>3. t = Updated(u)
      BY <2>1 DEF Learnt
    <3> HIDE DEF u, t
    <3> QED BY <3>2, <3>3, UpdatedFresh
  <2>2. CASE ~PhaseOver(s)
    BY <1>3, <2>2 DEF Learnt
  <2> QED BY <2>1, <2>2
<1> HIDE DEF t
<1>5. pt' \in Throttle /\ Fresh(pt)'
  <2>1. pt' \in Throttle /\ Fresh(pt')
    BY <1>1, <1>3, <1>4, AccessedFresh
  <2> QED BY <2>1 DEF Fresh, Threshold
<1>6. os' \in Scores /\ Untested(os')
  BY <1>1, <1>2, NextUntested, ResetUntested
<1>7. prefetch_offset' \in Int
  BY <1>0, <1>1, <1>2, BoAssumption DEF NewOffset, Scores
<1>8. BoTypeOK'
  BY <1>5, <1>6, <1>7 DEF BoTypeOK, Scores, Throttle, Index
<1>9. ScoresSound'
  BY <1>6 DEF ScoresSound, Untested, Best, Index
<1>10. ThrottleFresh'
  BY <1>5 DEF ThrottleFresh, Fresh
<1> QED BY <1>8, <1>9, <1>10 DEF BoInv, LearningSound

(* A step that changes nothing.                                            *)
LEMMA BoStutters == BoInv /\ UNCHANGED bo_vars => BoInv'
BY DEF BoInv, BoTypeOK, LearningSound, ScoresSound, ThrottleFresh, Threshold, Index, bo_vars

(* Theorem.  For every list of offsets and all limits: no score passes     *)
(* SCORE_MAX, so the phase ends by the equality; max_score and best_offset *)
(* belong to one offset that was tested; and the threshold is never stale. *)
THEOREM LearningIsSound == BoSpec => []LearningSound
<1>1. BoInv /\ [BoNext]_bo_vars => BoInv'
  <2> SUFFICES ASSUME BoInv, [BoNext]_bo_vars PROVE BoInv'
    OBVIOUS
  <2>1. CASE BoNext
    BY <2>1, BoOperates DEF BoNext
  <2>2. CASE UNCHANGED bo_vars
    BY <2>2, BoStutters
  <2> QED BY <2>1, <2>2
<1>2. BoInv => LearningSound
  BY DEF BoInv
<1> QED BY <1>1, <1>2, BoInitially, PTL DEF BoSpec
-------------------------------------------------------------------------------
(* The delay queue.  Its slots, without the remainder.                     *)
At(h, k) == IF h + k < DELAYQSIZE THEN h + k ELSE h + k - DELAYQSIZE

Slots == 0 .. DELAYQSIZE - 1

Waiting == [line : Line, age : 0 .. DELAY]

Rings == [lineaddr : [Slots -> Line \cup {0}], cycle : [Slots -> 0 .. TIME - 1],
          valid : [Slots -> BOOLEAN], head : Slots, tail : Slots]

(* The ring q holds the list s, oldest at the head, and nothing else.      *)
Holds(q, s) ==
  /\ q \in Rings /\ s \in Seq(Waiting) /\ Len(s) <= DELAYQSIZE
  /\ q.tail = At(q.head, Len(s))
  /\ \A k \in Slots :
       /\ q.valid[At(q.head, k)] <=> k < Len(s)
       /\ k < Len(s) => q.lineaddr[At(q.head, k)] = s[k + 1].line

(* While a line is younger than DELAY, its slot tells its age.             *)
Dated(q, s) == \A k \in Slots :
  k < Len(s) /\ s[k + 1].age < DELAY =>
    now = (q.cycle[At(q.head, k)] + s[k + 1].age) % TIME

RrInv == Holds(dq, pending) /\ Dated(dq, pending) /\ now \in 0 .. TIME - 1

(* What the assumptions say of the constants.                              *)
LEMMA RrConstants ==
  /\ DELAYQSIZE \in Nat /\ DELAYQSIZE >= 1
  /\ DELAY \in Nat /\ TIME \in Nat /\ DELAY < TIME /\ TIME >= 1
<1>1. TIME \in Nat
  BY BoAssumption
<1> QED BY <1>1, RrAssumption

LEMMA Wrap ==
  ASSUME NEW z \in Nat, z >= 1, NEW x \in 0 .. 2 * z - 1
  PROVE  x % z = IF x < z THEN x ELSE x - z
<1>1. CASE x < z
  BY <1>1
<1>2. CASE ~(x < z)
  BY <1>2
<1> QED BY <1>1, <1>2

LEMMA WrapSum ==
  ASSUME NEW z \in Nat, z >= 1, NEW x \in 0 .. z - 1, NEW y \in 0 .. z
  PROVE  (x + y) % z = IF x + y < z THEN x + y ELSE x + y - z
<1> DEFINE n == x + y
<1>1. n \in 0 .. 2 * z - 1
  OBVIOUS
<1> HIDE DEF n
<1>2. n % z = IF n < z THEN n ELSE n - z
  BY <1>1, Wrap
<1> QED BY <1>2 DEF n

LEMMA AheadAt ==
  ASSUME NEW q, q.head \in Slots, NEW k \in 0 .. DELAYQSIZE
  PROVE  Ahead(q, k) = At(q.head, k)
<1>1. q.head \in 0 .. DELAYQSIZE - 1
  BY DEF Slots
<1> QED BY <1>1, RrConstants, WrapSum DEF Ahead, At

(* A slot is one and the same place, counted from the head or from beyond. *)
LEMMA AtIs ==
  ASSUME NEW h \in Slots, NEW k \in 0 .. DELAYQSIZE
  PROVE  /\ At(h, k) \in Slots
         /\ At(h, 0) = h /\ At(h, DELAYQSIZE) = h
         /\ Incremented(h) = At(h, 1)
BY RrConstants DEF At, Slots, Incremented

LEMMA AtOnce ==
  ASSUME NEW h \in Slots, NEW k \in Slots, NEW j \in Slots, At(h, k) = At(h, j)
  PROVE  k = j
BY RrConstants DEF At, Slots

LEMMA AtAt ==
  ASSUME NEW h \in Slots, NEW n \in 0 .. DELAYQSIZE, NEW k \in 0 .. DELAYQSIZE
  PROVE  At(At(h, n), k) = IF n + k <= DELAYQSIZE THEN At(h, n + k) ELSE At(h, n + k - DELAYQSIZE)
BY RrConstants DEF At, Slots

LEMMA EverySlot ==
  ASSUME NEW h \in Slots, NEW i \in Slots
  PROVE  \E k \in Slots : i = At(h, k)
<1>1. CASE i >= h
  <2>1. i - h \in Slots /\ i = At(h, i - h)
    BY <1>1, RrConstants DEF At, Slots
  <2> QED BY <2>1
<1>2. CASE ~(i >= h)
  <2>1. i - h + DELAYQSIZE \in Slots /\ i = At(h, i - h + DELAYQSIZE)
    BY <1>2, RrConstants DEF At, Slots
  <2> QED BY <2>1
<1> QED BY <1>1, <1>2

-------------------------------------------------------------------------------
(* How many lines are ripe: the first that is not ends the count.          *)
LEMMA RipeIs ==
  ASSUME NEW q
  PROVE  /\ Ripe(q) \in 0 .. DELAYQSIZE
         /\ \A k \in 0 .. Ripe(q) - 1 : Ready(q, Ahead(q, k))
         /\ Ripe(q) = DELAYQSIZE \/ ~Ready(q, Ahead(q, Ripe(q)))
<1> DEFINE Ends(n) == n = DELAYQSIZE \/ ~Ready(q, Ahead(q, n))
           T == {n \in 0 .. DELAYQSIZE : Ends(n)}
<1>1. T \subseteq Nat /\ DELAYQSIZE \in T
  BY RrConstants
<1>2. PICK n \in T : \A m \in T : ~(<<m, n>> \in OpToRel(<, Nat))
  BY <1>1, NatLessThanWellFounded, WFMin
<1>3. \A m \in T : ~(m < n)
  BY <1>1, <1>2 DEF OpToRel
<1>4. n \in 0 .. DELAYQSIZE /\ Ends(n)
  BY <1>2
<1>5. ASSUME NEW k \in 0 .. n - 1 PROVE Ready(q, Ahead(q, k))
  <2>1. k \in 0 .. DELAYQSIZE /\ k < n
    BY <1>4, RrConstants
  <2>2. ~Ends(k)
    BY <2>1, <1>3
  <2> QED BY <2>2
<1> QED BY <1>4, <1>5 DEF Ripe

(* A slot that is ripe holds a line, as old as DELAY.                      *)
LEMMA RipeIsOld ==
  ASSUME NEW q, NEW s, Holds(q, s), Dated(q, s), now \in 0 .. TIME - 1,
         NEW k \in Slots, Ready(q, At(q.head, k))
  PROVE  k < Len(s) /\ s[k + 1].age >= DELAY
<1>1. k < Len(s)
  BY DEF Ready, Holds
<1> DEFINE c == q.cycle[At(q.head, k)]
           a == s[k + 1].age
<1>2. c \in 0 .. TIME - 1 /\ a \in 0 .. DELAY
  <2>1. q.head \in Slots /\ q.cycle \in [Slots -> 0 .. TIME - 1] /\ s \in Seq(Waiting)
    BY DEF Holds, Rings
  <2>2. k \in 0 .. DELAYQSIZE
    BY RrConstants DEF Slots
  <2>3. At(q.head, k) \in Slots
    BY <2>1, <2>2, AtIs
  <2>4. k + 1 \in 1 .. Len(s)
    BY <1>1, <2>1 DEF Slots
  <2>5. s[k + 1] \in Waiting
    BY <2>1, <2>4, ElementOfSeq
  <2> QED BY <2>1, <2>3, <2>5 DEF Waiting
<1>3. SUFFICES ASSUME a < DELAY PROVE FALSE
  BY <1>1, <1>2, RrConstants
<1>4. now = (c + a) % TIME
  BY <1>1, <1>3 DEF Dated
<1>5. LET ready == (c + DELAY) % TIME
      IN  IF ready >= c THEN now < c \/ now >= ready ELSE now < c /\ now >= ready
  BY DEF Ready
<1> HIDE DEF c, a
<1>6. TIME \in Nat /\ TIME >= 1 /\ a \in 0 .. TIME /\ DELAY \in 0 .. TIME
  BY <1>2, RrConstants
<1>7. (c + a) % TIME = IF c + a < TIME THEN c + a ELSE c + a - TIME
  BY <1>2, <1>6, WrapSum
<1>8. (c + DELAY) % TIME = IF c + DELAY < TIME THEN c + DELAY ELSE c + DELAY - TIME
  BY <1>2, <1>6, WrapSum
<1> QED BY <1>2, <1>3, <1>4, <1>5, <1>7, <1>8, RrConstants

(* What remains of a list.                                                 *)
LEMMA RestIs ==
  ASSUME NEW S, NEW s \in Seq(S), NEW n \in 0 .. Len(s)
  PROVE  /\ Rest(s, n) \in Seq(S) /\ Len(Rest(s, n)) = Len(s) - n
         /\ \A k \in 1 .. Len(s) - n : Rest(s, n)[k] = s[k + n]
<1>1. n + 1 \in Int /\ Len(s) \in Int
  OBVIOUS
<1>2. \A i \in n + 1 .. Len(s) : s[i] \in S
  BY ElementOfSeq
<1> QED BY <1>1, <1>2, SubSeqProperties DEF Rest

LEMMA RestRest ==
  ASSUME NEW S, NEW s \in Seq(S), NEW n \in 0 .. Len(s), NEW m \in 0 .. Len(s) - n
  PROVE  Rest(Rest(s, n), m) = Rest(s, n + m)
<1> DEFINE r == Rest(s, n)
<1>1. r \in Seq(S) /\ Len(r) = Len(s) - n
      /\ \A k \in 1 .. Len(s) - n : r[k] = s[k + n]
  BY RestIs
<1> HIDE DEF r
<1>2. /\ Rest(r, m) \in Seq(S) /\ Len(Rest(r, m)) = Len(s) - n - m
      /\ \A k \in 1 .. Len(s) - n - m : Rest(r, m)[k] = r[k + m]
  <2>1. m \in 0 .. Len(r) /\ Len(r) - m = Len(s) - n - m
    BY <1>1
  <2> QED BY <1>1, <2>1, RestIs
<1>3. n + m \in 0 .. Len(s)
  OBVIOUS
<1>4. /\ Rest(s, n + m) \in Seq(S) /\ Len(Rest(s, n + m)) = Len(s) - (n + m)
      /\ \A k \in 1 .. Len(s) - (n + m) : Rest(s, n + m)[k] = s[k + (n + m)]
  BY <1>3, RestIs
<1>5. \A k \in 1 .. Len(s) - n - m : Rest(r, m)[k] = Rest(s, n + m)[k]
  BY <1>1, <1>2, <1>4
<1>6. Rest(r, m) = Rest(s, n + m)
  BY <1>2, <1>4, <1>5, SeqEqual
<1> QED BY <1>6 DEF r
-------------------------------------------------------------------------------
(* dq_pop takes no more than there is.                                     *)
LEMMA RipeIsThere ==
  ASSUME NEW q, NEW s, Holds(q, s)
  PROVE  Ripe(q) \in 0 .. Len(s)
<1>1. /\ Ripe(q) \in 0 .. DELAYQSIZE
      /\ \A k \in 0 .. Ripe(q) - 1 : Ready(q, Ahead(q, k))
  BY RipeIs
<1>2. Len(s) \in Nat /\ Len(s) <= DELAYQSIZE /\ q.head \in Slots
  BY DEF Holds, Rings
<1>3. SUFFICES ASSUME Len(s) < Ripe(q) PROVE FALSE
  BY <1>1, <1>2, RrConstants
<1>4. Len(s) \in 0 .. Ripe(q) - 1 /\ Len(s) \in 0 .. DELAYQSIZE /\ Len(s) \in Slots
  BY <1>1, <1>2, <1>3, RrConstants DEF Slots
<1>5. q.valid[At(q.head, Len(s))]
  BY <1>1, <1>2, <1>4, AheadAt DEF Ready
<1> QED BY <1>2, <1>4, <1>5 DEF Holds

(* dq_pop leaves the rest of the list in the ring.                         *)
LEMMA PopKeeps ==
  ASSUME NEW q, NEW s, Holds(q, s), Dated(q, s)
  PROVE  Holds(Popped(q), Rest(s, Ripe(q))) /\ Dated(Popped(q), Rest(s, Ripe(q)))
<1> DEFINE n == Ripe(q)
           r == Rest(s, n)
           g == Popped(q)
<1>1. n \in 0 .. Len(s)
  BY RipeIsThere
<1>2. /\ q \in Rings /\ q.head \in Slots /\ s \in Seq(Waiting)
      /\ Len(s) \in Nat /\ Len(s) <= DELAYQSIZE /\ n \in 0 .. DELAYQSIZE
  BY <1>1, RipeIs DEF Holds, Rings
<1>3. /\ r \in Seq(Waiting) /\ Len(r) = Len(s) - n
      /\ \A k \in 1 .. Len(s) - n : r[k] = s[k + n]
  BY <1>1, <1>2, RestIs
<1>4. g \in Rings /\ g.head = At(q.head, n) /\ g.tail = q.tail
      /\ g.lineaddr = q.lineaddr /\ g.cycle = q.cycle
      /\ \A i \in Slots : g.valid[i] <=> q.valid[i] /\ \A k \in 0 .. n - 1 : i # At(q.head, k)
  <2>1. \A k \in 0 .. n : Ahead(q, k) = At(q.head, k)
    BY <1>2, RrConstants, AheadAt
  <2>2. n \in 0 .. n /\ \A k \in 0 .. n - 1 : k \in 0 .. n
    BY <1>2, RrConstants
  <2>3. DOMAIN q.valid = Slots
    BY <1>2 DEF Rings
  <2>4. At(q.head, n) \in Slots
    BY <1>2, AtIs
  <2> DEFINE w == [i \in Slots |-> q.valid[i] /\ \A k \in 0 .. n - 1 : i # Ahead(q, k)]
  <2>5. g = [q EXCEPT !.valid = w, !.head = At(q.head, n)]
    BY <2>1, <2>2, <2>3 DEF Popped
  <2>6. w \in [Slots -> BOOLEAN]
    OBVIOUS
  <2>7. \A i \in Slots : w[i] <=> q.valid[i] /\ \A k \in 0 .. n - 1 : i # At(q.head, k)
    BY <2>1, <2>2
  <2> HIDE DEF w, g, n
  <2> QED BY <1>2, <2>4, <2>5, <2>6, <2>7 DEF Rings
<1> HIDE DEF n, r, g
<1>5. \A k \in 0 .. DELAYQSIZE :
        At(g.head, k) = IF n + k <= DELAYQSIZE THEN At(q.head, n + k) ELSE At(q.head, n + k - DELAYQSIZE)
  BY <1>2, <1>4, AtAt
<1>6. g.tail = At(g.head, Len(r))
  <2>1. Len(r) \in 0 .. DELAYQSIZE /\ n + Len(r) = Len(s) /\ n + Len(r) <= DELAYQSIZE
    BY <1>1, <1>2, <1>3, RrConstants
  <2> QED BY <1>4, <1>5, <2>1 DEF Holds
<1>7. ASSUME NEW k \in Slots
      PROVE  /\ g.valid[At(g.head, k)] <=> k < Len(r)
             /\ k < Len(r) => /\ g.lineaddr[At(g.head, k)] = r[k + 1].line
                              /\ n + k \in Slots /\ n + k < Len(s)
                              /\ r[k + 1] = s[n + k + 1]
                              /\ At(g.head, k) = At(q.head, n + k)
  <2>1. k \in 0 .. DELAYQSIZE /\ k \in Nat /\ k < DELAYQSIZE
    BY RrConstants DEF Slots
  <2>2. At(g.head, k) \in Slots
    BY <1>4, <2>1, AtIs DEF Rings
  <2>3. CASE n + k < DELAYQSIZE
    <3>1. n + k \in Slots /\ At(g.head, k) = At(q.head, n + k)
      BY <1>2, <1>5, <2>1, <2>3, RrConstants DEF Slots
    <3>2. q.valid[At(q.head, n + k)] <=> n + k < Len(s)
      BY <3>1 DEF Holds
    <3>3. ASSUME NEW j \in 0 .. n - 1 PROVE At(q.head, n + k) # At(q.head, j)
      <4>1. j \in Slots /\ j # n + k
        BY <1>2, <2>1, RrConstants DEF Slots
      <4> QED BY <1>2, <3>1, <4>1, AtOnce
    <3>4. g.valid[At(g.head, k)] <=> n + k < Len(s)
      BY <1>4, <2>2, <3>1, <3>2, <3>3
    <3>5. n + k < Len(s) <=> k < Len(r)
      BY <1>2, <1>3, <2>1
    <3>6. ASSUME k < Len(r)
          PROVE  r[k + 1] = s[n + k + 1] /\ g.lineaddr[At(g.head, k)] = r[k + 1].line
      <4>1. k + 1 \in 1 .. Len(s) - n /\ k + 1 + n = n + k + 1
        BY <1>2, <1>3, <2>1, <3>6
      <4>2. r[k + 1] = s[n + k + 1]
        BY <1>3, <4>1
      <4>3. q.lineaddr[At(q.head, n + k)] = s[n + k + 1].line
        BY <3>1, <3>5, <3>6 DEF Holds
      <4> QED BY <1>4, <3>1, <4>2, <4>3
    <3> QED BY <3>1, <3>4, <3>5, <3>6
  <2>4. CASE n + k >= DELAYQSIZE
    <3> DEFINE j == n + k - DELAYQSIZE
    <3>1. j \in 0 .. n - 1 /\ ~(k < Len(r))
      BY <1>2, <1>3, <2>1, <2>4, RrConstants
    <3>2. At(g.head, k) = At(q.head, j)
      <4>1. CASE n + k = DELAYQSIZE
        <5>1. n + k <= DELAYQSIZE /\ j = 0
          BY <1>2, <2>1, <4>1, RrConstants
        <5>2. At(g.head, k) = At(q.head, n + k)
          BY <1>5, <2>1, <5>1
        <5>3. At(g.head, k) = At(q.head, DELAYQSIZE)
          BY <4>1, <5>2
        <5>4. At(q.head, DELAYQSIZE) = q.head /\ At(q.head, 0) = q.head
          BY <1>2, AtIs, RrConstants
        <5> QED BY <5>1, <5>3, <5>4
      <4>2. CASE n + k > DELAYQSIZE
        BY <1>2, <1>5, <2>1, <4>2, RrConstants
      <4> QED BY <1>2, <2>1, <2>4, <4>1, <4>2, RrConstants
    <3>3. ~g.valid[At(g.head, k)]
      BY <1>4, <2>2, <3>1, <3>2
    <3> QED BY <3>1, <3>3
  <2> QED BY <1>2, <2>1, <2>3, <2>4, RrConstants
<1>8. Holds(g, r)
  <2>1. Len(r) <= DELAYQSIZE
    BY <1>1, <1>2, <1>3, RrConstants
  <2> QED BY <1>3, <1>4, <1>6, <1>7, <2>1 DEF Holds
<1>9. Dated(g, r)
  <2> SUFFICES ASSUME NEW k \in Slots, k < Len(r), r[k + 1].age < DELAY
               PROVE  now = (g.cycle[At(g.head, k)] + r[k + 1].age) % TIME
    BY DEF Dated
  <2>1. /\ n + k \in Slots /\ n + k < Len(s) /\ r[k + 1] = s[n + k + 1]
        /\ At(g.head, k) = At(q.head, n + k)
    BY <1>7
  <2>2. now = (q.cycle[At(q.head, n + k)] + s[n + k + 1].age) % TIME
    BY <2>1 DEF Dated
  <2> QED BY <1>4, <2>1, <2>2
<1> QED BY <1>8, <1>9 DEF g, r, n
-------------------------------------------------------------------------------
(* What dq_push puts out: the oldest line of a full ring.                  *)
LEMMA OverflowIs ==
  ASSUME NEW q, NEW s, Holds(q, s)
  PROVE  IF Overflows(q) THEN Len(s) = DELAYQSIZE ELSE Len(s) < DELAYQSIZE
<1>1. Len(s) \in Nat /\ Len(s) <= DELAYQSIZE /\ q.head \in Slots /\ q.tail = At(q.head, Len(s))
  BY DEF Holds, Rings
<1>2. CASE Len(s) = DELAYQSIZE
  <2>1. 0 \in Slots /\ 0 < Len(s)
    BY <1>2, RrConstants DEF Slots
  <2>2. q.valid[At(q.head, 0)]
    BY <2>1 DEF Holds
  <2>3. DELAYQSIZE \in 0 .. DELAYQSIZE
    BY RrConstants
  <2>4. q.tail = At(q.head, 0)
    BY <1>1, <1>2, <2>3, AtIs
  <2> QED BY <1>2, <2>2, <2>4 DEF Overflows
<1>3. CASE Len(s) # DELAYQSIZE
  <2>1. Len(s) \in Slots /\ Len(s) < DELAYQSIZE
    BY <1>1, <1>3, RrConstants DEF Slots
  <2>2. ~q.valid[At(q.head, Len(s))]
    BY <1>1, <2>1 DEF Holds
  <2> QED BY <1>1, <2>1, <2>2 DEF Overflows
<1> QED BY <1>2, <1>3

(* dq_push appends a line, when the ring is full too.                      *)
LEMMA PushKeeps ==
  ASSUME NEW q, NEW s, Holds(q, s), Dated(q, s), now \in 0 .. TIME - 1, NEW line \in Line,
         NEW m, m = IF Overflows(q) THEN 1 ELSE 0
  PROVE  /\ m \in 0 .. Len(s)
         /\ Holds(Pushed(q, line), Append(Rest(s, m), Young(line)))
         /\ Dated(Pushed(q, line), Append(Rest(s, m), Young(line)))
<1> DEFINE r == Rest(s, m)
           u == Append(r, Young(line))
           g == Pushed(q, line)
           e == Len(s) - m
<1>1. /\ q \in Rings /\ q.head \in Slots /\ s \in Seq(Waiting) /\ q.tail = At(q.head, Len(s))
      /\ Len(s) \in Nat /\ Len(s) <= DELAYQSIZE
  BY DEF Holds, Rings
<1>2. /\ m \in 0 .. Len(s) /\ m \in 0 .. 1 /\ e \in Slots /\ e + 1 <= DELAYQSIZE
      /\ m = 1 => Overflows(q) /\ Len(s) = DELAYQSIZE
      /\ m = 0 => ~Overflows(q)
  BY <1>1, OverflowIs, RrConstants DEF Slots
<1>3. Young(line) \in Waiting
  BY RrConstants DEF Young, Waiting
<1>4. r \in Seq(Waiting) /\ Len(r) = e /\ \A k \in 1 .. e : r[k] = s[k + m]
  BY <1>1, <1>2, RestIs
<1> HIDE DEF r
<1>5. /\ u \in Seq(Waiting) /\ Len(u) = e + 1 /\ u[e + 1] = Young(line)
      /\ \A k \in 1 .. e : u[k] = s[k + m]
  BY <1>3, <1>4, AppendProperties
<1>6. m \in 0 .. DELAYQSIZE /\ e \in 0 .. DELAYQSIZE /\ 1 \in 0 .. DELAYQSIZE
  BY <1>1, <1>2, RrConstants
<1>7. At(q.head, m) = IF Overflows(q) THEN Incremented(q.head) ELSE q.head
  BY <1>1, <1>2, <1>6, AtIs
<1>8. /\ g \in Rings /\ g.head = At(q.head, m) /\ g.tail = Incremented(q.tail)
      /\ g.lineaddr = [q.lineaddr EXCEPT ![q.tail] = line]
      /\ g.cycle = [q.cycle EXCEPT ![q.tail] = now]
      /\ g.valid = [q.valid EXCEPT ![q.tail] = TRUE]
  <2>1. q.tail \in Slots /\ Incremented(q.tail) \in Slots /\ At(q.head, m) \in Slots
    <3>1. q.tail \in Slots
      BY <1>1 DEF Rings
    <3>2. At(q.tail, 1) \in Slots /\ Incremented(q.tail) = At(q.tail, 1)
      BY <1>6, <3>1, AtIs
    <3>3. At(q.head, m) \in Slots
      BY <1>1, <1>6, AtIs
    <3> QED BY <3>1, <3>2, <3>3
  <2>2. g = [lineaddr |-> [q.lineaddr EXCEPT ![q.tail] = line],
             cycle |-> [q.cycle EXCEPT ![q.tail] = now],
             valid |-> [q.valid EXCEPT ![q.tail] = TRUE],
             head |-> At(q.head, m), tail |-> Incremented(q.tail)]
    <3>1. g = [q EXCEPT !.head = At(q.head, m), !.lineaddr[q.tail] = line,
                        !.cycle[q.tail] = now, !.valid[q.tail] = TRUE, !.tail = Incremented(@)]
      BY <1>7 DEF Pushed
    <3> HIDE DEF g
    <3> QED BY <1>1, <3>1 DEF Rings
  <2> HIDE DEF g
  <2> QED BY <1>1, <2>1, <2>2 DEF Rings
<1>9. g.head \in Slots
  BY <1>8 DEF Rings
<1> HIDE DEF u, g
<1>10. \A k \in 0 .. DELAYQSIZE :
         At(g.head, k) = IF m + k <= DELAYQSIZE THEN At(q.head, m + k) ELSE At(q.head, m + k - DELAYQSIZE)
  BY <1>1, <1>6, <1>8, AtAt
<1>11. q.tail = At(g.head, e)
  <2>1. m + e = Len(s) /\ m + e <= DELAYQSIZE
    BY <1>1, <1>2
  <2> QED BY <1>1, <1>6, <1>10, <2>1
<1>12. g.tail = At(g.head, Len(u))
  <2>1. Incremented(q.tail) = At(q.tail, 1)
    BY <1>1, <1>6, AtIs DEF Rings
  <2>2. At(At(g.head, e), 1) = At(g.head, e + 1)
    BY <1>2, <1>6, <1>9, AtAt
  <2> QED BY <1>5, <1>8, <1>11, <2>1, <2>2
<1>13. ASSUME NEW k \in Slots, k # e
       PROVE  /\ At(g.head, k) \in Slots /\ At(g.head, k) # q.tail
              /\ k < Len(u) => /\ k < e /\ m + k \in Slots /\ m + k < Len(s)
                               /\ u[k + 1] = s[m + k + 1]
                               /\ At(g.head, k) = At(q.head, m + k)
              /\ ~(k < Len(u)) => ~q.valid[At(g.head, k)]
  <2>1. k \in 0 .. DELAYQSIZE /\ k \in Nat /\ k < DELAYQSIZE
    BY RrConstants DEF Slots
  <2>2. At(g.head, k) \in Slots /\ At(g.head, k) # q.tail
    <3>1. At(g.head, k) \in Slots
      BY <1>9, <2>1, AtIs
    <3>2. At(g.head, k) # At(g.head, e)
      BY <1>2, <1>9, <1>13, AtOnce
    <3> QED BY <1>11, <3>1, <3>2
  <2>3. CASE k < Len(u)
    <3>1. k < e /\ m + k < Len(s) /\ m + k \in Slots /\ k + 1 \in 1 .. e
          /\ m + k <= DELAYQSIZE /\ k + 1 + m = m + k + 1
      BY <1>1, <1>2, <1>5, <1>13, <2>1, <2>3, RrConstants DEF Slots
    <3> QED BY <1>5, <1>10, <2>1, <2>2, <2>3, <3>1
  <2>4. CASE ~(k < Len(u))
    <3>1. e + 1 <= k
      BY <1>2, <1>5, <2>1, <2>4, RrConstants DEF Slots
    <3>2. m = 0 /\ m + k <= DELAYQSIZE /\ ~(k < Len(s))
      BY <1>1, <1>2, <2>1, <3>1, RrConstants
    <3>3. At(g.head, k) = At(q.head, k)
      BY <1>10, <2>1, <3>2
    <3> QED BY <2>2, <2>4, <3>2, <3>3 DEF Holds
  <2> QED BY <2>2, <2>3, <2>4
<1>14. Holds(g, u)
  <2>1. ASSUME NEW k \in Slots
        PROVE  /\ g.valid[At(g.head, k)] <=> k < Len(u)
               /\ k < Len(u) => g.lineaddr[At(g.head, k)] = u[k + 1].line
    <3>1. CASE k = e
      <4>1. g.valid[q.tail] /\ g.lineaddr[q.tail] = line
        BY <1>1, <1>8 DEF Rings
      <4>2. k < Len(u) /\ u[k + 1].line = line
        BY <1>2, <1>5, <3>1, RrConstants DEF Young, Slots
      <4> QED BY <1>11, <3>1, <4>1, <4>2
    <3>2. CASE k # e
      <4>1. /\ g.valid[At(g.head, k)] = q.valid[At(g.head, k)]
            /\ g.lineaddr[At(g.head, k)] = q.lineaddr[At(g.head, k)]
        BY <1>1, <1>8, <1>13, <3>2 DEF Rings
      <4>2. CASE k < Len(u)
        <5>1. /\ m + k \in Slots /\ m + k < Len(s) /\ u[k + 1] = s[m + k + 1]
              /\ At(g.head, k) = At(q.head, m + k)
          BY <1>13, <3>2, <4>2
        <5>2. q.valid[At(q.head, m + k)] /\ q.lineaddr[At(q.head, m + k)] = s[m + k + 1].line
          BY <5>1 DEF Holds
        <5> QED BY <4>1, <4>2, <5>1, <5>2
      <4>3. CASE ~(k < Len(u))
        BY <1>13, <3>2, <4>1, <4>3
      <4> QED BY <4>2, <4>3
    <3> QED BY <3>1, <3>2
  <2>2. Len(u) <= DELAYQSIZE
    BY <1>2, <1>5
  <2> QED BY <1>5, <1>8, <1>12, <2>1, <2>2 DEF Holds
<1>15. Dated(g, u)
  <2> SUFFICES ASSUME NEW k \in Slots, k < Len(u), u[k + 1].age < DELAY
               PROVE  now = (g.cycle[At(g.head, k)] + u[k + 1].age) % TIME
    BY DEF Dated
  <2>1. CASE k = e
    <3>1. g.cycle[q.tail] = now /\ u[k + 1].age = 0
      BY <1>1, <1>5, <1>8, <2>1 DEF Rings, Young
    <3>2. TIME \in Nat /\ TIME >= 1 /\ 0 \in 0 .. TIME
      BY RrConstants
    <3>3. (now + 0) % TIME = now
      <4>1. (now + 0) % TIME = IF now + 0 < TIME THEN now + 0 ELSE now + 0 - TIME
        BY <3>2, WrapSum
      <4> DEFINE n == (now + 0) % TIME
      <4>2. n = IF now + 0 < TIME THEN now + 0 ELSE now + 0 - TIME
        BY <4>1
      <4> HIDE DEF n
      <4>3. n = now
        BY <3>2, <4>2
      <4> QED BY <4>3 DEF n
    <3> QED BY <1>11, <2>1, <3>1, <3>3
  <2>2. CASE k # e
    <3>1. /\ m + k \in Slots /\ m + k < Len(s) /\ u[k + 1] = s[m + k + 1]
          /\ At(g.head, k) = At(q.head, m + k)
      BY <1>13, <2>2
    <3>2. g.cycle[At(g.head, k)] = q.cycle[At(g.head, k)]
      BY <1>1, <1>8, <1>13, <2>2 DEF Rings
    <3>3. now = (q.cycle[At(q.head, m + k)] + s[m + k + 1].age) % TIME
      BY <3>1 DEF Dated
    <3> QED BY <3>1, <3>2, <3>3
  <2> QED BY <2>1, <2>2
<1> QED BY <1>2, <1>14, <1>15 DEF g, u, r
-------------------------------------------------------------------------------
LEMMA RrInitially == RrInit => RrInv
<1> SUFFICES ASSUME RrInit PROVE RrInv
  OBVIOUS
<1>1. dq = [lineaddr |-> [i \in Slots |-> 0], cycle |-> [i \in Slots |-> 0],
            valid |-> [i \in Slots |-> FALSE], head |-> 0, tail |-> 0]
      /\ now = 0 /\ pending = <<>>
  BY DEF RrInit, Slots
<1>2. 0 \in Slots /\ 0 \in 0 .. TIME - 1 /\ 0 \in 0 .. DELAYQSIZE
  BY RrConstants DEF Slots
<1>3. dq \in Rings
  BY <1>1, <1>2 DEF Rings
<1>4. pending \in Seq(Waiting) /\ Len(pending) = 0 /\ Len(pending) <= DELAYQSIZE
  BY <1>1, RrConstants
<1>5. dq.tail = At(dq.head, Len(pending))
  BY <1>1, <1>2, <1>4, AtIs
<1>6. ASSUME NEW k \in Slots PROVE ~(k < Len(pending)) /\ ~dq.valid[At(dq.head, k)]
  <2>1. k \in 0 .. DELAYQSIZE /\ ~(k < Len(pending))
    BY <1>4, RrConstants DEF Slots
  <2>2. At(0, k) \in Slots
    BY <1>2, <2>1, AtIs
  <2> QED BY <1>1, <2>1, <2>2
<1>7. Holds(dq, pending) /\ Dated(dq, pending)
  BY <1>3, <1>4, <1>5, <1>6 DEF Holds, Dated
<1> QED BY <1>1, <1>2, <1>7 DEF RrInv

LEMMA PopSteps == RrInv /\ DqPop => RrInv'
<1> SUFFICES ASSUME RrInv, DqPop PROVE RrInv'
  OBVIOUS
<1>1. Holds(dq, pending) /\ Dated(dq, pending) /\ now \in 0 .. TIME - 1
  BY DEF RrInv
<1>2. Holds(Popped(dq), Rest(pending, Ripe(dq))) /\ Dated(Popped(dq), Rest(pending, Ripe(dq)))
  BY <1>1, PopKeeps
<1>3. dq' = Popped(dq) /\ pending' = Rest(pending, Ripe(dq)) /\ now' = now
  BY DEF DqPop
<1>4. Holds(dq', pending') /\ Dated(dq', pending')
  BY <1>2, <1>3
<1> QED BY <1>1, <1>3, <1>4 DEF RrInv, Holds, Dated

LEMMA PushSteps == ASSUME NEW line \in Line PROVE RrInv /\ DqPopPush(line) => RrInv'
<1> SUFFICES ASSUME RrInv, DqPopPush(line) PROVE RrInv'
  OBVIOUS
<1> DEFINE q == Popped(dq)
           s == Rest(pending, Ripe(dq))
           m == IF Overflows(q) THEN 1 ELSE 0
<1>1. Holds(dq, pending) /\ Dated(dq, pending) /\ now \in 0 .. TIME - 1
  BY DEF RrInv
<1>2. Holds(q, s) /\ Dated(q, s)
  BY <1>1, PopKeeps
<1>3. dq' = Pushed(q, line) /\ now' = now
      /\ pending' = Append(Rest(pending, Ripe(dq) + m), Young(line))
  <2>1. Len(IF Overflows(q) THEN <<q.lineaddr[q.head]>> ELSE <<>>) = m
    OBVIOUS
  <2> HIDE DEF q, m
  <2> QED BY <2>1 DEF DqPopPush, q
<1>4. /\ m \in 0 .. Len(s)
      /\ Holds(Pushed(q, line), Append(Rest(s, m), Young(line)))
      /\ Dated(Pushed(q, line), Append(Rest(s, m), Young(line)))
  <2> HIDE DEF q, s
  <2> QED BY <1>1, <1>2, PushKeeps
<1>5. Rest(s, m) = Rest(pending, Ripe(dq) + m)
  <2>1. pending \in Seq(Waiting) /\ Ripe(dq) \in 0 .. Len(pending)
    BY <1>1, RipeIsThere DEF Holds
  <2>2. Len(s) = Len(pending) - Ripe(dq)
    BY <2>1, RestIs
  <2> HIDE DEF m
  <2> QED BY <1>4, <2>1, <2>2, RestRest
<1> HIDE DEF q, s, m
<1>6. Holds(dq', pending') /\ Dated(dq', pending')
  BY <1>3, <1>4, <1>5
<1> QED BY <1>1, <1>3, <1>6 DEF RrInv, Holds, Dated

(* A cycle ages the lines by one, and the clock with them.                 *)
LEMMA CycleSteps == RrInv /\ Cycle => RrInv'
<1> SUFFICES ASSUME RrInv, Cycle PROVE RrInv'
  OBVIOUS
<1> DEFINE aged(w) == [w EXCEPT !.age = IF @ < DELAY THEN @ + 1 ELSE @]
<1>1. /\ Holds(dq, pending) /\ Dated(dq, pending) /\ now \in 0 .. TIME - 1
      /\ pending \in Seq(Waiting) /\ Len(pending) \in Nat /\ dq \in Rings
  BY DEF RrInv, Holds
<1>2. dq' = dq /\ now' = (now + 1) % TIME /\ pending' = [k \in DOMAIN pending |-> aged(pending[k])]
  BY DEF Cycle
<1>3. ASSUME NEW w \in Waiting
      PROVE  /\ aged(w) \in Waiting /\ aged(w).line = w.line
             /\ aged(w).age < DELAY => aged(w).age = w.age + 1 /\ w.age < DELAY
  <2>1. w.line \in Line /\ w.age \in 0 .. DELAY
    BY DEF Waiting
  <2> DEFINE a == IF w.age < DELAY THEN w.age + 1 ELSE w.age
  <2>2. a \in 0 .. DELAY /\ (a < DELAY => a = w.age + 1 /\ w.age < DELAY)
    BY <2>1, RrConstants
  <2>3. aged(w) = [w EXCEPT !.age = a]
    OBVIOUS
  <2> HIDE DEF a, aged
  <2>4. aged(w) = [line |-> w.line, age |-> a]
    BY <2>3 DEF Waiting
  <2> QED BY <2>1, <2>2, <2>4 DEF Waiting
<1>4. \A k \in 1 .. Len(pending) : pending[k] \in Waiting
  BY <1>1, ElementOfSeq
<1> HIDE DEF aged
<1>5. DOMAIN pending = 1 .. Len(pending)
  BY <1>1
<1>6. /\ pending' \in Seq(Waiting) /\ Len(pending') = Len(pending)
      /\ \A k \in 1 .. Len(pending) : pending'[k] = aged(pending[k])
  <2>1. \A k \in 1 .. Len(pending) : aged(pending[k]) \in Waiting
    BY <1>3, <1>4
  <2>2. pending' = [k \in 1 .. Len(pending) |-> aged(pending[k])]
    BY <1>2, <1>5
  <2>3. pending' \in [1 .. Len(pending) -> Waiting]
    BY <2>1, <2>2
  <2> QED BY <1>1, <2>2, <2>3
<1>7. ASSUME NEW k \in Slots, k < Len(pending)
      PROVE  k + 1 \in 1 .. Len(pending) /\ pending[k + 1] \in Waiting
             /\ pending'[k + 1] = aged(pending[k + 1])
  <2>1. k + 1 \in 1 .. Len(pending)
    BY <1>1, <1>7, RrConstants DEF Slots
  <2> QED BY <1>4, <1>6, <2>1
<1>8. Holds(dq, pending')
  <2>1. Len(pending') <= DELAYQSIZE /\ dq.tail = At(dq.head, Len(pending'))
    BY <1>1, <1>6 DEF Holds
  <2>2. ASSUME NEW k \in Slots
        PROVE  /\ dq.valid[At(dq.head, k)] <=> k < Len(pending')
               /\ k < Len(pending') => dq.lineaddr[At(dq.head, k)] = pending'[k + 1].line
    <3>1. /\ dq.valid[At(dq.head, k)] <=> k < Len(pending)
          /\ k < Len(pending) => dq.lineaddr[At(dq.head, k)] = pending[k + 1].line
      BY <1>1 DEF Holds
    <3> QED BY <1>3, <1>6, <1>7, <3>1
  <2> QED BY <1>1, <1>6, <2>1, <2>2 DEF Holds
<1>9. \A k \in Slots :
        k < Len(pending') /\ pending'[k + 1].age < DELAY =>
          now' = (dq.cycle[At(dq.head, k)] + pending'[k + 1].age) % TIME
  <2> SUFFICES ASSUME NEW k \in Slots, k < Len(pending'), pending'[k + 1].age < DELAY
               PROVE  now' = (dq.cycle[At(dq.head, k)] + pending'[k + 1].age) % TIME
    OBVIOUS
  <2> DEFINE c == dq.cycle[At(dq.head, k)]
             a == pending[k + 1].age
  <2>1. pending[k + 1] \in Waiting /\ pending'[k + 1] = aged(pending[k + 1])
    BY <1>6, <1>7
  <2>2. pending'[k + 1].age = a + 1 /\ a < DELAY /\ a \in 0 .. DELAY - 1 /\ a + 1 < DELAY
    <3>1. a \in 0 .. DELAY
      BY <2>1 DEF Waiting
    <3>2. pending'[k + 1].age = a + 1 /\ a < DELAY
      BY <1>3, <2>1
    <3> HIDE DEF a
    <3> QED BY <3>1, <3>2, RrConstants
  <2>3. now = (c + a) % TIME
    BY <1>1, <1>6, <2>2 DEF Dated
  <2>4. c \in 0 .. TIME - 1
    <3>1. k \in 0 .. DELAYQSIZE /\ dq.head \in Slots /\ dq.cycle \in [Slots -> 0 .. TIME - 1]
      BY <1>1, RrConstants DEF Slots, Rings
    <3>2. At(dq.head, k) \in Slots
      BY <3>1, AtIs
    <3> QED BY <3>1, <3>2
  <2> HIDE DEF c, a
  <2>5. TIME \in Nat /\ TIME >= 1 /\ a \in 0 .. TIME /\ a + 1 \in 0 .. TIME /\ 1 \in 0 .. TIME
    BY <2>2, RrConstants
  <2>6. (c + a) % TIME = IF c + a < TIME THEN c + a ELSE c + a - TIME
    BY <2>4, <2>5, WrapSum
  <2>7. (c + (a + 1)) % TIME = IF c + (a + 1) < TIME THEN c + (a + 1) ELSE c + (a + 1) - TIME
    BY <2>4, <2>5, WrapSum
  <2>8. (now + 1) % TIME = IF now + 1 < TIME THEN now + 1 ELSE now + 1 - TIME
    BY <1>1, <2>5, WrapSum
  <2>9. (now + 1) % TIME = (c + (a + 1)) % TIME
    <3> DEFINE n == (now + 1) % TIME
               m == (c + (a + 1)) % TIME
    <3>1. now = IF c + a < TIME THEN c + a ELSE c + a - TIME
      BY <2>3, <2>6
    <3>2. n = IF now + 1 < TIME THEN now + 1 ELSE now + 1 - TIME
      BY <2>8
    <3>3. m = IF c + (a + 1) < TIME THEN c + (a + 1) ELSE c + (a + 1) - TIME
      BY <2>7
    <3> HIDE DEF n, m
    <3>4. n = m
      BY <1>1, <2>2, <2>4, <2>5, <3>1, <3>2, <3>3
    <3> QED BY <3>4 DEF n, m
  <2> QED BY <1>2, <2>2, <2>9 DEF c
<1>10. now' \in 0 .. TIME - 1
  <2>1. TIME \in Nat /\ TIME >= 1 /\ 1 \in 0 .. TIME
    BY RrConstants
  <2>2. (now + 1) % TIME = IF now + 1 < TIME THEN now + 1 ELSE now + 1 - TIME
    BY <1>1, <2>1, WrapSum
  <2> QED BY <1>1, <1>2, <2>1, <2>2
<1> QED BY <1>2, <1>8, <1>9, <1>10 DEF RrInv, Holds, Dated

LEMMA RrSteps == RrInv /\ [RrNext]_rr_vars => RrInv'
<1> SUFFICES ASSUME RrInv, [RrNext]_rr_vars PROVE RrInv'
  OBVIOUS
<1>1. CASE DqPop
  BY <1>1, PopSteps
<1>2. CASE Cycle
  BY <1>2, CycleSteps
<1>3. CASE \E line \in Line : DqPopPush(line)
  BY <1>3, PushSteps
<1>4. CASE \E line \in Line : CacheFill(line)
  BY <1>4 DEF CacheFill, RrInv, Holds, Dated
<1>5. CASE UNCHANGED rr_vars
  BY <1>5 DEF rr_vars, RrInv, Holds, Dated
<1> QED BY <1>1, <1>2, <1>3, <1>4, <1>5 DEF RrNext

(* The invariant gives what DelayRing says.                                *)
LEMMA RrInvMeans == RrInv => RrTypeOK /\ DelayRing
<1> SUFFICES ASSUME RrInv PROVE RrTypeOK /\ DelayRing
  OBVIOUS
<1>1. /\ Holds(dq, pending) /\ Dated(dq, pending) /\ now \in 0 .. TIME - 1
      /\ dq \in Rings /\ dq.head \in Slots /\ pending \in Seq(Waiting)
      /\ Len(pending) \in Nat /\ Len(pending) <= DELAYQSIZE
  BY DEF RrInv, Holds, Rings
<1>2. RrTypeOK
  BY <1>1 DEF RrTypeOK, Rings, Waiting, Slots
<1>3. \A k \in 0 .. DELAYQSIZE : Ahead(dq, k) = At(dq.head, k)
  BY <1>1, AheadAt
<1>4. dq.tail = Ahead(dq, Len(pending))
  BY <1>1, <1>3, RrConstants DEF Holds
<1>5. ASSUME NEW k \in Slots PROVE Ahead(dq, k) = At(dq.head, k)
  BY <1>3, RrConstants DEF Slots
<1>6. ASSUME NEW k \in 0 .. Len(pending) - 1, Ready(dq, Ahead(dq, k))
      PROVE  pending[k + 1].age >= DELAY
  <2>1. k \in Slots
    BY <1>1, RrConstants DEF Slots
  <2> QED BY <1>1, <1>5, <1>6, <2>1, RipeIsOld
<1>7. \A k \in Slots :
        /\ dq.valid[Ahead(dq, k)] <=> k < Len(pending)
        /\ k < Len(pending) => dq.lineaddr[Ahead(dq, k)] = pending[k + 1].line
  BY <1>1, <1>5 DEF Holds
<1>8. DelayRing
  BY <1>4, <1>6, <1>7 DEF DelayRing, Slots
<1> QED BY <1>2, <1>8

(* Theorem.  For a ring of any size, any delay and any width of the times  *)
(* it fits in: the ring holds the lines that were pushed and have not      *)
(* left, oldest at the head, and none leaves as ripe before DELAY cycles.  *)
THEOREM DelayIsKept == RrSpec => [](RrTypeOK /\ DelayRing)
<1> QED BY RrInitially, RrSteps, RrInvMeans, PTL DEF RrSpec

-------------------------------------------------------------------------------
(* Each position has a way.                                                *)
LEMMA PositionTaken ==
  ASSUME Positions, NEW n \in Way
  PROVE  \E w \in Way : lru[w] = n
BY DEF Positions

(* lru_update keeps positions positions.                                   *)
LEMMA PromotedType ==
  ASSUME LruTypeOK, NEW w \in Way
  PROVE  Promoted(w) \in [Way -> Way]
<1>1. \A i \in Way : lru[i] \in Way
  BY DEF LruTypeOK
<1>2. ASSUME NEW i \in Way
      PROVE  (IF i = w THEN 0 ELSE IF lru[i] < lru[w] THEN lru[i] + 1 ELSE lru[i]) \in Way
  BY <1>1, WayAssumption DEF Way
<1> QED BY <1>2 DEF Promoted

(* It gives no two ways one position: those below that of w move up into   *)
(* the place that w leaves, and w goes to the bottom that they leave.      *)
LEMMA PromotedDistinct ==
  ASSUME LruTypeOK, Positions, NEW w \in Way
  PROVE  \A u, v \in Way : Promoted(w)[u] = Promoted(w)[v] => u = v
<1>1. \A u \in Way : lru[u] \in Way
  BY DEF LruTypeOK
<1>2. \A u, v \in Way : lru[u] = lru[v] => u = v
  BY DEF Positions
<1> QED BY <1>1, <1>2, WayAssumption DEF Way, Promoted

(* And every position has a way again.                                     *)
LEMMA PromotedOnto ==
  ASSUME LruTypeOK, Positions, NEW w \in Way, NEW n \in Way
  PROVE  \E v \in Way : Promoted(w)[v] = n
<1>1. lru[w] \in Way
  BY DEF LruTypeOK
<1>2. CASE n = 0
  BY <1>2 DEF Promoted
<1>3. CASE n > 0 /\ n <= lru[w]
  <2>1. n - 1 \in Way
    BY <1>3, WayAssumption DEF Way
  <2>2. PICK v \in Way : lru[v] = n - 1
    BY <2>1, PositionTaken
  <2>3. v # w /\ lru[v] < lru[w] /\ lru[v] + 1 = n
    BY <1>1, <1>3, <2>2 DEF Way
  <2> QED BY <2>3 DEF Promoted
<1>4. CASE n > lru[w]
  <2>1. PICK v \in Way : lru[v] = n
    BY PositionTaken
  <2>2. v # w /\ ~(lru[v] < lru[w])
    BY <1>1, <1>4, <2>1 DEF Way
  <2> QED BY <2>1, <2>2 DEF Promoted
<1> QED BY <1>1, <1>2, <1>3, <1>4 DEF Way

(* The order of the other ways is kept, and w is the youngest.             *)
LEMMA PromotedOrder ==
  ASSUME LruTypeOK, Positions, NEW w \in Way, NEW u \in Way, NEW v \in Way
  PROVE  Promoted(w)[u] > Promoted(w)[v] <=> u # w /\ u # v /\ (v = w \/ lru[u] > lru[v])
<1>1. lru[u] \in Way /\ lru[v] \in Way /\ lru[w] \in Way
  BY DEF LruTypeOK
<1>2. (lru[u] = lru[w] => u = w) /\ (lru[v] = lru[w] => v = w) /\ (lru[u] = lru[v] => u = v)
  BY DEF Positions
<1> QED BY <1>1, <1>2, WayAssumption DEF Way, Promoted

(* A use of w keeps the invariant.                                         *)
LEMMA UsedKeeps ==
  ASSUME LruTypeOK, VictimOldest, NEW w \in Way, Used(w)
  PROVE  lru' \in [Way -> Way] /\ VictimOldest'
<1> USE DEF VictimOldest
<1>1. lru' = Promoted(w) /\ lru' \in [Way -> Way]
  BY PromotedType DEF Used
<1>2. Positions'
  <2>1. \A u, v \in Way : lru'[u] = lru'[v] => u = v
    BY <1>1, PromotedDistinct
  <2>2. \A n \in Way : \E v \in Way : lru'[v] = n
    BY <1>1, PromotedOnto
  <2> QED BY <2>1, <2>2 DEF Positions, Way
<1>3. older' = {pair \in Way \X Way : lru'[pair[1]] > lru'[pair[2]]}
  <2>1. older' = {pair \in Way \X Way :
           pair[1] # w /\ (pair[1] # pair[2]) /\ (pair[2] = w \/ pair \in older)}
    BY DEF Used
  <2>2. ASSUME NEW pair \in Way \X Way
        PROVE  pair \in older' <=> lru'[pair[1]] > lru'[pair[2]]
    <3>1. pair[1] \in Way /\ pair[2] \in Way
      OBVIOUS
    <3>2. pair \in older <=> lru[pair[1]] > lru[pair[2]]
      OBVIOUS
    <3>3. lru'[pair[1]] > lru'[pair[2]] <=>
            pair[1] # w /\ pair[1] # pair[2] /\ (pair[2] = w \/ lru[pair[1]] > lru[pair[2]])
      BY <1>1, <3>1, PromotedOrder
    <3> QED BY <2>1, <3>2, <3>3
  <2> QED BY <2>1, <2>2
<1> QED BY <1>1, <1>2, <1>3 DEF Way

(* The initial order is the order of the ways.                             *)
LEMMA LruInitially == LruInit => LruTypeOK /\ VictimOldest
<1> SUFFICES ASSUME LruInit PROVE LruTypeOK /\ VictimOldest
  OBVIOUS
<1>1. lru = [w \in Way |-> w] /\ \A w \in Way : lru[w] = w
  BY DEF LruInit
<1>2. LruTypeOK
  BY <1>1 DEF LruInit, LruTypeOK
<1>3. Positions
  BY <1>1 DEF Positions
<1>4. older = {pair \in Way \X Way : lru[pair[1]] > lru[pair[2]]}
  BY <1>1 DEF LruInit
<1> QED BY <1>2, <1>3, <1>4 DEF VictimOldest

(* Fills, hits and invalidations keep it.                                  *)
LEMMA LruStep ==
  ASSUME LruTypeOK, VictimOldest, [LruNext]_lru_vars
  PROVE  LruTypeOK' /\ VictimOldest'
<1>1. CASE UNCHANGED lru_vars
  BY <1>1 DEF lru_vars, LruTypeOK, VictimOldest, Positions, Way
<1>2. ASSUME NEW w \in Way, Fill(w) PROVE LruTypeOK' /\ VictimOldest'
  <2>1. Used(w) /\ valid' \in [Way -> BOOLEAN]
    BY <1>2 DEF Fill, LruTypeOK
  <2> QED BY <2>1, UsedKeeps DEF LruTypeOK, Way
<1>3. ASSUME NEW w \in Way, Hit(w) PROVE LruTypeOK' /\ VictimOldest'
  <2>1. Used(w) /\ valid' \in [Way -> BOOLEAN]
    BY <1>3 DEF Hit, LruTypeOK
  <2> QED BY <2>1, UsedKeeps DEF LruTypeOK, Way
<1>4. ASSUME NEW w \in Way, InvalidateEntry(w) PROVE LruTypeOK' /\ VictimOldest'
  BY <1>4 DEF InvalidateEntry, LruTypeOK, VictimOldest, Positions, Way
<1> QED BY <1>1, <1>2, <1>3, <1>4 DEF LruNext

(* Theorem.  For every associativity: each position has exactly one way,   *)
(* so that the search of lru_victim always ends with a victim, and the     *)
(* positions are the order in which the ways were used last.               *)
THEOREM OldestIsVictim == LruSpec => []VictimOldest
<1>1. LruTypeOK /\ VictimOldest /\ [LruNext]_lru_vars => LruTypeOK' /\ VictimOldest'
  BY LruStep
<1> QED BY <1>1, LruInitially, PTL DEF LruSpec

-------------------------------------------------------------------------------
(* The packet queue.                                                       *)

(* How far behind the head an entry is.                                    *)
Offset(i) == IF i >= head THEN i - head ELSE i + SIZE - head

Inv == PqTypeOK /\ RingShape /\ NoDuplicate

USE QueueAssumption DEF Entries

(* EntryAt and Offset are inverse to each other.                              *)
LEMMA EntryOffset ==
  ASSUME PqTypeOK
  PROVE  /\ \A k \in 0 .. SIZE - 1 : EntryAt(k) \in Entries /\ Offset(EntryAt(k)) = k
         /\ \A i \in Entries : Offset(i) \in 0 .. SIZE - 1 /\ EntryAt(Offset(i)) = i
BY DEF PqTypeOK, EntryAt, Offset

(* An entry is live when it is less than occupancy behind the head.        *)
LEMMA LiveOffset ==
  ASSUME PqTypeOK, NEW i \in Entries
  PROVE  i \in Live <=> Offset(i) < occupancy
<1>1. ASSUME i \in Live PROVE Offset(i) < occupancy
  <2>1. PICK k \in 0 .. occupancy - 1 : i = EntryAt(k)
    BY <1>1 DEF Live
  <2>2. k \in 0 .. SIZE - 1
    BY DEF PqTypeOK
  <2>3. Offset(i) = k
    BY <2>1, <2>2, EntryOffset
  <2> QED BY <2>3 DEF PqTypeOK
<1>2. ASSUME Offset(i) < occupancy PROVE i \in Live
  <2>1. Offset(i) \in 0 .. occupancy - 1 /\ EntryAt(Offset(i)) = i
    BY <1>2, EntryOffset DEF PqTypeOK
  <2> QED BY <2>1 DEF Live
<1> QED BY <1>1, <1>2

LEMMA LiveIndex == ASSUME PqTypeOK PROVE Live \subseteq Entries
<1> SUFFICES ASSUME NEW k \in 0 .. occupancy - 1 PROVE EntryAt(k) \in Entries
  BY DEF Live
<1>1. k \in 0 .. SIZE - 1
  BY DEF PqTypeOK
<1> QED BY <1>1, EntryOffset

(* The scan of check_queue visits the live entries and no other.           *)
THEOREM ScanCorrect == Inv => ScanIsLive
<1> SUFFICES ASSUME Inv PROVE Scanned = Live
  BY DEF ScanIsLive
<1>1. Scanned \subseteq Entries
  BY DEF Scanned, Inv, PqTypeOK
<1>2. ASSUME NEW i \in Entries PROVE i \in Scanned <=> Offset(i) < occupancy
  BY DEF Scanned, Offset, Inv, PqTypeOK, RingShape, EntryAt
<1> QED BY <1>1, <1>2, LiveOffset, LiveIndex DEF Inv

(* check_queue returns -1 exactly when no live entry has the address.      *)
LEMMA CheckQueueCorrect ==
  ASSUME Inv, NEW a \in Address
  PROVE  /\ CheckQueue(a) # -1 => CheckQueue(a) \in Live /\ entry[CheckQueue(a)].address = a
         /\ CheckQueue(a) = -1 => \A i \in Live : entry[i].address # a
<1>1. Scanned = Live
  BY ScanCorrect DEF ScanIsLive
<1>2. CASE Matches(a) = {}
  BY <1>1, <1>2 DEF CheckQueue, Matches
<1>3. CASE Matches(a) # {}
  <2>1. CheckQueue(a) \in Matches(a)
    BY <1>3 DEF CheckQueue
  <2>2. CheckQueue(a) \in Live /\ entry[CheckQueue(a)].address = a
    BY <2>1, <1>1 DEF Matches
  <2>3. CheckQueue(a) # -1
    BY <2>2, LiveIndex DEF Inv
  <2> QED BY <2>2, <2>3
<1> QED BY <1>2, <1>3

-------------------------------------------------------------------------------
(* The invariant with the live entries named by their offset, the form in  *)
(* which a step is easiest to follow.                                      *)
OffsetInv ==
  /\ PqTypeOK
  /\ tail = EntryAt(occupancy)
  /\ \A i \in Entries : Offset(i) < occupancy <=> entry[i] # Empty
  /\ \A i, j \in Entries :
       /\ Offset(i) < occupancy
       /\ Offset(j) < occupancy
       /\ entry[i].address = entry[j].address
       => i = j

LEMMA InvOffset == Inv <=> OffsetInv
<1>1. PqTypeOK => \A i \in Entries : i \in Live <=> Offset(i) < occupancy
  BY LiveOffset
<1>2. PqTypeOK => Live \subseteq Entries
  BY LiveIndex
<1> QED BY <1>1, <1>2 DEF Inv, OffsetInv, RingShape, NoDuplicate

LEMMA PacketNotEmpty ==
  \A p \in Packet : p # Empty /\ p.address \in Address
BY DEF Packet, Empty

LEMMA InitInv == PqInit => OffsetInv
BY DEF PqInit, OffsetInv, PqTypeOK, EntryAt, Offset, Empty, Packet

(* A merged packet takes the place of one with the same address.           *)
LEMMA MergeInv ==
  ASSUME OffsetInv, NEW p \in Packet, Merge(p) PROVE OffsetInv'
<1> DEFINE m == CheckQueue(p.address)
<1>1. /\ m \in Entries
      /\ Offset(m) < occupancy
      /\ entry[m].address = p.address
  BY InvOffset, CheckQueueCorrect, LiveIndex, LiveOffset, PacketNotEmpty DEF Merge, OffsetInv
<1>2. /\ entry' = [entry EXCEPT ![m] = p]
      /\ head' = head /\ tail' = tail /\ occupancy' = occupancy
  BY DEF Merge
<1> HIDE DEF m
<1>3. PqTypeOK'
  BY <1>1, <1>2 DEF OffsetInv, PqTypeOK
<1>4. \A i \in Entries : entry'[i].address = entry[i].address
  BY <1>1, <1>2 DEF OffsetInv, PqTypeOK
<1>5. \A i \in Entries : entry'[i] # Empty <=> entry[i] # Empty
  BY <1>1, <1>2, PacketNotEmpty DEF OffsetInv, PqTypeOK
<1> QED BY <1>2, <1>3, <1>4, <1>5 DEF OffsetInv, Offset, EntryAt

(* An appended packet lands on the one blank entry behind the last.        *)
LEMMA EnqueueInv ==
  ASSUME OffsetInv, NEW p \in Packet, Enqueue(p) PROVE OffsetInv'
<1>1. /\ entry' = [entry EXCEPT ![tail] = p]
      /\ occupancy' = occupancy + 1
      /\ tail' = Advance(tail)
      /\ head' = head
      /\ occupancy # SIZE
  BY DEF Enqueue, AddQueue
<1>2. \A i \in Entries : Offset(i) < occupancy => entry[i].address # p.address
  BY InvOffset, CheckQueueCorrect, LiveOffset, PacketNotEmpty DEF Enqueue, OffsetInv
<1>3. PqTypeOK'
  BY <1>1 DEF OffsetInv, PqTypeOK, Advance
<1>4. tail' = EntryAt(occupancy)'
  BY <1>1 DEF OffsetInv, PqTypeOK, Advance, EntryAt
<1>5. \A i \in Entries : Offset(i)' = Offset(i)
  BY <1>1 DEF Offset
<1>6. \A i \in Entries : Offset(i) < occupancy + 1 <=> Offset(i) < occupancy \/ i = tail
  BY <1>1 DEF OffsetInv, PqTypeOK, EntryAt, Offset
<1>7. \A i \in Entries : entry'[i] = IF i = tail THEN p ELSE entry[i]
  BY <1>1 DEF OffsetInv, PqTypeOK
<1>8. \A i \in Entries : (Offset(i) < occupancy)' <=> entry'[i] # Empty
  BY <1>1, <1>5, <1>6, <1>7, PacketNotEmpty DEF OffsetInv
<1>9. ASSUME NEW i \in Entries, NEW j \in Entries,
             Offset(i) < occupancy + 1, Offset(j) < occupancy + 1,
             entry'[i].address = entry'[j].address
      PROVE  i = j
  BY <1>2, <1>6, <1>7, <1>9 DEF OffsetInv
<1> QED BY <1>1, <1>3, <1>4, <1>5, <1>8, <1>9 DEF OffsetInv

(* Serving blanks the head and brings every other entry one place nearer.  *)
LEMMA ServeInv == ASSUME OffsetInv, Serve PROVE OffsetInv'
<1>1. /\ entry' = [entry EXCEPT ![head] = Empty]
      /\ occupancy' = occupancy - 1
      /\ head' = Advance(head)
      /\ tail' = tail
      /\ occupancy > 0
  BY DEF Serve, RemoveQueue
<1>2. PqTypeOK'
  BY <1>1 DEF OffsetInv, PqTypeOK, Advance
<1>3. tail' = EntryAt(occupancy)'
  BY <1>1 DEF OffsetInv, PqTypeOK, Advance, EntryAt
<1>4. \A i \in Entries : Offset(i)' = IF i = head THEN SIZE - 1 ELSE Offset(i) - 1
  BY <1>1 DEF OffsetInv, PqTypeOK, Advance, Offset
<1>5. \A i \in Entries : entry'[i] = IF i = head THEN Empty ELSE entry[i]
  BY <1>1 DEF OffsetInv, PqTypeOK
<1>6. \A i \in Entries : Offset(i) \in 0 .. SIZE - 1
  BY EntryOffset DEF OffsetInv
<1>7. \A i \in Entries :
        (Offset(i) < occupancy)' <=> i # head /\ Offset(i) < occupancy
  <2> SUFFICES ASSUME NEW i \in Entries
               PROVE  Offset(i)' < occupancy' <=> i # head /\ Offset(i) < occupancy
    OBVIOUS
  <2>1. occupancy \in 1 .. SIZE
    BY <1>1 DEF OffsetInv, PqTypeOK
  <2>2. CASE i = head
    BY <1>1, <1>4, <2>1, <2>2
  <2>3. CASE i # head
    BY <1>1, <1>4, <1>6, <2>1, <2>3
  <2> QED BY <2>2, <2>3
<1>8. \A i \in Entries : (Offset(i) < occupancy)' <=> entry'[i] # Empty
  BY <1>5, <1>7 DEF OffsetInv
<1>9. ASSUME NEW i \in Entries, NEW j \in Entries,
             (Offset(i) < occupancy)', (Offset(j) < occupancy)',
             entry'[i].address = entry'[j].address
      PROVE  i = j
  BY <1>5, <1>7, <1>9 DEF OffsetInv
<1> QED BY <1>2, <1>3, <1>8, <1>9 DEF OffsetInv

LEMMA StepInv == OffsetInv /\ [PqNext]_pq_vars => OffsetInv'
<1> SUFFICES ASSUME OffsetInv, [PqNext]_pq_vars PROVE OffsetInv'
  OBVIOUS
<1>1. CASE \E p \in Packet : Merge(p) \/ Enqueue(p)
  BY <1>1, MergeInv, EnqueueInv
<1>2. CASE Serve
  BY <1>2, ServeInv
<1>3. CASE UNCHANGED pq_vars
  BY <1>3 DEF pq_vars, OffsetInv, PqTypeOK, Offset, EntryAt
<1> QED BY <1>1, <1>2, <1>3 DEF PqNext

(***************************************************************************)
(* The ring's counters and entries agree in every reachable state, whatever *)
(* the capacity and however often the ring has wrapped.                    *)
(***************************************************************************)
THEOREM RingInvariant == PqSpec => []Inv
BY InitInv, StepInv, InvOffset, PTL DEF PqSpec

(* The counters and slots are well-formed, and the live slots are those    *)
(* from head to tail.                                                      *)
THEOREM ShapeKept == PqSpec => [](PqTypeOK /\ RingShape)
<1>1. Inv => PqTypeOK /\ RingShape
  BY DEF Inv
<1> QED BY <1>1, RingInvariant, PTL

(* The sanity check of add_queue never fails: head and tail of a ring that *)
(* has room meet only when it is empty.                                    *)
THEOREM SanityCheck == PqSpec => []AssertHolds
<1>1. ASSUME Inv PROVE AssertHolds
  <2> SUFFICES ASSUME occupancy # SIZE, occupancy > 0, head = tail PROVE FALSE
    BY DEF AssertHolds
  <2>1. occupancy \in 1 .. SIZE - 1 /\ head \in Entries
    BY <1>1 DEF Inv, PqTypeOK
  <2>2. Offset(EntryAt(occupancy)) = occupancy
    BY <1>1, <2>1, EntryOffset DEF Inv
  <2>3. EntryAt(occupancy) = head
    BY <1>1 DEF Inv, RingShape
  <2>4. Offset(head) = 0
    BY <2>1 DEF Offset
  <2> QED BY <2>1, <2>2, <2>3, <2>4
<1> QED BY <1>1, RingInvariant, PTL

(* No address ever waits twice in one queue.                               *)
THEOREM UniqueAddresses == PqSpec => []NoDuplicate
<1>1. Inv => NoDuplicate
  BY DEF Inv
<1> QED BY <1>1, RingInvariant, PTL

(* The lookup always visits exactly the entries that wait.                 *)
THEOREM ScanAlwaysLive == PqSpec => []ScanIsLive
BY ScanCorrect, RingInvariant, PTL

-------------------------------------------------------------------------------
(* The refinement: what the steps do to the content from head to tail.     *)

LEMMA ContentType ==
  ASSUME OffsetInv
  PROVE  /\ Content \in Seq(Packet)
         /\ Len(Content) = occupancy
         /\ \A k \in 1 .. occupancy : Content[k] = entry[EntryAt(k - 1)]
         /\ \A k \in 1 .. occupancy : EntryAt(k - 1) \in Entries /\ Offset(EntryAt(k - 1)) = k - 1
<1>1. \A k \in 1 .. occupancy : k - 1 \in 0 .. SIZE - 1
  BY DEF OffsetInv, PqTypeOK
<1>2. \A k \in 1 .. occupancy : EntryAt(k - 1) \in Entries /\ Offset(EntryAt(k - 1)) = k - 1
  BY <1>1, EntryOffset DEF OffsetInv
<1>3. \A k \in 1 .. occupancy : entry[EntryAt(k - 1)] \in Packet
  <2> TAKE k \in 1 .. occupancy
  <2>1. Offset(EntryAt(k - 1)) < occupancy
    BY <1>2 DEF OffsetInv, PqTypeOK
  <2> QED BY <1>2, <2>1 DEF OffsetInv, PqTypeOK
<1>4. occupancy \in Nat
  BY DEF OffsetInv, PqTypeOK
<1>5. Content \in [1 .. occupancy -> Packet]
  BY <1>3 DEF Content
<1> QED BY <1>2, <1>4, <1>5 DEF Content

LEMMA InitFifo == PqInit => Fifo!Init
BY DEF PqInit, Fifo!Init, Content

LEMMA MergeFifo ==
  ASSUME OffsetInv, NEW p \in Packet, Merge(p) PROVE Fifo!Merge(p)
<1> DEFINE m == CheckQueue(p.address)
           n == Offset(m) + 1
<1>1. /\ m \in Entries
      /\ Offset(m) < occupancy
      /\ entry[m].address = p.address
  BY InvOffset, CheckQueueCorrect, LiveIndex, LiveOffset, PacketNotEmpty DEF Merge, OffsetInv
<1>2. /\ entry' = [entry EXCEPT ![m] = p]
      /\ head' = head /\ occupancy' = occupancy
  BY DEF Merge
<1> HIDE DEF m
<1>3. n \in 1 .. occupancy /\ EntryAt(n - 1) = m
  <2>1. Offset(m) \in 0 .. SIZE - 1 /\ EntryAt(Offset(m)) = m
    BY <1>1, EntryOffset DEF OffsetInv
  <2>2. n - 1 = Offset(m)
    BY <2>1
  <2>3. n \in 1 .. occupancy
    BY <1>1, <2>1 DEF OffsetInv, PqTypeOK
  <2> QED BY <2>1, <2>2, <2>3
<1> HIDE DEF n
<1>4. Content[n].address = p.address
  BY <1>1, <1>3, ContentType
<1>5. Content' = [k \in 1 .. occupancy |-> entry'[EntryAt(k - 1)]]
  BY <1>2 DEF Content, EntryAt
<1>6. \A k \in 1 .. occupancy : entry'[EntryAt(k - 1)] = IF k = n THEN p ELSE entry[EntryAt(k - 1)]
  BY <1>1, <1>2, <1>3, ContentType DEF OffsetInv, PqTypeOK
<1>7. Content' = [Content EXCEPT ![n] = p]
  BY <1>3, <1>5, <1>6 DEF Content
<1>8. n \in 1 .. Len(Content)
  BY <1>3, ContentType
<1> QED BY <1>4, <1>7, <1>8 DEF Fifo!Merge

LEMMA EnqueueFifo ==
  ASSUME OffsetInv, NEW p \in Packet, Enqueue(p) PROVE Fifo!Add(p)
<1>1. /\ entry' = [entry EXCEPT ![tail] = p]
      /\ occupancy' = occupancy + 1
      /\ head' = head
      /\ occupancy < SIZE
      /\ occupancy \in Nat
  BY DEF Enqueue, AddQueue, OffsetInv, PqTypeOK
<1>2. \A i \in Entries : Offset(i) < occupancy => entry[i].address # p.address
  BY InvOffset, CheckQueueCorrect, LiveOffset, PacketNotEmpty DEF Enqueue, OffsetInv
<1>3. \A k \in 1 .. Len(Content) : Content[k].address # p.address
  BY <1>1, <1>2, ContentType
<1>4. Content' = [k \in 1 .. occupancy + 1 |-> entry'[EntryAt(k - 1)]]
  BY <1>1 DEF Content, EntryAt
<1>5. \A k \in 1 .. occupancy : EntryAt(k - 1) # tail
  BY <1>1 DEF EntryAt, OffsetInv, PqTypeOK
<1>6. \A k \in 1 .. occupancy : entry'[EntryAt(k - 1)] = Content[k]
  BY <1>1, <1>5, ContentType DEF OffsetInv, PqTypeOK
<1>7. entry'[EntryAt(occupancy)] = p
  BY <1>1 DEF OffsetInv, PqTypeOK
<1>8. /\ Content' \in Seq(Packet)
      /\ Len(Content') = occupancy + 1
      /\ \A k \in 1 .. occupancy : Content'[k] = Content[k]
      /\ Content'[occupancy + 1] = p
  <2>1. \A k \in 1 .. occupancy + 1 :
          Content'[k] = IF k = occupancy + 1 THEN p ELSE Content[k]
    <3> TAKE k \in 1 .. occupancy + 1
    <3>1. Content'[k] = entry'[EntryAt(k - 1)]
      BY <1>4
    <3>2. CASE k = occupancy + 1
      BY <1>1, <1>7, <3>1, <3>2
    <3>3. CASE k \in 1 .. occupancy
      BY <1>1, <1>6, <3>1, <3>3
    <3> QED BY <1>1, <3>2, <3>3
  <2>2. \A k \in 1 .. occupancy : Content[k] \in Packet
    BY ContentType, ElementOfSeq
  <2>3. \A k \in 1 .. occupancy + 1 : Content'[k] \in Packet
    BY <1>1, <2>1, <2>2
  <2>4. Content' \in [1 .. occupancy + 1 -> Packet]
    BY <1>4, <2>3
  <2> QED BY <1>1, <2>1, <2>4
<1>9. Content' = Append(Content, p)
  BY <1>1, <1>8, ContentType, AppendProperties, SeqEqual
<1> QED BY <1>1, <1>3, <1>9, ContentType DEF Fifo!Add

LEMMA ServeFifo == ASSUME OffsetInv, Serve PROVE Fifo!Remove
<1>1. /\ entry' = [entry EXCEPT ![head] = Empty]
      /\ occupancy' = occupancy - 1
      /\ head' = Advance(head)
      /\ occupancy \in Nat \ {0}
  BY DEF Serve, RemoveQueue, OffsetInv, PqTypeOK
<1>2. Content # << >>
  BY <1>1, ContentType
<1>3. \A k \in 1 .. occupancy - 1 : EntryAt(k - 1)' = EntryAt(k)
  BY <1>1 DEF EntryAt, Advance, OffsetInv, PqTypeOK
<1>4. \A k \in 1 .. occupancy - 1 : EntryAt(k) # head /\ EntryAt(k) \in Entries
  BY <1>1 DEF EntryAt, OffsetInv, PqTypeOK
<1>5. Content' = [k \in 1 .. occupancy - 1 |-> entry'[EntryAt(k)]]
  BY <1>1, <1>3 DEF Content
<1>6. \A k \in 1 .. occupancy - 1 : entry'[EntryAt(k)] = Content[k + 1]
  <2> TAKE k \in 1 .. occupancy - 1
  <2>1. entry'[EntryAt(k)] = entry[EntryAt(k)]
    BY <1>1, <1>4 DEF OffsetInv, PqTypeOK
  <2>2. k + 1 \in 1 .. occupancy /\ (k + 1) - 1 = k
    BY <1>1
  <2>3. Content[k + 1] = entry[EntryAt((k + 1) - 1)]
    BY <2>2, ContentType
  <2> QED BY <2>1, <2>2, <2>3
<1>7. /\ Tail(Content) \in Seq(Packet)
      /\ Len(Tail(Content)) = occupancy - 1
      /\ \A k \in 1 .. occupancy - 1 : Tail(Content)[k] = Content[k + 1]
  BY <1>2, ContentType, HeadTailProperties
<1>8. /\ Content' \in Seq(Packet)
      /\ Len(Content') = occupancy - 1
      /\ \A k \in 1 .. occupancy - 1 : Content'[k] = Content[k + 1]
  <2>1. \A k \in 1 .. occupancy - 1 : Content[k + 1] \in Packet
    BY <1>1, ContentType, ElementOfSeq
  <2>2. Content' \in [1 .. occupancy - 1 -> Packet]
    BY <1>5, <1>6, <2>1
  <2> QED BY <1>1, <1>5, <1>6, <2>2
<1>9. Content' = Tail(Content)
  BY <1>7, <1>8, SeqEqual
<1> QED BY <1>2, <1>9 DEF Fifo!Remove

(***************************************************************************)
(* The ring buffer implements the bounded FIFO queue: every behaviour of   *)
(* PACKET_QUEUE is, from head to tail, a behaviour of PacketFifo.          *)
(***************************************************************************)
THEOREM RingImplementsFifo == PqSpec => ImplementsFifo
<1>1. OffsetInv /\ [PqNext]_pq_vars => [Fifo!Next]_Content
  <2> SUFFICES ASSUME OffsetInv, [PqNext]_pq_vars PROVE [Fifo!Next]_Content
    OBVIOUS
  <2>1. ASSUME NEW p \in Packet, Merge(p) PROVE Fifo!Next
    BY <2>1, MergeFifo DEF Fifo!Next, Fifo!Packet, Packet
  <2>2. ASSUME NEW p \in Packet, Enqueue(p) PROVE Fifo!Next
    BY <2>2, EnqueueFifo DEF Fifo!Next, Fifo!Packet, Packet
  <2>3. CASE Serve
    BY <2>3, ServeFifo DEF Fifo!Next
  <2>4. CASE UNCHANGED pq_vars
    BY <2>4 DEF pq_vars, Content, EntryAt
  <2> QED BY <2>1, <2>2, <2>3, <2>4 DEF PqNext
<1> QED BY <1>1, InitInv, StepInv, InitFifo, PTL DEF PqSpec, ImplementsFifo, Fifo!Spec
===============================================================================
