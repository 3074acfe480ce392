----------------------------- MODULE BestOffset ----------------------------
(***************************************************************************)
(* The best-offset prefetcher of the L2C (prefetcher/bo.h).  Accesses that *)
(* miss test one offset each: its score rises when the line that far back  *)
(* was requested lately.  A learning phase ends, at the end of a round of  *)
(* all offsets, when a score has reached SCORE_MAX or ROUND_MAX rounds     *)
(* have passed, and sets the offset to prefetch with.  The throttle        *)
(* estimates the time between accesses of the LLC and derives from it how  *)
(* many MSHR entries prefetches may use.                                   *)
(*                                                                         *)
(* What rr_hit answers is an input here (RecentRequests models the table), *)
(* and so are the hit in the L2C and the prefetch bit: the code looks the  *)
(* block up by a byte address among block numbers, so it hits by           *)
(* coincidence only.                                                       *)
(***************************************************************************)
EXTENDS Integers

CONSTANTS
  NOFFSETS, OFFSET,          \* OFFSET[p] for p in 0 .. NOFFSETS - 1
  DEFAULT_OFFSET, SCORE_MAX, ROUND_MAX, LOW_SCORE, BAD_SCORE,
  TIME,                      \* 2^TIME_BITS
  LLC_RATE_MAX, GAUGE_MAX, BANDWIDTH,
  MSHR_THRESHOLD_MIN, MSHR_THRESHOLD_MAX,
  L2C_MSHR_SIZE

ASSUME BoAssumption ==
  /\ {NOFFSETS, SCORE_MAX, ROUND_MAX, BANDWIDTH} \subseteq Nat \ {0}
  /\ {LOW_SCORE, BAD_SCORE, TIME, LLC_RATE_MAX, GAUGE_MAX, MSHR_THRESHOLD_MIN,
      MSHR_THRESHOLD_MAX, L2C_MSHR_SIZE} \subseteq Nat
  /\ OFFSET \in [0 .. NOFFSETS - 1 -> Int \ {0}]
  /\ DEFAULT_OFFSET \in Int \ {0}
  /\ LOW_SCORE < SCORE_MAX /\ MSHR_THRESHOLD_MIN <= MSHR_THRESHOLD_MAX

VARIABLES
  prefetch_offset,
  os,       \* the scores of the learning phase
  pt        \* the throttle

bo_vars == <<prefetch_offset, os, pt>>

Index == 0 .. NOFFSETS - 1

os_reset == [score |-> [q \in Index |-> 0], max_score |-> 0, best_offset |-> 0,
             round |-> 0, p |-> 0]

BoInit ==
  /\ prefetch_offset = DEFAULT_OFFSET
  /\ os = os_reset
  /\ pt = [mshr_threshold |-> MSHR_THRESHOLD_MAX, prefetch_score |-> SCORE_MAX,
           llc_rate |-> 0, llc_rate_gauge |-> GAUGE_MAX \div 2]
-----------------------------------------------------------------------------
(* pt_update_mshr_threshold.                                               *)
Threshold(rate, score) ==
  IF score > LOW_SCORE \/ rate > 2 * BANDWIDTH THEN MSHR_THRESHOLD_MAX
  ELSE IF rate < BANDWIDTH THEN MSHR_THRESHOLD_MIN
  ELSE MSHR_THRESHOLD_MIN
         + ((MSHR_THRESHOLD_MAX - MSHR_THRESHOLD_MIN) * (rate - BANDWIDTH)) \div BANDWIDTH

Updated(t) == [t EXCEPT !.mshr_threshold = Threshold(t.llc_rate, t.prefetch_score)]

(* pt_llc_access, dt cycles after the last access of the LLC; a gauge that *)
(* passes an end moves the rate by one.                                    *)
Full(t) ==
  IF t.llc_rate < LLC_RATE_MAX
  THEN Updated([t EXCEPT !.llc_rate_gauge = GAUGE_MAX, !.llc_rate = @ + 1])
  ELSE [t EXCEPT !.llc_rate_gauge = GAUGE_MAX]

(* Mutant: the threshold is left as it is.                                 *)
MutDrainedStale(t) ==
  IF t.llc_rate > 0 THEN [t EXCEPT !.llc_rate_gauge = 0, !.llc_rate = @ - 1]
  ELSE [t EXCEPT !.llc_rate_gauge = 0]

Drained(t) ==
  IF t.llc_rate > 0
  THEN Updated([t EXCEPT !.llc_rate_gauge = 0, !.llc_rate = @ - 1])
  ELSE [t EXCEPT !.llc_rate_gauge = 0]

Accessed(t, dt) ==
  LET gauge == t.llc_rate_gauge + dt - t.llc_rate
  IN  IF gauge > GAUGE_MAX THEN Full(t)
      ELSE IF gauge < 0 THEN Drained(t)
      ELSE [t EXCEPT !.llc_rate_gauge = gauge]
-----------------------------------------------------------------------------
(* os_learn_best_offset: the score of the offset whose turn it is.         *)
Scored(s, hit) ==
  LET n == s.score[s.p] + 1
  IN  IF ~hit THEN s
      ELSE [s EXCEPT !.score[s.p] = n,
                     !.max_score = IF n >= @ THEN n ELSE @,
                     !.best_offset = IF n >= s.max_score THEN OFFSET[s.p] ELSE @]

PhaseOver(s) ==
  /\ s.p = NOFFSETS - 1
  /\ s.max_score = SCORE_MAX \/ s.round + 1 = ROUND_MAX

NextTest(s) ==
  IF s.p = NOFFSETS - 1 THEN [s EXCEPT !.round = @ + 1, !.p = 0]
  ELSE [s EXCEPT !.p = @ + 1]

NewOffset(s) ==
  IF s.max_score <= BAD_SCORE THEN 0
  ELSE IF s.best_offset # 0 THEN s.best_offset ELSE DEFAULT_OFFSET

Learnt(t, s) == IF PhaseOver(s) THEN Updated([t EXCEPT !.prefetch_score = s.max_score]) ELSE t

(* issue_prefetch: whether a prefetch is issued at all, into L2C or LLC.   *)
Issues(t, offset, occupancy) ==
  offset # 0 /\ (occupancy < t.mshr_threshold \/ t.prefetch_score > LOW_SCORE)

(* bo_prefetcher_operate, for a miss and for a hit of a prefetched block;  *)
(* any other hit changes nothing.  A prefetch that is issued, within its   *)
(* page and taken by the queue, counts as an access of the LLC: in the     *)
(* cycle of the miss, or the first for dt cycles when the L2C was hit.     *)
BoOperate(l2_hit, dt, hit, occupancy, taken) ==
  LET s == Scored(os, hit)
      t == Learnt(IF l2_hit THEN pt ELSE Accessed(pt, dt), s)
  IN  /\ os' = IF PhaseOver(s) THEN os_reset ELSE NextTest(s)
      /\ prefetch_offset' = IF PhaseOver(s) THEN NewOffset(s) ELSE prefetch_offset
      /\ pt' = IF taken /\ Issues(t, prefetch_offset', occupancy)
               THEN Accessed(t, IF l2_hit THEN dt ELSE 0) ELSE t

BoNext ==
  \E l2_hit, hit, taken \in BOOLEAN, dt \in 0 .. TIME - 1, occupancy \in 0 .. L2C_MSHR_SIZE :
    BoOperate(l2_hit, dt, hit, occupancy, taken)

BoSpec == BoInit /\ [][BoNext]_bo_vars
-----------------------------------------------------------------------------
(* The type invariant of the scores and of the throttle.                   *)
BoTypeOK ==
  /\ prefetch_offset \in Int
  /\ os \in [score : [Index -> Nat], max_score : Nat, best_offset : Int,
             round : 0 .. ROUND_MAX - 1, p : Index]
  /\ pt \in [mshr_threshold : Int, prefetch_score : 0 .. SCORE_MAX,
             llc_rate : 0 .. LLC_RATE_MAX, llc_rate_gauge : 0 .. GAUGE_MAX]

(* The phase ends by "max_score == SCORE_MAX" (bo.h:350): no score passes  *)
(* SCORE_MAX, because each rises at most once in a round and the round     *)
(* that reaches it is the last.  max_score is the highest of the scores    *)
(* and best_offset an offset that has it, 0 when none has scored.          *)
ScoresSound ==
  /\ \A q \in Index :
       /\ os.score[q] <= os.max_score
       /\ os.score[q] <= os.round + (IF q < os.p THEN 1 ELSE 0)
       /\ q >= os.p => os.score[q] < SCORE_MAX
  /\ os.max_score <= SCORE_MAX
  /\ IF os.best_offset = 0 THEN os.max_score = 0
     ELSE \E q \in Index : OFFSET[q] = os.best_offset /\ os.score[q] = os.max_score

(* mshr_threshold is kept between the calls that change what it is derived *)
(* from (bo.h:265-304): it is what a fresh computation would give.         *)
ThrottleFresh == pt.mshr_threshold = Threshold(pt.llc_rate, pt.prefetch_score)

(* The learning and the throttle are sound, whatever the accesses are.     *)
LearningSound == ScoresSound /\ ThrottleFresh
=============================================================================
