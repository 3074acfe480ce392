----------------------------- MODULE SetDueling ----------------------------
(***************************************************************************)
(* DRRIP replacement in the LLC (replacement/drrip.llc_repl): each block   *)
(* has a prediction of when it is used again.  Leader sets insert by one   *)
(* of two policies, their misses move PSEL, and PSEL chooses the policy of *)
(* the other sets.  find_victim ages a set until a block is at maxRRPV,    *)
(* one step for each round; SRRIP and SHiP search in the same way.         *)
(***************************************************************************)
EXTENDS Integers

CONSTANTS
  LLC_SET, LLC_WAY, Leader,   \* Leader[set]: 0 for BIP, 1 for SRRIP, or -1
  maxRRPV, BIP_MAX, PSEL_MAX

VARIABLES rrpv, bip_counter, PSEL,
          searched   \* the set that find_victim is looking at, or -1

rrip_vars == <<rrpv, bip_counter, PSEL, searched>>

LlcWay == 0 .. LLC_WAY - 1

RripInit ==
  /\ rrpv = [s \in LLC_SET |-> [w \in LlcWay |-> maxRRPV]]
  /\ bip_counter = 0 /\ PSEL = 0 /\ searched = -1

Aged(s) == {w \in LlcWay : rrpv[s][w] = maxRRPV}
First(W) == CHOOSE w \in W : \A v \in W : w <= v

(* llc_find_victim.                                                        *)
StartFind(s) ==
  /\ searched = -1 /\ searched' = s
  /\ UNCHANGED <<rrpv, bip_counter, PSEL>>

Age ==
  /\ searched # -1 /\ Aged(searched) = {}
  /\ rrpv' = [rrpv EXCEPT ![searched] = [w \in LlcWay |-> @[w] + 1]]
  /\ UNCHANGED <<bip_counter, PSEL, searched>>

(* llc_update_replacement_state, for a miss: what is inserted, and how the *)
(* shared counters move.                                                   *)
Bip == IF (bip_counter + 1) % BIP_MAX = 0 THEN maxRRPV - 1 ELSE maxRRPV

InsertBip(s, w) ==
  /\ rrpv' = [rrpv EXCEPT ![s][w] = Bip]
  /\ bip_counter' = (bip_counter + 1) % BIP_MAX

InsertSrrip(s, w) ==
  /\ rrpv' = [rrpv EXCEPT ![s][w] = maxRRPV - 1]
  /\ UNCHANGED bip_counter

Insert(s, w) ==
  \/ /\ Leader[s] = -1 /\ UNCHANGED PSEL
     /\ IF PSEL > PSEL_MAX \div 2 THEN InsertBip(s, w) ELSE InsertSrrip(s, w)
  \/ /\ Leader[s] = 0 /\ InsertBip(s, w)
     /\ PSEL' = IF PSEL > 0 THEN PSEL - 1 ELSE PSEL
  \/ /\ Leader[s] = 1 /\ InsertSrrip(s, w)
     /\ PSEL' = IF PSEL < PSEL_MAX THEN PSEL + 1 ELSE PSEL

(* The handler goes on with the victim: it fills the way, or gives up      *)
(* because the dirty victim has no place in the lower write queue.         *)
FillVictim ==
  /\ searched # -1 /\ Aged(searched) # {} /\ searched' = -1
  /\ Insert(searched, First(Aged(searched)))

GiveUp ==
  /\ searched # -1 /\ Aged(searched) # {} /\ searched' = -1
  /\ UNCHANGED <<rrpv, bip_counter, PSEL>>

(* The fill of a block that was written back, or a hit of a writeback.     *)
Written(s, w) == rrpv' = [rrpv EXCEPT ![s][w] = maxRRPV - 1]

FillWritten ==
  /\ searched # -1 /\ Aged(searched) # {} /\ searched' = -1
  /\ Written(searched, First(Aged(searched)))
  /\ UNCHANGED <<bip_counter, PSEL>>

HitBlock(s, w) ==
  /\ searched = -1
  /\ rrpv' = [rrpv EXCEPT ![s][w] = 0] \/ Written(s, w)
  /\ UNCHANGED <<bip_counter, PSEL, searched>>

Search == Age \/ FillVictim \/ GiveUp \/ FillWritten

RripNext == Search \/ \E s \in LLC_SET :
  StartFind(s) \/ \E w \in LlcWay : HitBlock(s, w)

RripSpec == RripInit /\ [][RripNext]_rrip_vars /\ WF_rrip_vars(Search)
-----------------------------------------------------------------------------
(* The type invariant: no prediction passes maxRRPV, at which the search   *)
(* stops by an equality, and PSEL does not wrap (drrip.llc_repl:95-103).   *)
RripTypeOK ==
  /\ rrpv \in [LLC_SET -> [LlcWay -> 0 .. maxRRPV]]
  /\ bip_counter \in 0 .. BIP_MAX - 1 /\ PSEL \in 0 .. PSEL_MAX
  /\ searched \in LLC_SET \cup {-1}

(* The while(1) of llc_find_victim ends (drrip.llc_repl:114-122).          *)
SearchEnds == searched # -1 ~> searched = -1
=============================================================================
