------------------------------- MODULE FastSet -----------------------------
(***************************************************************************)
(* fastset (inc/set.h): a set of numbers below MAX_SIZE, kept as a sorted  *)
(* array as long as it has fewer than SMALL_SIZE elements and as a bit     *)
(* vector from then on, in the same memory.  One call at a time; a loop    *)
(* over the other set, over the bits or over halves of the array takes one *)
(* step for each round.  before is the set that a join started with.       *)
(***************************************************************************)
EXTENDS Integers, Sequences

CONSTANTS
  Name,
  MAX_SIZE, WORD,            \* WORD: bits of a word of the vector
  SMALL_SIZE, SMALLER_SIZE,
  N                          \* the size of the table whose indices are kept

(* A join ors as many words as hold N bits, and one more when N fills the  *)
(* last of them: a set has to have that word, so N is below MAX_SIZE.      *)
Limit == (N \div WORD + 1) * WORD

Number == 0 .. N - 1

VARIABLES
  sets,
  pc, this, other, x, begin, end, i, before, v,   \* the call in progress
  answer    \* what the last call has returned, with its question; or nothing

call == <<this, other, x, begin, end, i, before, v>>
vars == <<sets, pc, call, answer>>

NoElements == [card |-> 0, values |-> <<>>, bits |-> {}]

Init ==
  /\ sets = [s \in Name |-> NoElements]
  /\ pc = "idle" /\ this \in Name /\ other = this
  /\ x = 0 /\ begin = 0 /\ end = 0 /\ i = 0 /\ before = {} /\ v = <<>>
  /\ answer = <<>>

(* The locals of a call are gone when it returns.                          *)
Return ==
  /\ pc' = "idle"
  /\ x' = 0 /\ begin' = 0 /\ end' = 0 /\ i' = 0 /\ before' = {} /\ v' = <<>>
  /\ UNCHANGED <<this, other>>
-----------------------------------------------------------------------------
Small(f) == f.card < SMALL_SIZE
Elements(w) == {w[k] : k \in DOMAIN w}
Members(f) == IF Small(f) THEN Elements(f.values) ELSE f.bits

(* insert_small: the place of the first value that is not below x, and the *)
(* array with x there.                                                     *)
Place(w, y) == CHOOSE k \in 1 .. Len(w) + 1 :
  /\ \A j \in 1 .. k - 1 : w[j] < y
  /\ k <= Len(w) => w[k] >= y

With(w, k, y) == [j \in 1 .. Len(w) + 1 |->
  IF j < k THEN w[j] ELSE IF j = k THEN y ELSE w[j - 1]]

(* Mutant: new values go to the end.                                       *)
MutInsertSmallLast(w, y) == IF y \in Elements(w) THEN w ELSE Append(w, y)

InsertSmall(w, y) == IF y \in Elements(w) THEN w ELSE With(w, Place(w, y), y)

(* smalltobit, once the array is as long as it may be.                     *)
SmallToBit(w) == [card |-> SMALL_SIZE, values |-> <<>>, bits |-> Elements(w)]

Inserted(f, y) ==
  IF ~Small(f) THEN [f EXCEPT !.bits = @ \cup {y}]
  ELSE LET w == InsertSmall(f.values, y)
       IN  IF Len(w) = SMALL_SIZE THEN SmallToBit(w)
           ELSE [f EXCEPT !.card = Len(w), !.values = w]

Insert(s, y) ==
  /\ pc = "idle"
  /\ sets' = [sets EXCEPT ![s] = Inserted(@, y)]
  /\ answer' = <<>> /\ UNCHANGED <<pc, call>>
-----------------------------------------------------------------------------
(* search: the shortest arrays are searched from the front, up to a value  *)
(* that is larger, and the bit is looked at in a vector.                   *)
LinearSearch(w, y) == \E k \in DOMAIN w :
  w[k] = y /\ \A j \in 1 .. k - 1 : w[j] < y

Looked(f, y) == IF Small(f) THEN LinearSearch(f.values, y) ELSE y \in f.bits

Search(s, y) ==
  /\ pc = "idle" /\ (sets[s].card < SMALLER_SIZE \/ ~Small(sets[s]))
  /\ answer' = <<s, y, Looked(sets[s], y)>>
  /\ UNCHANGED <<sets, pc, call>>

StartSearch(s, y) ==
  /\ pc = "idle" /\ pc' = "search"
  /\ Small(sets[s]) /\ sets[s].card >= SMALLER_SIZE
  /\ this' = s /\ x' = y /\ begin' = 0 /\ end' = sets[s].card - 1
  /\ answer' = <<>> /\ UNCHANGED <<sets, other, i, before, v>>

(* A round of the binary search; the array is counted from 0.  The first   *)
(* middle is end / 2, which is (begin + end) / 2 as well.                  *)
Middle == (begin + end) \div 2
Value == sets[this].values[Middle + 1]

(* Mutant: the middle is not left out of the rest.                         *)
MutHalveStuck ==
  /\ pc = "search" /\ x # Value
  /\ LET first == IF x > Value THEN Middle ELSE begin
         last == IF x < Value THEN Middle ELSE end
     IN  IF last < first
         THEN Return /\ answer' = <<this, x, FALSE>>
         ELSE /\ begin' = first /\ end' = last
              /\ UNCHANGED <<pc, this, other, x, i, before, v, answer>>
  /\ UNCHANGED sets

Halve ==
  /\ pc = "search" /\ x # Value
  /\ LET first == IF x > Value THEN Middle + 1 ELSE begin
         last == IF x < Value THEN Middle - 1 ELSE end
     IN  IF last < first
         THEN Return /\ answer' = <<this, x, FALSE>>
         ELSE /\ begin' = first /\ end' = last
              /\ UNCHANGED <<pc, this, other, x, i, before, v, answer>>
  /\ UNCHANGED sets

Hit ==
  /\ pc = "search" /\ x = Value
  /\ Return /\ answer' = <<this, x, TRUE>>
  /\ UNCHANGED sets
-----------------------------------------------------------------------------
(* join: the values of a small set are inserted one by one.                *)
StartJoin(s, t) ==
  /\ pc = "idle" /\ pc' = "join"
  /\ Small(sets[t])
  /\ this' = s /\ other' = t /\ i' = 1 /\ before' = Members(sets[s])
  /\ answer' = <<>> /\ UNCHANGED <<sets, x, begin, end, v>>

JoinOne ==
  /\ pc = "join" /\ i <= sets[other].card
  /\ sets' = [sets EXCEPT ![this] = Inserted(@, sets[other].values[i])]
  /\ i' = i + 1
  /\ UNCHANGED <<pc, this, other, x, begin, end, before, v, answer>>

EndJoin ==
  /\ pc = "join" /\ i > sets[other].card
  /\ Return
  /\ UNCHANGED <<sets, answer>>

(* Mutant: the last word is left out when it is not full.                  *)
MutJoinWords(s, t) ==
  /\ pc = "idle" /\ ~Small(sets[t])
  /\ LET f == IF Small(sets[s]) THEN SmallToBit(sets[s].values) ELSE sets[s]
     IN  sets' = [sets EXCEPT ![s] =
           [f EXCEPT !.bits = @ \cup {y \in sets[t].bits : y < (N \div WORD) * WORD}]]
  /\ answer' = <<>> /\ UNCHANGED <<pc, call>>

(* The words of a vector are or-ed into this set, made a vector first.     *)
JoinBits(s, t) ==
  /\ pc = "idle" /\ ~Small(sets[t])
  /\ LET f == IF Small(sets[s]) THEN SmallToBit(sets[s].values) ELSE sets[s]
     IN  sets' = [sets EXCEPT ![s] =
           [f EXCEPT !.bits = @ \cup {y \in sets[t].bits : y < Limit}]]
  /\ answer' = <<>> /\ UNCHANGED <<pc, call>>
-----------------------------------------------------------------------------
(* expand: a small set is copied, the bits are looked at one by one.       *)
Expand(s) ==
  /\ pc = "idle" /\ Small(sets[s])
  /\ answer' = <<s, sets[s].values>>
  /\ UNCHANGED <<sets, pc, call>>

StartExpand(s) ==
  /\ pc = "idle" /\ pc' = "expand"
  /\ ~Small(sets[s])
  /\ this' = s /\ i' = 0 /\ v' = <<>>
  /\ answer' = <<>> /\ UNCHANGED <<sets, other, x, begin, end, before>>

ExpandOne ==
  /\ pc = "expand" /\ i < N
  /\ v' = IF i \in sets[this].bits THEN Append(v, i) ELSE v
  /\ i' = i + 1
  /\ UNCHANGED <<sets, pc, this, other, x, begin, end, before, answer>>

EndExpand ==
  /\ pc = "expand" /\ i >= N
  /\ Return /\ answer' = <<this, v>>
  /\ UNCHANGED sets

Round == Halve \/ Hit \/ JoinOne \/ EndJoin \/ ExpandOne \/ EndExpand

Call(s) ==
  \/ \E y \in Number : Insert(s, y) \/ Search(s, y) \/ StartSearch(s, y)
  \/ \E t \in Name : StartJoin(s, t) \/ JoinBits(s, t)
  \/ Expand(s) \/ StartExpand(s)

Next == Round \/ \E s \in Name : Call(s)

Spec == Init /\ [][Next]_vars /\ WF_vars(Round)
-----------------------------------------------------------------------------
(* The type invariant: a small set is its sorted array, whose length is    *)
(* card; the union holds an array or a vector, never both.                 *)
SetOK(f) ==
  /\ f \in [card : 0 .. SMALL_SIZE, values : Seq(Number), bits : SUBSET Number]
  /\ Small(f) => Len(f.values) = f.card /\ f.bits = {}
  /\ ~Small(f) => f.values = <<>>
  /\ \A j, k \in DOMAIN f.values : j < k => f.values[j] < f.values[k]

TypeOK ==
  /\ DOMAIN sets = Name /\ \A s \in Name : SetOK(sets[s])
  /\ pc \in {"idle", "search", "join", "expand"}
  /\ this \in Name /\ other \in Name /\ x \in Number
  /\ begin \in Nat /\ end \in Int /\ i \in Nat
  /\ before \subseteq Number /\ v \in Seq(Number)
  /\ answer \in {<<>>} \cup (Name \X Number \X BOOLEAN) \cup (Name \X Seq(Number))

(* Each call does what it would do to a set of numbers.                    *)
Sets == INSTANCE NumberSets WITH
  contents <- [s \in Name |-> IF pc = "join" /\ s = this THEN before ELSE Members(sets[s])]

ImplementsSets == Sets!SSpec

(* Every call returns.                                                     *)
CallsReturn == pc # "idle" ~> pc = "idle"
=============================================================================
