----------------------------- MODULE NumberSets ----------------------------
(***************************************************************************)
(* What the class fastset promises: sets of small numbers that can be      *)
(* added to, joined, searched, and listed in ascending order.              *)
(***************************************************************************)
EXTENDS Integers, Sequences

CONSTANTS Name, Number

VARIABLES
  contents,
  answer     \* of a search: <<set, number, whether it is there>>; of an expand:
             \* <<set, its elements>>; <<>> when there is none

svars == <<contents, answer>>

Ascending(v) == \A i, j \in DOMAIN v : i < j => v[i] < v[j]
Elements(v) == {v[i] : i \in DOMAIN v}

SInit == contents = [s \in Name |-> {}] /\ answer = <<>>

(* The answer is gone when the next call starts.                           *)
SCall == answer' = <<>> /\ UNCHANGED contents

SInsert(s, x) ==
  /\ contents' = [contents EXCEPT ![s] = @ \cup {x}]
  /\ answer' = <<>>

SJoin(s, t) ==
  /\ contents' = [contents EXCEPT ![s] = @ \cup contents[t]]
  /\ answer' = <<>>

SSearch(s, x) ==
  /\ answer' = <<s, x, x \in contents[s]>>
  /\ UNCHANGED contents

SExpand(s) ==
  /\ answer' \in {s} \X Seq(Number)
  /\ Ascending(answer'[2]) /\ Elements(answer'[2]) = contents[s]
  /\ UNCHANGED contents

SNext == SCall \/ \E s \in Name :
  \/ \E x \in Number : SInsert(s, x) \/ SSearch(s, x)
  \/ \E t \in Name : SJoin(s, t)
  \/ SExpand(s)

SSpec == SInit /\ [][SNext]_svars
=============================================================================
