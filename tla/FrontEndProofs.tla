---------------------------- MODULE FrontEndProofs ----------------------------
(***************************************************************************)
(* The invariants of the front end, for buffers of any size, any trace and *)
(* any penalty: the types, AnswerComing, StallOwed and ProgramOrder.       *)
(*                                                                         *)
(* The three buffers are read as one list of the instructions in flight,   *)
(* numbered 1 .. InFlight from the oldest.  Decoding and dispatching move  *)
(* the borders between the buffers and leave the list alone; reading adds  *)
(* to its end, retiring takes from its front, and placing a store shortens *)
(* one of its runs of stores.  The ring STA is the list of the runs, one   *)
(* after the other.                                                        *)
(***************************************************************************)
EXTENDS FrontEnd, SequenceTheorems, FiniteSetTheorems, FunctionTheorems, WellFoundedInduction, TLAPS

-------------------------------------------------------------------------------
(* Numbers and sequences.                                                  *)

(* A set of naturals that goes down for ever is empty.                     *)
LEMMA Descent ==
  ASSUME NEW B, B \subseteq Nat, \A m \in B : m - 1 \in B
  PROVE  B = {}
<1> SUFFICES ASSUME B # {} PROVE FALSE
  OBVIOUS
<1>1. PICK w \in B : \A v \in B : ~(<< v, w >> \in OpToRel(<, Nat))
  BY NatLessThanWellFounded, WFMin
<1>2. w - 1 \in B /\ w \in Nat /\ w - 1 \in Nat
  OBVIOUS
<1>3. << w - 1, w >> \in OpToRel(<, Nat)
  BY <1>2 DEF OpToRel
<1> QED BY <1>1, <1>2, <1>3

(* The partial results of FlattenSeq.                                      *)
Chain(q, m, T, f) ==
  /\ f \in [1 .. m -> T]
  /\ \A i \in 1 .. m : f[i] = IF i = 1 THEN q[1] ELSE f[i - 1] \o q[i]

LEMMA ChainStep ==
  ASSUME NEW S, NEW q \in Seq(Seq(S)), NEW m \in 1 .. Len(q), NEW f,
         Chain(q, m - 1, Seq(S), f)
  PROVE  \E g : Chain(q, m, Seq(S), g)
<1> DEFINE x == IF m = 1 THEN q[1] ELSE f[m - 1] \o q[m]
           g == [i \in 1 .. m |-> IF i = m THEN x ELSE f[i]]
<1>1. \A i \in 1 .. Len(q) : q[i] \in Seq(S)
  BY ElementOfSeq
<1>2. m \in Nat /\ m >= 1 /\ m <= Len(q) /\ Len(q) \in Nat
  BY LenProperties
<1>3. x \in Seq(S)
  <2>1. CASE m = 1
    BY <1>1, <1>2, <2>1
  <2>2. CASE m # 1
    <3>1. m - 1 \in 1 .. m - 1 /\ m \in 1 .. Len(q)
      BY <1>2, <2>2
    <3>2. f[m - 1] \in Seq(S) /\ q[m] \in Seq(S)
      BY <1>1, <3>1 DEF Chain
    <3> QED BY <2>2, <3>2, ConcatProperties
  <2> QED BY <2>1, <2>2
<1>4. \A i \in 1 .. m : i # m => i \in 1 .. m - 1
  BY <1>2
<1>5. \A i \in 1 .. m : i # m => f[i] \in Seq(S)
  BY <1>4 DEF Chain
<1>6. g \in [1 .. m -> Seq(S)]
  BY <1>3, <1>5
<1>7. ASSUME NEW i \in 1 .. m PROVE g[i] = IF i = 1 THEN q[1] ELSE g[i - 1] \o q[i]
  <2>1. CASE i = m
    <3>1. m # 1 => i - 1 \in 1 .. m /\ i - 1 # m
      BY <1>2, <2>1
    <3>2. m # 1 => g[i - 1] = f[i - 1]
      BY <3>1
    <3> QED BY <2>1, <3>2
  <2>2. CASE i # m
    <3>1. i # 1 => i - 1 \in 1 .. m /\ i - 1 # m
      BY <1>2
    <3>2. i # 1 => g[i - 1] = f[i - 1]
      BY <3>1
    <3>3. g[i] = f[i] /\ f[i] = IF i = 1 THEN q[1] ELSE f[i - 1] \o q[i]
      BY <1>4, <2>2 DEF Chain
    <3> QED BY <3>2, <3>3
  <2> QED BY <2>1, <2>2
<1> HIDE DEF g
<1>8. Chain(q, m, Seq(S), g)
  BY <1>6, <1>7 DEF Chain
<1> QED BY <1>8

LEMMA ChainExists ==
  ASSUME NEW S, NEW q \in Seq(Seq(S))
  PROVE  \E f : Chain(q, Len(q), Seq(S), f)
<1> DEFINE B == {m \in 0 .. Len(q) : ~\E f : Chain(q, m, Seq(S), f)}
<1>1. Len(q) \in Nat
  BY LenProperties
<1>2. ASSUME NEW m \in B PROVE m - 1 \in B
  <2>1. CASE m = 0
    <3>1. [i \in {} |-> << >>] \in [{} -> Seq(S)]
      OBVIOUS
    <3>2. 1 .. 0 = {}
      OBVIOUS
    <3>3. Chain(q, 0, Seq(S), [i \in {} |-> << >>])
      BY <3>1, <3>2 DEF Chain
    <3> QED BY <2>1, <3>3
  <2>2. CASE m # 0
    <3>1. m \in 1 .. Len(q) /\ m - 1 \in 0 .. Len(q)
      BY <1>1, <2>2
    <3>2. ASSUME NEW f, Chain(q, m - 1, Seq(S), f) PROVE FALSE
      BY <3>1, <3>2, ChainStep
    <3> QED BY <3>1, <3>2
  <2> QED BY <2>1, <2>2
<1>3. B \subseteq Nat
  BY <1>1
<1>4. B = {}
  <2> HIDE DEF B
  <2> QED BY <1>2, <1>3, Descent
<1>5. Len(q) \in 0 .. Len(q)
  BY <1>1
<1> QED BY <1>4, <1>5

Agree(q, r, m) == \A i \in 1 .. m : q[i] = r[i]

LEMMA ChainUnique ==
  ASSUME NEW S, NEW q, NEW r, NEW m \in Nat, NEW n \in Nat, m <= n, NEW f, NEW g,
         Chain(q, m, S, f), Chain(r, n, S, g), Agree(q, r, m)
  PROVE  Agree(f, g, m)
<1> DEFINE B == {i \in 1 .. m : f[i] # g[i]}
<1>1. ASSUME NEW i \in B PROVE i - 1 \in B
  <2>1. i \in 1 .. m /\ i \in 1 .. n
    OBVIOUS
  <2>2. f[i] = (IF i = 1 THEN q[1] ELSE f[i - 1] \o q[i]) /\ g[i] = (IF i = 1 THEN r[1] ELSE g[i - 1] \o r[i])
    BY <2>1 DEF Chain
  <2>3. q[i] = r[i] /\ f[i] # g[i]
    BY <2>1 DEF Agree
  <2>4. i # 1 /\ f[i - 1] # g[i - 1]
    BY <2>2, <2>3
  <2>5. i - 1 \in 1 .. m
    BY <2>1, <2>4
  <2> QED BY <2>4, <2>5
<1>2. B \subseteq Nat
  OBVIOUS
<1>3. B = {}
  <2> HIDE DEF B
  <2> QED BY <1>1, <1>2, Descent
<1> QED BY <1>3 DEF Agree

LEMMA FlattenIs ==
  ASSUME NEW S, NEW q \in Seq(Seq(S))
  PROVE  \E f : Chain(q, Len(q), Seq(S), f) /\ (Len(q) # 0 => FlattenSeq(q) = f[Len(q)])
<1>1. PICK e : Chain(q, Len(q), Seq(S), e)
  BY ChainExists
<1> DEFINE F(f) == [i \in 1 .. Len(q) |-> IF i = 1 THEN q[i] ELSE f[i - 1] \o q[i]]
           h == CHOOSE f : f = F(f)
<1>2. e = F(e)
  <2>1. e = [i \in 1 .. Len(q) |-> e[i]]
    BY <1>1 DEF Chain
  <2>2. \A i \in 1 .. Len(q) : e[i] = IF i = 1 THEN q[i] ELSE e[i - 1] \o q[i]
    BY <1>1 DEF Chain
  <2> QED BY <2>1, <2>2
<1>3. h = F(h)
  <2> HIDE DEF F
  <2> QED BY <1>2
<1>4. Len(q) # 0 => FlattenSeq(q) = h[Len(q)]
  BY DEF FlattenSeq
<1> HIDE DEF h
<1>5. \A i \in 1 .. Len(q) : h[i] = IF i = 1 THEN q[1] ELSE h[i - 1] \o q[i]
  BY <1>3
<1>6. ASSUME NEW i \in 1 .. Len(q) PROVE h[i] \in Seq(S)
  <2> DEFINE B == {j \in 1 .. Len(q) : h[j] \notin Seq(S)}
  <2>1. ASSUME NEW j \in B PROVE j - 1 \in B
    <3>1. j \in 1 .. Len(q) /\ h[j] \notin Seq(S) /\ q[j] \in Seq(S) /\ Len(q) \in Nat
      BY ElementOfSeq, LenProperties
    <3>2. j # 1
      BY <1>5, <3>1
    <3>3. j - 1 \in 1 .. Len(q)
      BY <3>1, <3>2
    <3>4. h[j] = h[j - 1] \o q[j]
      BY <1>5, <3>1, <3>2
    <3>5. h[j - 1] \notin Seq(S)
      BY <3>1, <3>4, ConcatProperties
    <3> QED BY <3>3, <3>5
  <2>2. B \subseteq Nat
    BY LenProperties
  <2>3. B = {}
    <3> HIDE DEF B
    <3> QED BY <2>1, <2>2, Descent
  <2> QED BY <2>3
<1>7. h = [i \in 1 .. Len(q) |-> h[i]]
  BY <1>3
<1>8. Chain(q, Len(q), Seq(S), h)
  <2>1. h \in [1 .. Len(q) -> Seq(S)]
    BY <1>6, <1>7
  <2> QED BY <1>5, <2>1 DEF Chain
<1> QED BY <1>4, <1>8

LEMMA EmptyList ==
  ASSUME NEW S, NEW q \in Seq(S), Len(q) = 0
  PROVE  q = << >>
BY EmptySeq

LEMMA FlattenEmpty == FlattenSeq(<< >>) = << >>
<1>1. Len(<< >>) = 0
  BY EmptySeq
<1> QED BY <1>1 DEF FlattenSeq

LEMMA FlattenAppend ==
  ASSUME NEW S, NEW q \in Seq(Seq(S)), NEW x \in Seq(S)
  PROVE  FlattenSeq(q) \in Seq(S) /\ FlattenSeq(Append(q, x)) = FlattenSeq(q) \o x
<1> DEFINE r == Append(q, x)
           n == Len(q)
<1>1. /\ r \in Seq(Seq(S)) /\ Len(r) = n + 1 /\ n \in Nat
      /\ \A i \in 1 .. n : r[i] = q[i]
      /\ r[n + 1] = x
  BY AppendProperties, LenProperties
<1> HIDE DEF r
<1>2. PICK f : Chain(q, n, Seq(S), f) /\ (n # 0 => FlattenSeq(q) = f[n])
  BY FlattenIs
<1>3. PICK g : Chain(r, n + 1, Seq(S), g) /\ (n + 1 # 0 => FlattenSeq(r) = g[n + 1])
  BY <1>1, FlattenIs
<1>4. FlattenSeq(r) = g[n + 1] /\ n + 1 \in 1 .. n + 1
  BY <1>1, <1>3
<1>5. Agree(f, g, n)
  <2>1. n + 1 \in Nat /\ n <= n + 1 /\ n \in Nat
    BY <1>1
  <2>2. Agree(q, r, n)
    BY <1>1 DEF Agree
  <2> HIDE DEF n
  <2> QED BY <1>2, <1>3, <2>1, <2>2, ChainUnique
<1>6. CASE n = 0
  <2>1. q = << >> /\ FlattenSeq(q) = << >>
    BY <1>6, EmptyList, FlattenEmpty
  <2>2. g[n + 1] = r[1] /\ r[1] = x
    BY <1>1, <1>3, <1>4, <1>6 DEF Chain
  <2>3. << >> \o x = x /\ << >> \in Seq(S)
    BY ConcatEmptySeq, EmptySeq
  <2> QED BY <1>4, <2>1, <2>2, <2>3 DEF r
<1>7. CASE n # 0
  <2>1. g[n + 1] = g[n + 1 - 1] \o r[n + 1]
    <3>1. n + 1 # 1
      BY <1>1, <1>7
    <3>2. \A i \in 1 .. n + 1 : g[i] = IF i = 1 THEN r[1] ELSE g[i - 1] \o r[i]
      BY <1>3 DEF Chain
    <3>3. g[n + 1] = IF n + 1 = 1 THEN r[1] ELSE g[n + 1 - 1] \o r[n + 1]
      BY <1>4, <3>2
    <3> QED BY <3>1, <3>3
  <2>2. n + 1 - 1 = n /\ n \in 1 .. n
    BY <1>1, <1>7
  <2>3. g[n] = f[n] /\ f[n] \in Seq(S)
    BY <1>2, <1>5, <2>2 DEF Chain, Agree
  <2>4. FlattenSeq(q) = f[n]
    BY <1>2, <1>7
  <2> QED BY <1>1, <1>4, <2>1, <2>2, <2>3, <2>4 DEF r
<1> QED BY <1>6, <1>7

LEMMA FlattenSeqOf ==
  ASSUME NEW S, NEW q \in Seq(Seq(S))
  PROVE  FlattenSeq(q) \in Seq(S)
<1>1. << >> \in Seq(S)
  BY EmptySeq
<1> QED BY <1>1, FlattenAppend

LEMMA FlattenOne ==
  ASSUME NEW S, NEW x \in Seq(S)
  PROVE  FlattenSeq(<< x >>) = x
<1>1. << >> \in Seq(Seq(S))
  BY EmptySeq
<1>2. FlattenSeq(Append(<< >>, x)) = FlattenSeq(<< >>) \o x
  BY <1>1, FlattenAppend
<1>3. Append(<< >>, x) = << x >>
  OBVIOUS
<1>4. << >> \o x = x
  BY ConcatEmptySeq
<1> QED BY <1>2, <1>3, <1>4, FlattenEmpty

LEMMA AppendConcat ==
  ASSUME NEW S, NEW p \in Seq(S), NEW q \in Seq(S), NEW x \in S
  PROVE  p \o Append(q, x) = Append(p \o q, x)
<1>1. << x >> \in Seq(S)
  OBVIOUS
<1>2. p \o q \in Seq(S)
  BY ConcatProperties
<1>3. p \o Append(q, x) = p \o (q \o << x >>) /\ Append(p \o q, x) = (p \o q) \o << x >>
  BY <1>2, AppendIsConcat
<1> QED BY <1>1, <1>3, ConcatAssociative

(* The first m of a list.                                                  *)
LEMMA PrefixStep ==
  ASSUME NEW S, NEW q \in Seq(S), NEW m \in 1 .. Len(q)
  PROVE  /\ SubSeq(q, 1, m - 1) \in Seq(S) /\ q[m] \in S
         /\ SubSeq(q, 1, m) = Append(SubSeq(q, 1, m - 1), q[m])
<1>1. m \in Nat /\ m >= 1 /\ m <= Len(q) /\ Len(q) \in Nat /\ q[m] \in S /\ 1 \in 1 .. Len(q) /\ m \in 1 .. Len(q)
  BY LenProperties, ElementOfSeq
<1>2. SubSeq(q, 1, m) = SubSeq(q, 1, m - 1) \o << q[m] >>
  BY <1>1, SubSeqRecursiveSecond
<1>3. \A i \in 1 .. m - 1 : q[i] \in S
  BY <1>1, ElementOfSeq
<1>4. SubSeq(q, 1, m - 1) \in Seq(S)
  BY <1>1, <1>3, SubSeqProperties
<1> QED BY <1>1, <1>2, <1>4, AppendIsConcat

LEMMA ConcatLater ==
  ASSUME NEW S, NEW a \in Seq(S), NEW b \in Seq(S), NEW c \in Seq(S)
  PROVE  a \o (b \o c) = (a \o b) \o c
BY ConcatAssociative

LEMMA FlattenConcatStep ==
  ASSUME NEW S, NEW p \in Seq(Seq(S)), NEW r \in Seq(Seq(S)), NEW x \in Seq(S),
         FlattenSeq(p \o r) = FlattenSeq(p) \o FlattenSeq(r)
  PROVE  FlattenSeq(p \o Append(r, x)) = FlattenSeq(p) \o FlattenSeq(Append(r, x))
<1>1. ASSUME NEW T, NEW u \in Seq(T), NEW v \in Seq(T), NEW y \in T
      PROVE  u \o Append(v, y) = Append(u \o v, y) /\ u \o v \in Seq(T)
  BY ONLY AppendConcat, ConcatProperties, <1>1
<1>2. p \o Append(r, x) = Append(p \o r, x) /\ p \o r \in Seq(Seq(S))
  BY <1>1
<1>3. FlattenSeq(p \o Append(r, x)) = FlattenSeq(p \o r) \o x
  BY <1>2, FlattenAppend
<1>4. FlattenSeq(Append(r, x)) = FlattenSeq(r) \o x
  BY FlattenAppend
<1>5. FlattenSeq(p) \in Seq(S) /\ FlattenSeq(r) \in Seq(S)
  BY FlattenSeqOf
<1>6. FlattenSeq(p) \o (FlattenSeq(r) \o x) = (FlattenSeq(p) \o FlattenSeq(r)) \o x
  BY <1>5, ConcatLater
<1> QED BY <1>3, <1>4, <1>6

LEMMA FlattenConcat ==
  ASSUME NEW S, NEW p \in Seq(Seq(S)), NEW q \in Seq(Seq(S))
  PROVE  FlattenSeq(p \o q) = FlattenSeq(p) \o FlattenSeq(q)
<1> DEFINE Pre(m) == SubSeq(q, 1, m)
           B == {m \in 0 .. Len(q) : FlattenSeq(p \o Pre(m)) # FlattenSeq(p) \o FlattenSeq(Pre(m))}
<1>1. Len(q) \in Nat
  BY LenProperties
<1>2. ASSUME NEW m \in B PROVE m - 1 \in B
  <2>1. CASE m = 0
    <3>1. Pre(0) = << >>
      BY SubSeqEmpty
    <3>2. FlattenSeq(p) \in Seq(S)
      BY FlattenSeqOf
    <3>3. FlattenSeq(p) \o << >> = FlattenSeq(p) /\ p \o << >> = p
      BY <3>2, ConcatEmptySeq
    <3> QED BY <2>1, <3>1, <3>3, FlattenEmpty
  <2>2. CASE m # 0
    <3>1. m \in 1 .. Len(q) /\ m - 1 \in 0 .. Len(q)
      BY <1>1, <2>2
    <3> DEFINE r == Pre(m - 1)
    <3>2. r \in Seq(Seq(S)) /\ q[m] \in Seq(S) /\ Pre(m) = Append(r, q[m])
      BY <3>1, PrefixStep
    <3>3. FlattenSeq(p \o Pre(m)) # FlattenSeq(p) \o FlattenSeq(Pre(m))
      OBVIOUS
    <3> HIDE DEF Pre, r
    <3>9. FlattenSeq(p \o r) # FlattenSeq(p) \o FlattenSeq(r)
      BY <3>2, <3>3, FlattenConcatStep
    <3> QED BY <3>1, <3>9 DEF r
  <2> QED BY <2>1, <2>2
<1>3. B \subseteq Nat
  BY <1>1
<1>4. B = {}
  <2> HIDE DEF B
  <2> QED BY <1>2, <1>3, Descent
<1>5. Len(q) \in 0 .. Len(q) /\ Pre(Len(q)) = q
  BY <1>1, SubSeqFull
<1> QED BY <1>4, <1>5

LEMMA FlattenNothing ==
  ASSUME NEW S, NEW q \in Seq(Seq(S)), \A i \in 1 .. Len(q) : q[i] = << >>
  PROVE  FlattenSeq(q) = << >>
<1> DEFINE Pre(m) == SubSeq(q, 1, m)
           B == {m \in 0 .. Len(q) : FlattenSeq(Pre(m)) # << >>}
<1>1. Len(q) \in Nat
  BY LenProperties
<1>2. ASSUME NEW m \in B PROVE m - 1 \in B
  <2>1. CASE m = 0
    <3>1. Pre(0) = << >>
      BY SubSeqEmpty
    <3> QED BY <2>1, <3>1, FlattenEmpty
  <2>2. CASE m # 0
    <3>1. m \in 1 .. Len(q) /\ m - 1 \in 0 .. Len(q)
      BY <1>1, <2>2
    <3> DEFINE r == Pre(m - 1)
    <3>2. r \in Seq(Seq(S)) /\ q[m] \in Seq(S) /\ Pre(m) = Append(r, q[m])
      BY <3>1, PrefixStep
    <3>3. FlattenSeq(Pre(m)) # << >>
      OBVIOUS
    <3> HIDE DEF Pre, r
    <3>4. FlattenSeq(Pre(m)) = FlattenSeq(r) \o q[m] /\ FlattenSeq(r) \in Seq(S)
      BY <3>2, FlattenAppend
    <3>5. FlattenSeq(r) \o q[m] = FlattenSeq(r)
      BY <3>1, <3>4, ConcatEmptySeq
    <3>6. FlattenSeq(r) # << >>
      BY <3>3, <3>4, <3>5
    <3> QED BY <3>1, <3>6 DEF r
  <2> QED BY <2>1, <2>2
<1>3. B \subseteq Nat
  BY <1>1
<1>4. B = {}
  <2> HIDE DEF B
  <2> QED BY <1>2, <1>3, Descent
<1>5. Len(q) \in 0 .. Len(q) /\ Pre(Len(q)) = q
  BY <1>1, SubSeqFull
<1> QED BY <1>4, <1>5

(* A bound on every list bounds their sum: written with a product, as      *)
(* StaAssumption is.                                                       *)
LEMMA FlattenBound ==
  ASSUME NEW S, NEW q \in Seq(Seq(S)), NEW n \in Nat, NEW z \in Nat,
         \A i \in 1 .. Len(q) : Len(q[i]) * n <= z
  PROVE  Len(FlattenSeq(q)) * n <= Len(q) * z
<1> DEFINE Pre(m) == SubSeq(q, 1, m)
           B == {m \in 0 .. Len(q) : ~(Len(FlattenSeq(Pre(m))) * n <= m * z)}
<1>1. Len(q) \in Nat
  BY LenProperties
<1>2. ASSUME NEW m \in B PROVE m - 1 \in B
  <2>1. CASE m = 0
    <3>1. Pre(0) = << >> /\ Len(<< >>) = 0
      BY SubSeqEmpty, EmptySeq
    <3>2. Len(FlattenSeq(Pre(0))) = 0
      BY <3>1, FlattenEmpty
    <3>3. Len(FlattenSeq(Pre(0))) * n <= 0 * z
      BY <3>2
    <3> QED BY <2>1, <3>3
  <2>2. CASE m # 0
    <3>1. m \in 1 .. Len(q) /\ m - 1 \in 0 .. Len(q) /\ m \in Nat
      BY <1>1, <2>2
    <3> DEFINE r == Pre(m - 1)
    <3>2. r \in Seq(Seq(S)) /\ q[m] \in Seq(S) /\ Pre(m) = Append(r, q[m])
      BY <3>1, PrefixStep
    <3>3. ~(Len(FlattenSeq(Pre(m))) * n <= m * z)
      OBVIOUS
    <3> HIDE DEF Pre, r
    <3>4. FlattenSeq(Pre(m)) = FlattenSeq(r) \o q[m] /\ FlattenSeq(r) \in Seq(S)
      BY <3>2, FlattenAppend
    <3>5. /\ Len(FlattenSeq(Pre(m))) = Len(FlattenSeq(r)) + Len(q[m])
          /\ Len(FlattenSeq(r)) \in Nat /\ Len(q[m]) \in Nat
      BY <3>2, <3>4, ConcatProperties, LenProperties
    <3>6. ASSUME NEW a \in Nat, NEW b \in Nat, b * n <= z, ~((a + b) * n <= m * z)
          PROVE  ~(a * n <= (m - 1) * z)
      <4>1. (a + b) * n = a * n + b * n /\ (m - 1) * z = m * z - z
        BY <3>1, <3>6
      <4>2. a * n \in Int /\ b * n \in Int /\ m * z \in Int
        BY <3>1, <3>6
      <4> QED BY <3>6, <4>1, <4>2
    <3>7. ~(Len(FlattenSeq(r)) * n <= (m - 1) * z)
      BY <3>1, <3>3, <3>5, <3>6
    <3> QED BY <3>1, <3>7 DEF r
  <2> QED BY <2>1, <2>2
<1>3. B \subseteq Nat
  BY <1>1
<1>4. B = {}
  <2> HIDE DEF B
  <2> QED BY <1>2, <1>3, Descent
<1>5. Len(q) \in 0 .. Len(q) /\ Pre(Len(q)) = q
  BY <1>1, SubSeqFull
<1> QED BY <1>4, <1>5

-------------------------------------------------------------------------------
(* The instructions in flight as one list.                                 *)

Flight == IFETCH_SIZE + DECODE_SIZE + ROB_SIZE
Burst  == {n \in Nat : n * Flight <= STA_SIZE}

IEntry == [id : Nat, line : Lines, fetched : 0 .. COMPLETED, stores : Burst, mispredicted : BOOLEAN]
DEntry == [id : Nat, stores : Burst, mispredicted : BOOLEAN, wait : -1 .. Undecoded]
REntry == [id : Nat, stores : Burst, mispredicted : BOOLEAN, executed : BOOLEAN]

Types ==
  /\ ifetch \in Seq(IEntry) /\ decode \in Seq(DEntry) /\ rob \in Seq(REntry)
  /\ Len(ifetch) <= IFETCH_SIZE /\ Len(decode) <= DECODE_SIZE /\ Len(rob) <= ROB_SIZE
  /\ STA \in [0 .. STA_SIZE - 1 -> 0 .. MaxRead]
  /\ STA_head \in 0 .. STA_SIZE - 1 /\ STA_tail \in 0 .. STA_SIZE - 1
  /\ fetch_stall \in BOOLEAN /\ resume \in Never .. BRANCH_MISPREDICT_PENALTY
  /\ l1i \subseteq Lines /\ processed \in Seq(Lines)
  /\ phase \in {"back", "decode", "fetch", "read"} /\ warm \in BOOLEAN
  /\ read \in 0 .. MaxRead /\ retired \in Nat

InFlight == Len(rob) + Len(decode) + Len(ifetch)

(* The j-th of them: its id, the stores it still has in STA, and whether   *)
(* it is a mispredicted branch that has not executed.                      *)
IdAt(j) ==
  IF j <= Len(rob) THEN rob[j].id
  ELSE IF j <= Len(rob) + Len(decode) THEN decode[j - Len(rob)].id
  ELSE ifetch[j - Len(rob) - Len(decode)].id

StoresAt(j) ==
  IF j <= Len(rob) THEN rob[j].stores
  ELSE IF j <= Len(rob) + Len(decode) THEN decode[j - Len(rob)].stores
  ELSE ifetch[j - Len(rob) - Len(decode)].stores

MissAt(j) ==
  IF j <= Len(rob) THEN rob[j].mispredicted /\ ~rob[j].executed
  ELSE IF j <= Len(rob) + Len(decode) THEN decode[j - Len(rob)].mispredicted
  ELSE ifetch[j - Len(rob) - Len(decode)].mispredicted

(* What ProgramOrder and StallOwed say of that list.                       *)
Numbered ==
  /\ read = retired + InFlight
  /\ \A j \in 1 .. InFlight : IdAt(j) = retired + j

LastStalls ==
  /\ \A j \in 1 .. InFlight : MissAt(j) => j = InFlight /\ fetch_stall /\ resume = Never
  /\ fetch_stall /\ resume = Never => InFlight >= 1 /\ MissAt(InFlight)
  /\ resume # Never => fetch_stall

Run(n, id) == [k \in 1 .. n |-> id]
Runs    == [j \in 1 .. InFlight |-> Run(StoresAt(j), retired + j)]
Pending == FlattenSeq(Runs)

RingOf(ring, head, tail, p) ==
  /\ Len(p) <= STA_SIZE
  /\ \A k \in 1 .. Len(p) : ring[(head + k - 1) % STA_SIZE] = p[k]
  /\ \A k \in Len(p) + 1 .. STA_SIZE : ring[(head + k - 1) % STA_SIZE] = Empty
  /\ tail = (head + Len(p)) % STA_SIZE

(* An executed instruction has all its stores in the store queue.          *)
Placed == \A i \in 1 .. Len(rob) : rob[i].executed => rob[i].stores = 0

FrontInv ==
  /\ Types /\ Numbered /\ LastStalls /\ Placed /\ AnswerComing
  /\ RingOf(STA, STA_head, STA_tail, Pending) /\ asserts = {}

LEMMA Sizes ==
  /\ IFETCH_SIZE \in Nat /\ DECODE_SIZE \in Nat /\ ROB_SIZE \in Nat /\ STA_SIZE \in Nat
  /\ FETCH_WIDTH \in Nat /\ DECODE_WIDTH \in Nat /\ DECODE_LATENCY \in Nat
  /\ MaxRead \in Nat /\ BRANCH_MISPREDICT_PENALTY \in Nat /\ BRANCH_MISPREDICT_PENALTY >= 1
  /\ IFETCH_SIZE >= 1 /\ STA_SIZE >= 1 /\ Flight \in Nat /\ Flight >= 1
BY SizesAssumption DEF Flight

LEMMA ListOf ==
  ASSUME NEW S, NEW n \in Nat, NEW f \in [1 .. n -> S]
  PROVE  f \in Seq(S) /\ Len(f) = n /\ DOMAIN f = 1 .. n
OBVIOUS

LEMMA Lens ==
  ASSUME Types
  PROVE  /\ Len(rob) \in Nat /\ Len(decode) \in Nat /\ Len(ifetch) \in Nat /\ InFlight \in Nat
         /\ DOMAIN rob = 1 .. Len(rob) /\ DOMAIN decode = 1 .. Len(decode)
         /\ DOMAIN ifetch = 1 .. Len(ifetch)
         /\ \A i \in 1 .. Len(rob) : rob[i] \in REntry
         /\ \A i \in 1 .. Len(decode) : decode[i] \in DEntry
         /\ \A i \in 1 .. Len(ifetch) : ifetch[i] \in IEntry
         /\ InFlight <= Flight
<1>1. ifetch \in Seq(IEntry) /\ decode \in Seq(DEntry) /\ rob \in Seq(REntry)
  BY DEF Types
<1>2. Len(rob) \in Nat /\ Len(decode) \in Nat /\ Len(ifetch) \in Nat
  BY <1>1, LenProperties
<1>3. InFlight \in Nat /\ InFlight <= Flight
  BY <1>2, Sizes DEF InFlight, Flight, Types
<1>4. DOMAIN rob = 1 .. Len(rob) /\ DOMAIN decode = 1 .. Len(decode) /\ DOMAIN ifetch = 1 .. Len(ifetch)
  BY <1>1, LenProperties
<1>5. \A i \in 1 .. Len(rob) : rob[i] \in REntry
  BY <1>1, ElementOfSeq
<1>6. \A i \in 1 .. Len(decode) : decode[i] \in DEntry
  BY <1>1, ElementOfSeq
<1>7. \A i \in 1 .. Len(ifetch) : ifetch[i] \in IEntry
  BY <1>1, ElementOfSeq
<1> QED BY <1>2, <1>3, <1>4, <1>5, <1>6, <1>7

LEMMA ViewTypes ==
  ASSUME Types, NEW j \in 1 .. InFlight
  PROVE  IdAt(j) \in Nat /\ StoresAt(j) \in Burst
<1>1. CASE j <= Len(rob)
  <2>1. rob[j] \in REntry
    BY <1>1, Lens
  <2> QED BY <1>1, <2>1 DEF IdAt, StoresAt, REntry
<1>2. CASE ~(j <= Len(rob)) /\ j <= Len(rob) + Len(decode)
  <2>1. j - Len(rob) \in 1 .. Len(decode)
    BY <1>2, Lens
  <2>2. decode[j - Len(rob)] \in DEntry
    BY <2>1, Lens
  <2> QED BY <1>2, <2>2 DEF IdAt, StoresAt, DEntry
<1>3. CASE ~(j <= Len(rob)) /\ ~(j <= Len(rob) + Len(decode))
  <2>1. j - Len(rob) - Len(decode) \in 1 .. Len(ifetch)
    BY <1>3, Lens DEF InFlight
  <2>2. ifetch[j - Len(rob) - Len(decode)] \in IEntry
    BY <2>1, Lens
  <2> QED BY <1>3, <2>2 DEF IdAt, StoresAt, IEntry
<1> QED BY <1>1, <1>2, <1>3

(* What Longest takes from a buffer.                                       *)
LEMMA LongestIs ==
  ASSUME NEW ready, Len(ready) \in Nat, NEW limit \in Nat
  PROVE  Longest(ready, limit) \in 0 .. Len(ready) /\ Longest(ready, limit) <= limit
<1> DEFINE Prefix(n) == n <= limit /\ \A i \in 1 .. n : ready[i]
           B == {n \in 0 .. Len(ready) : Prefix(n)}
           P(n) == /\ n <= limit /\ \A i \in 1 .. n : ready[i]
                   /\ n = Len(ready) \/ n = limit \/ ~ready[n + 1]
<1>1. SUFFICES \E n \in 0 .. Len(ready) : P(n)
  BY DEF Longest
<1>2. SUFFICES ASSUME \A n \in 0 .. Len(ready) : ~P(n)
               PROVE  FALSE
  OBVIOUS
<1>3. 0 \in B
  OBVIOUS
<1>4. \A n \in B : n + 1 \in B
  <2> SUFFICES ASSUME NEW n \in B PROVE n + 1 \in B
    OBVIOUS
  <2>1. n \in 0 .. Len(ready) /\ Prefix(n) /\ ~P(n)
    BY <1>2
  <2>2. n # Len(ready) /\ n # limit /\ ready[n + 1]
    BY <2>1
  <2>3. n + 1 \in 0 .. Len(ready) /\ n + 1 <= limit
    BY <2>1, <2>2
  <2>4. \A i \in 1 .. n + 1 : i = n + 1 \/ i \in 1 .. n
    BY <2>1
  <2>5. \A i \in 1 .. n + 1 : ready[i]
    BY <2>1, <2>2, <2>4
  <2> QED BY <2>3, <2>5
<1> DEFINE C == {m \in 0 .. Len(ready) : Len(ready) - m \in B}
<1>5. Len(ready) \in C
  <2>1. Len(ready) - Len(ready) = 0 /\ Len(ready) \in 0 .. Len(ready)
    OBVIOUS
  <2> HIDE DEF B
  <2> QED BY <1>3, <2>1
<1>6. \A m \in C : m - 1 \in C
  <2> SUFFICES ASSUME NEW m \in C PROVE m - 1 \in C
    OBVIOUS
  <2>1. m \in 0 .. Len(ready) /\ (Len(ready) - m) + 1 \in B
    BY <1>4
  <2>2. Len(ready) - (m - 1) = (Len(ready) - m) + 1
    BY <2>1
  <2>3. (Len(ready) - m) + 1 \in 0 .. Len(ready)
    BY <2>1
  <2>4. m - 1 \in 0 .. Len(ready)
    BY <2>1, <2>3
  <2> HIDE DEF B
  <2> QED BY <2>1, <2>2, <2>4
<1>7. C \subseteq Nat
  OBVIOUS
<1>8. C = {}
  <2> HIDE DEF C
  <2> QED BY <1>6, <1>7, Descent
<1> QED BY <1>5, <1>8

-------------------------------------------------------------------------------
(* A step that leaves the list as it is, and one that moves instructions   *)
(* from a buffer to the next.                                              *)

SameView ==
  /\ InFlight' = InFlight /\ retired' = retired /\ read' = read
  /\ \A j \in 1 .. InFlight :
       IdAt(j)' = IdAt(j) /\ StoresAt(j)' = StoresAt(j) /\ (MissAt(j)' <=> MissAt(j))

LEMMA ViewNumbered ==
  ASSUME Numbered, SameView
  PROVE  Numbered'
BY DEF Numbered, SameView

LEMMA ViewPending ==
  ASSUME SameView
  PROVE  Pending' = Pending
<1>1. \A j \in 1 .. InFlight : Run(StoresAt(j), retired + j)' = Run(StoresAt(j), retired + j)
  BY DEF SameView, Run
<1>2. Runs' = Runs
  <2>1. Runs' = [j \in 1 .. InFlight |-> Run(StoresAt(j), retired + j)']
    BY DEF Runs, SameView
  <2>2. [j \in 1 .. InFlight |-> Run(StoresAt(j), retired + j)'] = Runs
    BY <1>1 DEF Runs
  <2> QED BY <2>1, <2>2
<1> QED BY <1>2 DEF Pending

LEMMA ViewRing ==
  ASSUME SameView, UNCHANGED sta, RingOf(STA, STA_head, STA_tail, Pending)
  PROVE  RingOf(STA, STA_head, STA_tail, Pending)'
<1>1. Pending' = Pending /\ STA' = STA /\ STA_head' = STA_head /\ STA_tail' = STA_tail
  BY ViewPending DEF sta
<1> QED BY <1>1 DEF RingOf

LEMMA ViewStalls ==
  ASSUME Types, LastStalls, SameView, fetch_stall' <=> fetch_stall, resume' = Never <=> resume = Never
  PROVE  LastStalls'
<1>1. InFlight >= 1 => InFlight \in 1 .. InFlight
  BY Lens
<1>2. InFlight >= 1 => (MissAt(InFlight)' <=> MissAt(InFlight))
  BY <1>1 DEF SameView
<1> QED BY <1>2 DEF LastStalls, SameView

(* Two entries that say the same of an instruction.                        *)
Alike(x, y) == x.id = y.id /\ x.stores = y.stores /\ (x.mispredicted <=> y.mispredicted)

AllAlike(s, t) == Len(s) = Len(t) /\ \A i \in 1 .. Len(t) : Alike(s[i], t[i])

(* n instructions go from the front of b to the end of a.                  *)
Shifts(a, b, c, d, n) ==
  /\ n \in 0 .. Len(b) /\ Len(c) = Len(a) + n /\ Len(d) = Len(b) - n
  /\ \A i \in 1 .. Len(a) : c[i] = a[i]
  /\ \A i \in 1 .. n : Alike(c[Len(a) + i], b[i])
  /\ \A i \in 1 .. Len(d) : Alike(d[i], b[n + i])

(* The buffers in place.                                                   *)
LEMMA AlikeView ==
  ASSUME Types, rob' = rob, AllAlike(decode', decode), AllAlike(ifetch', ifetch),
         retired' = retired, read' = read
  PROVE  SameView
<1>1. Len(rob') = Len(rob) /\ Len(decode') = Len(decode) /\ Len(ifetch') = Len(ifetch)
  BY DEF AllAlike
<1>2. InFlight' = InFlight
  BY <1>1 DEF InFlight
<1>3. ASSUME NEW j \in 1 .. InFlight
      PROVE  IdAt(j)' = IdAt(j) /\ StoresAt(j)' = StoresAt(j) /\ (MissAt(j)' <=> MissAt(j))
  <2>1. CASE j <= Len(rob)
    BY <1>1, <2>1 DEF IdAt, StoresAt, MissAt
  <2>2. CASE ~(j <= Len(rob)) /\ j <= Len(rob) + Len(decode)
    <3>1. j - Len(rob) \in 1 .. Len(decode)
      BY <2>2, Lens
    <3>2. Alike(decode'[j - Len(rob)], decode[j - Len(rob)])
      BY <3>1 DEF AllAlike
    <3> QED BY <1>1, <2>2, <3>2 DEF IdAt, StoresAt, MissAt, Alike
  <2>3. CASE ~(j <= Len(rob)) /\ ~(j <= Len(rob) + Len(decode))
    <3>1. j - Len(rob) - Len(decode) \in 1 .. Len(ifetch)
      BY <2>3, Lens DEF InFlight
    <3>2. Alike(ifetch'[j - Len(rob) - Len(decode)], ifetch[j - Len(rob) - Len(decode)])
      BY <3>1 DEF AllAlike
    <3> QED BY <1>1, <2>3, <3>2 DEF IdAt, StoresAt, MissAt, Alike
  <2> QED BY <2>1, <2>2, <2>3
<1> QED BY <1>2, <1>3 DEF SameView

LEMMA DispatchView ==
  ASSUME Types, NEW n, Shifts(rob, decode, rob', decode', n),
         \A i \in 1 .. n : ~rob'[Len(rob) + i].executed,
         ifetch' = ifetch, retired' = retired, read' = read
  PROVE  SameView
<1>1. /\ n \in 0 .. Len(decode) /\ Len(rob') = Len(rob) + n
      /\ Len(decode') = Len(decode) - n /\ Len(ifetch') = Len(ifetch)
  BY DEF Shifts
<1>2. InFlight' = InFlight
  BY <1>1, Lens DEF InFlight
<1>3. ASSUME NEW j \in 1 .. InFlight
      PROVE  IdAt(j)' = IdAt(j) /\ StoresAt(j)' = StoresAt(j) /\ (MissAt(j)' <=> MissAt(j))
  <2>1. CASE j <= Len(rob)
    <3>1. j \in 1 .. Len(rob) /\ j <= Len(rob) + n
      BY <1>1, <2>1, Lens
    <3>2. rob'[j] = rob[j]
      BY <3>1 DEF Shifts
    <3> QED BY <1>1, <2>1, <3>1, <3>2 DEF IdAt, StoresAt, MissAt
  <2>2. CASE ~(j <= Len(rob)) /\ j <= Len(rob) + n
    <3> DEFINE i == j - Len(rob)
    <3>1. i \in 1 .. n /\ Len(rob) + i = j /\ j <= Len(rob) + Len(decode)
      BY <1>1, <2>2, Lens
    <3>2. Alike(rob'[Len(rob) + i], decode[i]) /\ ~rob'[Len(rob) + i].executed
      BY <3>1 DEF Shifts
    <3> QED BY <1>1, <2>2, <3>1, <3>2 DEF IdAt, StoresAt, MissAt, Alike
  <2>3. CASE ~(j <= Len(rob) + n) /\ j <= Len(rob) + Len(decode)
    <3> DEFINE i == j - (Len(rob) + n)
    <3>1. i \in 1 .. Len(decode') /\ n + i = j - Len(rob) /\ ~(j <= Len(rob))
          /\ j <= (Len(rob) + n) + (Len(decode) - n)
      BY <1>1, <2>3, Lens
    <3>2. Alike(decode'[i], decode[n + i])
      BY <3>1 DEF Shifts
    <3> QED BY <1>1, <2>3, <3>1, <3>2 DEF IdAt, StoresAt, MissAt, Alike
  <2>4. CASE ~(j <= Len(rob) + Len(decode))
    <3>1. ~(j <= Len(rob) + n) /\ ~(j <= Len(rob)) /\ ~(j <= (Len(rob) + n) + (Len(decode) - n))
          /\ j - (Len(rob) + n) - (Len(decode) - n) = j - Len(rob) - Len(decode)
      BY <1>1, <2>4, Lens
    <3> QED BY <1>1, <2>4, <3>1 DEF IdAt, StoresAt, MissAt
  <2> QED BY <2>1, <2>2, <2>3, <2>4
<1> QED BY <1>2, <1>3 DEF SameView

LEMMA FetchView ==
  ASSUME Types, NEW n, Shifts(decode, ifetch, decode', ifetch', n),
         rob' = rob, retired' = retired, read' = read
  PROVE  SameView
<1>1. /\ n \in 0 .. Len(ifetch) /\ Len(decode') = Len(decode) + n
      /\ Len(ifetch') = Len(ifetch) - n /\ Len(rob') = Len(rob)
  BY DEF Shifts
<1>2. InFlight' = InFlight
  BY <1>1, Lens DEF InFlight
<1>3. ASSUME NEW j \in 1 .. InFlight
      PROVE  IdAt(j)' = IdAt(j) /\ StoresAt(j)' = StoresAt(j) /\ (MissAt(j)' <=> MissAt(j))
  <2>1. CASE j <= Len(rob)
    BY <1>1, <2>1 DEF IdAt, StoresAt, MissAt
  <2>2. CASE ~(j <= Len(rob)) /\ j <= Len(rob) + Len(decode)
    <3>1. j - Len(rob) \in 1 .. Len(decode) /\ j <= Len(rob) + (Len(decode) + n)
      BY <1>1, <2>2, Lens
    <3>2. decode'[j - Len(rob)] = decode[j - Len(rob)]
      BY <3>1 DEF Shifts
    <3> QED BY <1>1, <2>2, <3>1, <3>2 DEF IdAt, StoresAt, MissAt
  <2>3. CASE ~(j <= Len(rob) + Len(decode)) /\ j <= Len(rob) + (Len(decode) + n)
    <3> DEFINE i == j - Len(rob) - Len(decode)
    <3>1. i \in 1 .. n /\ Len(decode) + i = j - Len(rob) /\ ~(j <= Len(rob))
      BY <1>1, <2>3, Lens
    <3>2. Alike(decode'[Len(decode) + i], ifetch[i])
      BY <3>1 DEF Shifts
    <3> QED BY <1>1, <2>3, <3>1, <3>2 DEF IdAt, StoresAt, MissAt, Alike
  <2>4. CASE ~(j <= Len(rob) + (Len(decode) + n))
    <3> DEFINE i == j - Len(rob) - (Len(decode) + n)
    <3>1. i \in 1 .. Len(ifetch') /\ n + i = j - Len(rob) - Len(decode)
          /\ ~(j <= Len(rob)) /\ ~(j <= Len(rob) + Len(decode))
      BY <1>1, <2>4, Lens DEF InFlight
    <3>2. Alike(ifetch'[i], ifetch[n + i])
      BY <3>1 DEF Shifts
    <3> QED BY <1>1, <2>4, <3>1, <3>2 DEF IdAt, StoresAt, MissAt, Alike
  <2> QED BY <2>1, <2>2, <2>3, <2>4
<1> QED BY <1>2, <1>3 DEF SameView

-------------------------------------------------------------------------------
(* decode_and_dispatch.                                                    *)

LEMMA RestIs ==
  ASSUME NEW S, NEW q \in Seq(S), NEW n \in 0 .. Len(q)
  PROVE  /\ Rest(q, n) \in Seq(S) /\ Len(Rest(q, n)) = Len(q) - n
         /\ \A i \in 1 .. Len(q) - n : Rest(q, n)[i] = q[n + i]
<1>1. Len(q) \in Nat /\ n + 1 \in Int /\ Len(q) \in Int
  BY LenProperties
<1>2. \A i \in n + 1 .. Len(q) : q[i] \in S
  BY <1>1, ElementOfSeq
<1>3. /\ SubSeq(q, n + 1, Len(q)) \in Seq(S)
      /\ Len(SubSeq(q, n + 1, Len(q))) = IF n + 1 <= Len(q) THEN Len(q) - (n + 1) + 1 ELSE 0
      /\ \A i \in 1 .. Len(q) - (n + 1) + 1 : SubSeq(q, n + 1, Len(q))[i] = q[n + 1 + i - 1]
  BY <1>1, <1>2, SubSeqProperties
<1>4. \A i \in 1 .. Len(q) - n : i \in 1 .. Len(q) - (n + 1) + 1 /\ n + 1 + i - 1 = n + i
  BY <1>1
<1> QED BY <1>1, <1>3, <1>4 DEF Rest

(* What a waiting instruction becomes in the ROB.                          *)
Dispatch(e) ==
  [id |-> e.id, stores |-> e.stores, mispredicted |-> e.mispredicted, executed |-> FALSE]

LEMMA DispatchEntry ==
  ASSUME NEW e \in DEntry
  PROVE  Dispatch(e) \in REntry /\ Alike(Dispatch(e), e) /\ ~Dispatch(e).executed
<1>1. e.id \in Nat /\ e.stores \in Burst /\ e.mispredicted \in BOOLEAN
  BY DEF DEntry
<1>2. Dispatch(e) \in REntry
  BY <1>1 DEF Dispatch, REntry
<1>3. /\ Dispatch(e).id = e.id /\ Dispatch(e).stores = e.stores
      /\ Dispatch(e).mispredicted = e.mispredicted /\ Dispatch(e).executed = FALSE
  BY DEF Dispatch
<1> QED BY <1>2, <1>3 DEF Alike

(* A change of the waiting time.                                           *)
LEMMA WaitEntry ==
  ASSUME NEW e \in DEntry, NEW w \in -1 .. Undecoded
  PROVE  [e EXCEPT !.wait = w] \in DEntry /\ Alike([e EXCEPT !.wait = w], e)
<1> DEFINE f == [e EXCEPT !.wait = w]
<1>1. f \in DEntry
  BY DEF DEntry
<1>2. f.id = e.id /\ f.stores = e.stores /\ f.mispredicted = e.mispredicted
  BY DEF DEntry
<1> QED BY <1>1, <1>2 DEF Alike

LEMMA PayDecodeIs ==
  ASSUME NEW left \in Seq(DEntry)
  PROVE  PayDecode(left) \in Seq(DEntry) /\ AllAlike(PayDecode(left), left)
<1> DEFINE w == IF warm THEN DECODE_LATENCY ELSE 0
           f == PayDecode(left)
<1>1. Len(left) \in Nat /\ DOMAIN left = 1 .. Len(left) /\ \A i \in 1 .. Len(left) : left[i] \in DEntry
  BY LenProperties, ElementOfSeq
<1>2. w \in -1 .. Undecoded
  BY Sizes DEF Undecoded
<1>3. f = [i \in 1 .. Len(left) |->
             IF Starts(left, i) THEN [left[i] EXCEPT !.wait = w] ELSE left[i]]
  BY <1>1 DEF PayDecode
<1> HIDE DEF w, f
<1>4. ASSUME NEW i \in 1 .. Len(left)
      PROVE  f[i] \in DEntry /\ Alike(f[i], left[i])
  <2>1. CASE Starts(left, i)
    <3>1. f[i] = [left[i] EXCEPT !.wait = w]
      BY <1>3, <2>1
    <3> QED BY <1>1, <1>2, <3>1, WaitEntry
  <2>2. CASE ~Starts(left, i)
    <3>1. f[i] = left[i]
      BY <1>3, <2>2
    <3> QED BY <1>1, <3>1 DEF Alike
  <2> QED BY <2>1, <2>2
<1>5. f \in [1 .. Len(left) -> DEntry]
  BY <1>3, <1>4
<1>6. f \in Seq(DEntry) /\ Len(f) = Len(left)
  BY <1>1, <1>5, ListOf
<1> QED BY <1>4, <1>6 DEF AllAlike, f

LEMMA DispatchedIs ==
  ASSUME Types
  PROVE  Dispatched \in 0 .. Len(decode) /\ Dispatched <= ROB_SIZE - Len(rob)
<1> DEFINE limit == Smaller(DECODE_WIDTH, ROB_SIZE - Len(rob))
<1>1. limit \in Nat /\ limit <= ROB_SIZE - Len(rob)
  BY Lens, Sizes DEF Types, Smaller
<1>2. Len(MayDispatch) = Len(decode)
  <2>1. MayDispatch = [i \in 1 .. Len(decode) |-> ~warm \/ decode[i].wait = Decoded]
    BY Lens DEF MayDispatch
  <2>2. MayDispatch \in [1 .. Len(decode) -> BOOLEAN]
    BY <2>1
  <2> QED BY <2>2, Lens, ListOf
<1>3. Len(MayDispatch) \in Nat
  BY <1>2, Lens
<1>4. Longest(MayDispatch, limit) \in 0 .. Len(MayDispatch) /\ Longest(MayDispatch, limit) <= limit
  <2> HIDE DEF limit
  <2> QED BY <1>1, <1>3, LongestIs
<1>5. Dispatched = Longest(MayDispatch, limit)
  BY DEF Dispatched
<1> HIDE DEF limit
<1> QED BY <1>1, <1>2, <1>3, <1>4, <1>5, Lens, Sizes

LEMMA Appended ==
  ASSUME NEW S, NEW q \in Seq(S), NEW n \in Nat, NEW f \in [1 .. n -> S]
  PROVE  /\ q \o f \in Seq(S) /\ Len(q \o f) = Len(q) + n
         /\ \A i \in 1 .. Len(q) : (q \o f)[i] = q[i]
         /\ \A i \in 1 .. n : (q \o f)[Len(q) + i] = f[i]
<1>1. f \in Seq(S) /\ Len(f) = n /\ Len(q) \in Nat
  BY ListOf, LenProperties
<1>2. /\ q \o f \in Seq(S) /\ Len(q \o f) = Len(q) + n
      /\ \A i \in 1 .. Len(q) + n : (q \o f)[i] = IF i <= Len(q) THEN q[i] ELSE f[i - Len(q)]
  BY <1>1, ConcatProperties
<1>3. \A i \in 1 .. Len(q) : i \in 1 .. Len(q) + n /\ i <= Len(q)
  BY <1>1
<1>4. \A i \in 1 .. n : Len(q) + i \in 1 .. Len(q) + n /\ ~(Len(q) + i <= Len(q)) /\ (Len(q) + i) - Len(q) = i
  BY <1>1
<1> QED BY <1>2, <1>3, <1>4

LEMMA DecodeMoves ==
  ASSUME Types, DecodeAndDispatch
  PROVE  /\ Shifts(rob, decode, rob', decode', Dispatched)
         /\ rob' \in Seq(REntry) /\ decode' \in Seq(DEntry)
         /\ Len(rob') <= ROB_SIZE /\ Len(decode') <= DECODE_SIZE
         /\ \A i \in 1 .. Dispatched : ~rob'[Len(rob) + i].executed
<1> DEFINE n == Dispatched
           new == [i \in 1 .. n |-> Dispatch(decode[i])]
           left == Rest(decode, n)
<1>1. n \in 0 .. Len(decode) /\ n <= ROB_SIZE - Len(rob) /\ n \in Nat
  BY DispatchedIs, Lens
<1>2. rob' = rob \o new
  BY DEF DecodeAndDispatch, Dispatch
<1>3. decode' = PayDecode(left)
  BY DEF DecodeAndDispatch
<1> HIDE DEF n
<1>4. \A i \in 1 .. n : decode[i] \in DEntry
  BY <1>1, Lens
<1>5. new \in [1 .. n -> REntry]
  BY <1>4, DispatchEntry
<1>6. \A i \in 1 .. n : new[i] = Dispatch(decode[i])
  OBVIOUS
<1> HIDE DEF new
<1>7. rob \in Seq(REntry) /\ decode \in Seq(DEntry)
  BY DEF Types
<1>8. /\ rob' \in Seq(REntry) /\ Len(rob') = Len(rob) + n
      /\ \A i \in 1 .. Len(rob) : rob'[i] = rob[i]
      /\ \A i \in 1 .. n : rob'[Len(rob) + i] = new[i]
  <2>1. n \in Nat /\ rob \in Seq(REntry)
    BY <1>1, <1>7
  <2>2. /\ rob \o new \in Seq(REntry) /\ Len(rob \o new) = Len(rob) + n
        /\ \A i \in 1 .. Len(rob) : (rob \o new)[i] = rob[i]
        /\ \A i \in 1 .. n : (rob \o new)[Len(rob) + i] = new[i]
    BY ONLY <1>5, <2>1, Appended
  <2> QED BY ONLY <1>2, <2>2
<1>9. /\ left \in Seq(DEntry) /\ Len(left) = Len(decode) - n
      /\ \A i \in 1 .. Len(decode) - n : left[i] = decode[n + i]
  BY <1>1, <1>7, RestIs
<1> HIDE DEF left
<1>10. decode' \in Seq(DEntry) /\ AllAlike(decode', left)
  BY <1>3, <1>9, PayDecodeIs
<1>11. \A i \in 1 .. n : Alike(rob'[Len(rob) + i], decode[i]) /\ ~rob'[Len(rob) + i].executed
  BY <1>4, <1>6, <1>8, DispatchEntry
<1>12. Len(decode') = Len(decode) - n /\ \A i \in 1 .. Len(decode') : Alike(decode'[i], decode[n + i])
  BY <1>9, <1>10 DEF AllAlike
<1>13. Len(rob') <= ROB_SIZE /\ Len(decode') <= DECODE_SIZE
  BY <1>1, <1>8, <1>12, Lens, Sizes DEF Types
<1> QED BY <1>1, <1>8, <1>10, <1>11, <1>12, <1>13 DEF Shifts, n

LEMMA DecodeKeeps ==
  ASSUME FrontInv, DecodeAndDispatch
  PROVE  FrontInv'
<1>1. Types
  BY DEF FrontInv
<1>2. SameView
  <2>1. ifetch' = ifetch /\ retired' = retired /\ read' = read
    BY DEF DecodeAndDispatch
  <2> QED BY <1>1, <2>1, DecodeMoves, DispatchView
<1>3. Types'
  <2>1. /\ ifetch' = ifetch /\ STA' = STA /\ STA_head' = STA_head /\ STA_tail' = STA_tail
        /\ fetch_stall' = fetch_stall /\ resume' = resume /\ l1i' = l1i
        /\ processed' = processed /\ phase' = "fetch" /\ warm' = warm /\ read' = read /\ retired' = retired
    BY DEF DecodeAndDispatch, sta, stall, cache
  <2> QED BY <1>1, <2>1, DecodeMoves DEF Types
<1>4. Numbered' /\ LastStalls' /\ RingOf(STA, STA_head, STA_tail, Pending)'
  <2>1. UNCHANGED sta /\ fetch_stall' = fetch_stall /\ resume' = resume
    BY DEF DecodeAndDispatch, stall
  <2> QED BY <1>1, <1>2, <2>1, ViewNumbered, ViewStalls, ViewRing DEF FrontInv
<1>5. Placed'
  <2> SUFFICES ASSUME NEW i \in 1 .. Len(rob'), rob'[i].executed PROVE rob'[i].stores = 0
    BY DEF Placed
  <2>1. i <= Len(rob)
    <3> SUFFICES ASSUME ~(i <= Len(rob)) PROVE FALSE
      OBVIOUS
    <3>1. i - Len(rob) \in 1 .. Dispatched /\ Len(rob) + (i - Len(rob)) = i
      BY <1>1, DecodeMoves, DispatchedIs, Lens DEF Shifts
    <3> QED BY <1>1, <3>1, DecodeMoves
  <2>2. rob'[i] = rob[i] /\ i \in 1 .. Len(rob)
    BY <1>1, <2>1, DecodeMoves, Lens DEF Shifts
  <2> QED BY <2>2 DEF FrontInv, Placed
<1>6. AnswerComing' /\ asserts' = {}
  BY DEF FrontInv, DecodeAndDispatch, AnswerComing, cache, ToSet
<1> QED BY <1>3, <1>4, <1>5, <1>6 DEF FrontInv

-------------------------------------------------------------------------------
(* fetch_instruction.                                                      *)

LEMMA FetchedEntry ==
  ASSUME NEW e \in IEntry, NEW x \in 0 .. COMPLETED
  PROVE  /\ [e EXCEPT !.fetched = x] \in IEntry /\ Alike([e EXCEPT !.fetched = x], e)
         /\ [e EXCEPT !.fetched = x].line = e.line /\ [e EXCEPT !.fetched = x].fetched = x
<1> DEFINE f == [e EXCEPT !.fetched = x]
<1>1. f \in IEntry
  BY DEF IEntry
<1>2. f.id = e.id /\ f.stores = e.stores /\ f.mispredicted = e.mispredicted
      /\ f.line = e.line /\ f.fetched = x
  BY DEF IEntry
<1> QED BY <1>1, <1>2 DEF Alike

(* What an instruction with its line becomes in DECODE_BUFFER.             *)
ToBeDecoded(e) ==
  [id |-> e.id, stores |-> e.stores, mispredicted |-> e.mispredicted, wait |-> Undecoded]

LEMMA DecodeEntry ==
  ASSUME NEW e \in IEntry
  PROVE  ToBeDecoded(e) \in DEntry /\ Alike(ToBeDecoded(e), e)
<1>1. e.id \in Nat /\ e.stores \in Burst /\ e.mispredicted \in BOOLEAN
  BY DEF IEntry
<1>2. Undecoded \in -1 .. Undecoded
  BY Sizes DEF Undecoded
<1>3. ToBeDecoded(e) \in DEntry
  BY <1>1, <1>2 DEF ToBeDecoded, DEntry
<1>4. /\ ToBeDecoded(e).id = e.id /\ ToBeDecoded(e).stores = e.stores
      /\ ToBeDecoded(e).mispredicted = e.mispredicted
  BY DEF ToBeDecoded
<1> QED BY <1>3, <1>4 DEF Alike

LEMMA AskedIs ==
  ASSUME Types
  PROVE  /\ Asked \in Seq(IEntry) /\ AllAlike(Asked, ifetch)
         /\ \A i \in 1 .. Len(ifetch) :
              Asked[i].line = ifetch[i].line
              /\ (Asked[i].fetched = INFLIGHT => ifetch[i].line \in Taken \/ ifetch[i].fetched = INFLIGHT)
<1>1. Asked = [i \in 1 .. Len(ifetch) |->
        IF ifetch[i].line \in Taken THEN [ifetch[i] EXCEPT !.fetched = INFLIGHT] ELSE ifetch[i]]
  BY Lens DEF Asked
<1>2. INFLIGHT \in 0 .. COMPLETED
  BY DEF INFLIGHT, COMPLETED
<1>3. ASSUME NEW i \in 1 .. Len(ifetch)
      PROVE  /\ Asked[i] \in IEntry /\ Alike(Asked[i], ifetch[i]) /\ Asked[i].line = ifetch[i].line
             /\ Asked[i].fetched = INFLIGHT => ifetch[i].line \in Taken \/ ifetch[i].fetched = INFLIGHT
  <2>1. ifetch[i] \in IEntry
    BY Lens
  <2>2. CASE ifetch[i].line \in Taken
    <3>1. Asked[i] = [ifetch[i] EXCEPT !.fetched = INFLIGHT]
      BY <1>1, <2>2
    <3> QED BY <1>2, <2>1, <2>2, <3>1, FetchedEntry
  <2>3. CASE ~(ifetch[i].line \in Taken)
    <3>1. Asked[i] = ifetch[i]
      BY <1>1, <2>3
    <3> QED BY <2>1, <3>1 DEF Alike
  <2> QED BY <2>2, <2>3
<1>4. Asked \in [1 .. Len(ifetch) -> IEntry]
  BY <1>1, <1>3
<1>5. Asked \in Seq(IEntry) /\ Len(Asked) = Len(ifetch)
  BY <1>4, Lens, ListOf
<1> QED BY <1>3, <1>5 DEF AllAlike

LEMMA ToDecodeIs ==
  ASSUME Types
  PROVE  ToDecode \in 0 .. Len(ifetch) /\ ToDecode <= DECODE_SIZE - Len(decode)
<1> DEFINE limit == Smaller(DECODE_WIDTH, DECODE_SIZE - Len(decode))
<1>1. limit \in Nat /\ limit <= DECODE_SIZE - Len(decode)
  BY Lens, Sizes DEF Types, Smaller
<1>2. Len(Fetched) = Len(ifetch)
  <2>1. DOMAIN Asked = 1 .. Len(ifetch)
    BY AskedIs, LenProperties DEF AllAlike
  <2>2. Fetched = [i \in 1 .. Len(ifetch) |-> Asked[i].fetched = COMPLETED]
    BY <2>1 DEF Fetched
  <2>3. Fetched \in [1 .. Len(ifetch) -> BOOLEAN]
    BY <2>2
  <2> QED BY <2>3, Lens, ListOf
<1>3. Len(Fetched) \in Nat
  BY <1>2, Lens
<1>4. Longest(Fetched, limit) \in 0 .. Len(Fetched) /\ Longest(Fetched, limit) <= limit
  <2> HIDE DEF limit
  <2> QED BY <1>1, <1>3, LongestIs
<1>5. ToDecode = Longest(Fetched, limit)
  BY DEF ToDecode
<1> HIDE DEF limit
<1> QED BY <1>1, <1>2, <1>3, <1>4, <1>5, Lens, Sizes

LEMMA FetchMoves ==
  ASSUME Types, FetchInstruction
  PROVE  /\ Shifts(decode, ifetch, decode', ifetch', ToDecode)
         /\ decode' \in Seq(DEntry) /\ ifetch' \in Seq(IEntry)
         /\ Len(decode') <= DECODE_SIZE /\ Len(ifetch') <= IFETCH_SIZE
         /\ \A i \in 1 .. Len(ifetch') :
              /\ ToDecode + i \in 1 .. Len(ifetch)
              /\ ifetch'[i].line = ifetch[ToDecode + i].line
              /\ ifetch'[i].fetched = INFLIGHT =>
                   \/ ifetch[ToDecode + i].line \in Taken
                   \/ ifetch[ToDecode + i].fetched = INFLIGHT
<1> DEFINE n == ToDecode
           new == [i \in 1 .. n |-> ToBeDecoded(ifetch[i])]
<1>1. n \in 0 .. Len(ifetch) /\ n <= DECODE_SIZE - Len(decode) /\ n \in Nat
  BY ToDecodeIs, Lens
<1>2. decode' = decode \o new
  BY DEF FetchInstruction, ToBeDecoded
<1>3. ifetch' = Rest(Asked, n)
  BY DEF FetchInstruction
<1> HIDE DEF n
<1>4. \A i \in 1 .. n : ifetch[i] \in IEntry
  BY <1>1, Lens
<1>5. new \in [1 .. n -> DEntry]
  BY <1>4, DecodeEntry
<1>6. \A i \in 1 .. n : new[i] = ToBeDecoded(ifetch[i])
  OBVIOUS
<1> HIDE DEF new
<1>a. decode \in Seq(DEntry)
  BY DEF Types
<1>b. n \in Nat
  BY <1>1
<1>7. Asked \in Seq(IEntry) /\ Len(Asked) = Len(ifetch)
  BY AskedIs DEF AllAlike
<1>8. /\ decode' \in Seq(DEntry) /\ Len(decode') = Len(decode) + n
      /\ \A i \in 1 .. Len(decode) : decode'[i] = decode[i]
      /\ \A i \in 1 .. n : decode'[Len(decode) + i] = new[i]
  <2>1. /\ decode \o new \in Seq(DEntry) /\ Len(decode \o new) = Len(decode) + n
        /\ \A i \in 1 .. Len(decode) : (decode \o new)[i] = decode[i]
        /\ \A i \in 1 .. n : (decode \o new)[Len(decode) + i] = new[i]
    BY ONLY <1>b, <1>5, <1>a, Appended
  <2> QED BY ONLY <2>1, <1>2
<1>9. /\ ifetch' \in Seq(IEntry) /\ Len(ifetch') = Len(ifetch) - n
      /\ \A i \in 1 .. Len(ifetch) - n : ifetch'[i] = Asked[n + i]
  BY <1>1, <1>3, <1>7, RestIs
<1>10. \A i \in 1 .. n : Alike(decode'[Len(decode) + i], ifetch[i])
  BY <1>4, <1>6, <1>8, DecodeEntry
<1>11. \A i \in 1 .. Len(ifetch') : n + i \in 1 .. Len(ifetch) /\ ifetch'[i] = Asked[n + i]
  BY <1>1, <1>9, Lens
<1>12. \A i \in 1 .. Len(ifetch') : Alike(ifetch'[i], ifetch[n + i])
  BY <1>7, <1>11, AskedIs DEF AllAlike
<1>13. ASSUME NEW i \in 1 .. Len(ifetch')
       PROVE  /\ n + i \in 1 .. Len(ifetch)
              /\ ifetch'[i].line = ifetch[n + i].line
              /\ ifetch'[i].fetched = INFLIGHT =>
                   ifetch[n + i].line \in Taken \/ ifetch[n + i].fetched = INFLIGHT
  <2>1. n + i \in 1 .. Len(ifetch) /\ ifetch'[i] = Asked[n + i]
    BY <1>11
  <2> QED BY <2>1, AskedIs
<1>14. Len(decode') <= DECODE_SIZE /\ Len(ifetch') <= IFETCH_SIZE
  BY <1>1, <1>8, <1>9, Lens, Sizes DEF Types
<1> QED BY <1>1, <1>8, <1>9, <1>10, <1>12, <1>13, <1>14 DEF Shifts, n

LEMMA TakenLines ==
  ASSUME Types
  PROVE  Taken \subseteq Lines
<1>1. \A i \in DOMAIN ifetch : ifetch[i].line \in Lines
  BY Lens DEF IEntry
<1> QED BY <1>1 DEF Taken, Wanted

LEMMA FetchKeeps ==
  ASSUME FrontInv, FetchInstruction
  PROVE  FrontInv'
<1>1. Types
  BY DEF FrontInv
<1>a. /\ rob' = rob /\ STA' = STA /\ STA_head' = STA_head /\ STA_tail' = STA_tail
      /\ processed' = processed /\ phase' = "read" /\ warm' = warm /\ read' = read
      /\ retired' = retired /\ asserts' = asserts /\ l1i' = l1i \cup Taken
  BY DEF FetchInstruction, sta
<1>b. /\ ResumeFetch => fetch_stall /\ resume = 0 /\ ~fetch_stall' /\ resume' = Never
      /\ ~ResumeFetch => (fetch_stall' <=> fetch_stall) /\ resume' = resume
      /\ fetch_stall' \in BOOLEAN
  BY <1>1 DEF FetchInstruction, ResumeFetch, Types
<1>2. SameView
  BY <1>1, <1>a, FetchMoves, FetchView
<1>3. Types'
  <2>1. l1i' \subseteq Lines
    BY <1>1, <1>a, TakenLines DEF Types
  <2>2. resume' \in Never .. BRANCH_MISPREDICT_PENALTY
    BY <1>1, <1>b, Sizes DEF Types, Never
  <2> QED BY <1>1, <1>a, <1>b, <2>1, <2>2, FetchMoves DEF Types
<1>4. Numbered' /\ RingOf(STA, STA_head, STA_tail, Pending)'
  BY <1>1, <1>2, <1>a, ViewNumbered, ViewRing DEF FrontInv, sta
<1>5. LastStalls'
  <2>1. CASE ResumeFetch
    <3>1. resume # Never
      BY <1>b, <2>1 DEF Never
    <3>2. \A j \in 1 .. InFlight : ~MissAt(j)
      BY <3>1 DEF FrontInv, LastStalls
    <3> QED BY <1>2, <1>b, <2>1, <3>2 DEF LastStalls, SameView
  <2>2. CASE ~ResumeFetch
    BY <1>1, <1>2, <1>b, <2>2, ViewStalls DEF FrontInv
  <2> QED BY <2>1, <2>2
<1>6. Placed'
  BY <1>a DEF FrontInv, Placed
<1>7. AnswerComing'
  <2> SUFFICES ASSUME NEW i \in DOMAIN ifetch', ifetch'[i].fetched = INFLIGHT
               PROVE  ifetch'[i].line \in l1i' \cup ToSet(processed')
    BY DEF AnswerComing
  <2>1. i \in 1 .. Len(ifetch')
    BY <1>1, FetchMoves, LenProperties
  <2> DEFINE j == ToDecode + i
  <2>2. /\ j \in 1 .. Len(ifetch) /\ ifetch'[i].line = ifetch[j].line
        /\ ifetch[j].line \in Taken \/ ifetch[j].fetched = INFLIGHT
    BY <1>1, <2>1, FetchMoves
  <2> HIDE DEF j
  <2>3. ifetch[j].line \in Taken \/ ifetch[j].line \in l1i \cup ToSet(processed)
    BY <1>1, <2>2, Lens DEF FrontInv, AnswerComing
  <2> QED BY <1>a, <2>2, <2>3
<1> QED BY <1>3, <1>4, <1>5, <1>6, <1>7, <1>a DEF FrontInv

-------------------------------------------------------------------------------
(* L1I, the back end and the end of a cycle.                               *)

LEMMA SameAlike == ASSUME NEW s PROVE AllAlike(s, s)
BY DEF AllAlike, Alike

LEMMA AnswerKeeps ==
  ASSUME FrontInv, NEW line \in Lines, Answer(line)
  PROVE  FrontInv'
<1>a. /\ rob' = rob /\ decode' = decode /\ ifetch' = ifetch
      /\ STA' = STA /\ STA_head' = STA_head /\ STA_tail' = STA_tail
      /\ fetch_stall' = fetch_stall /\ resume' = resume /\ phase' = phase /\ warm' = warm
      /\ read' = read /\ retired' = retired /\ asserts' = asserts
      /\ l1i' = l1i \ {line} /\ processed' = Append(processed, line)
  BY DEF Answer, buffers, sta, stall
<1>1. Types
  BY DEF FrontInv
<1>2. SameView
  BY <1>1, <1>a, SameAlike, AlikeView
<1>3. processed \in Seq(Lines)
  BY <1>1 DEF Types
<1>4. Types'
  <2>1. processed' \in Seq(Lines) /\ l1i' \subseteq Lines
    BY <1>1, <1>3, <1>a, AppendProperties DEF Types
  <2> QED BY <1>1, <1>a, <2>1 DEF Types
<1>5. Numbered' /\ LastStalls' /\ RingOf(STA, STA_head, STA_tail, Pending)'
  BY <1>1, <1>2, <1>a, ViewNumbered, ViewStalls, ViewRing DEF FrontInv, sta
<1>6. Placed'
  BY <1>a DEF FrontInv, Placed
<1>7. l1i \cup ToSet(processed) \subseteq l1i' \cup ToSet(processed')
  <2>1. /\ Len(processed) \in Nat /\ Len(processed') = Len(processed) + 1 /\ DOMAIN processed = 1 .. Len(processed)
        /\ processed' \in Seq(Lines)
        /\ \A i \in 1 .. Len(processed) : processed'[i] = processed[i]
        /\ processed'[Len(processed) + 1] = line
    BY <1>3, <1>a, AppendProperties, LenProperties
  <2>2. DOMAIN processed' = 1 .. Len(processed) + 1
    BY <2>1, LenProperties
  <2>3. \A i \in 1 .. Len(processed) : i \in DOMAIN processed' /\ processed'[i] = processed[i]
    BY <2>1, <2>2
  <2>4. Len(processed) + 1 \in DOMAIN processed'
    BY <2>1, <2>2
  <2>5. line \in ToSet(processed')
    BY <2>1, <2>4 DEF ToSet
  <2>6. ToSet(processed) \subseteq ToSet(processed')
    BY <2>1, <2>3 DEF ToSet
  <2> QED BY <1>a, <2>5, <2>6
<1>8. AnswerComing'
  BY <1>7, <1>a DEF FrontInv, AnswerComing
<1> QED BY <1>4, <1>5, <1>6, <1>8, <1>a DEF FrontInv

LEMMA ArrivedIs ==
  ASSUME Types, NEW line
  PROVE  /\ Arrived(line) \in Seq(IEntry) /\ AllAlike(Arrived(line), ifetch)
         /\ \A i \in 1 .. Len(ifetch) :
              /\ Arrived(line)[i].line = ifetch[i].line
              /\ Arrived(line)[i].fetched = INFLIGHT =>
                   ifetch[i].line # line /\ ifetch[i].fetched = INFLIGHT
<1> DEFINE f == Arrived(line)
<1>1. f = [i \in 1 .. Len(ifetch) |->
        IF ifetch[i].line = line THEN [ifetch[i] EXCEPT !.fetched = COMPLETED] ELSE ifetch[i]]
  BY Lens DEF Arrived
<1> HIDE DEF f
<1>2. COMPLETED \in 0 .. COMPLETED /\ COMPLETED # INFLIGHT
  BY DEF INFLIGHT, COMPLETED
<1>3. ASSUME NEW i \in 1 .. Len(ifetch)
      PROVE  /\ f[i] \in IEntry /\ Alike(f[i], ifetch[i]) /\ f[i].line = ifetch[i].line
             /\ f[i].fetched = INFLIGHT => ifetch[i].line # line /\ ifetch[i].fetched = INFLIGHT
  <2>1. ifetch[i] \in IEntry
    BY Lens
  <2>2. CASE ifetch[i].line = line
    <3>1. f[i] = [ifetch[i] EXCEPT !.fetched = COMPLETED]
      BY <1>1, <2>2
    <3> QED BY <1>2, <2>1, <2>2, <3>1, FetchedEntry
  <2>3. CASE ifetch[i].line # line
    <3>1. f[i] = ifetch[i]
      BY <1>1, <2>3
    <3> QED BY <2>1, <2>3, <3>1 DEF Alike
  <2> QED BY <2>2, <2>3
<1>4. f \in [1 .. Len(ifetch) -> IEntry]
  BY <1>1, <1>3
<1>5. f \in Seq(IEntry) /\ Len(f) = Len(ifetch)
  BY <1>4, Lens, ListOf
<1> QED BY <1>3, <1>5 DEF AllAlike, f

LEMMA CompleteFetchKeeps ==
  ASSUME FrontInv, CompleteInstrFetch
  PROVE  FrontInv'
<1> DEFINE line == Head(processed)
<1>a. /\ rob' = rob /\ decode' = decode /\ ifetch' = Arrived(line)
      /\ STA' = STA /\ STA_head' = STA_head /\ STA_tail' = STA_tail
      /\ fetch_stall' = fetch_stall /\ resume' = resume /\ phase' = phase /\ warm' = warm
      /\ read' = read /\ retired' = retired /\ asserts' = asserts /\ l1i' = l1i
      /\ processed # << >> /\ processed' = Tail(processed)
  BY DEF CompleteInstrFetch, sta, stall
<1>1. Types
  BY DEF FrontInv
<1>b. /\ ifetch' \in Seq(IEntry) /\ AllAlike(ifetch', ifetch) /\ Len(ifetch') = Len(ifetch)
      /\ \A i \in 1 .. Len(ifetch) :
           /\ ifetch'[i].line = ifetch[i].line
           /\ ifetch'[i].fetched = INFLIGHT => ifetch[i].line # line /\ ifetch[i].fetched = INFLIGHT
  <2> HIDE DEF line
  <2> QED BY <1>1, <1>a, ArrivedIs DEF AllAlike
<1>2. SameView
  BY <1>1, <1>a, <1>b, SameAlike, AlikeView
<1>3. processed \in Seq(Lines)
  BY <1>1 DEF Types
<1>4. Types'
  <2>1. processed' \in Seq(Lines)
    BY <1>3, <1>a, HeadTailProperties
  <2> QED BY <1>1, <1>a, <1>b, <2>1 DEF Types
<1>5. Numbered' /\ LastStalls' /\ RingOf(STA, STA_head, STA_tail, Pending)'
  BY <1>1, <1>2, <1>a, ViewNumbered, ViewStalls, ViewRing DEF FrontInv, sta
<1>6. Placed'
  BY <1>a DEF FrontInv, Placed
<1>7. ToSet(processed) \subseteq ToSet(processed') \cup {line}
  <2>1. /\ Len(processed) \in Nat /\ DOMAIN processed = 1 .. Len(processed) /\ line = processed[1]
        /\ Len(processed') = Len(processed) - 1
        /\ processed' \in Seq(Lines)
        /\ \A i \in 1 .. Len(processed') : processed'[i] = processed[i + 1]
    BY <1>3, <1>a, HeadTailProperties, LenProperties
  <2>2. DOMAIN processed' = 1 .. Len(processed) - 1
    BY <2>1, LenProperties
  <2>3. ASSUME NEW i \in 1 .. Len(processed), i # 1
        PROVE  processed[i] \in ToSet(processed')
    <3>1. i - 1 \in 1 .. Len(processed') /\ (i - 1) + 1 = i /\ i - 1 \in DOMAIN processed'
      BY <2>1, <2>2, <2>3
    <3>2. processed'[i - 1] = processed[i]
      BY <2>1, <3>1
    <3> QED BY <3>1, <3>2 DEF ToSet
  <2> HIDE DEF line
  <2> QED BY <2>1, <2>3 DEF ToSet
<1>8. AnswerComing'
  <2> SUFFICES ASSUME NEW i \in DOMAIN ifetch', ifetch'[i].fetched = INFLIGHT
               PROVE  ifetch'[i].line \in l1i' \cup ToSet(processed')
    BY DEF AnswerComing
  <2>1. i \in 1 .. Len(ifetch) /\ i \in DOMAIN ifetch
    BY <1>1, <1>b, Lens, LenProperties
  <2>2. ifetch'[i].line = ifetch[i].line /\ ifetch[i].line # line /\ ifetch[i].fetched = INFLIGHT
    BY <1>b, <2>1
  <2>3. ifetch[i].line \in l1i \cup ToSet(processed)
    BY <2>1, <2>2 DEF FrontInv, AnswerComing
  <2> HIDE DEF line
  <2> QED BY <1>7, <1>a, <2>2, <2>3
<1> QED BY <1>4, <1>5, <1>6, <1>8, <1>a DEF FrontInv

(* Steps that leave the buffers alone.                                     *)
LEMMA PhaseKeeps ==
  ASSUME FrontInv, FinishWarmup \/ StartDecode
  PROVE  FrontInv'
<1>a. /\ rob' = rob /\ decode' = decode /\ ifetch' = ifetch
      /\ STA' = STA /\ STA_head' = STA_head /\ STA_tail' = STA_tail
      /\ fetch_stall' = fetch_stall /\ resume' = resume
      /\ read' = read /\ retired' = retired /\ asserts' = asserts
      /\ l1i' = l1i /\ processed' = processed
  BY DEF FinishWarmup, StartDecode, buffers, sta, stall, cache
<1>1. Types
  BY DEF FrontInv
<1>b. phase' \in {"back", "decode", "fetch", "read"} /\ warm' \in BOOLEAN
  BY <1>1 DEF FinishWarmup, StartDecode, Types
<1>2. SameView
  BY <1>1, <1>a, SameAlike, AlikeView
<1>3. Types'
  BY <1>1, <1>a, <1>b DEF Types
<1>4. Numbered' /\ LastStalls' /\ RingOf(STA, STA_head, STA_tail, Pending)'
  BY <1>1, <1>2, <1>a, ViewNumbered, ViewStalls, ViewRing DEF FrontInv, sta
<1>5. Placed' /\ AnswerComing'
  BY <1>a DEF FrontInv, Placed, AnswerComing
<1> QED BY <1>3, <1>4, <1>5, <1>a DEF FrontInv

LEMMA TimeIs ==
  ASSUME Types, TimePasses(decode, resume)
  PROVE  /\ decode' \in Seq(DEntry) /\ AllAlike(decode', decode)
         /\ resume' \in Never .. BRANCH_MISPREDICT_PENALTY /\ (resume' = Never <=> resume = Never)
<1>1. decode' = [i \in 1 .. Len(decode) |-> [decode[i] EXCEPT !.wait = Closer(decode[i].wait)]]
  BY Lens DEF TimePasses
<1>2. ASSUME NEW i \in 1 .. Len(decode)
      PROVE  decode'[i] \in DEntry /\ Alike(decode'[i], decode[i])
  <2>1. decode[i] \in DEntry
    BY Lens
  <2>2. decode[i].wait \in -1 .. Undecoded
    BY <2>1 DEF DEntry
  <2>3. Closer(decode[i].wait) \in -1 .. Undecoded
    BY <2>2, Sizes DEF Closer, Undecoded, Decoded
  <2>4. decode'[i] = [decode[i] EXCEPT !.wait = Closer(decode[i].wait)]
    BY <1>1
  <2> QED BY <2>1, <2>3, <2>4, WaitEntry
<1>3. decode' \in [1 .. Len(decode) -> DEntry]
  BY <1>1, <1>2
<1>4. decode' \in Seq(DEntry) /\ Len(decode') = Len(decode)
  BY <1>3, Lens, ListOf
<1>5. resume' \in Never .. BRANCH_MISPREDICT_PENALTY /\ (resume' = Never <=> resume = Never)
  <2>1. resume' = IF resume > 0 THEN resume - 1 ELSE resume
    BY DEF TimePasses
  <2>2. resume \in Int /\ resume >= -1 /\ resume <= BRANCH_MISPREDICT_PENALTY
    BY Sizes DEF Types, Never
  <2> QED BY <2>1, <2>2, Sizes DEF Never
<1> QED BY <1>2, <1>4, <1>5 DEF AllAlike

LEMMA IdleKeeps ==
  ASSUME FrontInv, NoRead \/ CoreStalled
  PROVE  FrontInv'
<1>a. /\ rob' = rob /\ ifetch' = ifetch
      /\ STA' = STA /\ STA_head' = STA_head /\ STA_tail' = STA_tail
      /\ fetch_stall' = fetch_stall /\ warm' = warm
      /\ read' = read /\ retired' = retired /\ asserts' = asserts
      /\ l1i' = l1i /\ processed' = processed /\ TimePasses(decode, resume)
  BY DEF NoRead, CoreStalled, sta, cache
<1>1. Types
  BY DEF FrontInv
<1>b. phase' \in {"back", "decode", "fetch", "read"}
  BY <1>1 DEF NoRead, CoreStalled, Types
<1>c. /\ decode' \in Seq(DEntry) /\ AllAlike(decode', decode)
      /\ resume' \in Never .. BRANCH_MISPREDICT_PENALTY /\ (resume' = Never <=> resume = Never)
  BY <1>1, <1>a, TimeIs
<1>2. SameView
  BY <1>1, <1>a, <1>c, SameAlike, AlikeView
<1>3. Types'
  <2>1. Len(decode') <= DECODE_SIZE
    BY <1>1, <1>c DEF AllAlike, Types
  <2> QED BY <1>1, <1>a, <1>b, <1>c, <2>1 DEF Types
<1>4. Numbered' /\ LastStalls' /\ RingOf(STA, STA_head, STA_tail, Pending)'
  BY <1>1, <1>2, <1>a, <1>c, ViewNumbered, ViewStalls, ViewRing DEF FrontInv, sta
<1>5. Placed' /\ AnswerComing'
  BY <1>a DEF FrontInv, Placed, AnswerComing
<1> QED BY <1>3, <1>4, <1>5, <1>a DEF FrontInv

-------------------------------------------------------------------------------
(* Runs of stores, and the ring that holds them.                           *)

LEMMA LeastOf ==
  ASSUME NEW W, W \subseteq Nat, W # {}
  PROVE  \E w \in W : \A v \in W : w <= v
<1>1. PICK w \in W : \A v \in W : ~(<< v, w >> \in OpToRel(<, Nat))
  BY NatLessThanWellFounded, WFMin
<1>2. \A v \in W : ~(v < w)
  BY <1>1 DEF OpToRel
<1>3. w \in Nat /\ \A v \in W : v \in Nat
  OBVIOUS
<1> QED BY <1>2, <1>3

LEMMA RunIs ==
  ASSUME NEW S, NEW n \in Nat, NEW id \in S
  PROVE  /\ Run(n, id) \in Seq(S) /\ Len(Run(n, id)) = n
         /\ \A k \in 1 .. n : Run(n, id)[k] = id
BY DEF Run

LEMMA RunTail ==
  ASSUME NEW n \in Nat, n >= 1, NEW id
  PROVE  Tail(Run(n, id)) = Run(n - 1, id)
<1>1. Run(n, id) \in Seq({id}) /\ Len(Run(n, id)) = n /\ \A k \in 1 .. n : Run(n, id)[k] = id
  BY RunIs
<1>2. Run(n - 1, id) \in Seq({id}) /\ Len(Run(n - 1, id)) = n - 1 /\ \A k \in 1 .. n - 1 : Run(n - 1, id)[k] = id
  BY RunIs
<1> DEFINE r == Run(n, id)
           s == Run(n - 1, id)
<1> HIDE DEF r, s
<1>3. r # << >>
  <2>1. Len(<< >>) = 0
    BY EmptySeq
  <2> QED BY <1>1, <2>1 DEF r
<1>4. /\ Tail(r) \in Seq({id}) /\ Len(Tail(r)) = n - 1
      /\ \A i \in 1 .. n - 1 : Tail(r)[i] = r[i + 1]
  BY <1>1, <1>3, HeadTailProperties DEF r
<1>5. \A i \in 1 .. n - 1 : Tail(r)[i] = s[i]
  BY <1>1, <1>2, <1>4 DEF r, s
<1>6. Tail(r) = s
  BY <1>2, <1>4, <1>5, SeqEqual DEF s
<1> QED BY <1>6 DEF r, s

LEMMA EmptyRun == ASSUME NEW id PROVE Run(0, id) = << >>
<1>1. Run(0, id) \in Seq({id}) /\ Len(Run(0, id)) = 0
  BY RunIs
<1> QED BY <1>1, EmptyList

Ids == 1 .. MaxRead

LEMMA RunsAre ==
  ASSUME Types, Numbered
  PROVE  /\ Runs \in Seq(Seq(Ids)) /\ Len(Runs) = InFlight
         /\ \A j \in 1 .. InFlight :
              /\ Runs[j] = Run(StoresAt(j), retired + j) /\ retired + j \in Ids
              /\ StoresAt(j) \in Burst /\ Len(Runs[j]) = StoresAt(j)
              /\ \A k \in 1 .. StoresAt(j) : Runs[j][k] = retired + j
<1>1. ASSUME NEW j \in 1 .. InFlight
      PROVE  retired + j \in Ids /\ StoresAt(j) \in Burst /\ StoresAt(j) \in Nat
  <2>a. read \in Nat /\ read <= MaxRead /\ retired \in Nat /\ read = retired + InFlight
    BY Sizes DEF Types, Numbered
  <2>b. InFlight \in Nat /\ j \in Nat /\ j >= 1 /\ j <= InFlight
    BY Lens
  <2>1. retired + j >= 1 /\ retired + j <= MaxRead /\ retired + j \in Nat
    BY <2>a, <2>b, Sizes
  <2> QED BY <2>1, ViewTypes, Sizes DEF Ids, Burst
<1>2. \A j \in 1 .. InFlight : Run(StoresAt(j), retired + j) \in Seq(Ids)
  BY <1>1, RunIs
<1>3. Runs \in [1 .. InFlight -> Seq(Ids)]
  BY <1>2 DEF Runs
<1>4. Runs \in Seq(Seq(Ids)) /\ Len(Runs) = InFlight
  BY <1>3, Lens, ListOf
<1>5. ASSUME NEW j \in 1 .. InFlight
      PROVE  /\ Runs[j] = Run(StoresAt(j), retired + j) /\ Len(Runs[j]) = StoresAt(j)
             /\ \A k \in 1 .. StoresAt(j) : Runs[j][k] = retired + j
  <2>1. Runs[j] = Run(StoresAt(j), retired + j)
    BY DEF Runs
  <2>2. /\ Len(Run(StoresAt(j), retired + j)) = StoresAt(j)
        /\ \A k \in 1 .. StoresAt(j) : Run(StoresAt(j), retired + j)[k] = retired + j
    BY <1>1, RunIs
  <2> QED BY <2>1, <2>2
<1> QED BY <1>1, <1>4, <1>5

LEMMA PendingIs ==
  ASSUME Types, Numbered
  PROVE  Pending \in Seq(Ids) /\ Len(Pending) \in Nat
<1>1. Pending \in Seq(Ids)
  BY RunsAre, FlattenSeqOf DEF Pending
<1> QED BY <1>1, LenProperties

(* The room in STA: every instruction may bring as many stores as it likes *)
(* up to its share of the ring.                                            *)
LEMMA RunsFit ==
  ASSUME NEW q \in Seq(Seq(Ids)), Len(q) <= Flight, \A j \in 1 .. Len(q) : Len(q[j]) \in Burst
  PROVE  FlattenSeq(q) \in Seq(Ids) /\ Len(FlattenSeq(q)) <= STA_SIZE
<1>1. Flight \in Nat /\ Flight >= 1 /\ STA_SIZE \in Nat
  BY Sizes
<1>2. \A j \in 1 .. Len(q) : Len(q[j]) * Flight <= STA_SIZE
  BY DEF Burst
<1>3. Len(FlattenSeq(q)) * Flight <= Len(q) * STA_SIZE
  BY <1>1, <1>2, FlattenBound
<1>a. FlattenSeq(q) \in Seq(Ids)
  BY FlattenSeqOf
<1>b. Len(FlattenSeq(q)) \in Nat
  BY <1>a, LenProperties
<1>4. Len(q) \in Nat
  BY LenProperties
<1>5. ASSUME NEW n \in Nat, NEW m \in Nat, NEW f \in Nat, NEW z \in Nat, f >= 1,
             n * f <= m * z, m <= f
      PROVE  n <= z
  <2>1. m * z <= f * z
    BY <1>5
  <2>2. n * f <= f * z
    BY <1>5, <2>1
  <2>3. SUFFICES ASSUME n >= z + 1 PROVE FALSE
    BY <1>5
  <2>4. n * f >= (z + 1) * f
    BY <1>5, <2>3
  <2>5. (z + 1) * f = f * z + f
    BY <1>5
  <2>6. n * f \in Nat /\ f * z \in Nat
    BY <1>5
  <2> QED BY <1>5, <2>2, <2>4, <2>5, <2>6
<1> QED BY <1>1, <1>3, <1>4, <1>5, <1>a, <1>b

(* The runs after the first that is not empty.                             *)
LEMMA FlattenAt ==
  ASSUME NEW S, NEW q \in Seq(Seq(S)), NEW i \in 1 .. Len(q),
         \A j \in 1 .. i - 1 : q[j] = << >>
  PROVE  /\ SubSeq(q, i + 1, Len(q)) \in Seq(Seq(S))
         /\ FlattenSeq(q) = q[i] \o FlattenSeq(SubSeq(q, i + 1, Len(q)))
<1> DEFINE n == Len(q)
           a == SubSeq(q, 1, i - 1)
           b == SubSeq(q, i, n)
           c == SubSeq(q, i + 1, n)
<1>1. n \in Nat /\ i \in Nat /\ i >= 1 /\ i <= n /\ n \in i .. n /\ q[i] \in Seq(S)
  BY LenProperties, ElementOfSeq
<1>2. \A j \in 1 .. n : q[j] \in Seq(S)
  BY ElementOfSeq
<1>3. /\ a \in Seq(Seq(S)) /\ Len(a) = i - 1
      /\ \A j \in 1 .. i - 1 : a[j] = q[j]
  <2>1. \A j \in 1 .. i - 1 : q[j] \in Seq(S) /\ 1 + j - 1 = j
    BY <1>1, <1>2
  <2>2. /\ a \in Seq(Seq(S)) /\ Len(a) = IF 1 <= i - 1 THEN i - 1 - 1 + 1 ELSE 0
        /\ \A j \in 1 .. i - 1 - 1 + 1 : a[j] = q[1 + j - 1]
    BY <1>1, <2>1, SubSeqProperties
  <2>3. \A j \in 1 .. i - 1 : j \in 1 .. i - 1 - 1 + 1
    BY <1>1
  <2> HIDE DEF a
  <2> QED BY <1>1, <2>1, <2>2, <2>3
<1>4. b \in Seq(Seq(S)) /\ c \in Seq(Seq(S))
  <2>1. \A j \in i .. n : q[j] \in Seq(S)
    BY <1>1, <1>2
  <2>2. \A j \in i + 1 .. n : q[j] \in Seq(S)
    BY <1>1, <1>2
  <2>3. i \in Int /\ i + 1 \in Int /\ n \in Int
    BY <1>1
  <2>4. b \in Seq(Seq(S))
    BY <2>1, <2>3, SubSeqProperties
  <2>5. c \in Seq(Seq(S))
    BY <2>2, <2>3, SubSeqProperties
  <2> QED BY <2>4, <2>5
<1>5. a \o b = q
  <2>1. 1 \in 1 .. n + 1 /\ i - 1 \in 1 - 1 .. n /\ n \in i - 1 .. n
    BY <1>1
  <2>2. SubSeq(q, 1, i - 1) \o SubSeq(q, i - 1 + 1, n) = SubSeq(q, 1, n)
    BY <2>1, ConcatAdjacentSubSeq
  <2>3. i - 1 + 1 = i /\ SubSeq(q, 1, n) = q
    BY <1>1, SubSeqFull
  <2> QED BY <2>2, <2>3
<1>6. b = << q[i] >> \o c
  BY <1>1, SubSeqRecursiveFirst
<1> DEFINE x == << q[i] >>
<1>7. x \in Seq(Seq(S)) /\ FlattenSeq(x) = q[i]
  BY <1>1, FlattenOne
<1> HIDE DEF a, b, c, n, x
<1>8. FlattenSeq(a) = << >>
  BY <1>3, FlattenNothing
<1>9. FlattenSeq(q) = FlattenSeq(a) \o FlattenSeq(b)
  BY <1>3, <1>4, <1>5, FlattenConcat
<1>10. FlattenSeq(b) = FlattenSeq(x) \o FlattenSeq(c)
  BY <1>4, <1>6, <1>7, FlattenConcat DEF x
<1>11. FlattenSeq(b) \in Seq(S)
  BY <1>4, FlattenSeqOf
<1>12. << >> \o FlattenSeq(b) = FlattenSeq(b)
  BY <1>11, ConcatEmptySeq
<1> QED BY <1>4, <1>7, <1>8, <1>9, <1>10, <1>12 DEF c, n

(* An empty run at the front says nothing.                                 *)
LEMMA FlattenTail ==
  ASSUME NEW S, NEW q \in Seq(Seq(S)), q # << >>, q[1] = << >>
  PROVE  FlattenSeq(Tail(q)) = FlattenSeq(q)
<1>1. Len(q) \in Nat \ {0}
  BY EmptySeq
<1>2. 1 \in 1 .. Len(q) /\ \A j \in 1 .. 1 - 1 : q[j] = << >>
  BY <1>1
<1>3. /\ SubSeq(q, 1 + 1, Len(q)) \in Seq(Seq(S))
      /\ FlattenSeq(q) = q[1] \o FlattenSeq(SubSeq(q, 1 + 1, Len(q)))
  BY <1>2, FlattenAt
<1>4. Tail(q) = SubSeq(q, 2, Len(q)) /\ 1 + 1 = 2
  BY TailIsSubSeq
<1>5. FlattenSeq(Tail(q)) \in Seq(S)
  BY <1>3, <1>4, FlattenSeqOf
<1>6. << >> \o FlattenSeq(Tail(q)) = FlattenSeq(Tail(q))
  BY <1>5, ConcatEmptySeq
<1> QED BY <1>3, <1>4, <1>6

LEMMA TailConcat ==
  ASSUME NEW S, NEW p \in Seq(S), NEW q \in Seq(S), p # << >>
  PROVE  Tail(p \o q) = Tail(p) \o q /\ p \o q # << >> /\ (p \o q)[1] = p[1]
<1> DEFINE n == Len(p)
           m == Len(q)
           r == p \o q
           t == Tail(p) \o q
<1>1. /\ n \in Nat /\ m \in Nat /\ n >= 1
      /\ r \in Seq(S) /\ Len(r) = n + m
      /\ \A i \in 1 .. n + m : r[i] = IF i <= n THEN p[i] ELSE q[i - n]
  BY LenProperties, EmptySeq, ConcatProperties
<1>2. /\ Tail(p) \in Seq(S) /\ Len(Tail(p)) = n - 1
      /\ \A i \in 1 .. n - 1 : Tail(p)[i] = p[i + 1]
  BY HeadTailProperties
<1>3. /\ t \in Seq(S) /\ Len(t) = (n - 1) + m
      /\ \A i \in 1 .. (n - 1) + m : t[i] = IF i <= n - 1 THEN Tail(p)[i] ELSE q[i - (n - 1)]
  BY <1>2, ConcatProperties
<1> HIDE DEF n, m, r, t
<1>4. r # << >>
  <2>1. Len(<< >>) = 0
    BY EmptySeq
  <2> QED BY <1>1, <2>1
<1>5. /\ Tail(r) \in Seq(S) /\ Len(Tail(r)) = n + m - 1
      /\ \A i \in 1 .. n + m - 1 : Tail(r)[i] = r[i + 1]
  <2>1. /\ Tail(r) \in Seq(S) /\ Len(Tail(r)) = Len(r) - 1
        /\ \A i \in 1 .. Len(Tail(r)) : Tail(r)[i] = r[i + 1]
    BY <1>1, <1>4, HeadTailProperties
  <2> QED BY <1>1, <2>1
<1>6. ASSUME NEW i \in 1 .. n + m - 1 PROVE Tail(r)[i] = t[i]
  <2>1. i + 1 \in 1 .. n + m /\ i \in 1 .. (n - 1) + m /\ (i <= n - 1 => i \in 1 .. n - 1)
    BY <1>1
  <2>2. Tail(r)[i] = IF i + 1 <= n THEN p[i + 1] ELSE q[i + 1 - n]
    BY <1>1, <1>5, <2>1
  <2>3. t[i] = IF i <= n - 1 THEN p[i + 1] ELSE q[i - (n - 1)]
    BY <1>2, <1>3, <2>1
  <2>4. i + 1 - n = i - (n - 1)
    BY <1>1
  <2>5. CASE i + 1 <= n
    <3>1. i <= n - 1
      BY <1>1, <2>5
    <3> QED BY <2>2, <2>3, <2>5, <3>1
  <2>6. CASE ~(i + 1 <= n)
    <3>1. ~(i <= n - 1)
      BY <1>1, <2>6
    <3>2. Tail(r)[i] = q[i + 1 - n] /\ t[i] = q[i - (n - 1)]
      BY <2>2, <2>3, <2>6, <3>1
    <3> QED BY <2>4, <3>2
  <2> QED BY <2>5, <2>6
<1>7. Tail(r) = t
  <2>1. n + m - 1 = (n - 1) + m
    BY <1>1
  <2>2. Len(Tail(r)) = Len(t) /\ \A i \in 1 .. Len(Tail(r)) : Tail(r)[i] = t[i]
    BY <1>3, <1>5, <1>6, <2>1
  <2> QED BY <1>3, <1>5, <2>2, SeqEqual
<1>8. r[1] = p[1]
  <2>1. 1 \in 1 .. n + m /\ 1 <= n
    BY <1>1
  <2> QED BY <1>1, <2>1
<1> QED BY <1>4, <1>7, <1>8 DEF r, t

(* Taking a store off the first run that has one.                          *)
LEMMA FlattenTake ==
  ASSUME NEW S, NEW q \in Seq(Seq(S)), NEW i \in 1 .. Len(q),
         \A j \in 1 .. i - 1 : q[j] = << >>, q[i] # << >>,
         NEW r \in Seq(Seq(S)), Len(r) = Len(q), r[i] = Tail(q[i]),
         \A j \in 1 .. Len(q) : j # i => r[j] = q[j]
  PROVE  /\ FlattenSeq(q) # << >> /\ FlattenSeq(q)[1] = q[i][1]
         /\ FlattenSeq(r) = Tail(FlattenSeq(q))
<1>1. Len(q) \in Nat /\ q[i] \in Seq(S) /\ i \in Nat /\ i <= Len(q)
  BY LenProperties, ElementOfSeq
<1> DEFINE c == SubSeq(q, i + 1, Len(q))
           d == SubSeq(r, i + 1, Len(r))
<1>2. c \in Seq(Seq(S)) /\ FlattenSeq(q) = q[i] \o FlattenSeq(c)
  BY FlattenAt
<1>3. \A j \in 1 .. i - 1 : r[j] = << >>
  <2> SUFFICES ASSUME NEW j \in 1 .. i - 1
               PROVE  r[j] = << >>
    OBVIOUS
  <2>1. j \in 1 .. Len(q) /\ j # i
    BY <1>1
  <2>2. r[j] = q[j]
    BY <2>1
  <2>3. q[j] = << >>
    OBVIOUS
  <2> QED BY ONLY <2>2, <2>3
<1>4. d \in Seq(Seq(S)) /\ FlattenSeq(r) = r[i] \o FlattenSeq(d)
  BY <1>1, <1>3, FlattenAt
<1>5. c = d
  <2>1. i + 1 \in Int /\ Len(q) \in Int
    BY <1>1
  <2>2. /\ \A j \in i + 1 .. Len(q) : q[j] \in Seq(S)
        /\ \A j \in i + 1 .. Len(q) : r[j] \in Seq(S)
    BY <1>1, ElementOfSeq
  <2>3. /\ Len(c) = IF i + 1 <= Len(q) THEN Len(q) - (i + 1) + 1 ELSE 0
        /\ \A j \in 1 .. Len(q) - (i + 1) + 1 : c[j] = q[i + 1 + j - 1]
    BY <2>1, <2>2, SubSeqProperties
  <2>4. /\ Len(d) = IF i + 1 <= Len(q) THEN Len(q) - (i + 1) + 1 ELSE 0
        /\ \A j \in 1 .. Len(q) - (i + 1) + 1 : d[j] = r[i + 1 + j - 1]
    BY <2>1, <2>2, SubSeqProperties
  <2> HIDE DEF c, d
  <2>5. \A j \in 1 .. Len(c) : j \in 1 .. Len(q) - (i + 1) + 1 /\ i + 1 + j - 1 \in 1 .. Len(q) /\ i + 1 + j - 1 # i
    BY <1>1, <2>3
  <2>6. \A j \in 1 .. Len(c) : c[j] = d[j]
    BY <2>3, <2>4, <2>5
  <2>7. Len(c) = Len(d)
    BY <2>3, <2>4
  <2> QED BY <1>2, <1>4, <2>6, <2>7, SeqEqual
<1> HIDE DEF c, d
<1>6. FlattenSeq(c) \in Seq(S)
  BY <1>2, FlattenSeqOf
<1>7. /\ Tail(q[i] \o FlattenSeq(c)) = Tail(q[i]) \o FlattenSeq(c)
      /\ q[i] \o FlattenSeq(c) # << >> /\ (q[i] \o FlattenSeq(c))[1] = q[i][1]
  BY <1>1, <1>6, TailConcat
<1> QED BY <1>2, <1>4, <1>5, <1>7

-------------------------------------------------------------------------------
(* The slots of the ring, without the remainder.                           *)

At(h, k) == IF h + k - 1 < STA_SIZE THEN h + k - 1 ELSE h + k - 1 - STA_SIZE

LEMMA Wrap ==
  ASSUME NEW z \in Nat, z >= 1, NEW x \in 0 .. 2 * z - 1
  PROVE  x % z = IF x < z THEN x ELSE x - z
<1>1. CASE x < z
  BY <1>1
<1>2. CASE ~(x < z)
  BY <1>2
<1> QED BY <1>1, <1>2

LEMMA SlotAt ==
  ASSUME NEW h \in 0 .. STA_SIZE - 1, NEW k \in 1 .. STA_SIZE + 1
  PROVE  (h + k - 1) % STA_SIZE = At(h, k) /\ At(h, k) \in 0 .. STA_SIZE - 1
<1>1. STA_SIZE \in Nat /\ STA_SIZE >= 1
  BY Sizes
<1>2. h + k - 1 \in 0 .. 2 * STA_SIZE - 1
  BY <1>1
<1>3. (h + k - 1) % STA_SIZE = IF h + k - 1 < STA_SIZE THEN h + k - 1 ELSE h + k - 1 - STA_SIZE
  <2> DEFINE x == h + k - 1
  <2>1. x \in 0 .. 2 * STA_SIZE - 1
    BY <1>2
  <2> HIDE DEF x
  <2>2. x % STA_SIZE = IF x < STA_SIZE THEN x ELSE x - STA_SIZE
    BY <1>1, <2>1, Wrap
  <2>3. (h + k - 1) % STA_SIZE = x % STA_SIZE
    BY DEF x
  <2>4. x = h + k - 1 /\ x \in Int
    BY <2>1, <1>1 DEF x
  <2> QED BY <1>1, <2>2, <2>3, <2>4
<1> QED BY <1>1, <1>2, <1>3 DEF At

LEMMA NextAt ==
  ASSUME NEW h \in 0 .. STA_SIZE - 1, NEW n \in 0 .. STA_SIZE
  PROVE  (h + n) % STA_SIZE = At(h, n + 1) /\ At(h, n + 1) \in 0 .. STA_SIZE - 1
<1>1. STA_SIZE \in Nat /\ n + 1 \in 1 .. STA_SIZE + 1 /\ h + (n + 1) - 1 = h + n
  BY Sizes
<1> QED BY <1>1, SlotAt

(* RingOf by slots.                                                        *)
RingAt(ring, h, t, p) ==
  /\ Len(p) <= STA_SIZE
  /\ \A k \in 1 .. Len(p) : ring[At(h, k)] = p[k]
  /\ \A k \in 1 .. STA_SIZE : k > Len(p) => ring[At(h, k)] = Empty
  /\ t = At(h, Len(p) + 1)

LEMMA RingIsAt ==
  ASSUME NEW ring, NEW h \in 0 .. STA_SIZE - 1, NEW t, NEW p, Len(p) \in Nat
  PROVE  RingOf(ring, h, t, p) <=> RingAt(ring, h, t, p)
<1>1. STA_SIZE \in Nat
  BY Sizes
<1>2. SUFFICES ASSUME Len(p) <= STA_SIZE
               PROVE  RingOf(ring, h, t, p) <=> RingAt(ring, h, t, p)
  BY DEF RingOf, RingAt
<1>3. \A k \in 1 .. STA_SIZE : (h + k - 1) % STA_SIZE = At(h, k)
  <2>1. \A k \in 1 .. STA_SIZE : k \in 1 .. STA_SIZE + 1
    BY <1>1
  <2> QED BY <2>1, SlotAt
<1>4. (h + Len(p)) % STA_SIZE = At(h, Len(p) + 1)
  <2>1. Len(p) \in 0 .. STA_SIZE
    BY <1>1, <1>2
  <2> QED BY <2>1, NextAt
<1>5. /\ \A k \in 1 .. Len(p) : k \in 1 .. STA_SIZE
      /\ \A k \in Len(p) + 1 .. STA_SIZE : k \in 1 .. STA_SIZE /\ k > Len(p)
      /\ \A k \in 1 .. STA_SIZE : k > Len(p) => k \in Len(p) + 1 .. STA_SIZE
  BY <1>1, <1>2
<1>6. (\A k \in 1 .. Len(p) : ring[(h + k - 1) % STA_SIZE] = p[k])
        <=> \A k \in 1 .. Len(p) : ring[At(h, k)] = p[k]
  BY <1>3, <1>5
<1>7. (\A k \in Len(p) + 1 .. STA_SIZE : ring[(h + k - 1) % STA_SIZE] = Empty)
        <=> \A k \in 1 .. STA_SIZE : k > Len(p) => ring[At(h, k)] = Empty
  BY <1>3, <1>5
<1> QED BY <1>4, <1>6, <1>7 DEF RingOf, RingAt

LEMMA SlotsApart ==
  ASSUME NEW h \in 0 .. STA_SIZE - 1, NEW j \in 1 .. STA_SIZE, NEW k \in 1 .. STA_SIZE,
         At(h, j) = At(h, k)
  PROVE  j = k
BY Sizes DEF At

LEMMA SlotsAll ==
  ASSUME NEW h \in 0 .. STA_SIZE - 1, NEW s \in 0 .. STA_SIZE - 1
  PROVE  \E k \in 1 .. STA_SIZE : At(h, k) = s
<1>1. STA_SIZE \in Nat
  BY Sizes
<1>2. CASE s >= h
  <2>1. s - h + 1 \in 1 .. STA_SIZE /\ At(h, s - h + 1) = s
    BY <1>1, <1>2 DEF At
  <2> QED BY <2>1
<1>3. CASE ~(s >= h)
  <2>1. s - h + 1 + STA_SIZE \in 1 .. STA_SIZE /\ At(h, s - h + 1 + STA_SIZE) = s
    BY <1>1, <1>3 DEF At
  <2> QED BY <2>1
<1> QED BY <1>2, <1>3

(* A store leaves from the head.                                           *)
LEMMA RingTake ==
  ASSUME NEW S, NEW p \in Seq(S), p # << >>,
         NEW ring \in [0 .. STA_SIZE - 1 -> 0 .. MaxRead], NEW h \in 0 .. STA_SIZE - 1, NEW t,
         RingOf(ring, h, t, p)
  PROVE  /\ ring[h] = p[1] /\ (h + 1) % STA_SIZE \in 0 .. STA_SIZE - 1
         /\ RingOf([ring EXCEPT ![h] = Empty], (h + 1) % STA_SIZE, t, Tail(p))
<1> DEFINE g == (h + 1) % STA_SIZE
           n == Len(p)
           after == [ring EXCEPT ![h] = Empty]
<1>1. STA_SIZE \in Nat /\ STA_SIZE >= 1 /\ n \in Nat /\ n >= 1
  BY Sizes, LenProperties, EmptySeq
<1>2. g = At(h, 2) /\ g \in 0 .. STA_SIZE - 1
  <2>1. 1 \in 0 .. STA_SIZE /\ 1 + 1 = 2
    BY <1>1
  <2> QED BY <2>1, NextAt
<1>3. /\ Tail(p) \in Seq(S) /\ Len(Tail(p)) = n - 1
      /\ \A i \in 1 .. n - 1 : Tail(p)[i] = p[i + 1]
  BY HeadTailProperties
<1>4. RingAt(ring, h, t, p)
  BY <1>1, RingIsAt
<1>5. /\ \A s \in 0 .. STA_SIZE - 1 : s # h => after[s] = ring[s]
      /\ after[h] = Empty
  OBVIOUS
<1> HIDE DEF g, n, after
<1>6. At(h, 1) = h
  BY <1>1 DEF At
<1>7. ASSUME NEW k \in 1 .. STA_SIZE - 1
      PROVE  At(g, k) = At(h, k + 1) /\ At(g, k) \in 0 .. STA_SIZE - 1 /\ At(g, k) # h
  <2>1. k + 1 \in 1 .. STA_SIZE + 1 /\ k + 1 \in 1 .. STA_SIZE /\ 1 \in 1 .. STA_SIZE /\ k + 1 # 1
    BY <1>1
  <2>2. At(g, k) = At(h, k + 1)
    BY <1>1, <1>2 DEF At
  <2>3. At(h, k + 1) \in 0 .. STA_SIZE - 1
    BY <2>1, SlotAt
  <2>4. At(h, k + 1) # At(h, 1)
    BY <2>1, SlotsApart
  <2> QED BY <1>6, <2>2, <2>3, <2>4
<1>8. n <= STA_SIZE
  BY <1>4 DEF RingAt, n
<1>9. ring[h] = p[1]
  <2>1. 1 \in 1 .. n
    BY <1>1
  <2> QED BY <1>4, <1>6, <2>1 DEF RingAt, n
<1>10. ASSUME NEW k \in 1 .. Len(Tail(p)) PROVE after[At(g, k)] = Tail(p)[k]
  <2>1. k \in 1 .. STA_SIZE - 1 /\ k \in 1 .. n - 1 /\ k + 1 \in 1 .. n
    BY <1>1, <1>3, <1>8
  <2>2. after[At(g, k)] = ring[At(h, k + 1)]
    BY <1>5, <1>7, <2>1
  <2>3. ring[At(h, k + 1)] = p[k + 1]
    BY <1>4, <2>1 DEF RingAt, n
  <2> QED BY <1>3, <2>1, <2>2, <2>3
<1>11. ASSUME NEW k \in 1 .. STA_SIZE, k > Len(Tail(p)) PROVE after[At(g, k)] = Empty
  <2>1. CASE k = STA_SIZE
    <3>1. At(g, k) = h
      BY <1>1, <1>2, <2>1 DEF At
    <3> QED BY <1>5, <3>1
  <2>2. CASE k # STA_SIZE
    <3>1. k \in 1 .. STA_SIZE - 1 /\ k + 1 \in 1 .. STA_SIZE /\ k + 1 > n
      BY <1>1, <1>3, <1>11, <2>2
    <3>2. after[At(g, k)] = ring[At(h, k + 1)]
      BY <1>5, <1>7, <3>1
    <3> QED BY <1>4, <3>1, <3>2 DEF RingAt, n
  <2> QED BY <2>1, <2>2
<1>12. t = At(g, Len(Tail(p)) + 1)
  <2>1. t = At(h, n + 1)
    BY <1>4 DEF RingAt, n
  <2>2. Len(Tail(p)) + 1 = n
    BY <1>1, <1>3
  <2>3. At(g, n) = At(h, n + 1)
    BY <1>1, <1>2, <1>8 DEF At
  <2> QED BY <2>1, <2>2, <2>3
<1>13. RingAt(after, g, t, Tail(p))
  <2>1. Len(Tail(p)) <= STA_SIZE
    BY <1>1, <1>3, <1>8
  <2> QED BY <1>10, <1>11, <1>12, <2>1 DEF RingAt
<1>14. RingOf(after, g, t, Tail(p))
  <2>1. Len(Tail(p)) \in Nat
    BY <1>1, <1>3
  <2> QED BY <1>2, <1>13, <2>1, RingIsAt
<1> QED BY <1>2, <1>9, <1>14 DEF g, after

-------------------------------------------------------------------------------
(* The back end.                                                           *)

LEMMA RobPut ==
  ASSUME Types, NEW i \in 1 .. Len(rob), NEW e \in REntry, rob' = [rob EXCEPT ![i] = e]
  PROVE  /\ rob' \in Seq(REntry) /\ Len(rob') = Len(rob) /\ rob'[i] = e
         /\ \A j \in 1 .. Len(rob) : j # i => rob'[j] = rob[j]
<1>1. rob \in Seq(REntry)
  BY DEF Types
<1> QED BY <1>1, ExceptSeq

(* The list after a change of the ROB alone.                               *)
LEMMA RobView ==
  ASSUME Types, NEW i \in 1 .. Len(rob), Len(rob') = Len(rob), decode' = decode, ifetch' = ifetch,
         \A j \in 1 .. Len(rob) : j # i => rob'[j] = rob[j]
  PROVE  /\ InFlight' = InFlight /\ i \in 1 .. InFlight
         /\ IdAt(i) = rob[i].id /\ IdAt(i)' = rob'[i].id
         /\ StoresAt(i) = rob[i].stores /\ StoresAt(i)' = rob'[i].stores
         /\ MissAt(i) <=> rob[i].mispredicted /\ ~rob[i].executed
         /\ MissAt(i)' <=> rob'[i].mispredicted /\ ~rob'[i].executed
         /\ \A j \in 1 .. InFlight : j # i =>
              IdAt(j)' = IdAt(j) /\ StoresAt(j)' = StoresAt(j) /\ (MissAt(j)' <=> MissAt(j))
<1>1. InFlight' = InFlight /\ i \in 1 .. InFlight
  BY Lens DEF InFlight
<1>2. i <= Len(rob) /\ i <= Len(rob')
  BY Lens
<1>3. /\ IdAt(i) = rob[i].id /\ IdAt(i)' = rob'[i].id
      /\ StoresAt(i) = rob[i].stores /\ StoresAt(i)' = rob'[i].stores
      /\ MissAt(i) <=> rob[i].mispredicted /\ ~rob[i].executed
      /\ MissAt(i)' <=> rob'[i].mispredicted /\ ~rob'[i].executed
  BY <1>2 DEF IdAt, StoresAt, MissAt
<1>4. ASSUME NEW j \in 1 .. InFlight, j # i
      PROVE  IdAt(j)' = IdAt(j) /\ StoresAt(j)' = StoresAt(j) /\ (MissAt(j)' <=> MissAt(j))
  <2>1. CASE j <= Len(rob)
    <3>1. j \in 1 .. Len(rob) /\ rob'[j] = rob[j]
      BY <1>4, <2>1, Lens
    <3> QED BY <2>1, <3>1 DEF IdAt, StoresAt, MissAt
  <2>2. CASE ~(j <= Len(rob))
    BY <2>2 DEF IdAt, StoresAt, MissAt
  <2> QED BY <2>1, <2>2
<1> QED BY <1>1, <1>3, <1>4

LEMMA ExecutionKeeps ==
  ASSUME FrontInv, NEW i \in DOMAIN rob, CompleteExecution(i)
  PROVE  FrontInv'
<1>1. Types /\ i \in 1 .. Len(rob)
  BY Lens DEF FrontInv
<1> DEFINE e == [rob[i] EXCEPT !.executed = TRUE]
<1>a. /\ ~rob[i].executed /\ rob[i].stores = 0 /\ rob' = [rob EXCEPT ![i] = e]
      /\ ifetch' = ifetch /\ decode' = decode /\ STA' = STA /\ STA_head' = STA_head
      /\ STA_tail' = STA_tail /\ fetch_stall' = fetch_stall /\ phase' = phase /\ warm' = warm
      /\ l1i' = l1i /\ processed' = processed
      /\ read' = read /\ retired' = retired /\ asserts' = asserts
      /\ (rob[i].mispredicted => resume' = BRANCH_MISPREDICT_PENALTY)
      /\ (~rob[i].mispredicted => resume' = resume)
  BY DEF CompleteExecution, sta, cache
<1>2. rob[i] \in REntry
  BY <1>1, Lens
<1>3. /\ e \in REntry /\ e.id = rob[i].id /\ e.stores = rob[i].stores
      /\ e.executed = TRUE /\ e.mispredicted = rob[i].mispredicted
  BY <1>2 DEF REntry
<1> HIDE DEF e
<1>4. /\ rob' \in Seq(REntry) /\ Len(rob') = Len(rob) /\ rob'[i] = e
      /\ \A j \in 1 .. Len(rob) : j # i => rob'[j] = rob[j]
  BY <1>1, <1>3, <1>a, RobPut
<1>5. /\ InFlight' = InFlight /\ i \in 1 .. InFlight
      /\ IdAt(i)' = IdAt(i) /\ StoresAt(i)' = StoresAt(i)
      /\ MissAt(i) <=> rob[i].mispredicted
      /\ ~MissAt(i)'
      /\ \A j \in 1 .. InFlight : j # i =>
           IdAt(j)' = IdAt(j) /\ StoresAt(j)' = StoresAt(j) /\ (MissAt(j)' <=> MissAt(j))
  BY <1>1, <1>3, <1>4, <1>a, RobView
<1>6. Types'
  <2>1. resume' \in Never .. BRANCH_MISPREDICT_PENALTY
    <3>1. resume \in Never .. BRANCH_MISPREDICT_PENALTY
      BY <1>1 DEF Types
    <3>2. BRANCH_MISPREDICT_PENALTY \in Never .. BRANCH_MISPREDICT_PENALTY
      BY Sizes DEF Never
    <3> QED BY <1>a, <3>1, <3>2
  <2> QED BY <1>1, <1>4, <1>a, <2>1 DEF Types
<1>7. Numbered'
  <2>1. \A j \in 1 .. InFlight : IdAt(j)' = IdAt(j)
    BY <1>5
  <2> QED BY <1>5, <1>a, <2>1 DEF FrontInv, Numbered
<1>8. Pending' = Pending
  <2>1. \A j \in 1 .. InFlight : Run(StoresAt(j), retired + j)' = Run(StoresAt(j), retired + j)
    BY <1>5, <1>a DEF Run
  <2>2. Runs' = [j \in 1 .. InFlight |-> Run(StoresAt(j), retired + j)']
    BY <1>5, <1>a DEF Runs
  <2>3. Runs' = Runs
    BY <2>1, <2>2 DEF Runs
  <2> QED BY <2>3 DEF Pending
<1>9. RingOf(STA, STA_head, STA_tail, Pending)'
  BY <1>8, <1>a DEF FrontInv, RingOf
<1>10. LastStalls'
  <2>1. CASE rob[i].mispredicted
    <3>1. MissAt(i) /\ i = InFlight /\ fetch_stall
      BY <1>5, <2>1 DEF FrontInv, LastStalls
    <3>2. \A j \in 1 .. InFlight : ~MissAt(j)'
      BY <1>5, <3>1 DEF FrontInv, LastStalls
    <3>3. resume' # Never
      BY <1>a, <2>1, Sizes DEF Never
    <3> QED BY <1>5, <1>a, <3>1, <3>2, <3>3 DEF LastStalls
  <2>2. CASE ~rob[i].mispredicted
    <3>1. SameView
      BY <1>5, <1>a, <2>2 DEF SameView
    <3> QED BY <1>1, <1>a, <2>2, <3>1, ViewStalls DEF FrontInv
  <2> QED BY <2>1, <2>2
<1>11. Placed'
  <2>1. \A j \in 1 .. Len(rob) : rob'[j].executed => rob'[j].stores = 0
    BY <1>3, <1>4, <1>a DEF FrontInv, Placed
  <2> QED BY <1>4, <2>1 DEF Placed
<1>12. AnswerComing' /\ asserts' = {}
  BY <1>a DEF FrontInv, AnswerComing
<1> QED BY <1>6, <1>7, <1>9, <1>10, <1>11, <1>12 DEF FrontInv

LEMMA PlaceStoreKeeps ==
  ASSUME FrontInv, NEW i \in DOMAIN rob, PlaceStore(i)
  PROVE  FrontInv'
<1>1. Types /\ Numbered /\ i \in 1 .. Len(rob) /\ i \in Nat /\ i >= 1
  BY Lens DEF FrontInv
<1> DEFINE e == [rob[i] EXCEPT !.stores = @ - 1]
           n == rob[i].stores
           full == {j \in 1 .. InFlight : StoresAt(j) > 0}
<1>a. /\ n > 0 /\ STA[STA_head] = rob[i].id /\ rob' = [rob EXCEPT ![i] = e]
      /\ ifetch' = ifetch /\ decode' = decode /\ STA' = [STA EXCEPT ![STA_head] = Empty]
      /\ STA_head' = (STA_head + 1) % STA_SIZE
      /\ STA_tail' = STA_tail /\ fetch_stall' = fetch_stall /\ phase' = phase /\ warm' = warm
      /\ l1i' = l1i /\ processed' = processed /\ resume' = resume
      /\ read' = read /\ retired' = retired /\ asserts' = asserts
  BY DEF PlaceStore, stall, cache
<1>2. rob[i] \in REntry /\ n \in Burst /\ n \in Nat
  BY <1>1, Lens DEF REntry, Burst
<1>b. n - 1 \in Burst /\ n - 1 \in Nat
  <2>1. n - 1 \in Nat /\ Flight \in Nat /\ n * Flight <= STA_SIZE
    BY <1>2, <1>a, Sizes DEF Burst
  <2>2. ASSUME NEW f \in Nat, NEW m \in Nat, NEW z \in Nat, m >= 1, m * f <= z
        PROVE  (m - 1) * f <= z
    <3>1. (m - 1) * f = m * f - f /\ m * f \in Nat
      BY <2>2
    <3> QED BY <2>2, <3>1
  <2>3. (n - 1) * Flight <= STA_SIZE
    BY <1>2, <1>a, <2>1, <2>2, Sizes
  <2> QED BY <2>1, <2>3 DEF Burst
<1>3. /\ e \in REntry /\ e.id = rob[i].id /\ e.stores = n - 1
      /\ (e.executed <=> rob[i].executed) /\ (e.mispredicted <=> rob[i].mispredicted)
  BY <1>2, <1>b DEF REntry
<1> HIDE DEF e
<1>4. /\ rob' \in Seq(REntry) /\ Len(rob') = Len(rob) /\ rob'[i] = e
      /\ \A j \in 1 .. Len(rob) : j # i => rob'[j] = rob[j]
  BY <1>1, <1>3, <1>a, RobPut
<1>5. /\ InFlight' = InFlight /\ i \in 1 .. InFlight
      /\ IdAt(i)' = IdAt(i) /\ IdAt(i) = rob[i].id /\ StoresAt(i) = n /\ StoresAt(i)' = n - 1
      /\ (MissAt(i)' <=> MissAt(i))
      /\ \A j \in 1 .. InFlight : j # i =>
           IdAt(j)' = IdAt(j) /\ StoresAt(j)' = StoresAt(j) /\ (MissAt(j)' <=> MissAt(j))
  BY <1>1, <1>3, <1>4, <1>a, RobView
<1>c. rob[i].id = retired + i /\ retired \in Nat /\ InFlight \in Nat
  BY <1>1, <1>5, Lens DEF Numbered, Types
<1>6. /\ Runs \in Seq(Seq(Ids)) /\ Len(Runs) = InFlight
      /\ \A j \in 1 .. InFlight :
           /\ Runs[j] = Run(StoresAt(j), retired + j) /\ retired + j \in Ids
           /\ StoresAt(j) \in Nat /\ Len(Runs[j]) = StoresAt(j)
           /\ \A k \in 1 .. StoresAt(j) : Runs[j][k] = retired + j
  BY <1>1, RunsAre DEF Burst
<1>7. Pending \in Seq(Ids) /\ STA \in [0 .. STA_SIZE - 1 -> 0 .. MaxRead] /\ STA_head \in 0 .. STA_SIZE - 1
  BY <1>1, PendingIs DEF Types
<1> HIDE DEF n
(* The instruction is the first with a store: its id is at the head. *)
<1>8. PICK j \in full : \A k \in full : j <= k
  <2>1. i \in full /\ full \subseteq Nat
    BY <1>5, <1>a, Lens
  <2> QED BY <2>1, LeastOf
<1>9. /\ j \in 1 .. Len(Runs) /\ j \in Nat /\ StoresAt(j) > 0
      /\ \A k \in 1 .. j - 1 : Runs[k] = << >>
  <2>1. j \in 1 .. InFlight /\ j \in Nat /\ StoresAt(j) > 0
    BY <1>c
  <2>2. ASSUME NEW k \in 1 .. j - 1 PROVE Runs[k] = << >>
    <3>1. k \in 1 .. InFlight /\ ~(j <= k)
      BY <1>c, <2>1
    <3>2. StoresAt(k) = 0
      BY <1>6, <1>8, <3>1
    <3> QED BY <1>6, <3>1, <3>2, EmptyRun
  <2> QED BY <1>6, <2>1, <2>2
<1>10. Runs[j] # << >> /\ Runs[j][1] = retired + j
  <2>1. j \in 1 .. InFlight /\ Len(<< >>) = 0 /\ 1 \in 1 .. StoresAt(j)
    BY <1>6, <1>9, EmptySeq
  <2> QED BY <1>6, <1>9, <2>1
<1> HIDE DEF full
<1> DEFINE r == [k \in 1 .. InFlight |-> IF k = j THEN Tail(Runs[k]) ELSE Runs[k]]
<1>11. /\ r \in Seq(Seq(Ids)) /\ Len(r) = Len(Runs) /\ r[j] = Tail(Runs[j])
       /\ \A k \in 1 .. Len(Runs) : k # j => r[k] = Runs[k]
  <2>1. \A k \in 1 .. InFlight : Runs[k] \in Seq(Ids)
    BY <1>6, ElementOfSeq
  <2>2. Tail(Runs[j]) \in Seq(Ids)
    BY <1>6, <1>9, <1>10, <2>1, HeadTailProperties
  <2>3. r \in [1 .. InFlight -> Seq(Ids)]
    BY <2>1, <2>2
  <2>4. r \in Seq(Seq(Ids)) /\ Len(r) = InFlight
    BY <1>c, <2>3, ListOf
  <2> QED BY <1>6, <1>9, <2>4
<1> HIDE DEF r
<1>12. Pending # << >> /\ Pending[1] = retired + j /\ FlattenSeq(r) = Tail(Pending)
  BY <1>6, <1>9, <1>10, <1>11, FlattenTake DEF Pending
<1>13. RingOf(STA, STA_head, STA_tail, Pending)
  BY DEF FrontInv
<1>14. /\ STA[STA_head] = Pending[1] /\ STA_head' \in 0 .. STA_SIZE - 1
       /\ RingOf(STA', STA_head', STA_tail, Tail(Pending))
  BY <1>7, <1>12, <1>13, <1>a, RingTake
<1>15. i = j
  BY <1>1, <1>9, <1>12, <1>14, <1>a, <1>c
<1>16. Runs' = r
  <2>1. Runs' = [k \in 1 .. InFlight |-> Run(StoresAt(k), retired + k)']
    BY <1>5 DEF Runs
  <2>2. ASSUME NEW k \in 1 .. InFlight, k # i PROVE Run(StoresAt(k), retired + k)' = Runs[k]
    BY <1>5, <1>6, <1>a, <2>2 DEF Run
  <2>3. Run(StoresAt(i), retired + i)' = Run(n - 1, retired + i)
    BY <1>5, <1>a DEF Run
  <2>4. Runs[i] = Run(n, retired + i)
    BY <1>5, <1>6
  <2>5. n \in Nat /\ n >= 1
    BY <1>2, <1>a
  <2>6. Tail(Runs[i]) = Run(n - 1, retired + i)
    BY <2>4, <2>5, RunTail
  <2> QED BY <1>15, <2>1, <2>2, <2>3, <2>6 DEF r
<1>17. RingOf(STA, STA_head, STA_tail, Pending)'
  <2>1. Pending' = Tail(Pending)
    BY <1>12, <1>16 DEF Pending
  <2> QED BY <1>14, <1>a, <2>1 DEF RingOf
<1>18. Types'
  <2>1. STA' \in [0 .. STA_SIZE - 1 -> 0 .. MaxRead]
    BY <1>7, <1>a, Sizes DEF Empty
  <2> QED BY <1>1, <1>4, <1>14, <1>a, <2>1 DEF Types
<1>19. Numbered'
  <2>1. \A k \in 1 .. InFlight : IdAt(k)' = IdAt(k)
    BY <1>5
  <2> QED BY <1>5, <1>a, <2>1 DEF FrontInv, Numbered
<1>20. LastStalls'
  <2>1. \A k \in 1 .. InFlight : (MissAt(k)' <=> MissAt(k))
    BY <1>5
  <2>2. InFlight >= 1 => InFlight \in 1 .. InFlight
    BY <1>c
  <2>3. InFlight >= 1 => (MissAt(InFlight)' <=> MissAt(InFlight))
    BY <1>5, <2>1, <2>2
  <2>4. \A k \in 1 .. InFlight : MissAt(k)' => k = InFlight /\ fetch_stall /\ resume = Never
    BY <2>1 DEF FrontInv, LastStalls
  <2>5. fetch_stall /\ resume = Never => InFlight >= 1 /\ MissAt(InFlight)'
    BY <2>3 DEF FrontInv, LastStalls
  <2> QED BY <1>5, <1>a, <2>4, <2>5 DEF FrontInv, LastStalls
<1>21. Placed'
  <2>1. ~rob[i].executed
    BY <1>1, <1>2, <1>a DEF FrontInv, Placed, n
  <2>2. \A k \in 1 .. Len(rob) : rob'[k].executed => rob'[k].stores = 0
    BY <1>3, <1>4, <2>1 DEF FrontInv, Placed
  <2> QED BY <1>4, <2>2 DEF Placed
<1>22. AnswerComing' /\ asserts' = {}
  BY <1>a DEF FrontInv, AnswerComing
<1> QED BY <1>17, <1>18, <1>19, <1>20, <1>21, <1>22 DEF FrontInv

LEMMA RetireKeeps ==
  ASSUME FrontInv, Retire
  PROVE  FrontInv'
<1>1. Types /\ Numbered
  BY DEF FrontInv
<1>a. /\ rob # << >> /\ rob[1].executed /\ rob' = Tail(rob) /\ retired' = retired + 1
      /\ ifetch' = ifetch /\ decode' = decode /\ STA' = STA /\ STA_head' = STA_head
      /\ STA_tail' = STA_tail /\ fetch_stall' = fetch_stall /\ phase' = phase /\ warm' = warm
      /\ l1i' = l1i /\ processed' = processed /\ resume' = resume
      /\ read' = read /\ asserts' = asserts
  BY DEF Retire, sta, stall, cache
<1>2. rob \in Seq(REntry) /\ Len(rob) <= ROB_SIZE /\ ROB_SIZE \in Nat
  BY <1>1, Sizes DEF Types
<1>3. /\ rob' \in Seq(REntry) /\ Len(rob') = Len(rob) - 1 /\ Len(rob) >= 1 /\ Len(rob) \in Nat
      /\ \A j \in 1 .. Len(rob') : rob'[j] = rob[j + 1]
  <2>1. Len(rob) \in Nat /\ Len(rob) # 0
    BY <1>2, <1>a, EmptySeq, LenProperties
  <2> QED BY <1>2, <1>a, <2>1, HeadTailProperties
<1>4. /\ InFlight' = InFlight - 1 /\ InFlight >= 1 /\ InFlight \in Nat
      /\ Len(decode) \in Nat /\ Len(ifetch) \in Nat
  <2>1. Len(decode) \in Nat /\ Len(ifetch) \in Nat
    BY <1>1, Lens
  <2> QED BY <1>3, <1>a, <2>1 DEF InFlight
<1>5. ASSUME NEW j \in 1 .. InFlight - 1
      PROVE  /\ j + 1 \in 1 .. InFlight
             /\ IdAt(j)' = IdAt(j + 1) /\ StoresAt(j)' = StoresAt(j + 1)
             /\ (MissAt(j)' <=> MissAt(j + 1))
  <2>1. j + 1 \in 1 .. InFlight /\ j \in Nat /\ j >= 1
    BY <1>4
  <2>2. CASE j <= Len(rob')
    <3>1. j + 1 <= Len(rob) /\ j \in 1 .. Len(rob')
      BY <1>3, <2>1, <2>2
    <3>2. rob'[j] = rob[j + 1]
      BY <1>3, <3>1
    <3> QED BY <2>1, <2>2, <3>1, <3>2 DEF IdAt, StoresAt, MissAt
  <2>3. CASE ~(j <= Len(rob')) /\ j <= Len(rob') + Len(decode)
    <3>1. /\ ~(j + 1 <= Len(rob)) /\ j + 1 <= Len(rob) + Len(decode)
          /\ j - Len(rob') = j + 1 - Len(rob)
      BY <1>3, <1>4, <2>1, <2>3
    <3> QED BY <1>a, <2>1, <2>3, <3>1 DEF IdAt, StoresAt, MissAt
  <2>4. CASE ~(j <= Len(rob')) /\ ~(j <= Len(rob') + Len(decode))
    <3>1. /\ ~(j + 1 <= Len(rob)) /\ ~(j + 1 <= Len(rob) + Len(decode))
          /\ j - Len(rob') - Len(decode) = j + 1 - Len(rob) - Len(decode)
      BY <1>3, <1>4, <2>1, <2>4
    <3> QED BY <1>a, <2>1, <2>4, <3>1 DEF IdAt, StoresAt, MissAt
  <2> QED BY <2>2, <2>3, <2>4
<1>6. StoresAt(1) = 0 /\ ~MissAt(1)
  <2>1. 1 <= Len(rob) /\ 1 \in 1 .. Len(rob)
    BY <1>3
  <2>2. rob[1].stores = 0
    BY <1>a, <2>1 DEF FrontInv, Placed
  <2> QED BY <1>a, <2>1, <2>2 DEF StoresAt, MissAt
<1>b. retired \in Nat /\ retired' = retired + 1 /\ read = retired + InFlight
  BY <1>1, <1>a DEF Types, Numbered
<1>7. Types'
  <2>1. retired' \in Nat /\ Len(rob') <= ROB_SIZE
    BY <1>2, <1>3, <1>b
  <2> QED BY <1>1, <1>3, <1>a, <2>1 DEF Types
<1>8. Numbered'
  <2>1. \A j \in 1 .. InFlight - 1 : IdAt(j)' = retired' + j
    <3> TAKE j \in 1 .. InFlight - 1
    <3>1. IdAt(j + 1) = retired + (j + 1)
      BY <1>1, <1>5 DEF Numbered
    <3> QED BY <1>4, <1>5, <1>b, <3>1
  <2>2. read' = retired' + (InFlight - 1)
    BY <1>4, <1>a, <1>b
  <2> QED BY <1>4, <2>1, <2>2 DEF Numbered
<1>9. Pending' = Pending
  <2>1. /\ Runs \in Seq(Seq(Ids)) /\ Len(Runs) = InFlight
        /\ \A j \in 1 .. InFlight : Runs[j] = Run(StoresAt(j), retired + j)
    BY <1>1, RunsAre
  <2>2. 1 \in 1 .. InFlight /\ Runs # << >>
    <3>1. Len(<< >>) = 0
      BY EmptySeq
    <3> QED BY <1>4, <2>1, <3>1
  <2>3. Runs[1] = << >>
    BY <1>6, <2>1, <2>2, EmptyRun
  <2>4. FlattenSeq(Tail(Runs)) = FlattenSeq(Runs)
    BY <2>1, <2>2, <2>3, FlattenTail
  <2>5. /\ Tail(Runs) \in Seq(Seq(Ids)) /\ Len(Tail(Runs)) = InFlight - 1
        /\ \A j \in 1 .. InFlight - 1 : Tail(Runs)[j] = Runs[j + 1]
    BY <2>1, <2>2, HeadTailProperties
  <2>6. Runs' = [j \in 1 .. InFlight - 1 |-> Run(StoresAt(j), retired + j)']
    BY <1>4 DEF Runs
  <2>7. ASSUME NEW j \in 1 .. InFlight - 1
        PROVE  Run(StoresAt(j), retired + j)' = Tail(Runs)[j]
    <3>1. retired' + j = retired + (j + 1)
      BY <1>4, <1>b
    <3>2. Run(StoresAt(j), retired + j)' = Run(StoresAt(j + 1), retired + (j + 1))
      BY <1>5, <3>1 DEF Run
    <3> QED BY <1>5, <2>1, <2>5, <3>2
  <2>8. Tail(Runs) = [j \in 1 .. InFlight - 1 |-> Tail(Runs)[j]]
    <3> DEFINE t == Tail(Runs)
    <3>1. t = [j \in 1 .. Len(t) |-> t[j]]
      <4> HIDE DEF t
      <4> QED BY <2>5, LenProperties DEF t
    <3> HIDE DEF t
    <3>2. Len(t) = InFlight - 1
      BY <2>5 DEF t
    <3> QED BY <3>1, <3>2 DEF t
  <2>9. Runs' = Tail(Runs)
    BY <2>6, <2>7, <2>8
  <2> QED BY <2>4, <2>9 DEF Pending
<1>10. RingOf(STA, STA_head, STA_tail, Pending)'
  BY <1>9, <1>a DEF FrontInv, RingOf
<1>11. LastStalls'
  <2>1. LastStalls
    BY DEF FrontInv
  <2>2. \A j \in 1 .. InFlight - 1 : MissAt(j)' => j = InFlight - 1 /\ fetch_stall /\ resume = Never
    <3> TAKE j \in 1 .. InFlight - 1
    <3>1. MissAt(j + 1) => j + 1 = InFlight /\ fetch_stall /\ resume = Never
      BY <1>5, <2>1 DEF LastStalls
    <3> QED BY <1>4, <1>5, <3>1
  <2>3. ASSUME NEW m \in Int, m = InFlight - 1, fetch_stall, resume = Never
        PROVE  m >= 1 /\ MissAt(m)'
    <3>1. MissAt(InFlight)
      BY <2>1, <2>3 DEF LastStalls
    <3>2. m >= 1
      BY <1>4, <1>6, <2>3, <3>1
    <3>3. m \in 1 .. InFlight - 1 /\ m + 1 = InFlight
      BY <1>4, <2>3, <3>2
    <3>4. MissAt(m)' <=> MissAt(m + 1)
      BY <1>5, <3>3
    <3> QED BY <3>1, <3>2, <3>3, <3>4
  <2>4. fetch_stall /\ resume = Never => InFlight' >= 1 /\ MissAt(InFlight)'
    <3>1. InFlight' \in Int /\ InFlight' = InFlight - 1
      BY <1>4
    <3> QED BY <2>3, <3>1
  <2>5. \A j \in 1 .. InFlight' : MissAt(j)' => j = InFlight' /\ fetch_stall /\ resume = Never
    BY <1>4, <2>2
  <2>6. fetch_stall' = fetch_stall /\ resume' = resume /\ (resume # Never => fetch_stall)
    BY <1>a, <2>1 DEF LastStalls
  <2> QED BY <2>4, <2>5, <2>6 DEF LastStalls
<1>12. Placed'
  <2>1. \A j \in 1 .. Len(rob') : j + 1 \in 1 .. Len(rob)
    BY <1>3
  <2>2. \A j \in 1 .. Len(rob') : rob'[j].executed => rob'[j].stores = 0
    BY <1>3, <2>1 DEF FrontInv, Placed
  <2> QED BY <2>2 DEF Placed
<1>13. AnswerComing' /\ asserts' = {}
  BY <1>a DEF FrontInv, AnswerComing
<1> QED BY <1>7, <1>8, <1>10, <1>11, <1>12, <1>13 DEF FrontInv

-------------------------------------------------------------------------------
(* Reading the trace.                                                      *)

(* The slots from the tail on are the slots after the last store.          *)
LEMMA SlotsLater ==
  ASSUME NEW h \in 0 .. STA_SIZE - 1, NEW n \in Nat, NEW k \in Nat, k >= 1, n + k <= STA_SIZE + 1
  PROVE  At(At(h, n + 1), k) = At(h, n + k)
<1>1. STA_SIZE \in Nat
  BY Sizes
<1>2. CASE h + n < STA_SIZE
  <2>1. At(h, n + 1) = h + n
    BY <1>1, <1>2 DEF At
  <2>2. h + n + k - 1 = h + (n + k) - 1
    BY <1>1
  <2> QED BY <1>1, <2>1, <2>2 DEF At
<1>3. CASE ~(h + n < STA_SIZE)
  <2>1. At(h, n + 1) = h + n - STA_SIZE
    BY <1>1, <1>3 DEF At
  <2>2. At(h, n + k) = h + n + k - 1 - STA_SIZE
    BY <1>1, <1>3 DEF At
  <2>3. At(h + n - STA_SIZE, k) = h + n + k - 1 - STA_SIZE
    BY <1>1, <1>3 DEF At
  <2> QED BY <2>1, <2>2, <2>3
<1> QED BY <1>2, <1>3

LEMMA PushIs ==
  ASSUME Types, NEW p \in Seq(Ids), NEW ids \in Seq(Ids), PushStores(ids),
         RingOf(STA, STA_head, STA_tail, p), Len(p \o ids) <= STA_SIZE
  PROVE  /\ STA' \in [0 .. STA_SIZE - 1 -> 0 .. MaxRead] /\ STA_head' = STA_head
         /\ STA_tail' \in 0 .. STA_SIZE - 1
         /\ RingOf(STA', STA_head, STA_tail', p \o ids) /\ asserts' = asserts
<1> DEFINE n == Len(p)
           m == Len(ids)
           h == STA_head
           r == p \o ids
<1>1. /\ n \in Nat /\ m \in Nat /\ n + m <= STA_SIZE /\ STA_SIZE \in Nat /\ Len(r) = n + m
      /\ DOMAIN ids = 1 .. m
      /\ \A k \in 1 .. n + m : r[k] = IF k <= n THEN p[k] ELSE ids[k - n]
  BY LenProperties, ConcatProperties, Sizes
<1>2. /\ STA \in [0 .. STA_SIZE - 1 -> 0 .. MaxRead] /\ DOMAIN STA = 0 .. STA_SIZE - 1
      /\ h \in 0 .. STA_SIZE - 1 /\ STA_tail \in 0 .. STA_SIZE - 1
  BY DEF Types
<1>a. /\ STA' = [s \in 0 .. STA_SIZE - 1 |->
           IF \E k \in 1 .. m : Slot(k) = s
           THEN ids[CHOOSE k \in 1 .. m : Slot(k) = s] ELSE STA[s]]
      /\ STA_tail' = (STA_tail + m) % STA_SIZE /\ STA_head' = h
      /\ asserts' = asserts \cup
           {"STA" : k \in {j \in 1 .. m : STA[Slot(j)] # Empty /\ STA_head # Slot(j)}}
  BY <1>1, <1>2 DEF PushStores
<1> HIDE DEF n, m, h, r
<1>3. RingAt(STA, h, STA_tail, p)
  BY <1>1, <1>2, RingIsAt DEF n, h
<1>4. /\ \A k \in 1 .. n : STA[At(h, k)] = p[k]
      /\ \A k \in 1 .. STA_SIZE : k > n => STA[At(h, k)] = Empty
      /\ STA_tail = At(h, n + 1)
  BY <1>3 DEF RingAt, n
<1>5. ASSUME NEW k \in 1 .. m
      PROVE  /\ Slot(k) = At(h, n + k) /\ n + k \in 1 .. STA_SIZE
             /\ Slot(k) \in 0 .. STA_SIZE - 1 /\ STA[Slot(k)] = Empty
  <2>1. /\ k \in 1 .. STA_SIZE + 1 /\ n + k \in 1 .. STA_SIZE + 1 /\ n + k \in 1 .. STA_SIZE
        /\ n + k > n /\ k \in Nat /\ k >= 1 /\ n + k <= STA_SIZE + 1
    BY <1>1
  <2>2. Slot(k) = At(STA_tail, k)
    BY <1>2, <2>1, SlotAt DEF Slot
  <2>3. At(STA_tail, k) = At(h, n + k)
    BY <1>1, <1>2, <1>4, <2>1, SlotsLater
  <2>4. At(h, n + k) \in 0 .. STA_SIZE - 1
    BY <1>2, <2>1, SlotAt
  <2> QED BY <1>4, <2>1, <2>2, <2>3, <2>4
<1>6. ASSUME NEW j \in 1 .. m, NEW k \in 1 .. m, Slot(j) = Slot(k) PROVE j = k
  <2>1. n + j = n + k
    BY <1>2, <1>5, <1>6, SlotsApart
  <2> QED BY <1>1, <2>1
<1>7. ASSUME NEW k \in 1 .. m PROVE STA'[Slot(k)] = ids[k]
  <2>1. (CHOOSE j \in 1 .. m : Slot(j) = Slot(k)) = k
    BY <1>6
  <2> QED BY <1>5, <1>a, <2>1
<1>8. ASSUME NEW k \in 1 .. STA_SIZE, k <= n \/ k > n + m PROVE STA'[At(h, k)] = STA[At(h, k)]
  <2>1. At(h, k) \in 0 .. STA_SIZE - 1
    <3>1. k \in 1 .. STA_SIZE + 1
      BY <1>1
    <3> QED BY <1>2, <3>1, SlotAt
  <2>2. ASSUME NEW j \in 1 .. m, Slot(j) = At(h, k) PROVE FALSE
    <3>1. n + j = k
      BY <1>2, <1>5, <2>2, SlotsApart
    <3> QED BY <1>1, <1>8, <3>1
  <2> QED BY <1>a, <2>1, <2>2
<1>9. asserts' = asserts
  BY <1>5, <1>a
<1>10. STA' \in [0 .. STA_SIZE - 1 -> 0 .. MaxRead]
  <2>1. ASSUME NEW s \in 0 .. STA_SIZE - 1 PROVE STA'[s] \in 0 .. MaxRead
    <3>1. CASE \E k \in 1 .. m : Slot(k) = s
      <4>1. PICK k \in 1 .. m : Slot(k) = s
        BY <3>1
      <4>2. STA'[s] = ids[k] /\ ids[k] \in Ids
        BY <1>7, <4>1, ElementOfSeq DEF m
      <4> QED BY <4>2, Sizes DEF Ids
    <3>2. CASE ~\E k \in 1 .. m : Slot(k) = s
      BY <1>2, <1>a, <3>2
    <3> QED BY <3>1, <3>2
  <2> QED BY <1>a, <2>1
<1>11. STA_tail' = At(h, n + m + 1) /\ STA_tail' \in 0 .. STA_SIZE - 1
  <2>1. /\ m \in 0 .. STA_SIZE /\ n + m \in 0 .. STA_SIZE /\ m + 1 >= 1 /\ m + 1 \in Nat
        /\ n + (m + 1) <= STA_SIZE + 1 /\ n + (m + 1) = n + m + 1
    BY <1>1
  <2>2. STA_tail' = At(STA_tail, m + 1) /\ STA_tail' \in 0 .. STA_SIZE - 1
    BY <1>2, <1>a, <2>1, NextAt
  <2>3. At(At(h, n + 1), m + 1) = At(h, n + (m + 1))
    BY <1>1, <1>2, <2>1, SlotsLater
  <2> QED BY <1>4, <2>1, <2>2, <2>3
<1>12. RingAt(STA', h, STA_tail', r)
  <2>1. ASSUME NEW k \in 1 .. n + m PROVE STA'[At(h, k)] = r[k]
    <3>1. CASE k <= n
      <4>1. k \in 1 .. STA_SIZE /\ k \in 1 .. n
        BY <1>1, <3>1
      <4> QED BY <1>1, <1>4, <1>8, <3>1, <4>1
    <3>2. CASE ~(k <= n)
      <4>1. k - n \in 1 .. m /\ n + (k - n) = k
        BY <1>1, <3>2
      <4>2. Slot(k - n) = At(h, k) /\ STA'[Slot(k - n)] = ids[k - n]
        BY <1>5, <1>7, <4>1
      <4> QED BY <1>1, <3>2, <4>2
    <3> QED BY <3>1, <3>2
  <2>2. ASSUME NEW k \in 1 .. STA_SIZE, k > n + m PROVE STA'[At(h, k)] = Empty
    <3>1. k > n
      BY <1>1, <2>2
    <3> QED BY <1>4, <1>8, <2>2, <3>1
  <2> QED BY <1>1, <1>11, <2>1, <2>2 DEF RingAt
<1>13. RingOf(STA', h, STA_tail', r)
  <2>1. Len(r) \in Nat
    BY <1>1
  <2> QED BY <1>2, <1>12, <2>1, RingIsAt
<1> QED BY <1>9, <1>10, <1>11, <1>13, <1>a DEF h, r

(* The list with n instructions added to its end.                          *)
LEMMA ReadView ==
  ASSUME Types, rob' = rob, AllAlike(decode', decode), NEW n \in Nat,
         Len(ifetch') = Len(ifetch) + n, \A i \in 1 .. Len(ifetch) : ifetch'[i] = ifetch[i]
  PROVE  /\ InFlight' = InFlight + n
         /\ \A j \in 1 .. InFlight :
              IdAt(j)' = IdAt(j) /\ StoresAt(j)' = StoresAt(j) /\ (MissAt(j)' <=> MissAt(j))
         /\ \A i \in 1 .. n : \A j \in Int : j = InFlight + i =>
              /\ IdAt(j)' = ifetch'[Len(ifetch) + i].id
              /\ StoresAt(j)' = ifetch'[Len(ifetch) + i].stores
              /\ MissAt(j)' <=> ifetch'[Len(ifetch) + i].mispredicted
<1>1. /\ Len(rob') = Len(rob) /\ Len(decode') = Len(decode)
      /\ Len(rob) \in Nat /\ Len(decode) \in Nat /\ Len(ifetch) \in Nat
  BY Lens DEF AllAlike
<1>2. InFlight' = InFlight + n
  BY <1>1 DEF InFlight
<1>3. ASSUME NEW j \in 1 .. InFlight
      PROVE  IdAt(j)' = IdAt(j) /\ StoresAt(j)' = StoresAt(j) /\ (MissAt(j)' <=> MissAt(j))
  <2>1. CASE j <= Len(rob)
    BY <1>1, <2>1 DEF IdAt, StoresAt, MissAt
  <2>2. CASE ~(j <= Len(rob)) /\ j <= Len(rob) + Len(decode)
    <3>1. j - Len(rob) \in 1 .. Len(decode)
      BY <1>1, <2>2
    <3>2. Alike(decode'[j - Len(rob)], decode[j - Len(rob)])
      BY <3>1 DEF AllAlike
    <3> QED BY <1>1, <2>2, <3>2 DEF IdAt, StoresAt, MissAt, Alike
  <2>3. CASE ~(j <= Len(rob)) /\ ~(j <= Len(rob) + Len(decode))
    <3>1. j - Len(rob) - Len(decode) \in 1 .. Len(ifetch)
      BY <1>1, <2>3 DEF InFlight
    <3> QED BY <1>1, <2>3, <3>1 DEF IdAt, StoresAt, MissAt
  <2> QED BY <2>1, <2>2, <2>3
<1>4. ASSUME NEW i \in 1 .. n, NEW j \in Int, j = InFlight + i
      PROVE  /\ IdAt(j)' = ifetch'[Len(ifetch) + i].id
             /\ StoresAt(j)' = ifetch'[Len(ifetch) + i].stores
             /\ MissAt(j)' <=> ifetch'[Len(ifetch) + i].mispredicted
  <2>1. /\ ~(j <= Len(rob)) /\ ~(j <= Len(rob) + Len(decode))
        /\ j - Len(rob) - Len(decode) = Len(ifetch) + i
    BY <1>1, <1>4 DEF InFlight
  <2> QED BY <1>1, <2>1 DEF IdAt, StoresAt, MissAt
<1> QED BY <1>2, <1>3, <1>4

LEMMA EntryIs ==
  ASSUME NEW x \in Traced, NEW id \in Nat, warm \in BOOLEAN
  PROVE  /\ Entry(x, id) \in IEntry /\ Entry(x, id).id = id /\ Entry(x, id).fetched = UNFETCHED
         /\ Entry(x, id).stores = x.stores /\ x.stores \in Burst
         /\ Entry(x, id).mispredicted <=> warm /\ x.outcome = "mispredicted"
<1>1. x.stores \in Nat /\ x.stores * Flight <= STA_SIZE
  BY SizesAssumption, StaAssumption DEF Flight
<1>2. x.line \in Lines /\ x.stores \in Burst
  BY <1>1 DEF Lines, Burst
<1>3. UNFETCHED \in 0 .. COMPLETED /\ (warm /\ x.outcome = "mispredicted") \in BOOLEAN
  BY DEF UNFETCHED, COMPLETED
<1> QED BY <1>2, <1>3 DEF Entry, IEntry

LEMMA RoomIs ==
  ASSUME Types
  PROVE  Room \in Int /\ Room <= IFETCH_SIZE - Len(ifetch) /\ Room <= MaxRead - read
<1>1. IFETCH_SIZE - Len(ifetch) \in Int /\ MaxRead - read \in Int /\ FETCH_WIDTH \in Int
  BY Lens, Sizes DEF Types
<1> DEFINE s == Smaller(FETCH_WIDTH, IFETCH_SIZE - Len(ifetch))
<1>2. s \in Int /\ s <= IFETCH_SIZE - Len(ifetch)
  BY <1>1 DEF Smaller
<1>3. Room = IF s < MaxRead - read THEN s ELSE MaxRead - read
  BY DEF Room, Smaller
<1> HIDE DEF s
<1> QED BY <1>1, <1>2, <1>3

LEMMA ReadAppends ==
  ASSUME ifetch \in Seq(IEntry), NEW n \in Nat, NEW new \in [1 .. n -> IEntry],
         ifetch' = ifetch \o new
  PROVE  /\ ifetch' \in Seq(IEntry) /\ Len(ifetch') = Len(ifetch) + n
         /\ \A i \in 1 .. Len(ifetch) : ifetch'[i] = ifetch[i]
         /\ \A i \in 1 .. n : ifetch'[Len(ifetch) + i] = new[i]
<1>1. /\ ifetch \o new \in Seq(IEntry) /\ Len(ifetch \o new) = Len(ifetch) + n
      /\ \A i \in 1 .. Len(ifetch) : (ifetch \o new)[i] = ifetch[i]
      /\ \A i \in 1 .. n : (ifetch \o new)[Len(ifetch) + i] = new[i]
  BY Appended
<1> QED BY <1>1

LEMMA ReadKeeps ==
  ASSUME FrontInv, ReadFromTrace
  PROVE  FrontInv'
<1>1. Types /\ Numbered /\ LastStalls
  BY DEF FrontInv
<1>2. PICK n \in 1 .. Room : \E batch \in [1 .. n -> Traced] :
        /\ IsBatch(batch)
        /\ ifetch' = ifetch \o [i \in 1 .. n |-> Entry(batch[i], read + i)]
        /\ PushStores(Stores(batch))
        /\ read' = read + n
        /\ fetch_stall' = (warm /\ batch[n].outcome = "mispredicted")
  BY DEF ReadFromTrace
<1>3. PICK batch \in [1 .. n -> Traced] :
        /\ IsBatch(batch)
        /\ ifetch' = ifetch \o [i \in 1 .. n |-> Entry(batch[i], read + i)]
        /\ PushStores(Stores(batch))
        /\ read' = read + n
        /\ fetch_stall' = (warm /\ batch[n].outcome = "mispredicted")
  BY <1>2
<1>a. /\ rob' = rob /\ phase' = "back" /\ ~fetch_stall /\ TimePasses(decode, resume)
      /\ l1i' = l1i /\ processed' = processed /\ warm' = warm /\ retired' = retired
  BY DEF ReadFromTrace, cache
<1> DEFINE new == [i \in 1 .. n |-> Entry(batch[i], read + i)]
           ids == Stores(batch)
           runs == [i \in 1 .. n |-> Run(batch[i].stores, read + i)]
<1>4. /\ n \in Nat /\ n >= 1 /\ n <= IFETCH_SIZE - Len(ifetch) /\ n <= MaxRead - read
      /\ read \in Nat /\ Len(ifetch) \in Nat /\ InFlight \in Nat /\ retired \in Nat
      /\ Len(ifetch) \in Int /\ MaxRead \in Int /\ IFETCH_SIZE \in Int /\ InFlight \in Int
      /\ read = retired + InFlight /\ warm \in BOOLEAN
  <2>1. n \in Int /\ n >= 1 /\ n <= Room
    OBVIOUS
  <2>a. /\ Len(ifetch) \in Nat /\ InFlight \in Nat /\ read \in Nat /\ retired \in Nat
        /\ warm \in BOOLEAN /\ MaxRead \in Int /\ IFETCH_SIZE \in Int
    BY <1>1, Lens, Sizes DEF Types
  <2>b. Room \in Int /\ Room <= IFETCH_SIZE - Len(ifetch) /\ Room <= MaxRead - read
    BY <1>1, RoomIs
  <2>2. n <= IFETCH_SIZE - Len(ifetch) /\ n <= MaxRead - read
    BY <2>1, <2>a, <2>b
  <2>3. n \in Nat /\ Len(ifetch) \in Int /\ InFlight \in Int
    BY <2>1, <2>a
  <2>4. read = retired + InFlight
    BY <1>1 DEF Numbered
  <2> QED BY ONLY <2>1, <2>a, <2>2, <2>3, <2>4
<1>5. \A i \in 1 .. n : batch[i] \in Traced /\ read + i \in Nat /\ read + i \in Ids
  BY <1>4 DEF Ids
<1>6. /\ new \in [1 .. n -> IEntry]
      /\ \A i \in 1 .. n :
           /\ new[i].id = read + i /\ new[i].fetched = UNFETCHED
           /\ new[i].stores = batch[i].stores /\ batch[i].stores \in Burst
           /\ new[i].mispredicted <=> warm /\ batch[i].outcome = "mispredicted"
  BY <1>4, <1>5, EntryIs
<1>7. ifetch' = ifetch \o new
  BY <1>3
<1> HIDE DEF new
<1>8. /\ ifetch' \in Seq(IEntry) /\ Len(ifetch') = Len(ifetch) + n
      /\ \A i \in 1 .. Len(ifetch) : ifetch'[i] = ifetch[i]
      /\ \A i \in 1 .. n : ifetch'[Len(ifetch) + i] = new[i]
  <2>1. ifetch \in Seq(IEntry)
    BY <1>1 DEF Types
  <2>2. n \in Nat /\ new \in [1 .. n -> IEntry]
    BY <1>4, <1>6
  <2> QED BY <1>7, <2>1, <2>2, ReadAppends
<1>9. /\ decode' \in Seq(DEntry) /\ AllAlike(decode', decode)
      /\ resume' \in Never .. BRANCH_MISPREDICT_PENALTY /\ (resume' = Never <=> resume = Never)
  BY <1>1, <1>a, TimeIs
<1>10. /\ InFlight' = InFlight + n
       /\ \A j \in 1 .. InFlight :
            IdAt(j)' = IdAt(j) /\ StoresAt(j)' = StoresAt(j) /\ (MissAt(j)' <=> MissAt(j))
       /\ \A i \in 1 .. n : \A j \in Int : j = InFlight + i =>
            /\ IdAt(j)' = read + i /\ StoresAt(j)' = batch[i].stores
            /\ MissAt(j)' <=> warm /\ batch[i].outcome = "mispredicted"
  <2>1. /\ InFlight' = InFlight + n
        /\ \A j \in 1 .. InFlight :
             IdAt(j)' = IdAt(j) /\ StoresAt(j)' = StoresAt(j) /\ (MissAt(j)' <=> MissAt(j))
        /\ \A i \in 1 .. n : \A j \in Int : j = InFlight + i =>
             /\ IdAt(j)' = ifetch'[Len(ifetch) + i].id
             /\ StoresAt(j)' = ifetch'[Len(ifetch) + i].stores
             /\ MissAt(j)' <=> ifetch'[Len(ifetch) + i].mispredicted
    BY <1>1, <1>4, <1>8, <1>9, <1>a, ReadView
  <2> QED BY <1>6, <1>8, <2>1
(* A place of the new list is one of the old list or of the batch. *)
<1>11. ASSUME NEW j \in 1 .. InFlight + n, j \notin 1 .. InFlight
       PROVE  j \in Int /\ j - InFlight \in 1 .. n /\ j = InFlight + (j - InFlight)
  BY <1>4, <1>11
<1>12. Numbered'
  <2>1. ASSUME NEW j \in 1 .. InFlight + n PROVE IdAt(j)' = retired + j
    <3>1. CASE j \in 1 .. InFlight
      BY <1>1, <1>10, <3>1 DEF Numbered
    <3>2. CASE j \notin 1 .. InFlight
      <4>1. IdAt(j)' = read + (j - InFlight)
        BY <1>10, <1>11, <3>2
      <4>2. read + (j - InFlight) = retired + j
        BY <1>4
      <4> QED BY <4>1, <4>2
    <3> QED BY <3>1, <3>2
  <2>2. read' = retired + (InFlight + n)
    BY <1>3, <1>4
  <2> QED BY <1>10, <1>a, <2>1, <2>2 DEF Numbered
(* The stores of the batch come after those pending. *)
<1>13. /\ runs \in Seq(Seq(Ids)) /\ Len(runs) = n
       /\ \A i \in 1 .. n : runs[i] = Run(batch[i].stores, read + i) /\ Len(runs[i]) \in Burst
  <2>1. \A i \in 1 .. n : batch[i].stores \in Nat
    BY <1>6 DEF Burst
  <2>2. \A i \in 1 .. n : Run(batch[i].stores, read + i) \in Seq(Ids)
                          /\ Len(Run(batch[i].stores, read + i)) = batch[i].stores
    BY <1>5, <2>1, RunIs
  <2>3. runs \in [1 .. n -> Seq(Ids)]
    BY <2>2
  <2>4. runs \in Seq(Seq(Ids)) /\ Len(runs) = n
    BY <1>4, <2>3, ListOf
  <2> QED BY <1>6, <2>2, <2>4
<1>14. ids = FlattenSeq(runs)
  <2>1. DOMAIN batch = 1 .. n
    OBVIOUS
  <2> QED BY <2>1 DEF Stores, Run
<1> HIDE DEF runs, ids
<1>15. /\ Runs \in Seq(Seq(Ids)) /\ Len(Runs) = InFlight
       /\ \A j \in 1 .. InFlight : Runs[j] = Run(StoresAt(j), retired + j) /\ Len(Runs[j]) \in Burst
  BY <1>1, RunsAre
<1> DEFINE q == Runs \o runs
<1>16. /\ q \in Seq(Seq(Ids)) /\ Len(q) = InFlight + n
       /\ \A j \in 1 .. InFlight + n : q[j] = IF j <= InFlight THEN Runs[j] ELSE runs[j - InFlight]
  BY <1>13, <1>15, ConcatProperties
<1>17. FlattenSeq(q) = Pending \o ids
  BY <1>13, <1>14, <1>15, FlattenConcat DEF Pending
<1> HIDE DEF q
<1>18. Runs' = q
  <2>1. Runs' = [j \in 1 .. InFlight + n |-> Run(StoresAt(j), retired + j)']
    BY <1>10 DEF Runs
  <2>2. ASSUME NEW j \in 1 .. InFlight + n PROVE Run(StoresAt(j), retired + j)' = q[j]
    <3>1. CASE j \in 1 .. InFlight
      <4>1. Run(StoresAt(j), retired + j)' = Run(StoresAt(j), retired + j)
        BY <1>10, <1>a, <3>1 DEF Run
      <4>2. j <= InFlight
        BY <3>1
      <4> QED BY <1>15, <1>16, <3>1, <4>1, <4>2
    <3>2. CASE j \notin 1 .. InFlight
      <4>1. StoresAt(j)' = batch[j - InFlight].stores
        BY <1>10, <1>11, <3>2
      <4>2. read + (j - InFlight) = retired + j /\ ~(j <= InFlight)
        BY <1>4, <1>11, <3>2
      <4>3. Run(StoresAt(j), retired + j)' = Run(batch[j - InFlight].stores, read + (j - InFlight))
        BY <1>a, <4>1, <4>2 DEF Run
      <4>4. q[j] = runs[j - InFlight]
        BY <1>16, <4>2
      <4> QED BY <1>11, <1>13, <3>2, <4>3, <4>4
    <3> QED BY <3>1, <3>2
  <2>3. q = [j \in 1 .. InFlight + n |-> q[j]]
    <3>1. q = [j \in 1 .. Len(q) |-> q[j]]
      BY <1>16, LenProperties
    <3> QED BY <1>16, <3>1
  <2> QED BY <2>1, <2>2, <2>3
<1>19. Len(Pending \o ids) <= STA_SIZE
  <2>1. Len(q) <= Flight
    <3>1. Len(rob) <= ROB_SIZE /\ Len(decode) <= DECODE_SIZE /\ Len(ifetch) + n <= IFETCH_SIZE
      BY <1>1, <1>4 DEF Types
    <3>2. Len(rob) \in Nat /\ Len(decode) \in Nat /\ Len(ifetch) \in Nat
      BY <1>1, Lens
    <3> QED BY <1>4, <1>16, <3>1, <3>2, Sizes DEF InFlight, Flight
  <2>2. ASSUME NEW j \in 1 .. Len(q) PROVE Len(q[j]) \in Burst
    <3>1. CASE j \in 1 .. InFlight
      <4>1. j <= InFlight /\ q[j] = Runs[j]
        BY <1>16, <3>1
      <4> QED BY <1>15, <3>1, <4>1
    <3>2. CASE j \notin 1 .. InFlight
      <4>1. j - InFlight \in 1 .. n /\ ~(j <= InFlight)
        BY <1>4, <1>11, <1>16, <3>2
      <4>2. q[j] = runs[j - InFlight]
        BY <1>16, <4>1
      <4> QED BY <1>13, <4>1, <4>2
    <3> QED BY <3>1, <3>2
  <2>3. Len(FlattenSeq(q)) <= STA_SIZE
    BY <1>16, <2>1, <2>2, RunsFit
  <2> QED BY <1>17, <2>3
<1>20. /\ STA' \in [0 .. STA_SIZE - 1 -> 0 .. MaxRead] /\ STA_head' = STA_head
       /\ STA_tail' \in 0 .. STA_SIZE - 1
       /\ RingOf(STA', STA_head, STA_tail', Pending \o ids) /\ asserts' = asserts
  <2>1. Pending \in Seq(Ids)
    BY <1>1, PendingIs
  <2>2. ids \in Seq(Ids)
    BY <1>13, <1>14, FlattenSeqOf
  <2>3. RingOf(STA, STA_head, STA_tail, Pending) /\ PushStores(ids)
    BY <1>3 DEF FrontInv, ids
  <2> QED BY <1>1, <1>19, <2>1, <2>2, <2>3, PushIs
<1>21. RingOf(STA, STA_head, STA_tail, Pending)' /\ asserts' = {}
  <2>1. Pending' = Pending \o ids
    BY <1>17, <1>18 DEF Pending
  <2>2. RingOf(STA', STA_head', STA_tail', Pending')
    BY <1>20, <2>1
  <2> QED BY <1>20, <2>2 DEF FrontInv, RingOf
<1>22. Types'
  <2>1. Len(ifetch') <= IFETCH_SIZE /\ read' \in 0 .. MaxRead
    BY <1>3, <1>4, <1>8
  <2>2. Len(decode') <= DECODE_SIZE
    BY <1>1, <1>9 DEF AllAlike, Types
  <2>3. fetch_stall' \in BOOLEAN
    BY <1>3, <1>4
  <2>4. STA_head' \in 0 .. STA_SIZE - 1
    BY <1>1, <1>20 DEF Types
  <2> QED BY <1>1, <1>8, <1>9, <1>20, <1>a, <2>1, <2>2, <2>3, <2>4 DEF Types
(* Only the last of the batch can stall the reading. *)
<1>23. LastStalls'
  <2>1. resume' = Never
    BY <1>1, <1>9, <1>a DEF LastStalls
  <2>2. \A j \in 1 .. InFlight : ~MissAt(j)'
    BY <1>1, <1>10, <1>a DEF LastStalls
  <2>3. ASSUME NEW i \in 1 .. n, i # n PROVE ~(warm /\ batch[i].outcome = "mispredicted")
    <3>1. Len(batch) = n
      BY <1>4, ListOf
    <3>2. i \in 1 .. n - 1
      BY <1>4, <2>3
    <3> QED BY <1>3, <3>1, <3>2 DEF IsBatch, Stops
  <2>4. ASSUME NEW j \in 1 .. InFlight + n, MissAt(j)'
        PROVE  j = InFlight + n /\ fetch_stall'
    <3>1. j \notin 1 .. InFlight
      BY <2>2, <2>4
    <3>2. j - InFlight \in 1 .. n /\ j = InFlight + (j - InFlight) /\ j \in Int
      BY <1>11, <3>1
    <3>3. warm /\ batch[j - InFlight].outcome = "mispredicted"
      BY <1>10, <2>4, <3>2
    <3>4. j - InFlight = n
      BY <2>3, <3>2, <3>3
    <3> QED BY <1>3, <3>2, <3>3, <3>4
  <2>5. ASSUME NEW j \in Int, j = InFlight + n, fetch_stall' PROVE j >= 1 /\ MissAt(j)'
    <3>1. n \in 1 .. n /\ j >= 1
      BY <1>4, <2>5
    <3> QED BY <1>3, <1>10, <2>5, <3>1
  <2>6. fetch_stall' /\ resume' = Never => InFlight' >= 1 /\ MissAt(InFlight)'
    <3>1. InFlight' \in Int
      BY <1>4, <1>10
    <3> QED BY <1>10, <2>5, <3>1
  <2>7. \A j \in 1 .. InFlight' : MissAt(j)' => j = InFlight' /\ fetch_stall' /\ resume' = Never
    BY <1>10, <2>1, <2>4
  <2> QED BY <2>1, <2>6, <2>7 DEF LastStalls
<1>24. Placed'
  BY <1>a DEF FrontInv, Placed
<1>25. AnswerComing'
  <2> SUFFICES ASSUME NEW i \in DOMAIN ifetch', ifetch'[i].fetched = INFLIGHT
               PROVE  ifetch'[i].line \in l1i' \cup ToSet(processed')
    BY DEF AnswerComing
  <2>1. i \in 1 .. Len(ifetch) + n /\ DOMAIN ifetch = 1 .. Len(ifetch)
    BY <1>1, <1>8, Lens, LenProperties
  <2>2. CASE i \in 1 .. Len(ifetch)
    <3>1. ifetch'[i] = ifetch[i]
      BY <1>8, <2>2
    <3>2. ifetch[i].line \in l1i \cup ToSet(processed)
      BY <2>1, <2>2, <3>1 DEF FrontInv, AnswerComing
    <3> QED BY <1>a, <3>1, <3>2
  <2>3. CASE i \notin 1 .. Len(ifetch)
    <3>1. i - Len(ifetch) \in 1 .. n /\ i = Len(ifetch) + (i - Len(ifetch))
      BY <1>4, <2>1, <2>3
    <3>2. ifetch'[i] = new[i - Len(ifetch)]
      BY <1>8, <3>1
    <3>3. ifetch'[i].fetched = UNFETCHED
      BY <1>6, <3>1, <3>2
    <3> QED BY <3>3 DEF UNFETCHED, INFLIGHT
  <2> QED BY <2>2, <2>3
<1> QED BY <1>12, <1>21, <1>22, <1>23, <1>24, <1>25 DEF FrontInv

-------------------------------------------------------------------------------
(* The invariant.                                                          *)

LEMMA InitFrontInv == Init => FrontInv
<1> SUFFICES ASSUME Init PROVE FrontInv
  OBVIOUS
<1>a. /\ ifetch = << >> /\ decode = << >> /\ rob = << >>
      /\ STA = [i \in 0 .. STA_SIZE - 1 |-> Empty]
      /\ STA_head \in {0, STA_SIZE - 1} /\ STA_tail = STA_head
      /\ fetch_stall = FALSE /\ resume = Never
      /\ l1i = {} /\ processed = << >>
      /\ warm = FALSE /\ phase = "back" /\ read = 0 /\ retired = 0 /\ asserts = {}
  BY DEF Init
<1>1. Len(<< >>) = 0
  BY EmptySeq
<1>2. InFlight = 0 /\ 1 .. InFlight = {} /\ Len(rob) = 0 /\ Len(decode) = 0 /\ Len(ifetch) = 0
  BY <1>1, <1>a DEF InFlight
<1>3. STA_head \in 0 .. STA_SIZE - 1
  BY <1>a, Sizes
<1>4. Types
  <2>1. STA \in [0 .. STA_SIZE - 1 -> 0 .. MaxRead]
    BY <1>a, Sizes DEF Empty
  <2>2. ifetch \in Seq(IEntry) /\ Len(ifetch) <= IFETCH_SIZE
    BY <1>2, <1>a, Sizes, EmptySeq
  <2>3. decode \in Seq(DEntry) /\ Len(decode) <= DECODE_SIZE
    BY <1>2, <1>a, Sizes, EmptySeq
  <2>4. rob \in Seq(REntry) /\ Len(rob) <= ROB_SIZE
    BY <1>2, <1>a, Sizes, EmptySeq
  <2>5. processed \in Seq(Lines)
    BY <1>a, EmptySeq
  <2>6. resume \in Never .. BRANCH_MISPREDICT_PENALTY /\ read \in 0 .. MaxRead
    BY <1>a, Sizes DEF Never
  <2> QED BY <1>3, <1>a, <2>1, <2>2, <2>3, <2>4, <2>5, <2>6 DEF Types
<1>5. Numbered /\ LastStalls /\ Placed
  BY <1>2, <1>a DEF Numbered, LastStalls, Placed
<1>6. AnswerComing
  <2>1. DOMAIN ifetch = {}
    BY <1>a
  <2> QED BY <2>1 DEF AnswerComing
<1>7. Pending = << >>
  <2>1. Runs \in Seq(Seq(Ids)) /\ Len(Runs) = 0
    BY <1>2, <1>4, <1>5, RunsAre
  <2>2. Runs = << >>
    BY <2>1, EmptyList
  <2> QED BY <2>2, FlattenEmpty DEF Pending
<1>8. RingOf(STA, STA_head, STA_tail, Pending)
  <2>1. ASSUME NEW k \in 1 .. STA_SIZE PROVE STA[At(STA_head, k)] = Empty
    <3>1. k \in 1 .. STA_SIZE + 1
      BY Sizes
    <3>2. At(STA_head, k) \in 0 .. STA_SIZE - 1
      BY <1>3, <3>1, SlotAt
    <3> QED BY <1>a, <3>2
  <2>2. STA_tail = At(STA_head, 0 + 1)
    BY <1>3, <1>a, Sizes DEF At
  <2>3. Len(Pending) = 0 /\ 0 <= STA_SIZE /\ 1 .. 0 = {} /\ 0 \in Nat
    BY <1>1, <1>7, Sizes
  <2>4. RingAt(STA, STA_head, STA_tail, Pending)
    BY <2>1, <2>2, <2>3 DEF RingAt
  <2> QED BY <1>3, <2>3, <2>4, RingIsAt
<1> QED BY <1>4, <1>5, <1>6, <1>8, <1>a DEF FrontInv

LEMMA StepFrontInv ==
  ASSUME FrontInv, [Next]_vars
  PROVE  FrontInv'
<1>1. CASE UNCHANGED vars
  <2>a. /\ rob' = rob /\ decode' = decode /\ ifetch' = ifetch
        /\ STA' = STA /\ STA_head' = STA_head /\ STA_tail' = STA_tail
        /\ fetch_stall' = fetch_stall /\ resume' = resume /\ phase' = phase /\ warm' = warm
        /\ read' = read /\ retired' = retired /\ asserts' = asserts
        /\ l1i' = l1i /\ processed' = processed
    BY <1>1 DEF vars, buffers, sta, stall, cache
  <2>1. Types
    BY DEF FrontInv
  <2>2. SameView
    BY <2>1, <2>a, SameAlike, AlikeView
  <2>3. Types'
    BY <2>1, <2>a DEF Types
  <2>4. Numbered' /\ LastStalls' /\ RingOf(STA, STA_head, STA_tail, Pending)'
    BY <2>1, <2>2, <2>a, ViewNumbered, ViewStalls, ViewRing DEF FrontInv, sta
  <2>5. Placed' /\ AnswerComing'
    BY <2>a DEF FrontInv, Placed, AnswerComing
  <2> QED BY <2>3, <2>4, <2>5, <2>a DEF FrontInv
<1>2. CASE \E line \in Lines : Answer(line)
  BY <1>2, AnswerKeeps
<1>3. CASE CompleteInstrFetch
  BY <1>3, CompleteFetchKeeps
<1>4. ASSUME NEW i \in DOMAIN rob, PlaceStore(i) \/ CompleteExecution(i) PROVE FrontInv'
  BY <1>4, PlaceStoreKeeps, ExecutionKeeps
<1>5. CASE Retire
  BY <1>5, RetireKeeps
<1>6. CASE FinishWarmup \/ StartDecode
  BY <1>6, PhaseKeeps
<1>7. CASE NoRead \/ CoreStalled
  BY <1>7, IdleKeeps
<1>8. CASE DecodeAndDispatch
  BY <1>8, DecodeKeeps
<1>9. CASE FetchInstruction
  BY <1>9, FetchKeeps
<1>10. CASE ReadFromTrace
  BY <1>10, ReadKeeps
<1> QED BY <1>1, <1>2, <1>3, <1>4, <1>5, <1>6, <1>7, <1>8, <1>9, <1>10 DEF Next, Cycle

LEMMA FrontInvariant == Spec => []FrontInv
<1>1. FrontInv /\ [Next]_vars => FrontInv'
  BY StepFrontInv
<1> QED BY <1>1, InitFrontInv, PTL DEF Spec

(* The buffers and the rings have their types, and no more instructions    *)
(* retire than were read: no width or full buffer of decode_and_dispatch,  *)
(* fetch_instruction and read_from_trace lets a buffer overrun.            *)
THEOREM TypeCorrect == Spec => []TypeOK
<1>1. FrontInv => TypeOK
  <2> SUFFICES ASSUME FrontInv PROVE TypeOK
    OBVIOUS
  <2>1. Types /\ Numbered
    BY DEF FrontInv
  <2>2. /\ DOMAIN ifetch = 1 .. Len(ifetch) /\ DOMAIN decode = 1 .. Len(decode) /\ InFlight \in Nat
        /\ \A i \in 1 .. Len(ifetch) : ifetch[i] \in IEntry
        /\ \A i \in 1 .. Len(decode) : decode[i] \in DEntry
    BY <2>1, Lens
  <2>3. \A i \in DOMAIN ifetch : ifetch[i].fetched \in 0 .. COMPLETED /\ ifetch[i].stores \in Nat
    BY <2>2 DEF IEntry, Burst
  <2>4. \A i \in DOMAIN decode : decode[i].wait \in -1 .. Undecoded
    BY <2>2 DEF DEntry
  <2>5. retired \in 0 .. read
    BY <2>1, <2>2 DEF Types, Numbered
  <2> QED BY <2>1, <2>3, <2>4, <2>5 DEF Types, TypeOK
<1> QED BY <1>1, FrontInvariant, PTL

(* No buffered instruction waits for an answer of L1I that will not come:  *)
(* its line is on request or in PROCESSED, although fetch_instruction may  *)
(* ask again for a line that has arrived.                                  *)
THEOREM AnswersCome == Spec => []AnswerComing
<1>1. FrontInv => AnswerComing
  BY DEF FrontInv
<1> QED BY <1>1, FrontInvariant, PTL

(* The unresolved branches are those that the list says.                   *)
LEMMA UnresolvedIs ==
  ASSUME Types, Numbered
  PROVE  Unresolved = {retired + j : j \in {k \in 1 .. InFlight : MissAt(k)}}
<1>1. /\ Len(rob) \in Nat /\ Len(decode) \in Nat /\ Len(ifetch) \in Nat
      /\ DOMAIN rob = 1 .. Len(rob) /\ DOMAIN decode = 1 .. Len(decode)
      /\ DOMAIN ifetch = 1 .. Len(ifetch)
  BY Lens
<1> DEFINE m == {retired + j : j \in {k \in 1 .. InFlight : MissAt(k)}}
<1>2. ASSUME NEW i \in 1 .. Len(rob), rob[i].mispredicted /\ ~rob[i].executed PROVE rob[i].id \in m
  <2>1. i \in 1 .. InFlight /\ i <= Len(rob)
    BY <1>1 DEF InFlight
  <2>2. MissAt(i) /\ rob[i].id = IdAt(i)
    BY <1>2, <2>1 DEF MissAt, IdAt
  <2> QED BY <2>1, <2>2 DEF Numbered
<1>3. ASSUME NEW i \in 1 .. Len(decode), decode[i].mispredicted PROVE decode[i].id \in m
  <2> DEFINE j == Len(rob) + i
  <2>1. j \in 1 .. InFlight /\ ~(j <= Len(rob)) /\ j <= Len(rob) + Len(decode) /\ j - Len(rob) = i
    BY <1>1 DEF InFlight
  <2> HIDE DEF j
  <2>2. MissAt(j) /\ decode[i].id = IdAt(j)
    BY <1>3, <2>1 DEF MissAt, IdAt
  <2> QED BY <2>1, <2>2 DEF Numbered
<1>4. ASSUME NEW i \in 1 .. Len(ifetch), ifetch[i].mispredicted PROVE ifetch[i].id \in m
  <2> DEFINE j == Len(rob) + Len(decode) + i
  <2>1. /\ j \in 1 .. InFlight /\ ~(j <= Len(rob)) /\ ~(j <= Len(rob) + Len(decode))
        /\ j - Len(rob) - Len(decode) = i
    BY <1>1 DEF InFlight
  <2> HIDE DEF j
  <2>2. MissAt(j) /\ ifetch[i].id = IdAt(j)
    BY <1>4, <2>1 DEF MissAt, IdAt
  <2> QED BY <2>1, <2>2 DEF Numbered
<1>5. ASSUME NEW j \in 1 .. InFlight, MissAt(j) PROVE retired + j \in Unresolved
  <2>1. IdAt(j) = retired + j
    BY DEF Numbered
  <2>2. CASE j <= Len(rob)
    <3>1. j \in DOMAIN rob
      BY <1>1, <2>2
    <3> QED BY <1>5, <2>1, <2>2, <3>1 DEF MissAt, IdAt, Unresolved
  <2>3. CASE ~(j <= Len(rob)) /\ j <= Len(rob) + Len(decode)
    <3>1. j - Len(rob) \in DOMAIN decode
      BY <1>1, <2>3
    <3> QED BY <1>5, <2>1, <2>3, <3>1 DEF MissAt, IdAt, Unresolved
  <2>4. CASE ~(j <= Len(rob)) /\ ~(j <= Len(rob) + Len(decode))
    <3>1. j - Len(rob) - Len(decode) \in DOMAIN ifetch
      BY <1>1, <2>4 DEF InFlight
    <3> QED BY <1>5, <2>1, <2>4, <3>1 DEF MissAt, IdAt, Unresolved
  <2> QED BY <2>2, <2>3, <2>4
<1>6. Unresolved \subseteq m
  <2> HIDE DEF m
  <2> QED BY <1>1, <1>2, <1>3, <1>4 DEF Unresolved
<1>7. m \subseteq Unresolved
  BY <1>5
<1> QED BY <1>6, <1>7

(* While fetch is stalled there is exactly the youngest instruction that   *)
(* will end the stall, or it has set fetch_resume_cycle; while it is not,  *)
(* no mispredicted branch is left behind (ooo_cpu.cc:558, 1727).           *)
THEOREM StallsEnd == Spec => []StallOwed
<1>1. FrontInv => StallOwed
  <2> SUFFICES ASSUME FrontInv PROVE StallOwed
    OBVIOUS
  <2>1. Types /\ Numbered /\ LastStalls
    BY DEF FrontInv
  <2>2. read = retired + InFlight /\ InFlight \in Nat
    BY <2>1, Lens DEF Numbered
  <2>3. Unresolved = {retired + j : j \in {k \in 1 .. InFlight : MissAt(k)}}
    BY <2>1, UnresolvedIs
  <2>4. ASSUME fetch_stall, resume = Never PROVE Unresolved = {read}
    <3>1. InFlight \in 1 .. InFlight /\ MissAt(InFlight)
      BY <2>1, <2>2, <2>4 DEF LastStalls
    <3>2. \A k \in 1 .. InFlight : MissAt(k) => k = InFlight
      BY <2>1 DEF LastStalls
    <3>3. {k \in 1 .. InFlight : MissAt(k)} = {InFlight}
      BY <3>1, <3>2
    <3> QED BY <2>2, <2>3, <3>3
  <2>5. ASSUME ~fetch_stall \/ resume # Never PROVE Unresolved = {}
    <3>1. {k \in 1 .. InFlight : MissAt(k)} = {}
      BY <2>1, <2>5 DEF LastStalls
    <3> QED BY <2>3, <3>1
  <2>6. resume # Never => fetch_stall
    BY <2>1 DEF LastStalls
  <2> QED BY <2>4, <2>5, <2>6 DEF StallOwed
<1> QED BY <1>1, FrontInvariant, PTL

(* Three lists one after the other.                                        *)
LEMMA Concat2 ==
  ASSUME NEW S, NEW q \in Seq(S), NEW f \in Seq(S)
  PROVE  /\ q \o f \in Seq(S) /\ Len(q \o f) = Len(q) + Len(f)
         /\ \A i \in 1 .. Len(q) : (q \o f)[i] = q[i]
         /\ \A i \in 1 .. Len(f) : (q \o f)[Len(q) + i] = f[i]
<1>1. Len(q) \in Nat /\ Len(f) \in Nat
  BY LenProperties
<1>2. /\ q \o f \in Seq(S) /\ Len(q \o f) = Len(q) + Len(f)
      /\ \A i \in 1 .. Len(q) + Len(f) : (q \o f)[i] = IF i <= Len(q) THEN q[i] ELSE f[i - Len(q)]
  BY ConcatProperties
<1>3. \A i \in 1 .. Len(q) : i \in 1 .. Len(q) + Len(f) /\ i <= Len(q)
  BY <1>1
<1>4. \A i \in 1 .. Len(f) : Len(q) + i \in 1 .. Len(q) + Len(f) /\ ~(Len(q) + i <= Len(q)) /\ (Len(q) + i) - Len(q) = i
  BY <1>1
<1> QED BY <1>2, <1>3, <1>4

LEMMA Joined ==
  ASSUME NEW S, NEW f \in Seq(S), NEW g \in Seq(S), NEW h \in Seq(S)
  PROVE  /\ f \o g \o h \in Seq(S) /\ Len(f \o g \o h) = Len(f) + Len(g) + Len(h)
         /\ \A j \in 1 .. Len(f) : (f \o g \o h)[j] = f[j]
         /\ \A j \in 1 .. Len(g) : (f \o g \o h)[Len(f) + j] = g[j]
         /\ \A j \in 1 .. Len(h) : (f \o g \o h)[Len(f) + Len(g) + j] = h[j]
<1>1. Len(f) \in Nat /\ Len(g) \in Nat /\ Len(h) \in Nat
  BY LenProperties
<1> DEFINE p == f \o g
           q == p \o h
<1>2. /\ p \in Seq(S) /\ Len(p) = Len(f) + Len(g)
      /\ \A i \in 1 .. Len(f) : p[i] = f[i]
      /\ \A i \in 1 .. Len(g) : p[Len(f) + i] = g[i]
  BY Concat2
<1> HIDE DEF p
<1>3. /\ q \in Seq(S) /\ Len(q) = Len(p) + Len(h)
      /\ \A i \in 1 .. Len(p) : q[i] = p[i]
      /\ \A i \in 1 .. Len(h) : q[Len(p) + i] = h[i]
  <2>1. p \in Seq(S)
    BY <1>2
  <2> QED BY ONLY <2>1, Concat2, h \in Seq(S)
<1> HIDE DEF q
<1>4. Len(q) = Len(f) + Len(g) + Len(h)
  BY <1>2, <1>3
<1>5. ASSUME NEW j \in 1 .. Len(f) PROVE q[j] = f[j]
  <2>1. j \in 1 .. Len(p)
    BY <1>1, <1>2
  <2> QED BY <1>2, <1>3, <2>1
<1>6. ASSUME NEW j \in 1 .. Len(g) PROVE q[Len(f) + j] = g[j]
  <2>1. Len(f) + j \in 1 .. Len(p)
    BY <1>1, <1>2
  <2> QED BY <1>2, <1>3, <2>1
<1>7. ASSUME NEW j \in 1 .. Len(h) PROVE q[Len(f) + Len(g) + j] = h[j]
  BY <1>2, <1>3
<1> QED BY <1>3, <1>4, <1>5, <1>6, <1>7 DEF p, q

(* The buffers one after the other are the list, for whatever is taken     *)
(* from each entry.                                                        *)
LEMMA ListIs ==
  ASSUME Types, NEW S, NEW t \in Seq(S), Len(t) = InFlight,
         NEW f \in Seq(S), NEW g \in Seq(S), NEW h \in Seq(S),
         Len(f) = Len(rob), Len(g) = Len(decode), Len(h) = Len(ifetch),
         \A j \in 1 .. Len(rob) : t[j] = f[j],
         \A j \in 1 .. Len(decode) : t[Len(rob) + j] = g[j],
         \A j \in 1 .. Len(ifetch) : t[Len(rob) + Len(decode) + j] = h[j]
  PROVE  t = f \o g \o h
<1> DEFINE a == Len(rob)
           b == Len(decode)
           c == Len(ifetch)
           p == f \o g \o h
<1>1. a \in Nat /\ b \in Nat /\ c \in Nat /\ InFlight = a + b + c
  BY Lens DEF InFlight
<1> HIDE DEF a, b, c
<1>2. Len(f) = a /\ Len(g) = b /\ Len(h) = c
  BY DEF a, b, c
<1>3. /\ p \in Seq(S) /\ Len(p) = a + b + c
      /\ \A j \in 1 .. a : p[j] = f[j]
      /\ \A j \in 1 .. b : p[a + j] = g[j]
      /\ \A j \in 1 .. c : p[a + b + j] = h[j]
  <2>1. /\ p \in Seq(S) /\ Len(p) = Len(f) + Len(g) + Len(h)
        /\ \A j \in 1 .. Len(f) : p[j] = f[j]
        /\ \A j \in 1 .. Len(g) : p[Len(f) + j] = g[j]
        /\ \A j \in 1 .. Len(h) : p[Len(f) + Len(g) + j] = h[j]
    BY ONLY Joined, f \in Seq(S), g \in Seq(S), h \in Seq(S)
  <2> HIDE DEF p
  <2> QED BY <1>2, <2>1
<1>4. /\ \A j \in 1 .. a : t[j] = f[j]
      /\ \A j \in 1 .. b : t[a + j] = g[j]
      /\ \A j \in 1 .. c : t[a + b + j] = h[j]
  BY DEF a, b, c
<1> HIDE DEF p
<1>5. ASSUME NEW j \in 1 .. Len(t) PROVE t[j] = p[j]
  <2>1. j \in Nat /\ j >= 1 /\ j <= a + b + c
    BY <1>1
  <2>2. CASE j <= a
    <3>1. j \in 1 .. a
      BY <1>1, <2>1, <2>2
    <3> QED BY <1>3, <1>4, <3>1
  <2>3. CASE ~(j <= a) /\ j <= a + b
    <3>1. j - a \in 1 .. b /\ a + (j - a) = j
      BY <1>1, <2>1, <2>3
    <3>2. t[a + (j - a)] = g[j - a] /\ p[a + (j - a)] = g[j - a]
      BY <1>3, <1>4, <3>1
    <3> QED BY <3>1, <3>2
  <2>4. CASE ~(j <= a + b)
    <3>1. j - a - b \in 1 .. c /\ a + b + (j - a - b) = j
      BY <1>1, <2>1, <2>4
    <3>2. t[a + b + (j - a - b)] = h[j - a - b] /\ p[a + b + (j - a - b)] = h[j - a - b]
      BY <1>3, <1>4, <3>1
    <3> QED BY <3>1, <3>2
  <2> QED BY <2>2, <2>3, <2>4, <1>1, <2>1
<1>6. Len(t) = Len(p)
  BY <1>1, <1>3
<1>7. t = p
  BY <1>3, <1>5, <1>6, SeqEqual
<1> QED BY <1>7 DEF p

LEMMA WindowIs ==
  ASSUME Types, Numbered
  PROVE  Window = [i \in 1 .. InFlight |-> retired + i]
<1> DEFINE f == [i \in 1 .. Len(rob) |-> rob[i].id]
           g == [i \in 1 .. Len(decode) |-> decode[i].id]
           h == [i \in 1 .. Len(ifetch) |-> ifetch[i].id]
           t == [i \in 1 .. InFlight |-> retired + i]
<1>1. /\ Len(rob) \in Nat /\ Len(decode) \in Nat /\ Len(ifetch) \in Nat
      /\ InFlight \in Nat /\ retired \in Nat /\ InFlight = Len(rob) + Len(decode) + Len(ifetch)
      /\ \A i \in 1 .. InFlight : IdAt(i) = retired + i
  BY Lens DEF InFlight, Numbered, Types
<1>2. Window = f \o g \o h
  BY Lens DEF Window
<1>3. /\ \A i \in 1 .. Len(rob) : rob[i].id \in Nat /\ retired + i = rob[i].id
      /\ \A i \in 1 .. Len(decode) : decode[i].id \in Nat /\ retired + (Len(rob) + i) = decode[i].id
      /\ \A i \in 1 .. Len(ifetch) :
           ifetch[i].id \in Nat /\ retired + (Len(rob) + Len(decode) + i) = ifetch[i].id
  <2>1. ASSUME NEW i \in 1 .. Len(rob) PROVE rob[i].id \in Nat /\ retired + i = rob[i].id
    <3>1. i \in 1 .. InFlight /\ i <= Len(rob)
      BY <1>1
    <3> QED BY <1>1, <3>1, Lens DEF IdAt, REntry
  <2>2. ASSUME NEW i \in 1 .. Len(decode)
        PROVE  decode[i].id \in Nat /\ retired + (Len(rob) + i) = decode[i].id
    <3>1. /\ Len(rob) + i \in 1 .. InFlight /\ ~(Len(rob) + i <= Len(rob))
          /\ Len(rob) + i <= Len(rob) + Len(decode) /\ Len(rob) + i - Len(rob) = i
      BY <1>1
    <3>2. IdAt(Len(rob) + i) = decode[i].id
      BY <3>1 DEF IdAt
    <3> QED BY <1>1, <3>1, <3>2, Lens DEF DEntry
  <2>3. ASSUME NEW i \in 1 .. Len(ifetch)
        PROVE  ifetch[i].id \in Nat /\ retired + (Len(rob) + Len(decode) + i) = ifetch[i].id
    <3> DEFINE j == Len(rob) + Len(decode) + i
    <3>1. /\ j \in 1 .. InFlight /\ ~(j <= Len(rob)) /\ ~(j <= Len(rob) + Len(decode))
          /\ j - Len(rob) - Len(decode) = i
      BY <1>1
    <3> HIDE DEF j
    <3>2. IdAt(j) = ifetch[i].id
      BY <3>1 DEF IdAt
    <3>3. retired + j = ifetch[i].id
      BY <1>1, <3>1, <3>2
    <3> QED BY <3>3, Lens DEF IEntry, j
  <2> QED BY <2>1, <2>2, <2>3
<1>4. f \in Seq(Nat) /\ Len(f) = Len(rob) /\ \A i \in 1 .. Len(rob) : f[i] = rob[i].id
  <2>1. f \in [1 .. Len(rob) -> Nat]
    BY <1>3
  <2> QED BY <1>1, <2>1, ListOf
<1>5. g \in Seq(Nat) /\ Len(g) = Len(decode) /\ \A i \in 1 .. Len(decode) : g[i] = decode[i].id
  <2>1. g \in [1 .. Len(decode) -> Nat]
    BY <1>3
  <2>2. \A i \in 1 .. Len(decode) : g[i] = decode[i].id
    OBVIOUS
  <2> HIDE DEF g
  <2>3. g \in Seq(Nat) /\ Len(g) = Len(decode)
    BY <1>1, <2>1, ListOf
  <2> QED BY <2>2, <2>3
<1>6. h \in Seq(Nat) /\ Len(h) = Len(ifetch) /\ \A i \in 1 .. Len(ifetch) : h[i] = ifetch[i].id
  <2>1. h \in [1 .. Len(ifetch) -> Nat]
    BY <1>3
  <2> QED BY <1>1, <2>1, ListOf
<1>7. t \in Seq(Nat) /\ Len(t) = InFlight
  <2>1. \A i \in 1 .. InFlight : retired + i \in Nat
    BY <1>1
  <2>2. t \in [1 .. InFlight -> Nat]
    BY <2>1
  <2> QED BY <1>1, <2>2, ListOf
<1>8. \A i \in 1 .. InFlight : t[i] = retired + i
  OBVIOUS
<1> HIDE DEF f, g, h, t
<1>9. /\ \A j \in 1 .. Len(rob) : j \in 1 .. InFlight
      /\ \A j \in 1 .. Len(decode) : Len(rob) + j \in 1 .. InFlight
      /\ \A j \in 1 .. Len(ifetch) : Len(rob) + Len(decode) + j \in 1 .. InFlight
  BY <1>1
<1>10. \A j \in 1 .. Len(rob) : t[j] = f[j]
  BY <1>3, <1>4, <1>8, <1>9
<1>11. \A j \in 1 .. Len(decode) : t[Len(rob) + j] = g[j]
  BY <1>3, <1>5, <1>8, <1>9
<1>12. \A j \in 1 .. Len(ifetch) : t[Len(rob) + Len(decode) + j] = h[j]
  BY <1>3, <1>6, <1>8, <1>9
<1>13. t = f \o g \o h
  <2> DEFINE N == Nat
  <2>1. f \in Seq(N) /\ Len(f) = Len(rob) /\ g \in Seq(N) /\ Len(g) = Len(decode)
        /\ h \in Seq(N) /\ Len(h) = Len(ifetch) /\ t \in Seq(N) /\ Len(t) = InFlight
    BY <1>4, <1>5, <1>6, <1>7
  <2> HIDE DEF N
  <2> QED BY <1>10, <1>11, <1>12, <2>1, ListIs
<1> QED BY <1>2, <1>13 DEF t

LEMMA StoresAre ==
  ASSUME Types, Numbered
  PROVE  Pending = StoresOf(rob) \o StoresOf(decode) \o StoresOf(ifetch)
<1> DEFINE f == [i \in 1 .. Len(rob) |-> Run(rob[i].stores, rob[i].id)]
           g == [i \in 1 .. Len(decode) |-> Run(decode[i].stores, decode[i].id)]
           h == [i \in 1 .. Len(ifetch) |-> Run(ifetch[i].stores, ifetch[i].id)]
           Lists == Seq(Ids)
<1>1. /\ Len(rob) \in Nat /\ Len(decode) \in Nat /\ Len(ifetch) \in Nat
      /\ InFlight = Len(rob) + Len(decode) + Len(ifetch)
      /\ \A j \in 1 .. InFlight : IdAt(j) = retired + j
  BY Lens DEF InFlight, Numbered
<1>2. /\ StoresOf(rob) = FlattenSeq(f) /\ StoresOf(decode) = FlattenSeq(g)
      /\ StoresOf(ifetch) = FlattenSeq(h)
  BY Lens DEF StoresOf, Run
<1>3. /\ Runs \in Seq(Lists) /\ Len(Runs) = InFlight
      /\ \A j \in 1 .. InFlight : Runs[j] = Run(StoresAt(j), retired + j)
  BY RunsAre
<1>a. \A j \in 1 .. InFlight : Runs[j] \in Lists
  BY <1>3, ElementOfSeq
<1> HIDE DEF Lists
<1>4. ASSUME NEW i \in 1 .. Len(rob)
      PROVE  i \in 1 .. InFlight /\ Runs[i] = Run(rob[i].stores, rob[i].id)
  <2>1. i \in 1 .. InFlight /\ i <= Len(rob)
    BY <1>1
  <2>2. StoresAt(i) = rob[i].stores /\ retired + i = rob[i].id
    BY <1>1, <2>1 DEF StoresAt, IdAt
  <2> QED BY <1>3, <2>1, <2>2
<1>5. ASSUME NEW i \in 1 .. Len(decode)
      PROVE  /\ Len(rob) + i \in 1 .. InFlight
             /\ Runs[Len(rob) + i] = Run(decode[i].stores, decode[i].id)
  <2> DEFINE j == Len(rob) + i
  <2>1. /\ j \in 1 .. InFlight /\ ~(j <= Len(rob))
        /\ j <= Len(rob) + Len(decode) /\ j - Len(rob) = i
    BY <1>1
  <2> HIDE DEF j
  <2>2. StoresAt(j) = decode[i].stores /\ IdAt(j) = decode[i].id
    BY <2>1 DEF StoresAt, IdAt
  <2>3. retired + j = decode[i].id
    BY <1>1, <2>1, <2>2
  <2>4. Runs[j] = Run(decode[i].stores, decode[i].id)
    BY <1>3, <2>1, <2>2, <2>3
  <2> QED BY <2>1, <2>4 DEF j
<1>6. ASSUME NEW i \in 1 .. Len(ifetch)
      PROVE  /\ Len(rob) + Len(decode) + i \in 1 .. InFlight
             /\ Runs[Len(rob) + Len(decode) + i] = Run(ifetch[i].stores, ifetch[i].id)
  <2> DEFINE j == Len(rob) + Len(decode) + i
  <2>1. /\ j \in 1 .. InFlight /\ ~(j <= Len(rob)) /\ ~(j <= Len(rob) + Len(decode))
        /\ j - Len(rob) - Len(decode) = i
    BY <1>1
  <2> HIDE DEF j
  <2>2. StoresAt(j) = ifetch[i].stores /\ IdAt(j) = ifetch[i].id
    BY <2>1 DEF StoresAt, IdAt
  <2>3. retired + j = ifetch[i].id
    BY <1>1, <2>1, <2>2
  <2>4. Runs[j] = Run(ifetch[i].stores, ifetch[i].id)
    BY <1>3, <2>1, <2>2, <2>3
  <2> QED BY <2>1, <2>4 DEF j
<1>7. f \in Seq(Lists) /\ Len(f) = Len(rob)
  <2>1. \A i \in 1 .. Len(rob) : Run(rob[i].stores, rob[i].id) \in Lists
    BY <1>4, <1>a
  <2>2. f \in [1 .. Len(rob) -> Lists]
    BY <2>1
  <2> QED BY <1>1, <2>2, ListOf
<1>8. g \in Seq(Lists) /\ Len(g) = Len(decode)
  <2>1. \A i \in 1 .. Len(decode) : Run(decode[i].stores, decode[i].id) \in Lists
    <3> TAKE i \in 1 .. Len(decode)
    <3>1. Runs[Len(rob) + i] \in Lists
      BY <1>5, <1>a
    <3> QED BY <1>5, <3>1
  <2>2. g \in [1 .. Len(decode) -> Lists]
    BY <2>1
  <2> QED BY <1>1, <2>2, ListOf
<1>9. h \in Seq(Lists) /\ Len(h) = Len(ifetch)
  <2>1. \A i \in 1 .. Len(ifetch) : Run(ifetch[i].stores, ifetch[i].id) \in Lists
    <3> TAKE i \in 1 .. Len(ifetch)
    <3>1. Runs[Len(rob) + Len(decode) + i] \in Lists
      BY <1>6, <1>a
    <3> QED BY <1>6, <3>1
  <2>2. h \in [1 .. Len(ifetch) -> Lists]
    BY <2>1
  <2> QED BY <1>1, <2>2, ListOf
<1>10. \A j \in 1 .. Len(rob) : Runs[j] = f[j]
  BY <1>4
<1>11. \A j \in 1 .. Len(decode) : Runs[Len(rob) + j] = g[j]
  BY <1>5
<1>12. \A j \in 1 .. Len(ifetch) : Runs[Len(rob) + Len(decode) + j] = h[j]
  BY <1>6
<1> HIDE DEF f, g, h
<1>13. Runs = f \o g \o h
  BY <1>3, <1>7, <1>8, <1>9, <1>10, <1>11, <1>12, ListIs
<1> DEFINE p == f \o g
<1>14. p \in Seq(Lists)
  BY <1>7, <1>8, ConcatProperties
<1>15. FlattenSeq(p) = FlattenSeq(f) \o FlattenSeq(g)
  BY <1>7, <1>8, FlattenConcat DEF Lists
<1> HIDE DEF p
<1>16. FlattenSeq(p \o h) = FlattenSeq(p) \o FlattenSeq(h)
  BY <1>9, <1>14, FlattenConcat DEF Lists
<1> QED BY <1>2, <1>13, <1>15, <1>16 DEF Pending, p

(* The slots that are not empty are those of the pending stores.           *)
LEMMA RingCount ==
  ASSUME Types, Numbered, RingOf(STA, STA_head, STA_tail, Pending)
  PROVE  Cardinality({s \in DOMAIN STA : STA[s] # Empty}) = Len(Pending)
<1> DEFINE n == Len(Pending)
           T == {s \in DOMAIN STA : STA[s] # Empty}
           F == [k \in 1 .. n |-> At(STA_head, k)]
<1>1. /\ Pending \in Seq(Ids) /\ n \in Nat /\ DOMAIN STA = 0 .. STA_SIZE - 1
      /\ STA_head \in 0 .. STA_SIZE - 1 /\ STA_SIZE \in Nat
  BY PendingIs, Sizes DEF Types
<1>2. RingAt(STA, STA_head, STA_tail, Pending)
  BY <1>1, RingIsAt
<1>3. /\ n <= STA_SIZE
      /\ \A k \in 1 .. n : STA[At(STA_head, k)] = Pending[k]
      /\ \A k \in 1 .. STA_SIZE : k > n => STA[At(STA_head, k)] = Empty
  BY <1>2 DEF RingAt
<1>4. \A k \in 1 .. n : Pending[k] \in Ids
  BY <1>1, ElementOfSeq
<1> HIDE DEF n
<1>5. ASSUME NEW k \in 1 .. n PROVE At(STA_head, k) \in T
  <2>1. k \in 1 .. STA_SIZE + 1
    BY <1>1, <1>3
  <2>2. At(STA_head, k) \in 0 .. STA_SIZE - 1
    BY <1>1, <2>1, SlotAt
  <2>3. Pending[k] # Empty
    BY <1>4 DEF Ids, Empty
  <2> QED BY <1>1, <1>3, <2>2, <2>3
<1>6. F \in [1 .. n -> T]
  BY <1>5
<1>7. ASSUME NEW j \in 1 .. n, NEW k \in 1 .. n, F[j] = F[k] PROVE j = k
  <2>1. j \in 1 .. STA_SIZE /\ k \in 1 .. STA_SIZE /\ At(STA_head, j) = At(STA_head, k)
    BY <1>1, <1>3, <1>7
  <2> QED BY <1>1, <2>1, SlotsApart
<1>8. ASSUME NEW s \in T PROVE \E k \in 1 .. n : F[k] = s
  <2>1. PICK k \in 1 .. STA_SIZE : At(STA_head, k) = s
    BY <1>1, SlotsAll
  <2>2. k \in 1 .. n
    BY <1>1, <1>3, <2>1
  <2> QED BY <2>1, <2>2
<1> HIDE DEF F, T
<1>9. F \in Bijection(1 .. n, T)
  BY <1>6, <1>7, <1>8, Fun_IsBij
<1>10. ExistsBijection(1 .. n, T)
  BY <1>9 DEF ExistsBijection
<1> QED BY <1>1, <1>10, FS_CountingElements DEF T, n

(* Through partial moves, full buffers and stalls the three buffers hold   *)
(* each instruction that was read and has not retired, once and in the     *)
(* order of the trace; from STA_head to STA_tail the ring names their      *)
(* stores that have no entry in the store queue, in the same order; and    *)
(* the assertion of read_from_trace, that the slot at STA_tail is free,    *)
(* never fails (ooo_cpu.cc:222-236).                                       *)
THEOREM InOrder == Spec => []ProgramOrder
<1>1. FrontInv => ProgramOrder
  <2> SUFFICES ASSUME FrontInv PROVE ProgramOrder
    OBVIOUS
  <2>1. Types /\ Numbered /\ RingOf(STA, STA_head, STA_tail, Pending) /\ asserts = {}
    BY DEF FrontInv
  <2>2. Pending = StoresOf(rob) \o StoresOf(decode) \o StoresOf(ifetch)
    BY <2>1, StoresAre
  <2>3. Window = [i \in 1 .. read - retired |-> retired + i]
    <3>1. read - retired = InFlight
      BY <2>1, Lens DEF Numbered, Types
    <3> QED BY <2>1, <3>1, WindowIs
  <2>4. \A k \in DOMAIN Pending : STA[(STA_head + k - 1) % STA_SIZE] = Pending[k]
    <3>1. DOMAIN Pending = 1 .. Len(Pending)
      BY <2>1, PendingIs, LenProperties
    <3> QED BY <2>1, <3>1 DEF RingOf
  <2>5. Cardinality({s \in DOMAIN STA : STA[s] # Empty}) = Len(Pending)
    BY <2>1, RingCount
  <2>6. STA_tail = (STA_head + Len(Pending)) % STA_SIZE
    BY <2>1 DEF RingOf
  <2> QED BY <2>1, <2>2, <2>3, <2>4, <2>5, <2>6 DEF ProgramOrder
<1> QED BY <1>1, FrontInvariant, PTL
===============================================================================
