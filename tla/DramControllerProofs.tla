------------------------- MODULE DramControllerProofs -------------------------
(***************************************************************************)
(* What holds of the DRAM controller for every number of slots and banks   *)
(* and every timing.  The operators of DramController take the state as a  *)
(* record, so the invariant is stated of a record too, and each operator   *)
(* is shown to preserve it.                                                *)
(***************************************************************************)
EXTENDS DramController, FiniteSetTheorems, WellFoundedInduction, TLAPS

-------------------------------------------------------------------------------
(* The first of the earliest slots.                                        *)

(* A nonempty set of naturals has a least element.                         *)
LEMMA LeastNat ==
  ASSUME NEW T, T \subseteq Nat, T # {}
  PROVE  \E x \in T : \A y \in T : x <= y
<1>1. PICK x \in T : \A y \in T : ~ (<<y, x>> \in OpToRel(<, Nat))
  BY NatLessThanWellFounded, WFMin
<1>2. \A y \in T : ~ (y < x)
  BY <1>1 DEF OpToRel
<1> QED BY <1>2

(* Earliest finds a slot of the set, and none is before it.                *)
LEMMA EarliestIn ==
  ASSUME NEW slots, NEW S, S \subseteq Nat, S # {},
         \A i \in S : slots[i].event \in Nat
  PROVE  /\ Earliest(slots, S) \in S
         /\ \A j \in S :
              \/ slots[Earliest(slots, S)].event < slots[j].event
              \/ slots[Earliest(slots, S)].event = slots[j].event /\ Earliest(slots, S) <= j
<1> DEFINE E == {slots[i].event : i \in S}
<1>1. PICK m \in E : \A n \in E : m <= n
  <2>1. E \subseteq Nat
    OBVIOUS
  <2>2. E # {}
    <3>1. PICK i \in S : TRUE
      OBVIOUS
    <3>2. slots[i].event \in E
      BY <3>1
    <3> QED BY <3>2
  <2> HIDE DEF E
  <2> QED BY <2>1, <2>2, LeastNat
<1> DEFINE T == {i \in S : slots[i].event = m}
<1>2. PICK k \in T : \A j \in T : k <= j
  <2>1. T \subseteq Nat /\ T # {}
    OBVIOUS
  <2> HIDE DEF T
  <2> QED BY <2>1, LeastNat
<1>3. \A j \in S : \/ slots[k].event < slots[j].event
                   \/ slots[k].event = slots[j].event /\ k <= j
  <2> TAKE j \in S
  <2>1. slots[k].event = m /\ slots[j].event \in E /\ m \in Nat /\ slots[j].event \in Nat
    OBVIOUS
  <2>2. CASE slots[j].event = m
    BY <2>1, <2>2, <1>2
  <2>3. CASE slots[j].event # m
    BY <2>1, <2>3, <1>1
  <2> QED BY <2>2, <2>3
<1> QED BY <1>3 DEF Earliest

(* The search looks at the event cycles of its slots and at nothing else.  *)
LEMMA NextOfSame ==
  ASSUME NEW slots, NEW others, NEW S, S \subseteq Nat,
         \A i \in S : slots[i].event \in Nat /\ others[i].event = slots[i].event
  PROVE  NextOf(others, S) = NextOf(slots, S)
<1>1. CASE S = {}
  BY <1>1 DEF NextOf
<1>2. CASE S # {}
  <2> DEFINE k == Earliest(slots, S)
             m == Earliest(others, S)
  <2>1. /\ k \in S
        /\ \A j \in S : \/ slots[k].event < slots[j].event
                        \/ slots[k].event = slots[j].event /\ k <= j
    BY <1>2, EarliestIn
  <2>2. \A i \in S : others[i].event \in Nat
    OBVIOUS
  <2>3. /\ m \in S
        /\ \A j \in S : \/ others[m].event < others[j].event
                        \/ others[m].event = others[j].event /\ m <= j
    BY <1>2, <2>2, EarliestIn
  <2> HIDE DEF k, m
  <2>4. k = m
    BY <2>1, <2>3
  <2>5. slots[k].event = others[m].event
    BY <2>4, <2>1
  <2> QED BY <1>2, <2>4, <2>5 DEF NextOf, k, m
<1> QED BY <1>1, <1>2

-------------------------------------------------------------------------------
(* The invariant, of a state record.                                       *)

NextType == [index : Nat, cycle : Nat]
LastType == [queue : Queue \cup {"none"}, cycle : Nat]

StateType ==
  [queue : [Queue -> UNION {[Slot(q) -> Entry] : q \in Queue}],
   bank : [Bank -> BankType], dbus : Int, writeMode : BOOLEAN,
   scheduled : [Queue -> Int], nextSchedule : [Queue -> NextType],
   nextProcess : [Queue -> NextType], waiting : SUBSET Addr, failed : BOOLEAN,
   last : LastType]

Typed(s) ==
  /\ s \in StateType
  /\ \A q \in Queue : s.queue[q] \in [Slot(q) -> Entry]
  /\ \A q \in Queue : Started(s, q) \subseteq Occupied(s, q)

Banked(s) ==
  /\ \A q \in Queue : \A i \in Started(s, q) :
       /\ s.bank[BankAt(s, q, i)].worksFor = q
       /\ s.bank[BankAt(s, q, i)].index = i
  /\ \A b \in Bank : s.bank[b].worksFor # "none" =>
       /\ s.bank[b].index \in Started(s, s.bank[b].worksFor)
       /\ BankAt(s, s.bank[b].worksFor, s.bank[b].index) = b

Directed(s) ==
  /\ s.writeMode => Started(s, "RQ") = {}
  /\ ~s.writeMode => Started(s, "WQ") = {}

CountedIn(s) == \A q \in Queue : s.scheduled[q] = Cardinality(Started(s, q))

(* No two slots of a queue hold one block: the next request for it would   *)
(* not be answered when the first is.                                      *)
Distinct(s) ==
  \A q \in Queue : \A i, j \in Occupied(s, q) :
    s.queue[q][i].address = s.queue[q][j].address => i = j

AnsweredIn(s) == s.waiting = {s.queue["RQ"][i].address : i \in Occupied(s, "RQ")}

FreshIn(s, q) ==
  /\ s.nextSchedule[q] = NextOf(s.queue[q], Unstarted(s, q))
  /\ s.nextProcess[q] = NextOf(s.queue[q], Started(s, q))

(* The transfers of two directions keep their distance.                    *)
Separated(s) ==
  s.last.queue # "none" =>
    s.dbus >= s.last.cycle + RETURN_TIME
              + (IF s.writeMode # (s.last.queue = "WQ") THEN TURN_AROUND ELSE 0)

Tables(s) ==
  /\ Typed(s) /\ Banked(s) /\ Directed(s) /\ CountedIn(s) /\ Distinct(s)
  /\ AnsweredIn(s) /\ Separated(s) /\ ~s.failed

Sound(s) == Tables(s) /\ \A q \in Queue : FreshIn(s, q)

-------------------------------------------------------------------------------
(* Facts about the sets of slots.                                          *)

(* The sets of slots are finite, and occupied slots have an address and a bank. *)
LEMMA SlotSets ==
  ASSUME NEW s, Typed(s), NEW q \in Queue
  PROVE  /\ Occupied(s, q) \subseteq Slot(q)
         /\ Started(s, q) \subseteq Slot(q)
         /\ Unstarted(s, q) \subseteq Slot(q)
         /\ Slot(q) \subseteq Nat \ {0}
         /\ \A i \in Slot(q) : s.queue[q][i] \in Entry
         /\ \A i \in Occupied(s, q) : /\ s.queue[q][i].address \in Addr
                                       /\ BankAt(s, q, i) \in Bank
         /\ IsFiniteSet(Started(s, q))
<1>1. SIZE[q] \in Nat \ {0}
  BY DramAssumption
<1>2. Slot(q) \subseteq Nat \ {0}
  BY <1>1 DEF Slot
<1>3. IsFiniteSet(Slot(q))
  BY <1>1, FS_Interval DEF Slot
<1>4. Started(s, q) \subseteq Slot(q)
  BY DEF Started
<1>5. IsFiniteSet(Started(s, q))
  BY <1>3, <1>4, FS_Subset
<1>6. \A i \in Slot(q) : s.queue[q][i] \in Entry
  BY DEF Typed
<1>7. \A i \in Occupied(s, q) : /\ s.queue[q][i].address \in Addr
                                /\ BankAt(s, q, i) \in Bank
  BY <1>6, DramAssumption DEF Occupied, Entry, BankAt
<1> QED BY <1>2, <1>4, <1>5, <1>6, <1>7 DEF Occupied, Unstarted

(* A fresh search returns a slot of the set it searched, or nothing.       *)
LEMMA NextOfType ==
  ASSUME NEW s, Typed(s), NEW q \in Queue, NEW S, S \subseteq Slot(q)
  PROVE  /\ NextOf(s.queue[q], S) \in NextType
         /\ S # {} => Earliest(s.queue[q], S) \in S
         /\ NextOf(s.queue[q], S).index # 0 => NextOf(s.queue[q], S).index \in S
<1>1. /\ S \subseteq Nat \ {0}
      /\ \A i \in S : s.queue[q][i].event \in Nat
  BY SlotSets DEF Entry
<1>2. CASE S = {}
  BY <1>2 DEF NextOf, Nothing, NextType
<1>3. CASE S # {}
  <2>1. Earliest(s.queue[q], S) \in S
    BY <1>1, <1>3, EarliestIn
  <2> QED BY <1>1, <1>3, <2>1 DEF NextOf, NextType
<1> QED BY <1>2, <1>3

(* Writing one slot of a queue.                                            *)
LEMMA SetSlot ==
  ASSUME NEW s, Typed(s), NEW q \in Queue, NEW i \in Slot(q), NEW e \in Entry
  PROVE  LET f == [s.queue EXCEPT ![q] = [@ EXCEPT ![i] = e]]
         IN  /\ f \in [Queue -> UNION {[Slot(r) -> Entry] : r \in Queue}]
             /\ \A r \in Queue : f[r] \in [Slot(r) -> Entry]
             /\ f[q][i] = e
             /\ \A r \in Queue : \A j \in Slot(r) : r # q \/ j # i => f[r][j] = s.queue[r][j]
<1> DEFINE f == [s.queue EXCEPT ![q] = [@ EXCEPT ![i] = e]]
<1>1. /\ \A r \in Queue : s.queue[r] \in [Slot(r) -> Entry]
      /\ s.queue \in [Queue -> UNION {[Slot(r) -> Entry] : r \in Queue}]
  BY DEF Typed, StateType
<1>2. \A r \in Queue : f[r] = IF r = q THEN [s.queue[q] EXCEPT ![i] = e] ELSE s.queue[r]
  BY <1>1
<1>3. DOMAIN f = Queue /\ f = [r \in Queue |-> f[r]]
  BY <1>1
<1> HIDE DEF f
<1>4. \A r \in Queue : f[r] \in [Slot(r) -> Entry]
  BY <1>1, <1>2
<1>5. f \in [Queue -> UNION {[Slot(r) -> Entry] : r \in Queue}]
  BY <1>3, <1>4
<1>6. f[q][i] = e /\ \A r \in Queue : \A j \in Slot(r) : r # q \/ j # i => f[r][j] = s.queue[r][j]
  BY <1>1, <1>2
<1> QED BY <1>4, <1>5, <1>6 DEF f

-------------------------------------------------------------------------------
(* Renewing the cached indices.                                            *)

SameTables(s, t) ==
  /\ t.queue = s.queue /\ t.bank = s.bank /\ t.dbus = s.dbus
  /\ t.writeMode = s.writeMode /\ t.scheduled = s.scheduled /\ t.waiting = s.waiting
  /\ t.failed = s.failed /\ t.last = s.last

(* The sets of slots depend on the queues alone.                           *)
LEMMA SameSets ==
  ASSUME NEW s, NEW t, t.queue = s.queue, NEW q
  PROVE  /\ Occupied(t, q) = Occupied(s, q) /\ Started(t, q) = Started(s, q)
         /\ Unstarted(t, q) = Unstarted(s, q)
         /\ \A i : BankAt(t, q, i) = BankAt(s, q, i)
BY DEF Occupied, Started, Unstarted, BankAt

(* The tables stay right when only the cached indices change.              *)
LEMMA SameSound ==
  ASSUME NEW s, NEW t, Tables(s), SameTables(s, t), t \in StateType
  PROVE  Tables(t)
<1>1. \A q : /\ Occupied(t, q) = Occupied(s, q) /\ Started(t, q) = Started(s, q)
             /\ \A i : BankAt(t, q, i) = BankAt(s, q, i)
  BY SameSets DEF SameTables
<1>2. Typed(t)
  BY <1>1 DEF Tables, Typed, SameTables
<1>3. Banked(t)
  BY <1>1 DEF Tables, Banked, SameTables
<1>4. Directed(t) /\ CountedIn(t)
  BY <1>1 DEF Tables, Directed, CountedIn, SameTables
<1>5. Distinct(t) /\ AnsweredIn(t)
  BY <1>1 DEF Tables, Distinct, AnsweredIn, SameTables
<1>6. Separated(t) /\ ~t.failed
  BY DEF Tables, Separated, SameTables
<1> QED BY <1>2, <1>3, <1>4, <1>5, <1>6 DEF Tables

(* update_schedule_cycle writes one next_schedule and nothing else.        *)
LEMMA RenewSchedule ==
  ASSUME NEW s, Typed(s), NEW q \in Queue
  PROVE  LET t == UpdateScheduleCycle(s, q)
         IN  /\ SameTables(s, t) /\ t \in StateType /\ t.nextProcess = s.nextProcess
             /\ t.nextSchedule[q] = NextOf(t.queue[q], Unstarted(t, q))
             /\ \A r \in Queue : r # q => t.nextSchedule[r] = s.nextSchedule[r]
<1> DEFINE t == UpdateScheduleCycle(s, q)
           n == NextOf(s.queue[q], Unstarted(s, q))
<1>1. n \in NextType
  BY NextOfType, SlotSets
<1>2. t = [s EXCEPT !.nextSchedule[q] = n]
  BY DEF UpdateScheduleCycle
<1>3. s \in StateType
  BY DEF Typed
<1>4. /\ SameTables(s, t) /\ t \in StateType /\ t.nextProcess = s.nextProcess
      /\ t.nextSchedule[q] = n
      /\ \A r \in Queue : r # q => t.nextSchedule[r] = s.nextSchedule[r]
  <2> HIDE DEF n, t
  <2> QED BY <1>1, <1>2, <1>3 DEF SameTables, StateType
<1>5. n = NextOf(t.queue[q], Unstarted(t, q))
  <2>1. Unstarted(t, q) = Unstarted(s, q) /\ t.queue = s.queue
    BY <1>4, SameSets DEF SameTables
  <2> HIDE DEF t
  <2> QED BY <2>1
<1> QED BY <1>4, <1>5

(* update_process_cycle writes one next_process and nothing else.          *)
LEMMA RenewProcess ==
  ASSUME NEW s, Typed(s), NEW q \in Queue
  PROVE  LET t == UpdateProcessCycle(s, q)
         IN  /\ SameTables(s, t) /\ t \in StateType /\ t.nextSchedule = s.nextSchedule
             /\ t.nextProcess[q] = NextOf(t.queue[q], Started(t, q))
             /\ \A r \in Queue : r # q => t.nextProcess[r] = s.nextProcess[r]
<1> DEFINE t == UpdateProcessCycle(s, q)
           n == NextOf(s.queue[q], Started(s, q))
<1>1. n \in NextType
  BY NextOfType, SlotSets
<1>2. t = [s EXCEPT !.nextProcess[q] = n]
  BY DEF UpdateProcessCycle
<1>3. s \in StateType
  BY DEF Typed
<1>4. /\ SameTables(s, t) /\ t \in StateType /\ t.nextSchedule = s.nextSchedule
      /\ t.nextProcess[q] = n
      /\ \A r \in Queue : r # q => t.nextProcess[r] = s.nextProcess[r]
  <2> HIDE DEF n, t
  <2> QED BY <1>1, <1>2, <1>3 DEF SameTables, StateType
<1>5. n = NextOf(t.queue[q], Started(t, q))
  <2>1. Started(t, q) = Started(s, q) /\ t.queue = s.queue
    BY <1>4, SameSets DEF SameTables
  <2> HIDE DEF t
  <2> QED BY <2>1
<1> QED BY <1>4, <1>5

(* When the tables are right and only q was disturbed, renewing both       *)
(* indices of q makes all of them right.                                   *)
LEMMA RenewBoth ==
  ASSUME NEW s, Tables(s), NEW q \in Queue, \A r \in Queue : r # q => FreshIn(s, r)
  PROVE  LET t == UpdateProcessCycle(UpdateScheduleCycle(s, q), q)
         IN  Sound(t) /\ SameTables(s, t)
<1> DEFINE u == UpdateScheduleCycle(s, q)
           t == UpdateProcessCycle(u, q)
<1>1. Typed(s)
  BY DEF Tables
<1>2. /\ SameTables(s, u) /\ u \in StateType /\ u.nextProcess = s.nextProcess
      /\ u.nextSchedule[q] = NextOf(u.queue[q], Unstarted(u, q))
      /\ \A r \in Queue : r # q => u.nextSchedule[r] = s.nextSchedule[r]
  BY <1>1, RenewSchedule
<1>3. Tables(u)
  BY <1>2, SameSound
<1>4. Typed(u)
  BY <1>3 DEF Tables
<1> HIDE DEF u
<1>5. /\ SameTables(u, t) /\ t \in StateType /\ t.nextSchedule = u.nextSchedule
      /\ t.nextProcess[q] = NextOf(t.queue[q], Started(t, q))
      /\ \A r \in Queue : r # q => t.nextProcess[r] = u.nextProcess[r]
  BY <1>4, RenewProcess
<1>6. Tables(t)
  BY <1>3, <1>5, SameSound
<1> HIDE DEF t
<1>7. SameTables(s, t)
  BY <1>2, <1>5 DEF SameTables
<1>8. t.queue = s.queue /\ u.queue = s.queue
  BY <1>2, <1>7 DEF SameTables
<1>9. \A r : /\ Unstarted(t, r) = Unstarted(s, r) /\ Unstarted(u, r) = Unstarted(s, r)
             /\ Started(t, r) = Started(s, r)
  BY <1>8, SameSets
<1>10. ASSUME NEW r \in Queue PROVE FreshIn(t, r)
  <2>1. CASE r = q
    BY <2>1, <1>2, <1>5, <1>8, <1>9 DEF FreshIn
  <2>2. CASE r # q
    BY <2>2, <1>2, <1>5, <1>8, <1>9 DEF FreshIn
  <2> QED BY <2>1, <2>2
<1> QED BY <1>6, <1>7, <1>10 DEF Sound, t, u

-------------------------------------------------------------------------------
(* schedule().                                                             *)

Way(s) == IF s.writeMode THEN "WQ" ELSE "RQ"

(* Starting a request in a free bank keeps the invariant.                  *)
LEMMA StartSound ==
  ASSUME NEW s, Sound(s), now \in Nat, NEW i \in Startable(s, Way(s))
  PROVE  LET t == Start(s, Way(s), i)
         IN  /\ Sound(t) /\ t.writeMode = s.writeMode
             /\ t.last = s.last /\ t.dbus = s.dbus
<1> DEFINE q == Way(s)
           a == s.queue[q][i].address
           b == BankAt(s, q, i)
           ready == now + Latency(s, q, i)
           k == [index |-> i, worksFor |-> q, available |-> ready, row |-> RowOf[a]]
           e == [s.queue[q][i] EXCEPT !.scheduled = TRUE, !.event = ready]
           u == [s EXCEPT !.bank[b] = k, !.scheduled[q] = @ + 1, !.queue[q][i] = e]
<1>1. Typed(s) /\ Tables(s) /\ s \in StateType /\ q \in Queue
  BY DEF Sound, Tables, Typed, Way, Queue
<1>2. /\ i \in Occupied(s, q) /\ i \notin Started(s, q) /\ i \in Slot(q) /\ i \in Nat
      /\ s.bank[b].worksFor = "none"
  BY <1>1, SlotSets DEF Startable, Unstarted, Occupied
<1>3. a \in Addr /\ b \in Bank /\ b = BankOf[a] /\ s.queue[q][i] \in Entry
  BY <1>1, <1>2, SlotSets DEF BankAt
<1>4. ready \in Nat
  BY DramAssumption DEF Latency
<1>5. k \in BankType /\ e \in Entry /\ e.address = a /\ e.scheduled = TRUE
  <2>1. k \in BankType
    BY <1>1, <1>2, <1>3, <1>4 DEF BankType
  <2>2. e \in Entry /\ e.address = a /\ e.scheduled = TRUE
    BY <1>3, <1>4 DEF Entry
  <2> QED BY <2>1, <2>2
<1>6. Start(s, q, i) = UpdateProcessCycle(UpdateScheduleCycle(u, q), q)
  BY DEF Start
<1> HIDE DEF q, a, b, ready, k, e
<1>7. /\ u.bank = [s.bank EXCEPT ![b] = k]
      /\ u.scheduled = [s.scheduled EXCEPT ![q] = @ + 1]
      /\ u.queue = [s.queue EXCEPT ![q] = [@ EXCEPT ![i] = e]]
  BY <1>1 DEF StateType
<1>8. /\ u.nextSchedule = s.nextSchedule /\ u.nextProcess = s.nextProcess
      /\ u.dbus = s.dbus /\ u.writeMode = s.writeMode /\ u.waiting = s.waiting
      /\ u.failed = s.failed /\ u.last = s.last
  BY <1>1 DEF StateType
<1>9. u \in StateType
  <2>1. u.bank \in [Bank -> BankType]
    BY <1>1, <1>3, <1>5, <1>7 DEF StateType
  <2>2. u.scheduled \in [Queue -> Int]
    BY <1>1, <1>7 DEF StateType
  <2>3. u.queue \in [Queue -> UNION {[Slot(r) -> Entry] : r \in Queue}]
    BY <1>1, <1>2, <1>5, <1>7, SetSlot
  <2> QED BY <1>1, <1>8, <2>1, <2>2, <2>3 DEF StateType
<1> HIDE DEF u
<1>10. /\ u.queue[q][i] = e /\ \A r \in Queue : u.queue[r] \in [Slot(r) -> Entry]
       /\ \A r \in Queue : \A j \in Slot(r) :
            r # q \/ j # i => u.queue[r][j] = s.queue[r][j]
  BY <1>1, <1>2, <1>5, <1>7, SetSlot
<1>11. \A r \in Queue : \A j \in Slot(r) :
         /\ u.queue[r][j].address = s.queue[r][j].address
         /\ BankAt(u, r, j) = BankAt(s, r, j)
  BY <1>1, <1>2, <1>5, <1>10 DEF a, BankAt
<1>12. \A r \in Queue : /\ Occupied(u, r) = Occupied(s, r)
                         /\ Started(u, r) = IF r = q THEN Started(s, q) \cup {i} ELSE Started(s, r)
  <2> SUFFICES ASSUME NEW r \in Queue
               PROVE  /\ Occupied(u, r) = Occupied(s, r)
                      /\ Started(u, r) = IF r = q THEN Started(s, q) \cup {i} ELSE Started(s, r)
    OBVIOUS
  <2>1. Occupied(u, r) = Occupied(s, r)
    BY <1>11 DEF Occupied
  <2>2. CASE r = q
    BY <2>1, <2>2, <1>2, <1>5, <1>10 DEF Started
  <2>3. CASE r # q
    BY <2>1, <2>3, <1>10 DEF Started
  <2> QED BY <2>1, <2>2, <2>3
<1>13. Typed(u)
  BY <1>1, <1>2, <1>9, <1>10, <1>12 DEF Typed
<1>14. Banked(u)
  <2>1. \A r \in Queue : \A j \in Started(s, r) :
          /\ s.bank[BankAt(s, r, j)].worksFor = r /\ s.bank[BankAt(s, r, j)].index = j
          /\ BankAt(s, r, j) \in Bank \ {b} /\ j \in Slot(r)
    <3> SUFFICES ASSUME NEW r \in Queue, NEW j \in Started(s, r)
                 PROVE  /\ s.bank[BankAt(s, r, j)].worksFor = r /\ s.bank[BankAt(s, r, j)].index = j
                        /\ BankAt(s, r, j) \in Bank \ {b} /\ j \in Slot(r)
      OBVIOUS
    <3>1. s.bank[BankAt(s, r, j)].worksFor = r /\ s.bank[BankAt(s, r, j)].index = j
      BY <1>1 DEF Tables, Banked
    <3>2. j \in Slot(r) /\ BankAt(s, r, j) \in Bank
      BY <1>1, SlotSets DEF Typed
    <3> QED BY <3>1, <3>2, <1>2 DEF Queue
  <2>2. u.bank[b] = k /\ \A c \in Bank \ {b} : u.bank[c] = s.bank[c]
    BY <1>1, <1>3, <1>7 DEF StateType
  <2>3. \A r \in Queue : \A j \in Started(u, r) :
          u.bank[BankAt(u, r, j)].worksFor = r /\ u.bank[BankAt(u, r, j)].index = j
    <3> SUFFICES ASSUME NEW r \in Queue, NEW j \in Started(u, r)
                 PROVE  u.bank[BankAt(u, r, j)].worksFor = r /\ u.bank[BankAt(u, r, j)].index = j
      OBVIOUS
    <3>1. CASE j \in Started(s, r)
      BY <3>1, <2>1, <2>2, <1>11
    <3>2. CASE j \notin Started(s, r)
      <4>1. r = q /\ j = i
        BY <3>2, <1>12
      <4>2. BankAt(u, r, j) = b
        BY <4>1, <1>2, <1>1, <1>11 DEF b
      <4> QED BY <4>1, <4>2, <2>2 DEF k
    <3> QED BY <3>1, <3>2
  <2>4. \A c \in Bank : u.bank[c].worksFor # "none" =>
          /\ u.bank[c].index \in Started(u, u.bank[c].worksFor)
          /\ BankAt(u, u.bank[c].worksFor, u.bank[c].index) = c
    <3> SUFFICES ASSUME NEW c \in Bank, u.bank[c].worksFor # "none"
                 PROVE  /\ u.bank[c].index \in Started(u, u.bank[c].worksFor)
                        /\ BankAt(u, u.bank[c].worksFor, u.bank[c].index) = c
      OBVIOUS
    <3>1. CASE c = b
      <4>1. u.bank[c].index = i /\ u.bank[c].worksFor = q
        BY <3>1, <2>2 DEF k
      <4>2. BankAt(u, q, i) = b /\ i \in Started(u, q)
        BY <1>1, <1>2, <1>11, <1>12 DEF b
      <4> QED BY <4>1, <4>2, <3>1
    <3>2. CASE c # b
      <4> DEFINE r == s.bank[c].worksFor
                 j == s.bank[c].index
      <4>1. u.bank[c] = s.bank[c]
        BY <3>2, <2>2
      <4>2. r \in Queue /\ r # "none"
        BY <4>1, <1>1 DEF StateType, BankType
      <4>3. j \in Started(s, r) /\ BankAt(s, r, j) = c
        BY <4>2, <1>1 DEF Tables, Banked
      <4>4. j \in Slot(r)
        BY <4>2, <4>3, <1>1, SlotSets
      <4> HIDE DEF r, j
      <4>5. j \in Started(u, r) /\ BankAt(u, r, j) = c
        BY <4>2, <4>3, <4>4, <1>11, <1>12
      <4> QED BY <4>1, <4>5 DEF r, j
    <3> QED BY <3>1, <3>2
  <2> QED BY <2>3, <2>4 DEF Banked
<1>15. Directed(u)
  BY <1>1, <1>8, <1>12 DEF Tables, Directed, Way, q, Queue
<1>16. CountedIn(u)
  <2> SUFFICES ASSUME NEW r \in Queue PROVE u.scheduled[r] = Cardinality(Started(u, r))
    BY DEF CountedIn
  <2>1. s.scheduled[r] = Cardinality(Started(s, r)) /\ s.scheduled \in [Queue -> Int]
    BY <1>1 DEF Tables, CountedIn, StateType
  <2>2. CASE r = q
    <3>1. IsFiniteSet(Started(s, q))
      BY <1>1, SlotSets
    <3>2. Cardinality(Started(s, q) \cup {i}) = Cardinality(Started(s, q)) + 1
      BY <3>1, <1>2, FS_AddElement
    <3>3. u.scheduled[r] = s.scheduled[r] + 1
      BY <2>1, <2>2, <1>7
    <3> QED BY <3>2, <3>3, <2>1, <2>2, <1>12
  <2>3. CASE r # q
    BY <2>1, <2>3, <1>7, <1>12
  <2> QED BY <2>2, <2>3
<1>17. Distinct(u)
  <2>1. \A r \in Queue : Occupied(s, r) \subseteq Slot(r)
    BY <1>1, SlotSets
  <2> QED BY <2>1, <1>1, <1>11, <1>12 DEF Tables, Distinct
<1>18. AnsweredIn(u)
  <2>1. Occupied(s, "RQ") \subseteq Slot("RQ") /\ "RQ" \in Queue
    BY <1>1, SlotSets DEF Queue
  <2> QED BY <2>1, <1>1, <1>8, <1>11, <1>12 DEF Tables, AnsweredIn
<1>19. Separated(u) /\ ~u.failed
  BY <1>1, <1>8 DEF Tables, Separated
<1>20. Tables(u)
  BY <1>13, <1>14, <1>15, <1>16, <1>17, <1>18, <1>19 DEF Tables
<1>21. ASSUME NEW r \in Queue, r # q PROVE FreshIn(u, r)
  <2>1. u.queue[r] = s.queue[r]
    BY <1>21, <1>1, <1>7 DEF StateType
  <2>2. Unstarted(u, r) = Unstarted(s, r) /\ Started(u, r) = Started(s, r)
    BY <1>21, <1>12 DEF Unstarted
  <2>3. FreshIn(s, r)
    BY DEF Sound
  <2> QED BY <2>1, <2>2, <2>3, <1>8 DEF FreshIn
<1>22. Sound(Start(s, q, i)) /\ SameTables(u, Start(s, q, i))
  BY <1>1, <1>6, <1>20, <1>21, RenewBoth
<1> QED BY <1>8, <1>22 DEF SameTables, q

(* schedule() keeps the invariant.                                         *)
LEMMA ScheduleSound ==
  ASSUME NEW s, Sound(s), now \in Nat
  PROVE  LET t == Schedule(s, Way(s))
         IN  /\ Sound(t) /\ t.writeMode = s.writeMode
             /\ t.last = s.last /\ t.dbus = s.dbus
<1> DEFINE q == Way(s)
<1>1. Typed(s) /\ q \in Queue
  BY DEF Sound, Tables, Way, Queue
<1>2. Startable(s, q) \subseteq Slot(q) /\ RowHits(s, q) \subseteq Startable(s, q)
  BY <1>1, SlotSets DEF Startable, RowHits
<1>3. CASE RowHits(s, q) # {}
  <2>1. Earliest(s.queue[q], RowHits(s, q)) \in Startable(s, q)
    BY <1>1, <1>2, <1>3, NextOfType
  <2>2. Schedule(s, q) = Start(s, q, Earliest(s.queue[q], RowHits(s, q)))
    BY <1>3 DEF Schedule
  <2> QED BY <2>1, <2>2, StartSound
<1>4. CASE RowHits(s, q) = {} /\ Startable(s, q) # {}
  <2>1. Earliest(s.queue[q], Startable(s, q)) \in Startable(s, q)
    BY <1>1, <1>2, <1>4, NextOfType
  <2>2. Schedule(s, q) = Start(s, q, Earliest(s.queue[q], Startable(s, q)))
    BY <1>4 DEF Schedule
  <2> QED BY <2>1, <2>2, StartSound
<1>5. CASE RowHits(s, q) = {} /\ Startable(s, q) = {}
  BY <1>5 DEF Schedule
<1> QED BY <1>3, <1>4, <1>5

-------------------------------------------------------------------------------
(* process().                                                              *)

(* A transfer on a free bus keeps the invariant.                           *)
LEMMA TransferSound ==
  ASSUME NEW s, Sound(s), now \in Nat, NEW i \in Started(s, Way(s)), s.dbus <= now
  PROVE  LET t == Transfer(s, Way(s), i)
         IN  /\ Sound(t) /\ t.writeMode = s.writeMode
             /\ t.last = [queue |-> Way(s), cycle |-> now]
<1> DEFINE q == Way(s)
           a == s.queue[q][i].address
           b == BankOf[a]
           s1 == IF q = "RQ" THEN ReturnData(s, a) ELSE s
           s2 == [s1 EXCEPT !.dbus = now + RETURN_TIME,
                            !.last = [queue |-> q, cycle |-> now],
                            !.scheduled[q] = @ - 1]
           free == [s.bank[b] EXCEPT !.index = 0, !.worksFor = "none"]
           s3 == FreeBank(s2, b)
           u == RemoveQueue(s3, q, i)
<1>1. Typed(s) /\ Tables(s) /\ s \in StateType /\ q \in Queue
  BY DEF Sound, Tables, Typed, Way, Queue
<1>2. /\ i \in Occupied(s, q) /\ i \in Slot(q) /\ i \in Nat
      /\ a \in Addr /\ b \in Bank /\ b = BankAt(s, q, i)
  BY <1>1, SlotSets DEF Typed, BankAt
<1>3. s.bank[b].worksFor = q /\ s.bank[b].index = i /\ s.bank[b] \in BankType
  BY <1>1, <1>2 DEF Tables, Banked, StateType
<1>4. free \in BankType /\ free.worksFor = "none" /\ Empty \in Entry
  <2>1. free \in BankType /\ free.worksFor = "none"
    BY <1>3 DEF BankType
  <2>2. Empty \in Entry
    BY DEF Empty, Entry
  <2> QED BY <2>1, <2>2
<1>5. Transfer(s, q, i) = UpdateProcessCycle(u, q)
  BY DEF Transfer
<1>6. q = "RQ" => a \in s.waiting
  BY <1>1, <1>2 DEF Tables, AnsweredIn
<1>7. ~s.failed /\ s.failed \in BOOLEAN
  BY <1>1 DEF Tables, StateType
<1>8. /\ s1 \in StateType /\ ~s1.failed
      /\ s1.waiting = IF q = "RQ" THEN s.waiting \ {a} ELSE s.waiting
      /\ s1.bank = s.bank /\ s1.queue = s.queue /\ s1.scheduled = s.scheduled
      /\ s1.writeMode = s.writeMode
      /\ s1.nextSchedule = s.nextSchedule /\ s1.nextProcess = s.nextProcess
  <2>1. CASE q = "RQ"
    <3> DEFINE w == s.waiting \ {a}
               f == s.failed \/ a \notin s.waiting
    <3>1. s1 = [s EXCEPT !.waiting = w, !.failed = f]
      BY <2>1 DEF ReturnData
    <3>2. w \in SUBSET Addr /\ f = FALSE
      BY <2>1, <1>1, <1>6, <1>7 DEF StateType
    <3> HIDE DEF w, f
    <3>3. s1 = [s EXCEPT !.waiting = w, !.failed = FALSE]
      BY <3>1, <3>2
    <3>4. w = s.waiting \ {a}
      BY DEF w
    <3> HIDE DEF s1, q
    <3> QED BY <2>1, <1>1, <3>2, <3>3, <3>4 DEF StateType
  <2>2. CASE q # "RQ"
    BY <2>2, <1>1, <1>7
  <2> QED BY <2>1, <2>2
<1> HIDE DEF q, a, b, s1, free
<1>9. /\ s2 \in StateType /\ ~s2.failed
      /\ s2.dbus = now + RETURN_TIME /\ s2.last = [queue |-> q, cycle |-> now]
      /\ s2.scheduled = [s.scheduled EXCEPT ![q] = @ - 1]
      /\ s2.waiting = s1.waiting /\ s2.bank = s.bank /\ s2.queue = s.queue
      /\ s2.writeMode = s.writeMode
      /\ s2.nextSchedule = s.nextSchedule /\ s2.nextProcess = s.nextProcess
  <2> DEFINE d == now + RETURN_TIME
             l == [queue |-> q, cycle |-> now]
             n == [s.scheduled EXCEPT ![q] = @ - 1]
  <2>1. d \in Int /\ l \in LastType
    BY <1>1, DramAssumption DEF LastType
  <2>2. n \in [Queue -> Int]
    BY <1>1 DEF StateType
  <2>3. s2 = [s1 EXCEPT !.dbus = d, !.last = l, !.scheduled = n]
    BY <1>8 DEF StateType
  <2> HIDE DEF d, l, n, s2
  <2>4. /\ s2 \in StateType /\ ~s2.failed
        /\ s2.dbus = d /\ s2.last = l /\ s2.scheduled = n
        /\ s2.waiting = s1.waiting /\ s2.bank = s.bank /\ s2.queue = s.queue
        /\ s2.writeMode = s.writeMode
        /\ s2.nextSchedule = s.nextSchedule /\ s2.nextProcess = s.nextProcess
    BY <1>8, <2>1, <2>2, <2>3 DEF StateType
  <2> QED BY <2>4 DEF d, l, n
<1> HIDE DEF s2
<1>10. /\ s3 \in StateType /\ ~s3.failed
       /\ s3.dbus = s2.dbus /\ s3.last = s2.last /\ s3.scheduled = s2.scheduled
       /\ s3.waiting = s1.waiting /\ s3.queue = s.queue /\ s3.writeMode = s.writeMode
       /\ s3.bank = [s.bank EXCEPT ![b] = free]
       /\ s3.nextSchedule = s.nextSchedule /\ s3.nextProcess = s.nextProcess
  <2>1. s3 = [s2 EXCEPT !.bank[b] = free]
    BY <1>9, <1>2 DEF FreeBank, free, StateType
  <2> HIDE DEF s3
  <2> QED BY <1>2, <1>4, <1>9, <2>1 DEF StateType
<1> HIDE DEF s3
<1>11. /\ u.queue = [s.queue EXCEPT ![q] = [@ EXCEPT ![i] = Empty]]
       /\ ~u.failed /\ u.dbus = s2.dbus /\ u.last = s2.last /\ u.scheduled = s2.scheduled
       /\ u.waiting = s1.waiting /\ u.writeMode = s.writeMode /\ u.bank = s3.bank
       /\ u.nextSchedule = s.nextSchedule /\ u.nextProcess = s.nextProcess
  BY <1>10 DEF RemoveQueue, StateType
<1>12. /\ u.queue \in [Queue -> UNION {[Slot(r) -> Entry] : r \in Queue}]
       /\ \A r \in Queue : u.queue[r] \in [Slot(r) -> Entry]
       /\ u.queue[q][i] = Empty
       /\ \A r \in Queue : \A j \in Slot(r) : r # q \/ j # i => u.queue[r][j] = s.queue[r][j]
  BY <1>1, <1>2, <1>4, <1>11, SetSlot
<1>13. u \in StateType
  BY <1>10, <1>11, <1>12 DEF RemoveQueue, StateType
<1> HIDE DEF u
<1>14. \A r \in Queue : \A j \in Slot(r) : (r # q \/ j # i) =>
         /\ u.queue[r][j].address = s.queue[r][j].address
         /\ BankAt(u, r, j) = BankAt(s, r, j)
  BY <1>12 DEF BankAt
<1>15. \A r \in Queue :
         /\ Occupied(u, r) = IF r = q THEN Occupied(s, q) \ {i} ELSE Occupied(s, r)
         /\ Started(u, r) = IF r = q THEN Started(s, q) \ {i} ELSE Started(s, r)
         /\ Unstarted(u, r) = Unstarted(s, r)
  <2> SUFFICES ASSUME NEW r \in Queue
               PROVE  /\ Occupied(u, r) = IF r = q THEN Occupied(s, q) \ {i} ELSE Occupied(s, r)
                      /\ Started(u, r) = IF r = q THEN Started(s, q) \ {i} ELSE Started(s, r)
                      /\ Unstarted(u, r) = Unstarted(s, r)
    OBVIOUS
  <2>1. CASE r = q
    <3> Empty.address = NoAddr /\ Empty.scheduled = FALSE
      BY DEF Empty
    <3>1. Occupied(u, r) = Occupied(s, q) \ {i}
      BY <2>1, <1>12 DEF Occupied
    <3>2. Started(u, r) = Started(s, q) \ {i}
      BY <2>1, <1>12 DEF Started
    <3>3. i \in Started(s, q)
      BY DEF q
    <3> QED BY <2>1, <3>1, <3>2, <3>3 DEF Unstarted
  <2>2. CASE r # q
    <3>1. Occupied(u, r) = Occupied(s, r)
      BY <2>2, <1>12 DEF Occupied
    <3>2. Started(u, r) = Started(s, r)
      BY <2>2, <1>12 DEF Started
    <3> QED BY <2>2, <3>1, <3>2 DEF Unstarted
  <2> QED BY <2>1, <2>2
<1>16. Typed(u)
  BY <1>1, <1>12, <1>13, <1>15 DEF Typed
<1>17. Banked(u)
  <2>1. u.bank[b] = free /\ \A c \in Bank \ {b} : u.bank[c] = s.bank[c]
    BY <1>1, <1>2, <1>10, <1>11 DEF StateType
  <2>2. \A r \in Queue : \A j \in Started(u, r) :
          u.bank[BankAt(u, r, j)].worksFor = r /\ u.bank[BankAt(u, r, j)].index = j
    <3> SUFFICES ASSUME NEW r \in Queue, NEW j \in Started(u, r)
                 PROVE  u.bank[BankAt(u, r, j)].worksFor = r /\ u.bank[BankAt(u, r, j)].index = j
      OBVIOUS
    <3>1. j \in Started(s, r) /\ (r # q \/ j # i)
      BY <1>15
    <3>2. s.bank[BankAt(s, r, j)].worksFor = r /\ s.bank[BankAt(s, r, j)].index = j
      BY <1>1, <3>1 DEF Tables, Banked
    <3>3. j \in Slot(r) /\ BankAt(s, r, j) \in Bank
      BY <1>1, <3>1, SlotSets DEF Typed
    <3>4. BankAt(s, r, j) # b
      BY <3>1, <3>2, <1>3
    <3> QED BY <3>1, <3>2, <3>3, <3>4, <2>1, <1>14
  <2>3. \A c \in Bank : u.bank[c].worksFor # "none" =>
          /\ u.bank[c].index \in Started(u, u.bank[c].worksFor)
          /\ BankAt(u, u.bank[c].worksFor, u.bank[c].index) = c
    <3> SUFFICES ASSUME NEW c \in Bank, u.bank[c].worksFor # "none"
                 PROVE  /\ u.bank[c].index \in Started(u, u.bank[c].worksFor)
                        /\ BankAt(u, u.bank[c].worksFor, u.bank[c].index) = c
      OBVIOUS
    <3> DEFINE r == s.bank[c].worksFor
               j == s.bank[c].index
    <3>1. c # b /\ u.bank[c] = s.bank[c]
      BY <2>1, <1>4
    <3>2. r \in Queue /\ r # "none"
      BY <3>1, <1>1 DEF StateType, BankType
    <3>3. j \in Started(s, r) /\ BankAt(s, r, j) = c
      BY <3>2, <1>1 DEF Tables, Banked
    <3>4. j \in Slot(r)
      BY <3>2, <3>3, <1>1, SlotSets
    <3> HIDE DEF r, j
    <3>5. r # q \/ j # i
      BY <3>1, <3>3, <1>2
    <3>6. j \in Started(u, r) /\ BankAt(u, r, j) = c
      BY <3>2, <3>3, <3>4, <3>5, <1>14, <1>15
    <3> QED BY <3>1, <3>6 DEF r, j
  <2> QED BY <2>2, <2>3 DEF Banked
<1>18. Directed(u)
  BY <1>1, <1>11, <1>15 DEF Tables, Directed, Queue
<1>19. CountedIn(u)
  <2> SUFFICES ASSUME NEW r \in Queue PROVE u.scheduled[r] = Cardinality(Started(u, r))
    BY DEF CountedIn
  <2>1. s.scheduled[r] = Cardinality(Started(s, r)) /\ s.scheduled \in [Queue -> Int]
    BY <1>1 DEF Tables, CountedIn, StateType
  <2>2. CASE r = q
    <3>1. IsFiniteSet(Started(s, q)) /\ i \in Started(s, q)
      BY <1>1, SlotSets DEF q
    <3>2. Cardinality(Started(s, q) \ {i}) = Cardinality(Started(s, q)) - 1
      BY <3>1, FS_RemoveElement
    <3>3. u.scheduled[r] = s.scheduled[r] - 1
      BY <2>1, <2>2, <1>9, <1>11
    <3> QED BY <3>2, <3>3, <2>1, <2>2, <1>15
  <2>3. CASE r # q
    BY <2>1, <2>3, <1>9, <1>11, <1>15
  <2> QED BY <2>2, <2>3
<1>20. \A r \in Queue : Occupied(s, r) \subseteq Slot(r)
  BY <1>1, SlotSets
<1>21. Distinct(u)
  BY <1>1, <1>14, <1>15, <1>20 DEF Tables, Distinct
<1>22. AnsweredIn(u)
  <2>1. /\ Occupied(s, "RQ") \subseteq Slot("RQ") /\ "RQ" \in Queue
        /\ s.waiting = {s.queue["RQ"][j].address : j \in Occupied(s, "RQ")}
    BY <1>1, <1>20 DEF Queue, Tables, AnsweredIn
  <2>2. CASE q = "RQ"
    <3>1. \A j \in Occupied(s, "RQ") : s.queue["RQ"][j].address = a => j = i
      BY <1>1, <1>2, <2>2 DEF Tables, Distinct, a
    <3>2. /\ Occupied(u, "RQ") = Occupied(s, "RQ") \ {i}
          /\ \A j \in Occupied(u, "RQ") : u.queue["RQ"][j].address = s.queue["RQ"][j].address
      BY <2>1, <2>2, <1>14, <1>15
    <3>3. u.waiting = s.waiting \ {a} /\ a = s.queue["RQ"][i].address
      BY <2>2, <1>8, <1>11 DEF a
    <3> QED BY <2>1, <3>1, <3>2, <3>3 DEF AnsweredIn
  <2>3. CASE q # "RQ"
    BY <2>1, <2>3, <1>8, <1>11, <1>14, <1>15 DEF AnsweredIn
  <2> QED BY <2>2, <2>3
<1>23. Separated(u)
  <2>1. /\ u.last.queue = q /\ u.last.cycle = now /\ u.dbus = now + RETURN_TIME
        /\ u.writeMode = s.writeMode
    BY <1>9, <1>11
  <2>2. u.writeMode = (q = "WQ")
    BY <2>1, <1>1 DEF Way, q, StateType
  <2> QED BY <2>1, <2>2, DramAssumption DEF Separated
<1>24. Tables(u)
  BY <1>11, <1>16, <1>17, <1>18, <1>19, <1>21, <1>22, <1>23 DEF Tables
<1> DEFINE t == UpdateProcessCycle(u, q)
<1>25. /\ SameTables(u, t) /\ t \in StateType /\ t.nextSchedule = u.nextSchedule
       /\ t.nextProcess[q] = NextOf(t.queue[q], Started(t, q))
       /\ \A r \in Queue : r # q => t.nextProcess[r] = u.nextProcess[r]
  BY <1>1, <1>16, RenewProcess
<1> HIDE DEF t
<1>26. Tables(t)
  BY <1>24, <1>25, SameSound
<1>27. ASSUME NEW r \in Queue PROVE FreshIn(t, r)
  <2>1. t.queue = u.queue /\ Unstarted(t, r) = Unstarted(u, r) /\ Started(t, r) = Started(u, r)
    BY <1>25, SameSets DEF SameTables
  <2>2. FreshIn(s, r)
    BY DEF Sound
  <2>3. CASE r = q
    <3>1. \A j \in Unstarted(s, q) : /\ s.queue[q][j].event \in Nat /\ j # i
                                      /\ j \in Slot(q) /\ j \in Nat
      <4>1. i \in Started(s, q)
        BY DEF q
      <4> QED BY <4>1, <1>1, SlotSets DEF Entry, Unstarted
    <3>2. NextOf(u.queue[q], Unstarted(s, q)) = NextOf(s.queue[q], Unstarted(s, q))
      <4>1. \A j \in Unstarted(s, q) : u.queue[q][j].event = s.queue[q][j].event
        BY <3>1, <1>1, <1>12
      <4> QED BY <4>1, <3>1, NextOfSame
    <3> QED BY <2>1, <2>2, <2>3, <3>2, <1>11, <1>15, <1>25 DEF FreshIn
  <2>4. CASE r # q
    <3>1. u.queue[r] = s.queue[r]
      BY <2>4, <1>1, <1>11 DEF StateType
    <3> QED BY <2>1, <2>2, <2>4, <3>1, <1>11, <1>15, <1>25 DEF FreshIn
  <2> QED BY <2>3, <2>4
<1>28. Sound(t)
  BY <1>26, <1>27 DEF Sound
<1> QED BY <1>5, <1>9, <1>11, <1>25, <1>28 DEF SameTables, t, q

(* process() keeps the invariant, and transfers only when the bus is free. *)
LEMMA ProcessSound ==
  ASSUME NEW s, Sound(s), now \in Nat, Due(s.nextProcess[Way(s)])
  PROVE  LET t == Process(s, Way(s))
         IN  /\ Sound(t) /\ t.writeMode = s.writeMode
             /\ \/ t.last = s.last
                \/ s.dbus <= now /\ t.last = [queue |-> Way(s), cycle |-> now]
<1> DEFINE q == Way(s)
           i == s.nextProcess[q].index
           b == BankAt(s, q, i)
<1>1. Typed(s) /\ Tables(s) /\ s \in StateType /\ q \in Queue
  BY DEF Sound, Tables, Typed, Way, Queue
<1>2. i \in Started(s, q)
  <2>1. s.nextProcess[q] = NextOf(s.queue[q], Started(s, q)) /\ i # 0
    BY <1>1 DEF Sound, FreshIn, Due
  <2>2. Started(s, q) \subseteq Slot(q)
    BY <1>1, SlotSets
  <2> QED BY <1>1, <2>1, <2>2, NextOfType
<1>3. s.bank[b].index = i /\ b \in Bank
  BY <1>1, <1>2, SlotSets DEF Tables, Banked, Typed
<1>4. s.bank \in [Bank -> BankType] /\ s.dbus \in Int
  BY <1>1 DEF StateType
<1> HIDE DEF i, b
<1>5. CASE s.bank[b].available > now
  <2>1. Process(s, q) = s
    BY <1>3, <1>4, <1>5 DEF Process, i, b, BankType
  <2> QED BY <2>1
<1>6. CASE s.bank[b].available <= now /\ s.dbus <= now
  <2>1. Process(s, q) = Transfer(s, q, i)
    BY <1>3, <1>4, <1>6 DEF Process, i, b, BankType
  <2> QED BY <2>1, <1>2, <1>6, TransferSound
<1>7. CASE s.bank[b].available <= now /\ s.dbus > now
  <2> DEFINE k == [s.bank[b] EXCEPT !.available = s.dbus]
             t == [s EXCEPT !.bank[b] = k]
  <2>1. Process(s, q) = t
    BY <1>1, <1>3, <1>4, <1>7 DEF Process, i, b, BankType, StateType
  <2>2. k \in BankType /\ k.worksFor = s.bank[b].worksFor /\ k.index = s.bank[b].index
    BY <1>3, <1>4 DEF BankType
  <2> HIDE DEF k
  <2>3. /\ t \in StateType /\ t.queue = s.queue /\ t.dbus = s.dbus /\ t.last = s.last
        /\ t.writeMode = s.writeMode /\ t.scheduled = s.scheduled /\ t.waiting = s.waiting
        /\ t.failed = s.failed /\ t.nextSchedule = s.nextSchedule
        /\ t.nextProcess = s.nextProcess /\ t.bank = [s.bank EXCEPT ![b] = k]
    BY <1>1, <1>3, <2>2 DEF StateType
  <2> HIDE DEF t
  <2>4. \A c \in Bank : /\ t.bank[c].worksFor = s.bank[c].worksFor
                         /\ t.bank[c].index = s.bank[c].index
    BY <1>3, <1>4, <2>2, <2>3
  <2>5. \A r : /\ Occupied(t, r) = Occupied(s, r) /\ Started(t, r) = Started(s, r)
               /\ Unstarted(t, r) = Unstarted(s, r)
               /\ \A j : BankAt(t, r, j) = BankAt(s, r, j)
    BY <2>3, SameSets
  <2>6. Typed(t)
    BY <1>1, <2>3, <2>5 DEF Typed
  <2>7. Banked(t)
    <3>1. \A r \in Queue : \A j \in Started(s, r) : BankAt(s, r, j) \in Bank
      BY <1>1, SlotSets DEF Typed
    <3>2. \A r \in Queue : \A j \in Started(t, r) :
            t.bank[BankAt(t, r, j)].worksFor = r /\ t.bank[BankAt(t, r, j)].index = j
      BY <1>1, <2>4, <2>5, <3>1 DEF Tables, Banked
    <3>3. \A c \in Bank : t.bank[c].worksFor # "none" =>
            /\ t.bank[c].index \in Started(t, t.bank[c].worksFor)
            /\ BankAt(t, t.bank[c].worksFor, t.bank[c].index) = c
      BY <1>1, <2>4, <2>5 DEF Tables, Banked
    <3> QED BY <3>2, <3>3 DEF Banked
  <2>8. Directed(t) /\ CountedIn(t)
    BY <1>1, <2>3, <2>5 DEF Tables, Directed, CountedIn
  <2>9. Distinct(t) /\ AnsweredIn(t)
    BY <1>1, <2>3, <2>5 DEF Tables, Distinct, AnsweredIn
  <2>10. Separated(t) /\ ~t.failed
    BY <1>1, <2>3 DEF Tables, Separated
  <2>11. \A r \in Queue : FreshIn(t, r)
    BY <2>3, <2>5 DEF Sound, FreshIn
  <2>12. Sound(t)
    BY <2>6, <2>7, <2>8, <2>9, <2>10, <2>11 DEF Sound, Tables
  <2> QED BY <2>1, <2>3, <2>12
<1> QED BY <1>3, <1>4, <1>5, <1>6, <1>7 DEF BankType

-------------------------------------------------------------------------------
(* Turning the bus around.                                                 *)

(* The types stay right when only the cached indices change.               *)
LEMMA TypedSame ==
  ASSUME NEW s, NEW t, Typed(s), SameTables(s, t), t \in StateType
  PROVE  Typed(t)
<1>1. \A q : Occupied(t, q) = Occupied(s, q) /\ Started(t, q) = Started(s, q)
  BY SameSets DEF SameTables
<1> QED BY <1>1 DEF Typed, SameTables

(* What reset_remain_requests does before it renews the indices.           *)
RowIn(s, q, i) == RowOf[s.queue[q][i].address]

OnBank(s, q, b) == {i \in Started(s, q) : BankAt(s, q, i) = b}

ResetBanks(s, q) ==
  [b \in Bank |->
     IF OnBank(s, q, b) = {} THEN s.bank[b]
     ELSE ResetBank([s.bank[b] EXCEPT !.row = RowIn(s, q, CHOOSE i \in OnBank(s, q, b) : TRUE)])]

ResetSlots(s, q) ==
  [i \in Slot(q) |-> IF i \in Started(s, q)
                     THEN [s.queue[q][i] EXCEPT !.scheduled = FALSE, !.event = now]
                     ELSE s.queue[q][i]]

ResetCounts(s, q) ==
  [r \in Queue |->
     s.scheduled[r] - Cardinality({i \in Started(s, q) : s.bank[BankAt(s, q, i)].worksFor = r})]

Undone(s, q) ==
  [s EXCEPT !.bank = ResetBanks(s, q), !.scheduled = ResetCounts(s, q),
            !.queue[q] = ResetSlots(s, q)]

RenewAll(s) ==
  UpdateProcessCycle(UpdateProcessCycle(
    UpdateScheduleCycle(UpdateScheduleCycle(s, "RQ"), "WQ"), "RQ"), "WQ")

(* reset_remain_requests undoes the started requests, then renews the indices. *)
LEMMA ResetAsUndone ==
  ASSUME NEW s, NEW q
  PROVE  ResetRemainRequests(s, q) =
           [RenewAll(Undone(s, q)) EXCEPT
              !.failed = @ \/ RenewAll(Undone(s, q)).scheduled[q] # 0]
BY DEF ResetRemainRequests, RenewAll, Undone, ResetBanks, ResetCounts, ResetSlots, OnBank, RowIn

(* Renewing the indices of both queues makes them fresh.                   *)
LEMMA RenewAllFresh ==
  ASSUME NEW s, Typed(s)
  PROVE  /\ SameTables(s, RenewAll(s)) /\ RenewAll(s) \in StateType
         /\ \A q \in Queue : FreshIn(RenewAll(s), q)
<1> DEFINE s1 == UpdateScheduleCycle(s, "RQ")
           s2 == UpdateScheduleCycle(s1, "WQ")
           s3 == UpdateProcessCycle(s2, "RQ")
           s4 == UpdateProcessCycle(s3, "WQ")
<1> "RQ" \in Queue /\ "WQ" \in Queue /\ \A q \in Queue : q = "RQ" \/ q = "WQ"
  BY DEF Queue
<1>1. /\ SameTables(s, s1) /\ s1 \in StateType
      /\ s1.nextSchedule["RQ"] = NextOf(s1.queue["RQ"], Unstarted(s1, "RQ"))
  BY RenewSchedule
<1>2. Typed(s1)
  BY <1>1, TypedSame
<1> HIDE DEF s1
<1>3. /\ SameTables(s1, s2) /\ s2 \in StateType
      /\ s2.nextSchedule["WQ"] = NextOf(s2.queue["WQ"], Unstarted(s2, "WQ"))
      /\ s2.nextSchedule["RQ"] = s1.nextSchedule["RQ"]
  BY <1>2, RenewSchedule
<1>4. Typed(s2)
  BY <1>2, <1>3, TypedSame
<1> HIDE DEF s2
<1>5. /\ SameTables(s2, s3) /\ s3 \in StateType /\ s3.nextSchedule = s2.nextSchedule
      /\ s3.nextProcess["RQ"] = NextOf(s3.queue["RQ"], Started(s3, "RQ"))
  BY <1>4, RenewProcess
<1>6. Typed(s3)
  BY <1>4, <1>5, TypedSame
<1> HIDE DEF s3
<1>7. /\ SameTables(s3, s4) /\ s4 \in StateType /\ s4.nextSchedule = s3.nextSchedule
      /\ s4.nextProcess["WQ"] = NextOf(s4.queue["WQ"], Started(s4, "WQ"))
      /\ s4.nextProcess["RQ"] = s3.nextProcess["RQ"]
  BY <1>6, RenewProcess
<1> HIDE DEF s4
<1>8. SameTables(s, s4)
  BY <1>1, <1>3, <1>5, <1>7 DEF SameTables
<1>9. /\ s1.queue = s.queue /\ s2.queue = s.queue /\ s3.queue = s.queue /\ s4.queue = s.queue
  BY <1>1, <1>3, <1>5, <1>7 DEF SameTables
<1>10. \A q : /\ Unstarted(s1, q) = Unstarted(s4, q) /\ Unstarted(s2, q) = Unstarted(s4, q)
              /\ Started(s3, q) = Started(s4, q)
  BY <1>9 DEF Unstarted, Started, Occupied
<1>11. FreshIn(s4, "RQ") /\ FreshIn(s4, "WQ")
  BY <1>1, <1>3, <1>5, <1>7, <1>9, <1>10 DEF FreshIn
<1>12. RenewAll(s) = s4
  BY DEF RenewAll, s1, s2, s3, s4
<1> QED BY <1>7, <1>8, <1>11, <1>12

(* Only the direction that ends has started requests; all of them go back, *)
(* all banks become free and nothing else in the queues changes.           *)
LEMMA UndoneTables ==
  ASSUME NEW s, Sound(s), now \in Nat, NEW w \in BOOLEAN
  PROVE  LET u == Undone([s EXCEPT !.writeMode = w], Way(s))
         IN  /\ Typed(u) /\ Banked(u) /\ CountedIn(u) /\ Distinct(u) /\ AnsweredIn(u)
             /\ \A r \in Queue : Started(u, r) = {}
             /\ u.failed = FALSE /\ u.last = s.last /\ u.dbus = s.dbus /\ u.writeMode = w
<1> DEFINE q == Way(s)
           s0 == [s EXCEPT !.writeMode = w]
           B == ResetBanks(s0, q)
           N == ResetCounts(s0, q)
           Q == ResetSlots(s0, q)
           u == Undone(s0, q)
<1>1. Typed(s) /\ Tables(s) /\ s \in StateType /\ q \in Queue
  BY DEF Sound, Tables, Typed, Way, Queue
<1>2. /\ s0 \in StateType /\ s0.queue = s.queue /\ s0.bank = s.bank /\ s0.dbus = s.dbus
      /\ s0.scheduled = s.scheduled /\ s0.waiting = s.waiting /\ s0.last = s.last
      /\ s0.failed = FALSE /\ s0.writeMode = w
  BY <1>1 DEF StateType, Tables
<1> HIDE DEF s0
<1>3. \A r : /\ Started(s0, r) = Started(s, r)
             /\ \A i : BankAt(s0, r, i) = BankAt(s, r, i)
  BY <1>2, SameSets
<1>4. \A r \in Queue : r # q => Started(s, r) = {}
  BY <1>1 DEF Tables, Directed, q, Way, Queue, StateType
<1>5. Started(s, q) \subseteq Occupied(s, q) /\ Started(s, q) \subseteq Slot(q)
  BY <1>1, SlotSets DEF Typed
<1>6. \A i \in Started(s, q) : /\ s.queue[q][i].address \in Addr /\ BankAt(s, q, i) \in Bank
                               /\ s.bank[BankAt(s, q, i)].worksFor = q
                               /\ s.queue[q][i] \in Entry
  BY <1>1, <1>5, SlotSets DEF Tables, Banked
<1>7. s.bank \in [Bank -> BankType]
  BY <1>1 DEF StateType
<1>8. B \in [Bank -> BankType] /\ \A b \in Bank : B[b].worksFor = "none"
  <2> SUFFICES ASSUME NEW b \in Bank PROVE B[b] \in BankType /\ B[b].worksFor = "none"
    BY DEF ResetBanks
  <2>1. CASE OnBank(s0, q, b) = {}
    <3>1. B[b] = s.bank[b]
      BY <1>2, <2>1 DEF ResetBanks
    <3>2. s.bank[b].worksFor = "none"
      <4> SUFFICES ASSUME s.bank[b].worksFor # "none" PROVE FALSE
        OBVIOUS
      <4> DEFINE r == s.bank[b].worksFor
                 j == s.bank[b].index
      <4>1. j \in Started(s, r) /\ BankAt(s, r, j) = b
        BY <1>1 DEF Tables, Banked
      <4>2. r \in Queue
        BY <1>7 DEF BankType
      <4>3. r = q
        BY <4>1, <4>2, <1>4
      <4> HIDE DEF r, j
      <4>4. j \in OnBank(s0, q, b)
        BY <4>1, <4>3, <1>3 DEF OnBank
      <4> QED BY <4>4, <2>1
    <3> QED BY <3>1, <3>2, <1>7
  <2>2. CASE OnBank(s0, q, b) # {}
    <3> DEFINE i == CHOOSE i \in OnBank(s0, q, b) : TRUE
               k == [s.bank[b] EXCEPT !.row = RowIn(s0, q, i)]
    <3>1. i \in Started(s, q)
      BY <2>2, <1>3 DEF OnBank
    <3>2. RowIn(s0, q, i) \in {RowOf[a] : a \in Addr}
      BY <3>1, <1>2, <1>6 DEF RowIn
    <3>3. B[b] = ResetBank(k)
      BY <1>2, <2>2 DEF ResetBanks
    <3> HIDE DEF i
    <3>4. k.row \in {RowOf[a] : a \in Addr}
      BY <3>2, <1>7 DEF BankType
    <3> HIDE DEF k
    <3> QED BY <3>3, <3>4 DEF ResetBank, BankType, Queue
  <2> QED BY <2>1, <2>2
<1>9. N \in [Queue -> Int] /\ \A r \in Queue : N[r] = 0
  <2> SUFFICES ASSUME NEW r \in Queue PROVE N[r] = 0
    BY DEF ResetCounts
  <2> DEFINE F == {i \in Started(s0, q) : s0.bank[BankAt(s0, q, i)].worksFor = r}
  <2>1. N[r] = s.scheduled[r] - Cardinality(F)
    BY <1>2 DEF ResetCounts
  <2>2. F = Started(s, r)
    <3>1. CASE r = q
      BY <3>1, <1>2, <1>3, <1>6
    <3>2. CASE r # q
      BY <3>2, <1>2, <1>3, <1>4, <1>6
    <3> QED BY <3>1, <3>2
  <2>3. s.scheduled[r] = Cardinality(Started(s, r)) /\ s.scheduled[r] \in Int
    BY <1>1 DEF Tables, CountedIn, StateType
  <2> HIDE DEF F, N
  <2> QED BY <2>1, <2>2, <2>3
<1>10. /\ Q \in [Slot(q) -> Entry]
       /\ \A i \in Slot(q) : Q[i].address = s.queue[q][i].address /\ Q[i].scheduled = FALSE
  <2> SUFFICES ASSUME NEW i \in Slot(q)
               PROVE  /\ Q[i] \in Entry /\ Q[i].address = s.queue[q][i].address
                      /\ Q[i].scheduled = FALSE
    BY DEF ResetSlots
  <2>1. s.queue[q][i] \in Entry
    BY <1>1, SlotSets
  <2>2. CASE i \in Started(s, q)
    <3>1. Q[i] = [s.queue[q][i] EXCEPT !.scheduled = FALSE, !.event = now]
      BY <2>2, <1>2, <1>3 DEF ResetSlots
    <3> HIDE DEF Q
    <3> QED BY <2>1, <3>1 DEF Entry
  <2>3. CASE i \notin Started(s, q)
    <3>1. Q[i] = s.queue[q][i]
      BY <2>3, <1>2, <1>3 DEF ResetSlots
    <3>2. s.queue[q][i].scheduled = FALSE
      BY <2>1, <2>3 DEF Started, Entry
    <3> QED BY <2>1, <3>1, <3>2
  <2> QED BY <2>2, <2>3
<1>11. u = [s0 EXCEPT !.bank = B, !.scheduled = N, !.queue[q] = Q]
  BY DEF Undone
<1> HIDE DEF B, N, Q, u
<1>12. /\ u.bank = B /\ u.scheduled = N /\ u.queue = [s.queue EXCEPT ![q] = Q]
       /\ u.failed = FALSE /\ u.last = s.last /\ u.dbus = s.dbus /\ u.writeMode = w
       /\ u.waiting = s.waiting
  BY <1>2, <1>11 DEF StateType
<1>13. \A r \in Queue : /\ u.queue[r] \in [Slot(r) -> Entry]
                        /\ \A i \in Slot(r) : u.queue[r][i].address = s.queue[r][i].address
  <2> SUFFICES ASSUME NEW r \in Queue
               PROVE  /\ u.queue[r] \in [Slot(r) -> Entry]
                      /\ \A i \in Slot(r) : u.queue[r][i].address = s.queue[r][i].address
    OBVIOUS
  <2>1. u.queue[r] = IF r = q THEN Q ELSE s.queue[r]
    BY <1>1, <1>12 DEF StateType
  <2> QED BY <2>1, <1>1, <1>10 DEF Typed
<1>14. u \in StateType
  <2>1. u.queue \in [Queue -> UNION {[Slot(r) -> Entry] : r \in Queue}]
    <3>1. DOMAIN u.queue = Queue /\ u.queue = [r \in Queue |-> u.queue[r]]
      BY <1>1, <1>12 DEF StateType
    <3> QED BY <3>1, <1>13
  <2> QED BY <2>1, <1>2, <1>8, <1>9, <1>11, <1>12 DEF StateType
<1>15. \A r \in Queue : /\ Occupied(u, r) = Occupied(s, r) /\ Started(u, r) = {}
                         /\ Occupied(s, r) \subseteq Slot(r)
  <2> SUFFICES ASSUME NEW r \in Queue
               PROVE  /\ Occupied(u, r) = Occupied(s, r) /\ Started(u, r) = {}
                      /\ Occupied(s, r) \subseteq Slot(r)
    OBVIOUS
  <2>1. Occupied(u, r) = Occupied(s, r) /\ Occupied(s, r) \subseteq Slot(r)
    BY <1>13 DEF Occupied
  <2>2. u.queue[r] = IF r = q THEN Q ELSE s.queue[r]
    BY <1>1, <1>12 DEF StateType
  <2>3. Started(u, r) = {}
    <3>1. CASE r = q
      BY <3>1, <2>2, <1>10 DEF Started
    <3>2. CASE r # q
      BY <3>2, <2>2, <1>4 DEF Started
    <3> QED BY <3>1, <3>2
  <2> QED BY <2>1, <2>3
<1>16. Typed(u)
  BY <1>13, <1>14, <1>15 DEF Typed
<1>17. Banked(u)
  BY <1>8, <1>12, <1>15 DEF Banked
<1>18. CountedIn(u)
  BY <1>9, <1>12, <1>15, FS_EmptySet DEF CountedIn
<1>19. Distinct(u)
  BY <1>1, <1>13, <1>15 DEF Tables, Distinct
<1>20. AnsweredIn(u)
  <2>1. "RQ" \in Queue
    BY DEF Queue
  <2> QED BY <2>1, <1>1, <1>12, <1>13, <1>15 DEF Tables, AnsweredIn
<1> QED BY <1>12, <1>15, <1>16, <1>17, <1>18, <1>19, <1>20 DEF u, s0, q

(* A turn-around of the bus keeps the invariant.                           *)
LEMMA TurnSound ==
  ASSUME NEW s, Sound(s), now \in Nat
  PROVE  LET t == TurnAround(s, ~s.writeMode) IN Sound(t) /\ t.last = s.last
<1> DEFINE q == Way(s)
           w == ~s.writeMode
           u == Undone([s EXCEPT !.writeMode = w], q)
           v == RenewAll(u)
           f == v.failed \/ v.scheduled[q] # 0
           t == TurnAround(s, w)
<1>1. Typed(s) /\ Tables(s) /\ s \in StateType /\ q \in Queue /\ w \in BOOLEAN
  BY DEF Sound, Tables, Typed, Way, Queue
<1>2. /\ Typed(u) /\ Banked(u) /\ CountedIn(u) /\ Distinct(u) /\ AnsweredIn(u)
      /\ \A r \in Queue : Started(u, r) = {}
      /\ u.failed = FALSE /\ u.last = s.last /\ u.dbus = s.dbus /\ u.writeMode = w
  BY <1>1, UndoneTables
<1>3. t = [[v EXCEPT !.failed = f] EXCEPT !.dbus = @ + TURN_AROUND]
  <2>1. (IF w THEN "RQ" ELSE "WQ") = q
    BY <1>1 DEF Way, StateType
  <2>2. t = [ResetRemainRequests([s EXCEPT !.writeMode = w], q) EXCEPT !.dbus = @ + TURN_AROUND]
    BY <2>1 DEF TurnAround
  <2> QED BY <2>2, ResetAsUndone
<1> HIDE DEF u, t
<1>4. SameTables(u, v) /\ v \in StateType /\ \A r \in Queue : FreshIn(v, r)
  BY <1>2, RenewAllFresh
<1> HIDE DEF v
<1>5. f = FALSE
  <2>1. u.scheduled[q] = 0
    BY <1>1, <1>2, FS_EmptySet DEF CountedIn
  <2> QED BY <2>1, <1>2, <1>4 DEF SameTables
<1> HIDE DEF f
<1>6. /\ t \in StateType /\ t.queue = u.queue /\ t.bank = u.bank /\ t.scheduled = u.scheduled
      /\ t.waiting = u.waiting /\ t.failed = FALSE /\ t.last = s.last /\ t.writeMode = w
      /\ t.dbus = s.dbus + TURN_AROUND
      /\ t.nextSchedule = v.nextSchedule /\ t.nextProcess = v.nextProcess /\ t.queue = v.queue
  <2>1. v.dbus + TURN_AROUND \in Int
    BY <1>4, DramAssumption DEF StateType
  <2> QED BY <2>1, <1>2, <1>3, <1>4, <1>5 DEF StateType, SameTables
<1>7. \A r : /\ Occupied(t, r) = Occupied(u, r) /\ Started(t, r) = Started(u, r)
             /\ Unstarted(t, r) = Unstarted(v, r) /\ Started(t, r) = Started(v, r)
             /\ \A i : BankAt(t, r, i) = BankAt(u, r, i)
  <2>1. t.queue = u.queue /\ t.queue = v.queue
    BY <1>6
  <2>2. \A r : /\ Occupied(t, r) = Occupied(u, r) /\ Started(t, r) = Started(u, r)
               /\ \A i : BankAt(t, r, i) = BankAt(u, r, i)
    BY <2>1 DEF Occupied, Started, BankAt
  <2>3. \A r : Unstarted(t, r) = Unstarted(v, r) /\ Started(t, r) = Started(v, r)
    BY <2>1 DEF Occupied, Started, Unstarted
  <2> QED BY <2>2, <2>3
<1>8. Typed(t)
  BY <1>2, <1>6, <1>7 DEF Typed
<1>9. Banked(t) /\ CountedIn(t)
  BY <1>2, <1>6, <1>7 DEF Banked, CountedIn
<1>10. Directed(t)
  BY <1>2, <1>7 DEF Directed, Queue
<1>11. Distinct(t) /\ AnsweredIn(t)
  BY <1>2, <1>6, <1>7 DEF Distinct, AnsweredIn
<1>12. Separated(t)
  <2>1. Separated(s) /\ s.dbus \in Int /\ s.last.cycle \in Nat
    BY <1>1 DEF Tables, StateType, LastType
  <2> QED BY <2>1, <1>6, DramAssumption DEF Separated
<1>13. \A r \in Queue : FreshIn(t, r)
  BY <1>4, <1>6, <1>7 DEF FreshIn
<1>14. Sound(t)
  BY <1>6, <1>8, <1>9, <1>10, <1>11, <1>12, <1>13 DEF Sound, Tables
<1> QED BY <1>6, <1>14 DEF t

(* The choice of the direction keeps the invariant.                        *)
LEMMA SwitchSound ==
  ASSUME NEW s, Sound(s), now \in Nat
  PROVE  Sound(SwitchMode(s)) /\ SwitchMode(s).last = s.last
<1>1. SwitchMode(s) = s \/ SwitchMode(s) = TurnAround(s, ~s.writeMode)
  BY DEF SwitchMode
<1> QED BY <1>1, TurnSound

-------------------------------------------------------------------------------
(* The actions.                                                            *)

(* The fields of the state record are the variables.                       *)
LEMMA StateFields ==
  /\ State.queue = queue /\ State.bank = bank /\ State.dbus = dbus
  /\ State.writeMode = writeMode /\ State.scheduled = scheduled
  /\ State.nextSchedule = nextSchedule /\ State.nextProcess = nextProcess
  /\ State.waiting = waiting /\ State.failed = failed /\ State.last = last
BY DEF State

(* Becomes(s) makes s the next state record.                               *)
LEMMA BecomesState ==
  ASSUME NEW s, s \in StateType, Becomes(s)
  PROVE  State' = s
BY DEF State, Becomes, StateType

IInv == Sound(State) /\ now \in Nat /\ warm \in BOOLEAN

(* The invariant holds at the start.                                       *)
LEMMA InitSound == Init => IInv
<1> SUFFICES ASSUME Init PROVE IInv
  OBVIOUS
<1> DEFINE s == State
<1>1. /\ s.queue = [q \in Queue |-> [i \in Slot(q) |-> Empty]]
      /\ s.bank = [b \in Bank |-> Idle] /\ s.dbus = 0 /\ s.writeMode = FALSE
      /\ s.scheduled = [q \in Queue |-> 0] /\ s.nextSchedule = [q \in Queue |-> Nothing]
      /\ s.nextProcess = [q \in Queue |-> Nothing] /\ s.waiting = {} /\ s.failed = FALSE
      /\ s.last = [queue |-> "none", cycle |-> 0]
  BY StateFields DEF Init
<1>2. \A q \in Queue : \A i \in Slot(q) : s.queue[q][i] = Empty
  BY <1>1
<1>3. \A q \in Queue : Occupied(s, q) = {} /\ Started(s, q) = {} /\ Unstarted(s, q) = {}
  BY <1>2 DEF Occupied, Started, Unstarted, Empty
<1>4. \A q \in Queue : s.queue[q] \in [Slot(q) -> Entry]
  <2>1. Empty \in Entry
    BY DEF Empty, Entry
  <2> QED BY <2>1, <1>1
<1>5. s \in StateType
  <2>1. Idle \in BankType /\ Nothing \in NextType
    BY DEF Idle, BankType, Nothing, NextType
  <2>2. s.last \in LastType
    BY <1>1 DEF LastType
  <2>3. s.queue \in [Queue -> UNION {[Slot(q) -> Entry] : q \in Queue}]
    BY <1>1, <1>4
  <2>4. /\ s.bank \in [Bank -> BankType] /\ s.dbus \in Int /\ s.writeMode \in BOOLEAN
        /\ s.scheduled \in [Queue -> Int] /\ s.nextSchedule \in [Queue -> NextType]
        /\ s.nextProcess \in [Queue -> NextType] /\ s.waiting \in SUBSET Addr
        /\ s.failed \in BOOLEAN
    <3> HIDE DEF s
    <3>1. s.bank \in [Bank -> BankType]
      BY <1>1, <2>1
    <3>2. s.nextSchedule \in [Queue -> NextType] /\ s.nextProcess \in [Queue -> NextType]
      BY <1>1, <2>1
    <3>3. s.scheduled \in [Queue -> Int]
      BY <1>1
    <3>4. s.dbus \in Int /\ s.waiting \in SUBSET Addr
      BY <1>1
    <3>5. s.writeMode \in BOOLEAN /\ s.failed \in BOOLEAN
      BY <1>1
    <3> QED BY <3>1, <3>2, <3>3, <3>4, <3>5
  <2> QED BY <2>2, <2>3, <2>4 DEF State, StateType
<1> HIDE DEF s
<1>6. Typed(s)
  BY <1>3, <1>4, <1>5 DEF Typed
<1>7. Banked(s)
  <2>1. \A b \in Bank : s.bank[b].worksFor = "none"
    BY <1>1 DEF Idle
  <2> QED BY <2>1, <1>3 DEF Banked
<1>8. Directed(s) /\ Distinct(s)
  BY <1>3 DEF Directed, Distinct, Queue
<1>9. CountedIn(s)
  BY <1>1, <1>3, FS_EmptySet DEF CountedIn
<1>10. AnsweredIn(s)
  BY <1>1, <1>3 DEF AnsweredIn, Queue
<1>11. Separated(s) /\ ~s.failed
  BY <1>1 DEF Separated
<1>12. \A q \in Queue : FreshIn(s, q)
  BY <1>1, <1>3 DEF FreshIn, NextOf
<1>13. Sound(s)
  BY <1>6, <1>7, <1>8, <1>9, <1>10, <1>11, <1>12 DEF Sound, Tables
<1> QED BY <1>13 DEF s, IInv, Init

(* operate() keeps the invariant, and transfers only when the bus is free. *)
LEMMA OperateSound ==
  ASSUME IInv, Operate
  PROVE  /\ Sound(State') /\ now' \in Nat /\ warm' = warm
         /\ \/ last' = last
            \/ \E s : /\ Sound(s) /\ s.last = last
                      /\ s.dbus <= now /\ last' = [queue |-> Way(s), cycle |-> now]
<1> DEFINE s0 == SwitchMode(State)
           q  == Way(s0)
           s1 == IF Due(s0.nextSchedule[q]) THEN Schedule(s0, q) ELSE s0
           s2 == IF Due(s1.nextProcess[q]) THEN Process(s1, q) ELSE s1
<1>1. Sound(s0) /\ s0.last = last
  BY SwitchSound, StateFields DEF IInv
<1>2. Becomes(s2)
  BY DEF Operate, Way
<1> HIDE DEF s0
<1>3. Sound(s1) /\ s1.last = last /\ s1.writeMode = s0.writeMode
  BY <1>1, ScheduleSound DEF IInv
<1>4. q = Way(s1)
  BY <1>3 DEF Way
<1> HIDE DEF s1, q
<1>5. /\ Sound(s2)
      /\ \/ s2.last = s1.last
         \/ s1.dbus <= now /\ s2.last = [queue |-> Way(s1), cycle |-> now]
  BY <1>3, <1>4, ProcessSound DEF IInv
<1> HIDE DEF s2
<1>6. s2 \in StateType
  BY <1>5 DEF Sound, Tables, Typed
<1>7. State' = s2 /\ last' = s2.last
  BY <1>2, <1>6, BecomesState DEF Becomes
<1>8. now' \in Nat /\ warm' = warm
  BY DEF Operate, IInv
<1> QED BY <1>3, <1>5, <1>7, <1>8

(* A request for a block that the queue does not hold comes into a free    *)
(* slot of it; for the read queue, the miss of the block waits from then.  *)
Put(s, q, i, e, W) ==
  UpdateScheduleCycle([[s EXCEPT !.waiting = W] EXCEPT !.queue[q][i] = e], q)

CanPut(s, q, i, e, W) ==
  /\ i \in Slot(q) \ Occupied(s, q)
  /\ e \in Entry /\ e.address \in Addr /\ e.scheduled = FALSE
  /\ \A j \in Occupied(s, q) : s.queue[q][j].address # e.address
  /\ W = IF q = "RQ" THEN s.waiting \cup {e.address} ELSE s.waiting

LEMMA PutSound ==
  ASSUME NEW s, Sound(s), NEW q \in Queue, NEW i, NEW e, NEW W, CanPut(s, q, i, e, W)
  PROVE  Sound(Put(s, q, i, e, W)) /\ Put(s, q, i, e, W).last = s.last
<1> DEFINE a == e.address
           u == [[s EXCEPT !.waiting = W] EXCEPT !.queue[q][i] = e]
           f == [s.queue EXCEPT ![q] = [@ EXCEPT ![i] = e]]
<1>1. Typed(s) /\ Tables(s) /\ s \in StateType
  BY DEF Sound, Tables, Typed
<1> /\ i \in Slot(q) \ Occupied(s, q) /\ e \in Entry /\ a \in Addr
    /\ \A j \in Occupied(s, q) : s.queue[q][j].address # a
    /\ q = "RQ" => W = s.waiting \cup {a}
    /\ q # "RQ" => W = s.waiting
  BY DEF CanPut
<1>2. e \in Entry /\ e.address = a /\ e.scheduled = FALSE /\ a # NoAddr
  BY DramAssumption DEF CanPut
<1> HIDE DEF a
<1>3. /\ f \in [Queue -> UNION {[Slot(r) -> Entry] : r \in Queue}]
      /\ \A r \in Queue : f[r] \in [Slot(r) -> Entry]
      /\ f[q][i] = e
      /\ \A r \in Queue : \A j \in Slot(r) : r # q \/ j # i => f[r][j] = s.queue[r][j]
      /\ \A r \in Queue : r # q => f[r] = s.queue[r]
  <2>1. \A r \in Queue : r # q => f[r] = s.queue[r]
    BY <1>1 DEF StateType
  <2>2. f = [s.queue EXCEPT ![q] = [@ EXCEPT ![i] = e]] /\ i \in Slot(q)
    OBVIOUS
  <2> HIDE DEF f
  <2>3. /\ f \in [Queue -> UNION {[Slot(r) -> Entry] : r \in Queue}]
        /\ \A r \in Queue : f[r] \in [Slot(r) -> Entry]
        /\ f[q][i] = e
        /\ \A r \in Queue : \A j \in Slot(r) : r # q \/ j # i => f[r][j] = s.queue[r][j]
    BY <1>1, <1>2, <2>2, SetSlot
  <2> QED BY <2>1, <2>3
<1>4. W \in SUBSET Addr
  BY <1>1 DEF StateType
<1>5. /\ u.queue = f /\ u.waiting = W /\ u.bank = s.bank /\ u.dbus = s.dbus
      /\ u.writeMode = s.writeMode /\ u.scheduled = s.scheduled /\ u.failed = s.failed
      /\ u.last = s.last /\ u.nextSchedule = s.nextSchedule /\ u.nextProcess = s.nextProcess
  BY <1>1 DEF StateType
<1> HIDE DEF f
<1>6. u \in StateType
  BY <1>1, <1>3, <1>4, <1>5 DEF StateType
<1> HIDE DEF u
<1>7. /\ i \notin Started(s, q) /\ i \notin Occupied(s, q)
      /\ \A r \in Queue : Occupied(s, r) \subseteq Slot(r) /\ Started(s, r) \subseteq Slot(r)
  BY <1>1, SlotSets DEF Typed
<1>8. \A r \in Queue :
        /\ Occupied(u, r) = IF r = q THEN Occupied(s, q) \cup {i} ELSE Occupied(s, r)
        /\ Started(u, r) = Started(s, r)
        /\ r # q => Unstarted(u, r) = Unstarted(s, r)
  <2> SUFFICES ASSUME NEW r \in Queue
               PROVE  /\ Occupied(u, r) = IF r = q THEN Occupied(s, q) \cup {i} ELSE Occupied(s, r)
                      /\ Started(u, r) = Started(s, r)
                      /\ r # q => Unstarted(u, r) = Unstarted(s, r)
    OBVIOUS
  <2>1. CASE r = q
    <3>1. Occupied(u, q) = Occupied(s, q) \cup {i}
      BY <1>2, <1>3, <1>5 DEF Occupied
    <3>2. Started(u, q) = Started(s, q)
      BY <1>2, <1>3, <1>5, <1>7 DEF Started
    <3> QED BY <2>1, <3>1, <3>2
  <2>2. CASE r # q
    <3>1. u.queue[r] = s.queue[r]
      BY <2>2, <1>3, <1>5
    <3> QED BY <2>2, <3>1 DEF Occupied, Started, Unstarted
  <2> QED BY <2>1, <2>2
<1>9. \A r \in Queue : \A j \in Slot(r) : (r # q \/ j # i) =>
        /\ u.queue[r][j].address = s.queue[r][j].address
        /\ BankAt(u, r, j) = BankAt(s, r, j)
  BY <1>3, <1>5 DEF BankAt
<1>10. \A r \in Queue : \A j \in Started(s, r) : (r # q \/ j # i) /\ j \in Slot(r)
  BY <1>7
<1>11. Typed(u)
  BY <1>1, <1>3, <1>5, <1>6, <1>8 DEF Typed
<1>12. Banked(u)
  <2>1. \A r \in Queue : \A j \in Started(u, r) :
          u.bank[BankAt(u, r, j)].worksFor = r /\ u.bank[BankAt(u, r, j)].index = j
    BY <1>1, <1>5, <1>8, <1>9, <1>10 DEF Tables, Banked
  <2>2. \A b \in Bank : u.bank[b].worksFor # "none" =>
          /\ u.bank[b].index \in Started(u, u.bank[b].worksFor)
          /\ BankAt(u, u.bank[b].worksFor, u.bank[b].index) = b
    <3> SUFFICES ASSUME NEW b \in Bank, s.bank[b].worksFor # "none"
                 PROVE  /\ s.bank[b].index \in Started(u, s.bank[b].worksFor)
                        /\ BankAt(u, s.bank[b].worksFor, s.bank[b].index) = b
      BY <1>5
    <3>1. s.bank[b].worksFor \in Queue
      BY <1>1 DEF StateType, BankType
    <3>2. /\ s.bank[b].index \in Started(s, s.bank[b].worksFor)
          /\ BankAt(s, s.bank[b].worksFor, s.bank[b].index) = b
      BY <1>1 DEF Tables, Banked
    <3> QED BY <3>1, <3>2, <1>8, <1>9, <1>10
  <2> QED BY <2>1, <2>2 DEF Banked
<1>13. Directed(u) /\ CountedIn(u)
  BY <1>1, <1>5, <1>8 DEF Tables, Directed, CountedIn, Queue
<1>14. Distinct(u)
  <2> SUFFICES ASSUME NEW r \in Queue, NEW j \in Occupied(u, r), NEW k \in Occupied(u, r),
                      u.queue[r][j].address = u.queue[r][k].address
               PROVE  j = k
    BY DEF Distinct
  <2>1. CASE r # q
    BY <2>1, <1>1, <1>7, <1>8, <1>9 DEF Tables, Distinct
  <2>2. CASE r = q
    <3>1. j \in Occupied(s, q) \cup {i} /\ k \in Occupied(s, q) \cup {i}
      BY <2>2, <1>8
    <3>2. u.queue[q][i].address = a
      BY <1>2, <1>3, <1>5
    <3>3. \A m \in Occupied(s, q) : /\ u.queue[q][m].address = s.queue[q][m].address
                                    /\ u.queue[q][m].address # a
      BY <1>7, <1>9
    <3>4. \A m, l \in Occupied(s, q) : s.queue[q][m].address = s.queue[q][l].address => m = l
      BY <1>1 DEF Tables, Distinct
    <3> QED BY <2>2, <3>1, <3>2, <3>3, <3>4
  <2> QED BY <2>1, <2>2
<1>15. AnsweredIn(u)
  <2>1. /\ s.waiting = {s.queue["RQ"][j].address : j \in Occupied(s, "RQ")} /\ "RQ" \in Queue
        /\ Occupied(s, "RQ") \subseteq Slot("RQ")
    BY <1>1, <1>7 DEF Tables, AnsweredIn, Queue
  <2>2. CASE q = "RQ"
    <3>1. Occupied(u, "RQ") = Occupied(s, "RQ") \cup {i}
      BY <2>2, <1>8
    <3>2. u.queue["RQ"][i].address = a
      BY <2>2, <1>2, <1>3, <1>5
    <3>3. \A m \in Occupied(s, "RQ") : u.queue["RQ"][m].address = s.queue["RQ"][m].address
      BY <2>2, <1>7, <1>9
    <3>4. u.waiting = s.waiting \cup {a}
      BY <2>2, <1>5
    <3> QED BY <2>1, <3>1, <3>2, <3>3, <3>4 DEF AnsweredIn
  <2>3. CASE q # "RQ"
    <3>1. u.queue["RQ"] = s.queue["RQ"] /\ u.waiting = s.waiting
      BY <2>1, <2>3, <1>3, <1>5
    <3> QED BY <2>1, <2>3, <3>1, <1>8 DEF AnsweredIn
  <2> QED BY <2>2, <2>3
<1>16. Separated(u) /\ ~u.failed
  BY <1>1, <1>5 DEF Tables, Separated
<1>17. Tables(u)
  BY <1>11, <1>12, <1>13, <1>14, <1>15, <1>16 DEF Tables
<1> DEFINE t == UpdateScheduleCycle(u, q)
<1>18. /\ SameTables(u, t) /\ t \in StateType /\ t.nextProcess = u.nextProcess
       /\ t.nextSchedule[q] = NextOf(t.queue[q], Unstarted(t, q))
       /\ \A r \in Queue : r # q => t.nextSchedule[r] = u.nextSchedule[r]
  BY <1>11, RenewSchedule
<1> HIDE DEF t
<1>19. Tables(t)
  BY <1>17, <1>18, SameSound
<1>20. ASSUME NEW r \in Queue PROVE FreshIn(t, r)
  <2>1. t.queue = u.queue /\ Unstarted(t, r) = Unstarted(u, r) /\ Started(t, r) = Started(s, r)
    BY <1>8, <1>18, SameSets DEF SameTables
  <2>2. FreshIn(s, r)
    BY DEF Sound
  <2>3. t.nextProcess[r] = NextOf(t.queue[r], Started(t, r))
    <3>1. \A j \in Started(s, r) : /\ j \in Nat /\ s.queue[r][j].event \in Nat
                                   /\ u.queue[r][j] = s.queue[r][j]
      BY <1>1, <1>3, <1>5, <1>10, SlotSets DEF Entry
    <3>2. NextOf(u.queue[r], Started(s, r)) = NextOf(s.queue[r], Started(s, r))
      BY <3>1, NextOfSame
    <3> QED BY <3>2, <2>1, <2>2, <1>5, <1>18 DEF FreshIn
  <2>4. t.nextSchedule[r] = NextOf(t.queue[r], Unstarted(t, r))
    <3>1. CASE r = q
      BY <3>1, <1>18
    <3>2. CASE r # q
      <4>1. u.queue[r] = s.queue[r]
        BY <3>2, <1>3, <1>5
      <4> QED BY <3>2, <4>1, <2>1, <2>2, <1>5, <1>8, <1>18 DEF FreshIn
    <3> QED BY <3>1, <3>2
  <2> QED BY <2>3, <2>4 DEF FreshIn
<1>21. Put(s, q, i, e, W) = t
  BY DEF Put, t, u
<1> QED BY <1>5, <1>18, <1>19, <1>20, <1>21 DEF Sound, SameTables

(* The first of the free slots is one of them.                             *)
LEMMA FirstFree ==
  ASSUME NEW q \in Queue, NEW S, S \subseteq Slot(q), S # {}
  PROVE  (CHOOSE i \in S : \A j \in S : i <= j) \in S
<1>1. SIZE[q] \in Nat
  BY DramAssumption
<1>2. S \subseteq Nat
  BY <1>1 DEF Slot
<1>3. \E i \in S : \A j \in S : i <= j
  BY <1>2, LeastNat
<1> QED BY <1>3

(* add_rq keeps the invariant.                                             *)
LEMMA AddRqSound ==
  ASSUME IInv, NEW a \in Addr, NEW age \in 0 .. MaxAge, AddRq(a, age)
  PROVE  Sound(State') /\ last' = last
<1> DEFINE s == State
           p == [s EXCEPT !.waiting = @ \cup {a}]
<1> USE DEF IInv
<1>1. Typed(s) /\ Tables(s) /\ s \in StateType /\ "RQ" \in Queue
  BY DEF Sound, Tables, Typed, Queue
<1>2. a \notin s.waiting /\ a # NoAddr /\ s.queue = queue /\ s.last = last
  BY DramAssumption, StateFields DEF AddRq
<1>3. Becomes(ReturnData(p, a)) \/ Becomes(Enqueue(p, "RQ", a, age))
  BY DEF AddRq
<1>4. Occupied(s, "RQ") # Slot("RQ")
  BY DEF AddRq, Full
<1> HIDE DEF s
<1>5. CASE Becomes(ReturnData(p, a))
  <2>1. ReturnData(p, a) = s
    <3>1. p.waiting = s.waiting \cup {a} /\ p.failed = FALSE /\ s.failed = FALSE
      BY <1>1 DEF StateType, Tables
    <3>2. ReturnData(p, a) = [s EXCEPT !.waiting = s.waiting, !.failed = s.failed]
      BY <3>1, <1>1, <1>2 DEF ReturnData, StateType
    <3> QED BY <3>2, <1>1 DEF StateType
  <2>2. State' = s
    BY <1>1, <1>5, <2>1, BecomesState
  <2>3. last' = s.last
    BY <1>5, <2>1 DEF Becomes
  <2> QED BY <1>2, <2>2, <2>3 DEF s
<1>6. CASE Becomes(Enqueue(p, "RQ", a, age))
  <2> DEFINE free == Slot("RQ") \ Occupied(s, "RQ")
             i == CHOOSE i \in free : \A j \in free : i <= j
             n == IF age <= now THEN now - age ELSE 0
             e == [address |-> a, scheduled |-> FALSE, event |-> n]
             W == s.waiting \cup {a}
             t == Put(s, "RQ", i, e, W)
  <2>1. p.queue = s.queue /\ p = [s EXCEPT !.waiting = W]
    BY <1>1 DEF StateType
  <2>2. Occupied(p, "RQ") = Occupied(s, "RQ")
    BY <2>1 DEF Occupied
  <2>3. \A j \in Slot("RQ") : s.queue["RQ"][j].address # a
    BY <1>1, <1>2 DEF Tables, AnsweredIn, Occupied
  <2>4. free # {} /\ free \subseteq Slot("RQ")
    BY <1>1, <1>4, SlotSets
  <2>5. Enqueue(p, "RQ", a, age) = t
    BY <1>2, <2>1, <2>2, <2>3, <2>4 DEF Enqueue, Holds, Put
  <2>6. i \in free
    <3> HIDE DEF free
    <3> QED BY <1>1, <2>4, FirstFree
  <2>7. n \in Nat
    BY DramAssumption
  <2>8. \A j \in Occupied(s, "RQ") : s.queue["RQ"][j].address # a
    BY <2>3 DEF Occupied
  <2> HIDE DEF i, n
  <2>9. Sound(s)
    BY DEF s
  <2>10. Sound(t) /\ t.last = s.last
    <3>1. e \in Entry /\ e.address = a /\ e.scheduled = FALSE
      BY <2>7 DEF Entry
    <3>2. CanPut(s, "RQ", i, e, W)
      <4> HIDE DEF e
      <4> QED BY <2>6, <2>8, <3>1 DEF CanPut
    <3> HIDE DEF e, W
    <3> QED BY <1>1, <2>9, <3>2, PutSound
  <2> HIDE DEF t
  <2>11. State' = t /\ last' = t.last
    BY <1>6, <2>5, <2>10, BecomesState DEF Sound, Tables, Typed, Becomes
  <2> QED BY <1>2, <2>10, <2>11
<1> QED BY <1>3, <1>5, <1>6

(* add_wq keeps the invariant.                                             *)
LEMMA AddWqSound ==
  ASSUME IInv, NEW a \in Addr, NEW age \in 0 .. MaxAge, AddWq(a, age)
  PROVE  Sound(State') /\ last' = last
<1> DEFINE s == State
<1> USE DEF IInv
<1>1. Typed(s) /\ Tables(s) /\ s \in StateType /\ "WQ" \in Queue
  BY DEF Sound, Tables, Typed, Queue
<1>2. a # NoAddr /\ s.queue = queue /\ s.last = last
  BY DramAssumption, StateFields
<1>3. Becomes(Enqueue(s, "WQ", a, age))
  BY DEF AddWq
<1>4. Occupied(s, "WQ") # Slot("WQ")
  BY DEF AddWq, Full
<1>5. Sound(s)
  OBVIOUS
<1> HIDE DEF s
<1>6. CASE Holds("WQ", a)
  <2>1. Enqueue(s, "WQ", a, age) = s
    BY <1>6 DEF Enqueue
  <2>2. State' = s
    BY <1>1, <1>3, <2>1, BecomesState
  <2> QED BY <1>2, <1>3, <1>5, <2>1, <2>2 DEF Becomes
<1>7. CASE ~Holds("WQ", a)
  <2> DEFINE free == Slot("WQ") \ Occupied(s, "WQ")
             i == CHOOSE i \in free : \A j \in free : i <= j
             n == IF age <= now THEN now - age ELSE 0
             e == [address |-> a, scheduled |-> FALSE, event |-> n]
             W == s.waiting
             t == Put(s, "WQ", i, e, W)
  <2>1. [s EXCEPT !.waiting = W] = s
    BY <1>1 DEF StateType
  <2>2. \A j \in Slot("WQ") : s.queue["WQ"][j].address # a
    BY <1>2, <1>7 DEF Holds
  <2>3. free # {} /\ free \subseteq Slot("WQ")
    BY <1>1, <1>4, SlotSets
  <2>4. Enqueue(s, "WQ", a, age) = t
    BY <1>7, <2>1, <2>3 DEF Enqueue, Put
  <2>5. i \in free
    <3> HIDE DEF free
    <3> QED BY <1>1, <2>3, FirstFree
  <2>6. n \in Nat
    BY DramAssumption
  <2>7. \A j \in Occupied(s, "WQ") : s.queue["WQ"][j].address # a
    BY <2>2 DEF Occupied
  <2> HIDE DEF i, n
  <2>8. Sound(t) /\ t.last = s.last
    <3>1. e \in Entry /\ e.address = a /\ e.scheduled = FALSE
      BY <2>6 DEF Entry
    <3>2. CanPut(s, "WQ", i, e, W)
      <4> HIDE DEF e
      <4> QED BY <2>5, <2>7, <3>1 DEF CanPut
    <3> HIDE DEF e, W
    <3> QED BY <1>1, <1>5, <3>2, PutSound
  <2> HIDE DEF t
  <2>9. State' = t /\ last' = t.last
    BY <1>3, <2>4, <2>8, BecomesState DEF Sound, Tables, Typed, Becomes
  <2> QED BY <1>2, <2>8, <2>9
<1> QED BY <1>6, <1>7

(* A step that leaves the tables alone keeps the invariant.                *)
LEMMA SameState ==
  ASSUME Sound(State), UNCHANGED << queue, bank, dbus, writeMode, scheduled, nextSchedule,
                                    nextProcess, waiting, failed, last >>
  PROVE  Sound(State')
<1>1. State' = State
  BY DEF State
<1> QED BY <1>1

(* Every step preserves the invariant; only operate() transfers, and when  *)
(* it does the bus was free in a sound state of the same last transfer.    *)
LEMMA StepSound ==
  ASSUME IInv, [Next]_vars
  PROVE  /\ IInv'
         /\ \/ last' = last
            \/ \E s : /\ Sound(s) /\ s.last = last
                      /\ s.dbus <= now /\ last' = [queue |-> Way(s), cycle |-> now]
<1>1. CASE Operate
  <2>1. /\ Sound(State') /\ now' \in Nat /\ warm' = warm
        /\ \/ last' = last
           \/ \E s : /\ Sound(s) /\ s.last = last
                     /\ s.dbus <= now /\ last' = [queue |-> Way(s), cycle |-> now]
    BY <1>1, OperateSound
  <2> QED BY <2>1 DEF IInv
<1>2. CASE \E a \in Addr, age \in 0 .. MaxAge : AddRq(a, age)
  <2>1. PICK a \in Addr, age \in 0 .. MaxAge : AddRq(a, age)
    BY <1>2
  <2>2. Sound(State') /\ last' = last
    BY <2>1, AddRqSound
  <2>3. now' = now /\ warm' = warm
    BY <2>1 DEF AddRq
  <2> QED BY <2>2, <2>3 DEF IInv
<1>3. CASE \E a \in Addr, age \in 0 .. MaxAge : AddWq(a, age)
  <2>1. PICK a \in Addr, age \in 0 .. MaxAge : AddWq(a, age)
    BY <1>3
  <2>2. Sound(State') /\ last' = last
    BY <2>1, AddWqSound
  <2>3. now' = now /\ warm' = warm
    BY <2>1 DEF AddWq
  <2> QED BY <2>2, <2>3 DEF IInv
<1>4. CASE FinishWarmup
  <2>1. UNCHANGED << queue, bank, dbus, writeMode, scheduled, nextSchedule,
                     nextProcess, waiting, failed, last >>
    BY <1>4, StateFields DEF FinishWarmup, Becomes
  <2>2. now' = now /\ warm' = TRUE
    BY <1>4 DEF FinishWarmup
  <2>3. Sound(State)
    BY DEF IInv
  <2>4. Sound(State')
    BY <2>1, <2>3, SameState
  <2> QED BY <2>1, <2>2, <2>4 DEF IInv
<1>5. CASE UNCHANGED vars
  <2>1. UNCHANGED << queue, bank, dbus, writeMode, scheduled, nextSchedule,
                     nextProcess, waiting, failed, last >>
    BY <1>5 DEF vars
  <2>2. now' = now /\ warm' = warm
    BY <1>5 DEF vars
  <2>3. Sound(State)
    BY DEF IInv
  <2>4. Sound(State')
    BY <2>1, <2>3, SameState
  <2> QED BY <2>1, <2>2, <2>4 DEF IInv
<1> QED BY <1>1, <1>2, <1>3, <1>4, <1>5 DEF Next, Finished

-------------------------------------------------------------------------------
(* The theorems.                                                           *)

(* The whole invariant holds in every reachable state, for any number of   *)
(* slots, banks and addresses and for any timing parameters.               *)
THEOREM DramInvariant == Spec => []IInv
<1>1. IInv /\ [Next]_vars => IInv'
  BY StepSound
<1> QED BY InitSound, <1>1, PTL DEF Spec

(* The tables of the controller keep their types, and only an occupied     *)
(* slot is scheduled.                                                      *)
THEOREM DramTypes == Spec => []TypeOK
<1>1. IInv => TypeOK
  <2> SUFFICES ASSUME IInv PROVE TypeOK
    OBVIOUS
  <2>1. Typed(State) /\ State \in StateType
    BY DEF IInv, Sound, Tables, Typed
  <2>2. \A q \in Queue : /\ queue[q] \in [Slot(q) -> Entry]
                         /\ Started(State, q) \subseteq Occupied(State, q)
    BY <2>1, StateFields DEF Typed
  <2>3. /\ DOMAIN State.queue = Queue /\ State.bank \in [Bank -> BankType]
        /\ State.writeMode \in BOOLEAN /\ State.failed \in BOOLEAN
        /\ State.waiting \subseteq Addr /\ State.dbus \in Int
    <3> DEFINE s == State
    <3> HIDE DEF s
    <3>1. s \in StateType
      BY <2>1 DEF s
    <3>2. /\ DOMAIN s.queue = Queue /\ s.bank \in [Bank -> BankType]
          /\ s.writeMode \in BOOLEAN /\ s.failed \in BOOLEAN
          /\ s.waiting \subseteq Addr /\ s.dbus \in Int
      BY <3>1 DEF StateType
    <3> QED BY <3>2 DEF s
  <2> QED BY <2>2, <2>3, StateFields DEF TypeOK, IInv
<1> QED BY DramInvariant, <1>1, PTL

(* A busy bank works for one started request that lies in it, and every    *)
(* started request has its bank, whatever turn-arounds came between.       *)
THEOREM BanksAndQueues == Spec => []BanksAgree
<1>1. IInv => BanksAgree
  BY StateFields DEF IInv, Sound, Tables, Banked, BanksAgree
<1> QED BY DramInvariant, <1>1, PTL

(* No request of the other direction is left started when the bus turns.   *)
THEOREM OneDirectionOnly == Spec => []OneDirection
<1>1. IInv => OneDirection
  BY StateFields DEF IInv, Sound, Tables, Directed, OneDirection
<1> QED BY DramInvariant, <1>1, PTL

(* scheduled_reads and scheduled_writes are exact.                         *)
THEOREM CountsExact == Spec => []Counted
<1>1. IInv => Counted
  BY StateFields DEF IInv, Sound, Tables, CountedIn, Counted
<1> QED BY DramInvariant, <1>1, PTL

(* The cached indices are what a fresh search of the queues would find.    *)
THEOREM IndicesFresh == Spec => []NextFresh
<1>1. IInv => NextFresh
  BY StateFields DEF IInv, Sound, FreshIn, NextFresh
<1> QED BY DramInvariant, <1>1, PTL

(* process(), reset_remain_requests() and the return of data to the LLC    *)
(* never reach their assert(0).                                            *)
THEOREM NoAssertFails == Spec => []NoAssert
<1>1. IInv => NoAssert
  BY StateFields DEF IInv, Sound, Tables, NoAssert
<1> QED BY DramInvariant, <1>1, PTL

(* A miss waits in the LLC exactly while its request is in the read queue. *)
THEOREM MissesAnswered == Spec => []Answered
<1>1. IInv => Answered
  BY StateFields DEF IInv, Sound, Tables, AnsweredIn, Answered
<1> QED BY DramInvariant, <1>1, PTL

(* Two transfers are apart by the time the bus needs, and by the time of a *)
(* turn-around when they are of different directions.                      *)
THEOREM TransfersApart == Spec => BusSeparated
<1> DEFINE Apart == last' # last /\ last.queue # "none" =>
                      last'.cycle >= last.cycle + RETURN_TIME
                                     + (IF last'.queue # last.queue THEN TURN_AROUND ELSE 0)
<1>1. IInv /\ [Next]_vars => [Apart]_vars
  <2> SUFFICES ASSUME IInv, [Next]_vars, last' # last, last.queue # "none"
               PROVE  last'.cycle >= last.cycle + RETURN_TIME
                                     + (IF last'.queue # last.queue THEN TURN_AROUND ELSE 0)
    OBVIOUS
  <2>1. PICK s : /\ Sound(s) /\ s.last = last
                 /\ s.dbus <= now /\ last' = [queue |-> Way(s), cycle |-> now]
    BY StepSound
  <2>2. /\ s.dbus \in Int /\ last.cycle \in Nat /\ last.queue \in Queue
        /\ s.writeMode \in BOOLEAN
    BY <2>1 DEF Sound, Tables, Typed, StateType, LastType
  <2>3. s.dbus >= last.cycle + RETURN_TIME
                  + (IF s.writeMode # (last.queue = "WQ") THEN TURN_AROUND ELSE 0)
    BY <2>1 DEF Sound, Tables, Separated
  <2>4. last'.queue # last.queue => s.writeMode # (last.queue = "WQ")
    BY <2>1, <2>2 DEF Way, Queue
  <2>5. last'.cycle = now /\ now \in Nat
    BY <2>1 DEF IInv
  <2> QED BY <2>1, <2>2, <2>3, <2>4, <2>5, DramAssumption
<1> QED BY DramInvariant, <1>1, PTL DEF Spec, BusSeparated
===============================================================================
