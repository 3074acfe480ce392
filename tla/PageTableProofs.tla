-------------------------- MODULE PageTableProofs --------------------------
(***************************************************************************)
(* Proofs about PageTable for any number of cores, pages and frames.  The  *)
(* tables of va_to_pa are changed by VaToPa alone, so their invariant is   *)
(* proved for its three cases and lifted to the actions that call it; the  *)
(* TLBs are then compared with the tables.                                 *)
(***************************************************************************)
EXTENDS PageTable, FiniteSetTheorems, TLAPS

-----------------------------------------------------------------------------
(* Maps and keys.                                                          *)

(* A core and a page make a key.                                           *)
LEMMA KeyType ==
  ASSUME NEW c \in Cpu, NEW v \in VPage
  PROVE  Key(c, v) \in Keys
BY DEF Keys

(* The tables by themselves.                                               *)
Tables ==
  /\ Mapped \subseteq Keys /\ page_table \in [Mapped -> Nat]
  /\ inverse_table \in [DOMAIN inverse_table -> Keys]
  /\ DOMAIN inverse_table \subseteq Nat
  /\ page_queue \in Seq(Keys)
  /\ previous_ppage \in Nat /\ num_adjacent_page \in Nat
  /\ allocated_pages \in Nat
  /\ recent \in Keys \cup {-1}

TablesInv ==
  /\ Tables
  /\ MutuallyInverse
  /\ PagesCounted
  /\ IsFiniteSet(Mapped)

-----------------------------------------------------------------------------
(* A minor fault that maps k to the free frame p.                          *)
LEMMA AllocateKeeps ==
  ASSUME TablesInv, NEW k \in Keys, k \notin Mapped,
         allocated_pages < DRAM_PAGES,
         NEW p \in Nat, Free(p), NEW run \in Nat, Allocate(k, p, run),
         recent' \in Keys
  PROVE  TablesInv'
<1> USE DEF Free, Mapped
<1>1. /\ DOMAIN page_table' = DOMAIN page_table \cup {k}
      /\ page_table'[k] = p
      /\ \A j \in DOMAIN page_table : page_table'[j] = page_table[j]
      /\ page_table' = [j \in DOMAIN page_table' |-> page_table'[j]]
  BY DEF Allocate, Put
<1>2. /\ DOMAIN inverse_table' = DOMAIN inverse_table \cup {p}
      /\ inverse_table'[p] = k
      /\ \A q \in DOMAIN inverse_table : inverse_table'[q] = inverse_table[q]
      /\ inverse_table' = [q \in DOMAIN inverse_table' |-> inverse_table'[q]]
  BY DEF Allocate, Put
<1>3. Tables'
  <2>1. \A j \in DOMAIN page_table' : page_table'[j] \in Nat
    BY <1>1 DEF TablesInv, Tables
  <2>2. page_table' \in [DOMAIN page_table' -> Nat] /\ DOMAIN page_table' \subseteq Keys
    BY <1>1, <2>1 DEF TablesInv, Tables
  <2>3. \A q \in DOMAIN inverse_table' : inverse_table'[q] \in Keys
    BY <1>2 DEF TablesInv, Tables
  <2>4. /\ inverse_table' \in [DOMAIN inverse_table' -> Keys]
        /\ DOMAIN inverse_table' \subseteq Nat
    BY <1>2, <2>3 DEF TablesInv, Tables
  <2>5. page_queue' \in Seq(Keys)
    BY DEF TablesInv, Tables, Allocate
  <2>6. /\ previous_ppage' \in Nat /\ num_adjacent_page' \in Nat
        /\ allocated_pages' \in Nat
    BY DEF TablesInv, Tables, Allocate
  <2> QED BY <2>2, <2>4, <2>5, <2>6 DEF Tables
<1>4. MutuallyInverse'
  BY <1>1, <1>2 DEF TablesInv, MutuallyInverse
<1>5. IsFiniteSet(DOMAIN page_table') /\ Cardinality(DOMAIN page_table') = allocated_pages + 1
  BY <1>1, FS_AddElement DEF TablesInv, PagesCounted
<1>6. Len(page_queue') = allocated_pages + 1
  BY DEF Allocate, TablesInv, Tables, PagesCounted
<1>7. PagesCounted'
  <2>1. allocated_pages' = allocated_pages + 1 BY DEF Allocate
  <2>2. allocated_pages + 1 <= DRAM_PAGES
    BY DrawAssumption DEF TablesInv, Tables
  <2> QED BY <1>5, <1>6, <2>1, <2>2 DEF PagesCounted
<1> QED BY <1>3, <1>4, <1>5, <1>7 DEF TablesInv

(* Either way of choosing the frame.                                       *)
LEMMA MinorFaultKeeps ==
  ASSUME TablesInv, NEW k \in Keys, MinorFault(k), recent' \in Keys
  PROVE  TablesInv'
<1>1. k \notin Mapped /\ allocated_pages < DRAM_PAGES
  BY DEF MinorFault
<1>2. CASE InRun /\ Allocate(k, previous_ppage + 1, num_adjacent_page - 1)
  <2>1. previous_ppage + 1 \in Nat /\ num_adjacent_page - 1 \in Nat
    BY <1>2 DEF TablesInv, Tables, InRun
  <2>2. Free(previous_ppage + 1)
    BY <1>2 DEF InRun
  <2> QED BY <1>1, <1>2, <2>1, <2>2, AllocateKeeps
<1>3. CASE \E p \in Frame, run \in Runs : Free(p) /\ Allocate(k, p, run)
  BY <1>1, <1>3, AllocateKeeps, NumbersAssumption
<1> QED BY <1>2, <1>3 DEF MinorFault

(* A major fault: the victim leaves, the new page takes its frame.         *)
LEMMA SwapKeeps ==
  ASSUME TablesInv, NEW c, NEW k \in Keys, Swap(c, k), recent' \in Keys
  PROVE  TablesInv'
<1> USE DEF Mapped
<1>0. PICK victim \in Mapped :
        /\ page_table' = Put(Drop(page_table, victim), k, page_table[victim])
        /\ inverse_table' = [inverse_table EXCEPT ![page_table[victim]] = k]
        /\ page_queue' = Append(Tail(page_queue), k)
  BY DEF Swap
<1>a. /\ k \notin Mapped
      /\ UNCHANGED <<previous_ppage, num_adjacent_page, allocated_pages>>
  BY DEF Swap
<1> DEFINE p == page_table[victim]
<1>b. p \in DOMAIN inverse_table /\ inverse_table[p] = victim /\ p \in Nat
  BY <1>0 DEF TablesInv, MutuallyInverse, Tables
<1>1. /\ DOMAIN page_table' = (DOMAIN page_table \ {victim}) \cup {k}
      /\ page_table'[k] = p
      /\ \A j \in DOMAIN page_table \ {victim} : page_table'[j] = page_table[j]
      /\ page_table' = [j \in DOMAIN page_table' |-> page_table'[j]]
  <2> DEFINE rest == Drop(page_table, victim)
  <2>1. DOMAIN rest = DOMAIN page_table \ {victim}
    BY DEF Drop
  <2>2. \A j \in DOMAIN page_table \ {victim} : rest[j] = page_table[j]
    BY DEF Drop
  <2>0. page_table' = Put(rest, k, p)
    BY <1>0
  <2> HIDE DEF rest, p
  <2>3. /\ DOMAIN page_table' = DOMAIN rest \cup {k}
        /\ page_table'[k] = p
        /\ \A j \in DOMAIN rest : j # k => page_table'[j] = rest[j]
        /\ page_table' = [j \in DOMAIN page_table' |-> page_table'[j]]
    BY <2>0 DEF Put
  <2> QED BY <1>a, <2>1, <2>2, <2>3
<1>2. /\ DOMAIN inverse_table' = DOMAIN inverse_table
      /\ inverse_table'[p] = k
      /\ \A q \in DOMAIN inverse_table : q # p => inverse_table'[q] = inverse_table[q]
      /\ inverse_table' \in [DOMAIN inverse_table' -> Keys]
  BY <1>0, <1>b DEF TablesInv, Tables
<1> HIDE DEF p
<1>3. Tables'
  <2>1. \A j \in DOMAIN page_table' : page_table'[j] \in Nat /\ j \in Keys
    BY <1>1, <1>b DEF TablesInv, Tables
  <2>2. page_table' \in [DOMAIN page_table' -> Nat]
    BY <1>1, <2>1
  <2>3. Len(page_queue) = allocated_pages /\ Cardinality(Mapped) = allocated_pages
    BY DEF TablesInv, PagesCounted
  <2>4. Cardinality(Mapped) # 0
    BY <1>0, FS_EmptySet DEF TablesInv
  <2>5. page_queue' \in Seq(Keys)
    BY <1>0, <2>3, <2>4 DEF TablesInv, Tables
  <2> QED BY <1>a, <1>2, <2>1, <2>2, <2>5 DEF TablesInv, Tables
<1>4. MutuallyInverse'
  <2>1. \A j \in DOMAIN page_table \ {victim} : page_table[j] # p
    BY <1>b, <1>0 DEF TablesInv, MutuallyInverse
  <2>2. \A q \in DOMAIN inverse_table \ {p} : inverse_table[q] # victim
    BY <1>b DEF TablesInv, MutuallyInverse, p
  <2>3. \A j \in DOMAIN page_table' : /\ page_table'[j] \in DOMAIN inverse_table'
                                      /\ inverse_table'[page_table'[j]] = j
    <3> TAKE j \in DOMAIN page_table'
    <3>1. CASE j = k
      BY <3>1, <1>1, <1>2, <1>b
    <3>2. CASE j # k
      <4>1. j \in DOMAIN page_table \ {victim}
        BY <3>2, <1>1
      <4>2. page_table[j] \in DOMAIN inverse_table /\ inverse_table[page_table[j]] = j
        BY <4>1 DEF TablesInv, MutuallyInverse
      <4> QED BY <4>1, <4>2, <2>1, <1>1, <1>2
    <3> QED BY <3>1, <3>2
  <2>4. \A q \in DOMAIN inverse_table' : /\ inverse_table'[q] \in DOMAIN page_table'
                                         /\ page_table'[inverse_table'[q]] = q
    <3> TAKE q \in DOMAIN inverse_table'
    <3>1. CASE q = p
      BY <3>1, <1>1, <1>2
    <3>2. CASE q # p
      <4>1. inverse_table[q] \in Mapped /\ page_table[inverse_table[q]] = q
        BY <1>2 DEF TablesInv, MutuallyInverse
      <4> QED BY <3>2, <4>1, <2>2, <1>1, <1>2
    <3> QED BY <3>1, <3>2
  <2> QED BY <2>3, <2>4 DEF MutuallyInverse
<1>5. IsFiniteSet(DOMAIN page_table') /\ Cardinality(DOMAIN page_table') = allocated_pages
  <2>1. /\ IsFiniteSet(DOMAIN page_table \ {victim})
        /\ Cardinality(DOMAIN page_table \ {victim}) = allocated_pages - 1
    BY <1>0, FS_RemoveElement DEF TablesInv, PagesCounted
  <2> DEFINE rest == DOMAIN page_table \ {victim}
  <2>2. IsFiniteSet(rest) /\ k \notin rest /\ DOMAIN page_table' = rest \cup {k}
    BY <1>1, <1>a, <2>1
  <2> HIDE DEF rest
  <2>3. /\ IsFiniteSet(DOMAIN page_table')
        /\ Cardinality(DOMAIN page_table') = Cardinality(rest) + 1
    BY <2>2, FS_AddElement
  <2> QED BY <2>1, <2>3 DEF TablesInv, Tables, rest
<1>6. PagesCounted'
  <2>1. Len(page_queue) = allocated_pages /\ allocated_pages <= DRAM_PAGES
    BY DEF TablesInv, PagesCounted
  <2>2. Cardinality(Mapped) # 0 /\ Cardinality(Mapped) = allocated_pages
    BY <1>0, FS_EmptySet DEF TablesInv, PagesCounted
  <2>3. Len(page_queue') = allocated_pages
    BY <1>0, <2>1, <2>2 DEF TablesInv, Tables
  <2> QED BY <1>a, <1>5, <2>1, <2>3 DEF PagesCounted
<1> QED BY <1>3, <1>4, <1>5, <1>6 DEF TablesInv

(* va_to_pa keeps the tables.                                              *)
LEMMA VaToPaKeeps ==
  ASSUME TablesInv, NEW c \in Cpu, NEW v \in VPage, VaToPa(c, v)
  PROVE  TablesInv'
<1>1. Key(c, v) \in Keys /\ recent' = Key(c, v)
  BY KeyType DEF VaToPa
<1>2. CASE Found(Key(c, v))
  BY <1>1, <1>2 DEF Found, TablesInv, Tables, MutuallyInverse, PagesCounted, Mapped
<1>3. CASE MinorFault(Key(c, v))
  BY <1>1, <1>3, MinorFaultKeeps
<1>4. CASE Swap(c, Key(c, v))
  BY <1>1, <1>4, SwapKeeps
<1> QED BY <1>2, <1>3, <1>4 DEF VaToPa

(* Every step calls va_to_pa or leaves the tables alone.                   *)
LEMMA StepOfTables ==
  ASSUME [Next]_vars
  PROVE  \/ \E c \in Cpu, v \in VPage : VaToPa(c, v)
         \/ UNCHANGED tables
BY DEF Next, vars, TranslateCode, StlbHit, StlbMiss, StlbFill, DtlbFill, EvictPage, VPage

(* No page is mapped at the start.                                         *)
LEMMA InitTables == Init => TablesInv
<1> SUFFICES ASSUME Init PROVE TablesInv
  OBVIOUS
<1>1. DOMAIN Nothing = {} /\ Nothing = [k \in {} |-> 0]
  BY DEF Nothing
<1>2. Tables
  BY <1>1 DEF Init, Tables, Mapped
<1>3. IsFiniteSet(Mapped) /\ Cardinality(Mapped) = 0
  BY <1>1, FS_EmptySet DEF Init, Mapped
<1>4. PagesCounted
  BY <1>3, DrawAssumption DEF PagesCounted, Init
<1>5. MutuallyInverse
  BY <1>1 DEF MutuallyInverse, Init, Mapped
<1> QED BY <1>2, <1>3, <1>4, <1>5 DEF TablesInv

(* The invariant of the tables for every number of cores, pages and frames.*)
THEOREM TablesAlways == Spec => []TablesInv
<1>1. TablesInv /\ [Next]_vars => TablesInv'
  <2> SUFFICES ASSUME TablesInv, [Next]_vars PROVE TablesInv'
    OBVIOUS
  <2>1. CASE \E c \in Cpu, v \in VPage : VaToPa(c, v)
    BY <2>1, VaToPaKeeps
  <2>2. CASE UNCHANGED tables
    BY <2>2 DEF tables, TablesInv, Tables, MutuallyInverse, PagesCounted, Mapped
  <2> QED BY <2>1, <2>2, StepOfTables
<1> QED BY <1>1, InitTables, PTL DEF Spec

(* page_table and inverse_table are one mapping seen from both sides.      *)
THEOREM OneMapping == Spec => []MutuallyInverse
<1>1. TablesInv => MutuallyInverse
  BY DEF TablesInv
<1> QED BY <1>1, TablesAlways, PTL

(* Pages are counted and never more than there are.                        *)
THEOREM PagesWithinMemory == Spec => []PagesCounted
<1>1. TablesInv => PagesCounted
  BY DEF TablesInv
<1> QED BY <1>1, TablesAlways, PTL

(* What a call of va_to_pa does to the mapped pages: it keeps them all, or *)
(* it is a swap that takes the frame of one of them.                       *)
LEMMA VaToPaFrames ==
  ASSUME TablesInv, NEW c \in Cpu, NEW v \in VPage, VaToPa(c, v)
  PROVE  \/ /\ \A k \in Mapped : k \in DOMAIN page_table' /\ page_table'[k] = page_table[k]
            /\ UNCHANGED <<dtlb, stlb, overtaken>>
         \/ \E victim \in Mapped :
              /\ \A k \in Mapped \ {victim} :
                   k \in DOMAIN page_table' /\ page_table'[k] = page_table[k]
              /\ victim \notin DOMAIN page_table'
              /\ inverse_table'[page_table[victim]] = Key(c, v)
              /\ Invalidate(c, victim)
<1> DEFINE k0 == Key(c, v)
<1>1. CASE Found(k0) /\ UNCHANGED <<dtlb, stlb, overtaken>>
  BY <1>1 DEF Found, Mapped
<1>2. CASE MinorFault(k0) /\ UNCHANGED <<dtlb, stlb, overtaken>>
  <2> HIDE DEF k0
  <2>1. PICK p, run : Allocate(k0, p, run)
    BY <1>2 DEF MinorFault
  <2>2. k0 \notin Mapped
    BY <1>2 DEF MinorFault
  <2> QED BY <1>2, <2>1, <2>2 DEF Allocate, Put, Mapped
<1>3. CASE Swap(c, k0)
  <2> HIDE DEF k0
  <2>0. k0 \notin Mapped
    BY <1>3 DEF Swap
  <2>1. PICK victim \in Mapped :
          /\ page_table' = Put(Drop(page_table, victim), k0, page_table[victim])
          /\ inverse_table' = [inverse_table EXCEPT ![page_table[victim]] = k0]
          /\ Invalidate(c, victim)
    BY <1>3 DEF Swap
  <2>2. DOMAIN page_table' = (Mapped \ {victim}) \cup {k0}
    BY <2>1 DEF Put, Drop, Mapped
  <2>3. \A k \in Mapped \ {victim} : page_table'[k] = page_table[k]
    BY <2>0, <2>1 DEF Put, Drop, Mapped
  <2>4. inverse_table'[page_table[victim]] = k0
    BY <2>1 DEF TablesInv, MutuallyInverse
  <2> QED BY <2>0, <2>1, <2>2, <2>3, <2>4 DEF k0
<1> QED BY <1>1, <1>2, <1>3 DEF VaToPa

(* A page keeps its frame, and a swap moves one page only.                 *)
THEOREM FramesStayPut == Spec => FramesStay
<1>1. TablesInv /\ [Next]_vars => [FramesKept]_vars
  <2> SUFFICES ASSUME TablesInv, [Next]_vars PROVE FramesKept \/ UNCHANGED vars
    OBVIOUS
  <2>1. CASE \E c \in Cpu, v \in VPage : VaToPa(c, v)
    <3>1. PICK c \in Cpu, v \in VPage : VaToPa(c, v)
      BY <2>1
    <3>2. recent' = Key(c, v)
      BY <3>1 DEF VaToPa
    <3> QED BY <3>1, <3>2, VaToPaFrames DEF FramesKept
  <2>2. CASE UNCHANGED tables
    BY <2>2 DEF tables, FramesKept, Mapped
  <2> QED BY <2>1, <2>2, StepOfTables
<1> QED BY <1>1, TablesAlways, PTL DEF Spec, FramesStay
-----------------------------------------------------------------------------
(* The TLBs.                                                               *)
TlbTypes ==
  /\ Translations(dtlb) /\ Translations(stlb)
  /\ Translations(walked) /\ Translations(returned)
  /\ overtaken \in [Cpu -> SUBSET VPage]

(* A TLB or an MSHR with one more translation.                             *)
LEMMA PutTyped ==
  ASSUME NEW f, Translations(f), NEW c \in Cpu, NEW v \in VPage, NEW p \in Nat
  PROVE  Translations([f EXCEPT ![c] = Put(@, v, p)])
<1> DEFINE g == [f EXCEPT ![c] = Put(@, v, p)]
<1>1. DOMAIN g = Cpu /\ g[c] = Put(f[c], v, p) /\ \A d \in Cpu : d # c => g[d] = f[d]
  BY DEF Translations
<1>2. DOMAIN g[c] \subseteq VPage /\ g[c] \in [DOMAIN g[c] -> Nat]
  BY <1>1 DEF Translations, Put
<1>3. \A d \in Cpu : d # c => DOMAIN g[d] \subseteq VPage /\ g[d] \in [DOMAIN g[d] -> Nat]
  BY <1>1 DEF Translations
<1> QED BY <1>1, <1>2, <1>3 DEF Translations

(* A TLB or an MSHR with one translation less.                             *)
LEMMA DropTyped ==
  ASSUME NEW f, Translations(f), NEW c \in Cpu, NEW v
  PROVE  Translations([f EXCEPT ![c] = Drop(@, v)])
<1> DEFINE g == [f EXCEPT ![c] = Drop(@, v)]
<1>1. DOMAIN g = Cpu /\ g[c] = Drop(f[c], v) /\ \A d \in Cpu : d # c => g[d] = f[d]
  BY DEF Translations
<1>2. DOMAIN g[c] \subseteq VPage /\ g[c] \in [DOMAIN g[c] -> Nat]
  BY <1>1 DEF Translations, Drop
<1>3. \A d \in Cpu : d # c => DOMAIN g[d] \subseteq VPage /\ g[d] \in [DOMAIN g[d] -> Nat]
  BY <1>1 DEF Translations
<1> QED BY <1>1, <1>2, <1>3 DEF Translations

(* Invalidation keeps the types.                                           *)
LEMMA InvalidateTyped ==
  ASSUME TlbTypes, NEW c \in Cpu, NEW victim, Invalidate(c, victim)
  PROVE  Translations(dtlb)' /\ Translations(stlb)' /\ overtaken' \in [Cpu -> SUBSET VPage]
<1>1. Translations(dtlb)'
  BY DropTyped DEF TlbTypes, Invalidate
<1>2. Translations(stlb)'
  BY DropTyped DEF TlbTypes, Invalidate
<1>3. DOMAIN walked[c] \subseteq VPage /\ DOMAIN returned[c] \subseteq VPage
  BY DEF TlbTypes, Translations
<1>4. overtaken' \in [Cpu -> SUBSET VPage]
  BY <1>3 DEF TlbTypes, Invalidate
<1> QED BY <1>1, <1>2, <1>4

(* So does va_to_pa.                                                       *)
LEMMA VaToPaTyped ==
  ASSUME TablesInv, TlbTypes, NEW c \in Cpu, NEW v \in VPage, VaToPa(c, v)
  PROVE  Translations(dtlb)' /\ Translations(stlb)' /\ overtaken' \in [Cpu -> SUBSET VPage]
<1>1. CASE UNCHANGED <<dtlb, stlb, overtaken>>
  BY <1>1 DEF TlbTypes, Translations
<1>2. CASE \E victim \in Mapped : Invalidate(c, victim)
  BY <1>2, InvalidateTyped
<1> QED BY <1>1, <1>2, VaToPaFrames

(* After va_to_pa the page is mapped.                                      *)
LEMMA VaToPaMaps ==
  ASSUME TablesInv, NEW c \in Cpu, NEW v \in VPage, VaToPa(c, v)
  PROVE  Key(c, v) \in DOMAIN page_table' /\ page_table'[Key(c, v)] \in Nat
<1>1. Key(c, v) \in DOMAIN page_table'
  <2>1. CASE Found(Key(c, v))
    BY <2>1 DEF Found, Mapped
  <2>2. CASE MinorFault(Key(c, v))
    BY <2>2 DEF MinorFault, Allocate, Put
  <2>3. CASE Swap(c, Key(c, v))
    BY <2>3 DEF Swap, Put
  <2> QED BY <2>1, <2>2, <2>3 DEF VaToPa
<1>2. Tables'
  BY VaToPaKeeps DEF TablesInv
<1> QED BY <1>1, <1>2 DEF Tables, Mapped

(* The cases of Next, with the pages that each may be about.               *)
LEMMA StepCases ==
  ASSUME [Next]_vars
  PROVE  \/ \E c \in Cpu, v \in VPage :
              \/ TranslateCode(c, v)
              \/ StlbHit(c, v)
              \/ StlbMiss(c, v)
              \/ StlbFill(c, v)
              \/ DtlbFill(c, v)
              \/ EvictPage(c, v)
         \/ UNCHANGED vars
BY DEF Next, VPage

(* The types of the TLBs through every step.                               *)
LEMMA TlbTypesKept ==
  ASSUME TablesInv, TlbTypes, [Next]_vars
  PROVE  TlbTypes'
<1> USE DEF TlbTypes
<1>0. CASE UNCHANGED vars
  BY <1>0 DEF vars, tlbs, Translations
<1> SUFFICES ASSUME NEW c \in Cpu, NEW v \in VPage,
                    \/ TranslateCode(c, v)
                    \/ StlbHit(c, v)
                    \/ StlbMiss(c, v)
                    \/ StlbFill(c, v)
                    \/ DtlbFill(c, v)
                    \/ EvictPage(c, v)
             PROVE  TlbTypes'
  BY <1>0, StepCases
<1>1. CASE TranslateCode(c, v)
  BY <1>1, VaToPaTyped DEF TranslateCode, Translations
<1>2. CASE StlbHit(c, v)
  <2>1. stlb[c][v] \in Nat
    BY <1>2 DEF StlbHit, Translations
  <2>2. Translations(returned)'
    BY <1>2, <2>1, PutTyped DEF StlbHit
  <2> QED BY <1>2, <2>2 DEF StlbHit, Translations
<1>3. CASE StlbMiss(c, v)
  <2>1. VaToPa(c, v)
    BY <1>3 DEF StlbMiss
  <2>2. Translations(walked)'
    BY <1>3, <2>1, VaToPaMaps, PutTyped DEF StlbMiss
  <2> QED BY <1>3, <2>1, <2>2, VaToPaTyped DEF StlbMiss, Translations
<1>4. CASE StlbFill(c, v)
  <2>1. walked[c][v] \in Nat
    BY <1>4 DEF StlbFill, Translations
  <2>2. Translations(stlb)'
    BY <1>4, <2>1, PutTyped DEF StlbFill
  <2>3. Translations(returned)'
    BY <1>4, <2>1, PutTyped DEF StlbFill
  <2>4. Translations(walked)'
    BY <1>4, DropTyped DEF StlbFill
  <2> QED BY <1>4, <2>2, <2>3, <2>4 DEF StlbFill, Translations
<1>5. CASE DtlbFill(c, v)
  <2>1. returned[c][v] \in Nat
    BY <1>5 DEF DtlbFill, Translations
  <2>2. Translations(dtlb)'
    BY <1>5, <2>1, PutTyped DEF DtlbFill
  <2>3. Translations(returned)'
    BY <1>5, DropTyped DEF DtlbFill
  <2> QED BY <1>5, <2>2, <2>3 DEF DtlbFill, Translations
<1>6. CASE EvictPage(c, v)
  <2>1. Translations(dtlb)'
    <3>1. CASE dtlb' = dtlb
      BY <3>1 DEF Translations
    <3>2. CASE dtlb' = [dtlb EXCEPT ![c] = Drop(@, v)]
      BY <3>2, DropTyped
    <3> QED BY <1>6, <3>1, <3>2 DEF EvictPage
  <2>2. Translations(stlb)'
    <3>1. CASE stlb' = stlb
      BY <3>1 DEF Translations
    <3>2. CASE stlb' = [stlb EXCEPT ![c] = Drop(@, v)]
      BY <3>2, DropTyped
    <3> QED BY <1>6, <3>1, <3>2 DEF EvictPage
  <2> QED BY <1>6, <2>1, <2>2 DEF EvictPage, Translations
<1> QED BY <1>1, <1>2, <1>3, <1>4, <1>5, <1>6

(* No TLB holds anything at the start.                                     *)
LEMMA InitTlbs == Init => TlbTypes
<1>1. DOMAIN Nothing = {} /\ Nothing \in [{} -> Nat]
  BY DEF Nothing
<1> QED BY <1>1 DEF Init, TlbTypes, Translations

(* The type invariant, for every number of cores, pages and frames.        *)
THEOREM TypeCorrect == Spec => []TypeOK
<1>1. TablesInv /\ TlbTypes /\ [Next]_vars => TlbTypes'
  BY TlbTypesKept
<1>2. TablesInv /\ TlbTypes => TypeOK
  BY DEF TablesInv, Tables, TlbTypes, TypeOK
<1> QED BY <1>1, <1>2, InitTlbs, TablesAlways, PTL DEF Spec

-----------------------------------------------------------------------------
(* One core.                                                               *)

(* What a TLB or an MSHR holds is what the page table says, but for pages  *)
(* a swap has overtaken.                                                   *)
AgreesBut(f) == \A c \in Cpu : \A v \in DOMAIN f[c] \ overtaken[c] : Agrees(c, f, v)

AgreeInv ==
  AgreesBut(dtlb) /\ AgreesBut(stlb) /\ AgreesBut(walked) /\ AgreesBut(returned)

(* With one core the key of a page is its number, the tag in the TLBs.     *)
LEMMA KeyIsPage ==
  ASSUME Cpu = {0}, NEW c \in Cpu, NEW v \in VPage
  PROVE  Key(c, v) = v
<1>1. c = 0 /\ v \in Nat
  BY NumbersAssumption
<1> QED BY <1>1, NumbersAssumption DEF Key

(* va_to_pa leaves the TLBs and the MSHRs in agreement with the tables.    *)
LEMMA VaToPaAgrees ==
  ASSUME Cpu = {0}, TablesInv, TlbTypes, AgreeInv,
         NEW c \in Cpu, NEW v \in VPage, VaToPa(c, v),
         NEW f \in {walked, returned}
  PROVE  /\ AgreesBut(dtlb)' /\ AgreesBut(stlb)'
         /\ \A u \in DOMAIN f[c] \ overtaken'[c] :
              Key(c, u) \in DOMAIN page_table' /\ page_table'[Key(c, u)] = f[c][u]
         /\ overtaken[c] \subseteq overtaken'[c]
<1> USE DEF AgreeInv
<1>0. \A d \in Cpu : d = c
  OBVIOUS
<1>1. CASE /\ \A k \in Mapped : k \in DOMAIN page_table' /\ page_table'[k] = page_table[k]
           /\ UNCHANGED <<dtlb, stlb, overtaken>>
  BY <1>1 DEF AgreesBut, Agrees, Mapped
<1>2. CASE \E victim \in Mapped :
              /\ \A k \in Mapped \ {victim} :
                   k \in DOMAIN page_table' /\ page_table'[k] = page_table[k]
              /\ victim \notin DOMAIN page_table'
              /\ Invalidate(c, victim)
  <2>1. PICK victim \in Mapped :
              /\ \A k \in Mapped \ {victim} :
                   k \in DOMAIN page_table' /\ page_table'[k] = page_table[k]
              /\ Invalidate(c, victim)
    BY <1>2
  <2>2. overtaken'[c] = overtaken[c] \cup
          ({victim} \cap (DOMAIN walked[c] \cup DOMAIN returned[c]))
    BY <2>1 DEF Invalidate, TlbTypes
  <2>3. dtlb'[c] = Drop(dtlb[c], victim) /\ stlb'[c] = Drop(stlb[c], victim)
    BY <2>1 DEF Invalidate, TlbTypes, Translations
  <2>4. \A u \in VPage \ {victim} : Key(c, u) \in Mapped =>
          Key(c, u) \in DOMAIN page_table' /\ page_table'[Key(c, u)] = page_table[Key(c, u)]
    BY <2>1, KeyIsPage
  <2>5. AgreesBut(dtlb)'
    <3> SUFFICES ASSUME NEW u \in DOMAIN dtlb'[c] \ overtaken'[c]
                 PROVE  Agrees(c, dtlb, u)'
      BY <1>0 DEF AgreesBut
    <3>1. u \in DOMAIN dtlb[c] \ overtaken[c] /\ u # victim /\ dtlb'[c][u] = dtlb[c][u]
      BY <2>2, <2>3 DEF Drop
    <3>2. u \in VPage
      BY <3>1 DEF TlbTypes, Translations
    <3> QED BY <3>1, <3>2, <2>4 DEF AgreesBut, Agrees, Mapped
  <2>6. AgreesBut(stlb)'
    <3> SUFFICES ASSUME NEW u \in DOMAIN stlb'[c] \ overtaken'[c]
                 PROVE  Agrees(c, stlb, u)'
      BY <1>0 DEF AgreesBut
    <3>1. u \in DOMAIN stlb[c] \ overtaken[c] /\ u # victim /\ stlb'[c][u] = stlb[c][u]
      BY <2>2, <2>3 DEF Drop
    <3>2. u \in VPage
      BY <3>1 DEF TlbTypes, Translations
    <3> QED BY <3>1, <3>2, <2>4 DEF AgreesBut, Agrees, Mapped
  <2>7. ASSUME NEW u \in DOMAIN f[c] \ overtaken'[c]
        PROVE  Key(c, u) \in DOMAIN page_table' /\ page_table'[Key(c, u)] = f[c][u]
    <3>1. u # victim /\ u \notin overtaken[c]
      BY <2>2, <2>7
    <3>2. u \in VPage
      BY <2>7 DEF TlbTypes, Translations
    <3>3. Agrees(c, f, u)
      BY <2>7, <3>1 DEF AgreesBut
    <3> QED BY <3>1, <3>2, <3>3, <2>4 DEF Agrees, Mapped
  <2> QED BY <2>2, <2>5, <2>6, <2>7
<1> QED BY <1>1, <1>2, VaToPaFrames

(* The agreement through every step.                                       *)
LEMMA AgreeKept ==
  ASSUME Cpu = {0}, TablesInv, TlbTypes, AgreeInv, [Next]_vars
  PROVE  AgreeInv'
<1>0. CASE UNCHANGED vars
  BY <1>0 DEF vars, tables, tlbs, AgreeInv, AgreesBut, Agrees, Mapped
<1> SUFFICES ASSUME NEW c \in Cpu, NEW v \in VPage,
                    \/ TranslateCode(c, v)
                    \/ StlbHit(c, v)
                    \/ StlbMiss(c, v)
                    \/ StlbFill(c, v)
                    \/ DtlbFill(c, v)
                    \/ EvictPage(c, v)
             PROVE  AgreeInv'
  BY <1>0, StepCases
<1>a. \A d \in Cpu : d = c
  OBVIOUS
<1>1. CASE TranslateCode(c, v)
  <2>1. VaToPa(c, v) /\ UNCHANGED <<walked, returned>>
    BY <1>1 DEF TranslateCode
  <2>2. AgreesBut(dtlb)' /\ AgreesBut(stlb)'
    BY <2>1, VaToPaAgrees
  <2>3. AgreesBut(walked)'
    BY <2>1, <1>a, VaToPaAgrees DEF AgreesBut, Agrees, Mapped
  <2>4. AgreesBut(returned)'
    BY <2>1, <1>a, VaToPaAgrees DEF AgreesBut, Agrees, Mapped
  <2> QED BY <2>2, <2>3, <2>4 DEF AgreeInv
<1>2. CASE StlbHit(c, v)
  <2>1. returned'[c] = Put(returned[c], v, stlb[c][v])
    BY <1>2 DEF StlbHit, TlbTypes, Translations
  <2>2. v \in DOMAIN stlb[c]
    BY <1>2 DEF StlbHit
  <2>3. UNCHANGED <<page_table, dtlb, stlb, walked, overtaken>>
    BY <1>2 DEF StlbHit, tables
  <2>4. AgreesBut(returned)'
    BY <1>a, <2>1, <2>2, <2>3 DEF AgreeInv, AgreesBut, Agrees, Mapped, Put
  <2> QED BY <2>3, <2>4 DEF AgreeInv, AgreesBut, Agrees, Mapped
<1>3. CASE StlbMiss(c, v)
  <2>1. VaToPa(c, v) /\ UNCHANGED returned
    BY <1>3 DEF StlbMiss
  <2>2. AgreesBut(dtlb)' /\ AgreesBut(stlb)'
    BY <2>1, VaToPaAgrees
  <2>3. walked'[c] = Put(walked[c], v, page_table'[Key(c, v)])
    BY <1>3 DEF StlbMiss, TlbTypes, Translations
  <2>4. Key(c, v) \in DOMAIN page_table'
    BY <2>1, VaToPaMaps
  <2>5. \A u \in DOMAIN walked[c] \ overtaken'[c] :
          Key(c, u) \in DOMAIN page_table' /\ page_table'[Key(c, u)] = walked[c][u]
    BY <2>1, VaToPaAgrees
  <2>6. AgreesBut(walked)'
    BY <1>a, <2>3, <2>4, <2>5 DEF AgreesBut, Agrees, Mapped, Put
  <2>7. AgreesBut(returned)'
    BY <2>1, <1>a, VaToPaAgrees DEF AgreesBut, Agrees, Mapped
  <2> QED BY <2>2, <2>6, <2>7 DEF AgreeInv
<1>4. CASE StlbFill(c, v)
  <2>1. /\ stlb'[c] = Put(stlb[c], v, walked[c][v])
        /\ returned'[c] = Put(returned[c], v, walked[c][v])
        /\ walked'[c] = Drop(walked[c], v)
    BY <1>4 DEF StlbFill, TlbTypes, Translations
  <2>2. v \in DOMAIN walked[c] /\ UNCHANGED <<page_table, dtlb, overtaken>>
    BY <1>4 DEF StlbFill, tables
  <2>3. AgreesBut(stlb)'
    BY <1>a, <2>1, <2>2 DEF AgreeInv, AgreesBut, Agrees, Mapped, Put
  <2>4. AgreesBut(returned)'
    BY <1>a, <2>1, <2>2 DEF AgreeInv, AgreesBut, Agrees, Mapped, Put
  <2>5. AgreesBut(walked)'
    BY <1>a, <2>1, <2>2 DEF AgreeInv, AgreesBut, Agrees, Mapped, Drop
  <2> QED BY <2>2, <2>3, <2>4, <2>5 DEF AgreeInv, AgreesBut, Agrees, Mapped
<1>5. CASE DtlbFill(c, v)
  <2>1. /\ dtlb'[c] = Put(dtlb[c], v, returned[c][v])
        /\ returned'[c] = Drop(returned[c], v)
    BY <1>5 DEF DtlbFill, TlbTypes, Translations
  <2>2. v \in DOMAIN returned[c] /\ UNCHANGED <<page_table, stlb, walked, overtaken>>
    BY <1>5 DEF DtlbFill, tables
  <2>3. AgreesBut(dtlb)'
    BY <1>a, <2>1, <2>2 DEF AgreeInv, AgreesBut, Agrees, Mapped, Put
  <2>4. AgreesBut(returned)'
    BY <1>a, <2>1, <2>2 DEF AgreeInv, AgreesBut, Agrees, Mapped, Drop
  <2> QED BY <2>2, <2>3, <2>4 DEF AgreeInv, AgreesBut, Agrees, Mapped
<1>6. CASE EvictPage(c, v)
  <2>1. UNCHANGED <<page_table, walked, returned, overtaken>>
    BY <1>6 DEF EvictPage, tables
  <2>2. dtlb' = dtlb \/ dtlb'[c] = Drop(dtlb[c], v)
    BY <1>6 DEF EvictPage, TlbTypes, Translations
  <2>3. stlb' = stlb \/ stlb'[c] = Drop(stlb[c], v)
    BY <1>6 DEF EvictPage, TlbTypes, Translations
  <2>4. AgreesBut(dtlb)'
    BY <1>a, <2>1, <2>2 DEF AgreeInv, AgreesBut, Agrees, Mapped, Drop
  <2>5. AgreesBut(stlb)'
    BY <1>a, <2>1, <2>3 DEF AgreeInv, AgreesBut, Agrees, Mapped, Drop
  <2> QED BY <2>1, <2>4, <2>5 DEF AgreeInv, AgreesBut, Agrees, Mapped
<1> QED BY <1>1, <1>2, <1>3, <1>4, <1>5, <1>6

(* With one core, and any number of pages and frames, a TLB disagrees with *)
(* the page table only about pages whose walk a swap has overtaken.        *)
THEOREM OneCoreTlbs ==
  ASSUME Cpu = {0}
  PROVE  Spec => []TlbAgrees
<1>1. Init => AgreeInv
  BY DEF Init, AgreeInv, AgreesBut, Nothing
<1>2. TablesInv /\ TlbTypes /\ AgreeInv /\ [Next]_vars => AgreeInv'
  BY AgreeKept
<1>3. TablesInv /\ TlbTypes /\ [Next]_vars => TlbTypes'
  BY TlbTypesKept
<1>4. AgreeInv => TlbAgrees
  BY DEF AgreeInv, AgreesBut, TlbAgrees
<1> QED BY <1>1, <1>2, <1>3, <1>4, InitTlbs, TablesAlways, PTL DEF Spec
=============================================================================
