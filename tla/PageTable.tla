----------------------------- MODULE PageTable -----------------------------
(***************************************************************************)
(* Virtual memory of the simulator: va_to_pa of src/main.cc with its       *)
(* page_table, inverse_table and page_queue, and the translations that a   *)
(* DTLB and an STLB of each core keep or are about to keep.  Instructions  *)
(* are translated where they are read (ooo_cpu.cc:467), data by a miss of  *)
(* the STLB (cache.cc:692), so a swap can come between a walk and the two  *)
(* fills that follow it.                                                   *)
(***************************************************************************)
EXTENDS Integers, FiniteSets, Sequences

CONSTANTS
  Cpu,       \* the cores, numbered from 0
  CodePage,  \* virtual page numbers of a core that hold instructions
  DataPage,  \* and those that hold data
  Span,      \* the weight of the core's number in a key of page_table
  Frame,     \* what draw_rand() may answer
  DRAM_PAGES,
  Runs       \* the lengths 1 << (rand() % 10) of a run of adjacent frames

VPage == CodePage \cup DataPage

ASSUME NumbersAssumption ==
  /\ Cpu \subseteq Nat /\ VPage \subseteq Nat /\ Frame \subseteq Nat
  /\ Span \in Nat /\ \A v \in VPage : v < Span
  /\ Runs \subseteq Nat \ {0}

ASSUME DrawAssumption == DRAM_PAGES \in Nat \ {0}

(* vpage = unique_vpage | rotr64(cpu, lg2(NUM_CPUS)): the core is in the   *)
(* highest bits.                                                           *)
Key(c, v) == c * Span + v

Keys == {Key(c, v) : c \in Cpu, v \in VPage}

VARIABLES
  page_table, inverse_table, page_queue,
  previous_ppage, num_adjacent_page, allocated_pages,
  recent,      \* history: the key of the latest call of va_to_pa, or -1
  dtlb, stlb,  \* per core, the pages its TLBs translate
  walked,      \* per core, the entries of STLB's MSHR with their data
  returned,    \* per core, the entries of DTLB's MSHR with their data
  overtaken    \* history: per core, pages swapped out of the core's own
               \* tables while a walk of theirs was on its way to a TLB

tables == <<page_table, inverse_table, page_queue, previous_ppage,
            num_adjacent_page, allocated_pages, recent>>
tlbs == <<dtlb, stlb, walked, returned, overtaken>>
vars == <<tables, tlbs>>

Mapped == DOMAIN page_table
Nothing == [v \in {} |-> 0]

Init ==
  /\ page_table = Nothing /\ inverse_table = Nothing /\ page_queue = <<>>
  /\ previous_ppage = 0 /\ num_adjacent_page = 0 /\ allocated_pages = 0
  /\ recent = -1
  /\ dtlb = [c \in Cpu |-> Nothing] /\ stlb = [c \in Cpu |-> Nothing]
  /\ walked = [c \in Cpu |-> Nothing] /\ returned = [c \in Cpu |-> Nothing]
  /\ overtaken = [c \in Cpu |-> {}]

Put(f, x, y) == [z \in DOMAIN f \cup {x} |-> IF z = x THEN y ELSE f[z]]
Drop(f, x) == [z \in DOMAIN f \ {x} |-> f[z]]

-----------------------------------------------------------------------------
(* va_to_pa.                                                               *)

(* The TLBs of the core that asks lose the page whose tag is the whole key *)
(* of the victim; their tags have no core bits (cache.cc, invalidate_entry *)
(* with NRU_vpage).                                                        *)
MutInvalidateStlb(c, victim) ==
  /\ dtlb' = [dtlb EXCEPT ![c] = Drop(@, victim)]
  /\ stlb' = stlb
  /\ overtaken' = [overtaken EXCEPT ![c] =
       @ \cup ({victim} \cap (DOMAIN walked[c] \cup DOMAIN returned[c]))]

Invalidate(c, victim) ==
  /\ dtlb' = [dtlb EXCEPT ![c] = Drop(@, victim)]
  /\ stlb' = [stlb EXCEPT ![c] = Drop(@, victim)]
  /\ overtaken' = [overtaken EXCEPT ![c] =
       @ \cup ({victim} \cap (DOMAIN walked[c] \cup DOMAIN returned[c]))]

(* Found in the table.                                                     *)
Found(k) ==
  /\ k \in Mapped
  /\ UNCHANGED <<page_table, inverse_table, page_queue, previous_ppage,
                 num_adjacent_page, allocated_pages>>

(* The page that gives up its frame: the first key of the map that is not  *)
(* in recent_page, and nothing is ever put into recent_page.               *)
IsVictim(k) == k \in Mapped /\ \A j \in Mapped : k <= j

MutSwapNoInverse(c, k) ==
  /\ k \notin Mapped
  /\ allocated_pages >= DRAM_PAGES
  /\ \E victim \in Mapped :
       /\ IsVictim(victim)
       /\ page_table' = Put(Drop(page_table, victim), k, page_table[victim])
       /\ inverse_table' = inverse_table
       /\ page_queue' = Append(Tail(page_queue), k)
       /\ Invalidate(c, victim)
  /\ UNCHANGED <<previous_ppage, num_adjacent_page, allocated_pages>>

(* A major fault: the frame of the victim goes to the new page.            *)
Swap(c, k) ==
  /\ k \notin Mapped
  /\ allocated_pages >= DRAM_PAGES
  /\ \E victim \in Mapped :
       /\ IsVictim(victim)
       /\ page_table' = Put(Drop(page_table, victim), k, page_table[victim])
       /\ inverse_table' = [inverse_table EXCEPT ![page_table[victim]] = k]
       /\ page_queue' = Append(Tail(page_queue), k)
       /\ Invalidate(c, victim)
  /\ UNCHANGED <<previous_ppage, num_adjacent_page, allocated_pages>>

MutFreeLatest(p) == p # previous_ppage
Free(p) == p \notin DOMAIN inverse_table

(* A minor fault: the next frame of the run, or, when there is no run or   *)
(* it has met a frame in use, a random free one that begins a new run.     *)
Allocate(k, p, run) ==
  /\ page_table' = Put(page_table, k, p)
  /\ inverse_table' = Put(inverse_table, p, k)
  /\ page_queue' = Append(page_queue, k)
  /\ previous_ppage' = p
  /\ num_adjacent_page' = run
  /\ allocated_pages' = allocated_pages + 1

MutInRun == num_adjacent_page >= 0 /\ Free(previous_ppage + 1)
InRun == num_adjacent_page > 0 /\ Free(previous_ppage + 1)

MinorFault(k) ==
  /\ k \notin Mapped
  /\ allocated_pages < DRAM_PAGES
  /\ \/ /\ InRun
        /\ Allocate(k, previous_ppage + 1, num_adjacent_page - 1)
     \/ /\ ~InRun
        /\ \E p \in Frame, run \in Runs : Free(p) /\ Allocate(k, p, run)

VaToPa(c, v) ==
  /\ recent' = Key(c, v)
  /\ \/ Found(Key(c, v)) /\ UNCHANGED <<dtlb, stlb, overtaken>>
     \/ MinorFault(Key(c, v)) /\ UNCHANGED <<dtlb, stlb, overtaken>>
     \/ Swap(c, Key(c, v))

-----------------------------------------------------------------------------
(* Instructions and code prefetches are translated on the spot.            *)
TranslateCode(c, v) ==
  /\ VaToPa(c, v)
  /\ UNCHANGED <<walked, returned>>

(* STLB.handle_read for a miss of the DTLB.                                *)
Awaited(c, v) == v \notin DOMAIN dtlb[c] /\ v \notin DOMAIN returned[c]

StlbHit(c, v) ==
  /\ Awaited(c, v) /\ v \in DOMAIN stlb[c]
  /\ returned' = [returned EXCEPT ![c] = Put(@, v, stlb[c][v])]
  /\ UNCHANGED <<tables, dtlb, stlb, walked, overtaken>>

(* There is nothing below the STLB: the page table is read at once, and    *)
(* the answer waits in the MSHR for handle_fill.                           *)
StlbMiss(c, v) ==
  /\ Awaited(c, v) /\ v \notin DOMAIN stlb[c] /\ v \notin DOMAIN walked[c]
  /\ VaToPa(c, v)
  /\ walked' = [walked EXCEPT ![c] = Put(@, v, page_table'[Key(c, v)])]
  /\ UNCHANGED returned

(* handle_fill of the STLB, which answers the DTLB.                        *)
StlbFill(c, v) ==
  /\ v \in DOMAIN walked[c]
  /\ stlb' = [stlb EXCEPT ![c] = Put(@, v, walked[c][v])]
  /\ returned' = [returned EXCEPT ![c] = Put(@, v, walked[c][v])]
  /\ walked' = [walked EXCEPT ![c] = Drop(@, v)]
  /\ UNCHANGED <<tables, dtlb, overtaken>>

DtlbFill(c, v) ==
  /\ v \in DOMAIN returned[c]
  /\ dtlb' = [dtlb EXCEPT ![c] = Put(@, v, returned[c][v])]
  /\ returned' = [returned EXCEPT ![c] = Drop(@, v)]
  /\ UNCHANGED <<tables, stlb, walked, overtaken>>

(* A fill takes the way of another page.                                   *)
EvictPage(c, v) ==
  /\ \/ /\ v \in DOMAIN dtlb[c]
        /\ dtlb' = [dtlb EXCEPT ![c] = Drop(@, v)]
        /\ UNCHANGED stlb
     \/ /\ v \in DOMAIN stlb[c]
        /\ stlb' = [stlb EXCEPT ![c] = Drop(@, v)]
        /\ UNCHANGED dtlb
  /\ UNCHANGED <<tables, walked, returned, overtaken>>

Next == \E c \in Cpu :
  \/ \E v \in CodePage : TranslateCode(c, v)
  \/ \E v \in DataPage : \/ StlbHit(c, v)
                          \/ StlbMiss(c, v)
                          \/ StlbFill(c, v)
                          \/ DtlbFill(c, v)
                          \/ EvictPage(c, v)

Spec == Init /\ [][Next]_vars
-----------------------------------------------------------------------------
(* The type invariant of va_to_pa's tables and of the TLBs.                *)
Translations(tlb) ==
  /\ DOMAIN tlb = Cpu
  /\ \A c \in Cpu : /\ DOMAIN tlb[c] \subseteq VPage
                    /\ tlb[c] \in [DOMAIN tlb[c] -> Nat]

TypeOK ==
  /\ Mapped \subseteq Keys /\ page_table \in [Mapped -> Nat]
  /\ inverse_table \in [DOMAIN inverse_table -> Keys]
  /\ DOMAIN inverse_table \subseteq Nat
  /\ page_queue \in Seq(Keys)
  /\ previous_ppage \in Nat /\ num_adjacent_page \in Nat
  /\ allocated_pages \in Nat
  /\ recent \in Keys \cup {-1}
  /\ Translations(dtlb) /\ Translations(stlb)
  /\ Translations(walked) /\ Translations(returned)
  /\ overtaken \in [Cpu -> SUBSET VPage]

(* page_table and inverse_table describe one mapping, through minor faults *)
(* (main.cc:419-475) and swaps (main.cc:388-401): no frame has two pages,  *)
(* and the find() of a swap cannot come back empty.                        *)
MutuallyInverse ==
  /\ \A k \in Mapped : /\ page_table[k] \in DOMAIN inverse_table
                       /\ inverse_table[page_table[k]] = k
  /\ \A p \in DOMAIN inverse_table : /\ inverse_table[p] \in Mapped
                                     /\ page_table[inverse_table[p]] = p

(* allocated_pages counts the mapped pages and stays within the memory     *)
(* (main.cc:358); page_queue has one place for each, so its pop() in a     *)
(* swap (main.cc:404) never finds it empty.                                *)
PagesCounted ==
  /\ Cardinality(Mapped) = allocated_pages
  /\ Len(page_queue) = allocated_pages
  /\ allocated_pages <= DRAM_PAGES

(* A page keeps its frame for as long as it is mapped, and when it loses   *)
(* it, to the page that asks (main.cc:388-401), no other mapping moves.    *)
FramesKept ==
  /\ \A k \in Mapped : k \in DOMAIN page_table' => page_table'[k] = page_table[k]
  /\ \A k, j \in Mapped \ DOMAIN page_table' : k = j
  /\ \A k \in Mapped \ DOMAIN page_table' : inverse_table'[page_table[k]] = recent'

FramesStay == [][FramesKept]_vars

Agrees(c, tlb, v) == Key(c, v) \in Mapped /\ page_table[Key(c, v)] = tlb[c][v]

(* The only translations of a TLB that the page table no longer holds are  *)
(* those a swap overtook between the walk and the fill: invalidate_entry   *)
(* at main.cc:408-410 takes every other one with it.                       *)
TlbAgrees == \A c \in Cpu :
  /\ \A v \in DOMAIN dtlb[c] \ overtaken[c] : Agrees(c, dtlb, v)
  /\ \A v \in DOMAIN stlb[c] \ overtaken[c] : Agrees(c, stlb, v)

(* "invalidate corresponding vpage and ppage from the cache hierarchy"     *)
(* (main.cc:407): a TLB never holds a page that has been swapped out.      *)
TlbCoherent == \A c \in Cpu :
  /\ \A v \in DOMAIN dtlb[c] : Agrees(c, dtlb, v)
  /\ \A v \in DOMAIN stlb[c] : Agrees(c, stlb, v)
=============================================================================
