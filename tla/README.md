# Models of the ChampSim-based simulator in `src/champsim`

`src/champsim` is a trace-driven, cycle-level simulator of one or more
out-of-order cores with a three-level cache hierarchy, TLBs and a DRAM
controller, extended with a data-flow graph of the instructions that lead to
cache misses.  This directory holds TLA+ models of it, the TLC configurations
that check them, and TLAPS proofs.

The program is sequential, but it simulates concurrency: `main()` calls, in
every cycle, handlers of many components, each of which does a little work on
shared queues and calls into its neighbours.  What is hard to test here is what
is hard in a concurrent system: the order in which requests meet in a queue or
a miss-status register, full queues, answers that cross, and work that is
started and then undone.

## 1. Inventory

| Component | Source | State | Operations | Talks to |
|---|---|---|---|---|
| Packet queue | `src/block.cc`, `inc/block.h` | ring `entry`, `head`, `tail`, `occupancy` | `check_queue`, `add_queue`, `remove_queue` | used by every cache and by DRAM |
| Cache | `src/cache.cc`, `inc/cache.h` | `block`, `RQ`, `WQ`, `PQ`, `MSHR`, `PROCESSED` | `handle_read`, `handle_writeback`, `handle_prefetch`, `handle_fill`; `add_rq/wq/pq`, `return_data`, `prefetch_line`, `invalidate_entry` | lower level by `add_*`, upper levels by `return_data`, core by `PROCESSED` |
| DRAM controller | `src/dram_controller.cc` | `RQ`, `WQ`, `bank_request`, `dbus_cycle_available`, `write_mode`, counters, cached `next_*` | `operate` (`schedule`, `process`, turn-around), `add_rq`, `add_wq` | LLC |
| Out-of-order core | `src/ooo_cpu.cc`, `inc/ooo_cpu.h` | `ROB`, `LQ`, `SQ`, `RTE0/1`, `RTL0/1`, `RTS0/1`, `STA`, dependence sets | schedule, execute, `operate_lsq`, `execute_store/load`, `complete_*`, `retire_rob` | TLBs and L1 caches |
| Front end | `src/ooo_cpu.cc` | `IFETCH_BUFFER`, `DECODE_BUFFER`, `fetch_stall`, `fetch_resume_cycle`, `STA` | `read_from_trace`, `fetch_instruction`, `complete_instr_fetch`, `decode_and_dispatch` | branch predictor, L1I, `va_to_pa`, ROB |
| Page table | `src/main.cc` | `page_table`, `inverse_table`, `page_queue`, run of adjacent frames | `va_to_pa` with minor fault, swap, invalidation | trace reader, STLB, every cache |
| Simulation loop | `src/main.cc` | `current_core_cycle`, `stall_cycle`, warmup and completion flags | `main`, `finish_warmup`, deadlock check | everything |
| Branch predictors | `branch/*.bpred` | counters, histories | `predict_branch`, `last_branch_result` | front end |
| Prefetchers | `prefetcher/*` | their tables | `*_prefetcher_operate`, `*_cache_fill` | `prefetch_line` of their cache |
| Replacement | `replacement/*` | `lru`, RRPV, PSEL, SHCT | `find_victim`, `update_replacement_state` | caches |
| Data-flow graph | `src/builder.cc`, `src/graph.cc` | `window`, the graph, the list of misses | `update_graph`, `build_graph` | called by L2C's `operate`; reads `current_instr` of the core |
| `fastset` | `inc/set.h` | array or bit vector | `insert`, `search`, `join`, `expand` | dependence sets of core and packets |
| Tracer | `tracer/champsim_tracer.cpp` | `curr_instr`, counters, the file | the analysis routines, `Fini` | Pin; writes what the front end reads |
| Scripts | `../analysis`, `scripts/` | - | report parsing, plots | - |

Behaviours that are hard to get right, and the properties that make each
component correct:

* *Queues*: the scan of a ring that wraps or is full visits the live entries and
  no other.
* *Caches*: a miss keeps an obligation to every level and every instruction that
  waits for it, through merges in three queues and an MSHR; a dirty block is
  never lost; no assertion on a full queue is reached; everything drains.
* *DRAM*: a turn-around of the bus undoes started work in four tables at once;
  the cached indices stay fresh; every read is answered once; neither direction
  starves.
* *Core*: an instruction has its operands when it issues; no wake-up is lost;
  loads see the right older store; queue slots are taken and freed without
  anyone waiting in a circle; every instruction retires.
* *Front end*: a fetch stall ends; program order survives partial moves through
  three buffers and a ring of pending stores.
* *Page table*: the two tables are inverse to each other through swaps, and the
  TLBs keep nothing that was swapped out.
* *Algorithms*: a representation (bit vector, ring, LRU positions, cached
  threshold) says what it stands for, and loops without a bound end.

`PROJECT.json` lists each hazard at its line with the properties aimed at it.

## 2. What is modelled

### PacketFifo, PacketQueue

`PacketQueue` is the ring of `block.cc` used as `add_rq` and `handle_read` use a
read queue.  `Merge`, `Enqueue` and `Serve` are the three ways a call may go.
`Scanned` is the set of indices the loops of `check_queue` visit: two ranges when
the ring wraps.  `PacketFifo` is what the rest of the simulator believes a queue
to be: a bounded sequence in which a second packet for an address is merged
into the first.  The refinement is `ImplementsFifo` with `entry`, `head` and
`occupancy` mapped to the sequence `Content`; it is what entitles `CacheHierarchy`
to model the queues as sequences.

### CacheHierarchy, CacheHierarchyProofs

All caches run one class, so there is one module, whose constants say which
caches an instance has.  The variables hold, per cache, the three queues, the
MSHR file (a function from block addresses, as the code never has two entries
for one), the ways of one set and `PROCESSED`; `dramRq` and
`dramWq` stand for the controller.  Handlers call into other caches in the
middle of their work, so each C++ function is an operator from a state record
to a state record, and an action (`HandleRead(c)`, `HandleWriteback(c)`,
`HandlePrefetch(c)`, `HandleFill(c)`) is one iteration of a handler at cache `c`,
from its first test to its last assignment, calls included.  `Fetch`, `Load`,
`Translate`, `Store` and `Prefetch` are the core and the prefetchers; `Deliver` is
`update_rob`.

Abstractions: `event_cycle`, `LATENCY` and bandwidth counters decide *when* an
enabled handler runs, so any order of handlers is allowed.  A packet carries
the fields some branch reads; the three `*_depend_on_me` sets and the packet's own
index are one set `waiters` of demands.  All addresses fall in one set.  The
victim of `lru_victim`, which all caches but the LLC use, is the first invalid way
if there is one and otherwise any; the LLC's may be any way, since the policies
that predict re-references never look at `valid`, and those that pass by the LLC
are `BypassLlc`.  L1I prefetches code and L1D data; L2C and LLC prefetch both,
because their prefetchers run on every read, a fetch included, and as data,
because `prefetch_line` leaves `instruction` and `is_data` as `PACKET` sets them.
`num_returned` is left out: it is counted and printed, and no handler reads it (it
counts a miss twice that is answered twice).
`Word` tells apart stores of one block, because L1D's write queue compares
`full_addr`.  The invalidations of a page swap are in `PageTable`.

### DramController, DramControllerProofs

One channel, with time: `Operate` is one cycle (turn-around, `schedule`,
`process`), and `AddRq`, `AddWq` are calls of the LLC between cycles.  The banks,
the counters, the cached `next_schedule_*` and `next_process_*` and the timing
arithmetic are those of the code.  A packet's `event_cycle` dates from its
arrival in the LLC, up to `MaxAge` cycles before it reaches the controller.  The
LLC is the set `waiting` of blocks in its MSHR, with `return_data`'s assertion.
Statistics and `DP` printing are left out; channels share nothing, so one is
enough.

### LoadStoreQueue, ReorderBuffer, InOrderCore

The back end of a core.  `LoadStoreQueue` holds the operators on the queues
(`add_load_queue`, `add_store_queue`, the search for an older store, forwarding,
`execute_store`, `release_load_queue`, `operate_lsq`, `complete_data_fetch`), each
from a state record to a state record as in `CacheHierarchy`; `ReorderBuffer`
has the variables and the actions, one per stage: `Dispatch`,
`ScheduleInstruction` (`reg_dependency` included), `ExecuteReleased` and
`ExecuteReady` (the two ready queues `RTE0`, `RTE1`), `ScheduleMemoryInstruction`,
`OperateLsq`, `CompleteTranslation`, `CompleteDataFetch`, `UpdateRob`, `Retire` and
`DrainWq`.  The DTLB and L1D are sets of requests that are answered in any
order, which is what `CacheHierarchy` shows them to do.  A store merged into an
instruction is identified by the instruction; the values of memory are the ids
of the last instruction that stored there.  `asserts` collects the `assert(0)`
that were reached.

`InOrderCore` is the promise: instructions take effect one after the other, and
a load has the data of the last store before it.  `ImplementsInOrder` maps
`seen` to the loads of retired instructions.  An early forwarding, a late one
and a read of L1D (which looks into its write queue) all have to give the same
answer, whatever the order of execution.

`ReorderBufferProofs` has the proofs about registers, `LoadStoreQueueProofs` and
`InOrderCoreProofs` those about memory.

### FrontEnd, FrontEndProofs

`IFETCH_BUFFER`, `DECODE_BUFFER` and the ROB as three sequences; `main()`'s order
inside a cycle is `phase` (back end, decode, fetch, read).  `DecodeAndDispatch`,
`FetchInstruction` and `ReadFromTrace` are whole calls, with all instructions
they move; `NoRead` and `CoreStalled` are the cycles in which `main()` skips them.
`CompleteInstrFetch` and `CompleteExecution` belong to the back end and come in any
order in the phase `back`; so does `FinishWarmup`, after which branches cost
their penalty and decoding its latency.  The ring `STA` is modelled slot by slot.
Times are distances from the current cycle.  What a predictor answers is the
field `outcome` of a traced instruction.  Instructions are translated when they
are read, so the ITLB branch of `fetch_instruction` cannot be taken.  The other
trace format (`knob_cloudsuite`) is not modelled.

### PageTable, PageTableProofs

`va_to_pa` whole: a lookup, a minor fault that takes the next frame of a run of
adjacent ones or draws a new run, and a swap that takes the frame of the mapped
page with the lowest key (the first of the map, since `recent_page` stays empty)
and invalidates it in the TLBs of the core that asks.  Around it stand the
two fills that follow a walk: the STLB's MSHR (`walked`), then the DTLB's
(`returned`).  `overtaken` is a history variable: the pages that a swap removed
while a translation of theirs was on its way.  Cores are told apart by the high
bits of a key, as in the code.

### Tracer

The analysis routines in the order Pin calls them for an instruction, with one
global record `curr_instr`.  `BeginInstruction` counts, starts tracing after
`Skip` instructions and, after `Trace` more, closes the file and ends the program;
`Fini` closes it otherwise.  `RecordOf` says without loops what a record should
hold, and `TraceFaithful` compares.

### NumberSets, FastSet

`FastSet` is the class `fastset`: a sorted array below `SMALL_SIZE` elements and a
bit vector from then on, in the same memory.  The loops (a join over the other
set, over words, over bits; the binary search) take a step for each round.
`NumberSets` is what the users of the class believe it to be.

### DataFlowGraph

`L2C`'s `operate` calls `update_graph` once a cycle: the instruction that was
read last enters the window, and if its `ip` is in the file of misses the two
tracebacks of `build_graph` go from producer to producer.  The graph is built
and then dropped.  The window may hold an instruction more than once, so the
edges are stated between instructions and not between places.  `Trace` is one round of the loop.

### BestOffset, RecentRequests

`BestOffset` is the learning of `prefetcher/bo.h` (scores, rounds, phases) and its
throttle.  A prefetch that is issued counts as an access of the LLC, at the time
since the last one: any time when the access that caused it hit a prefetched block
of L2C, and zero when it missed, since the miss has been counted in the same call
(bo.h:431-448).  `RecentRequests` has the two banks of recent requests and the
delay queue with its truncated times, which are as wide as `BestOffset`'s: it
extends that module for `TIME`.  The two meet in one Boolean, the answer of
`rr_hit`, which is an input of `BestOffset`.

### LruReplacement, SetDueling

`LruReplacement` has the positions of one set, the handlers that touch them and
`invalidate_entry`; its history variable `older` is the order of use they stand
for.  `SetDueling` is DRRIP in the LLC with leader sets, `PSEL`, the bimodal
counter and the aging loop of `llc_find_victim`.

### MC modules

`MCCacheHierarchy`, `MCDramController`, `MCReorderBuffer`,
`MCFrontEnd` and `MCPageTable` extend the module they instantiate with small
definitions for its constants.  `MCParts` runs the sequential parts (tracer,
`fastset`, graph, prefetcher, requests, LRU, DRRIP, packet queue), which share
nothing: `part`
says which one runs, and the others stay in their initial state, so the state
space is the sum of theirs and not the product.  `MCReorderBuffer` also asserts
(`ApartAssumption`) which of its families of traces satisfy `StoresApart`, the
hypothesis of two theorems: all but the one of the run `overtaken`.

Proofs of `PacketQueue`, `LruReplacement`, `BestOffset` and `RecentRequests` are in
`CachePartsProofs`; those of any other module `M` in `MProofs`.

## 3. Runs

| Run | Instance | Shows |
|---|---|---|
| `hierarchy` | L1I of two ways; L1D, L2C, LLC direct-mapped; one code and two data blocks; at most 2 demands, 2 stores, 2 prefetches, 4 together; L2C's PQ of two | misses, evictions, writebacks and prefetches that collide: no orphan, no assertion, no lost demand, no lost dirty block, no block twice |
| `hierarchy_live` | all seven caches, LLC bypass, 1 demand, 1 store, 1 prefetch, fairness | every demand is answered, everything drains |
| `dram` | 2 banks, 3 blocks (a row conflict), read queue 2, write queue 3 | bookkeeping through turn-arounds, answers, bus distance, bounded service |
| `core_traces` | traces of five over 2 registers and 2 addresses; and of three with instructions that store twice; ROB 4, LQ 3, SQ 2, write queue 2 | operands, wake-ups, ready lists, placement of operations, counters, refinement to `InOrderCore` |
| `core_live` | traces of three with two memory operations each; ROB 3, LQ 4, SQ 1 | every instruction retires |
| `page_table` | one core, 2 code and 2 data pages, 3 frames, runs of 1 and 2 | inverse tables, frames that stay, TLBs wrong only where a swap overtook a walk |
| `front_end` | buffers of 2, `STA` of 6, 2 lines, 3 kinds of instructions, 3 instructions | program order, answers, stalls that end, every instruction retires |
| `parts` | see `MCParts` | faithful trace, sets, producers, scores and throttle, delay queue, LRU victim, loops that end; for a ring of 3 and 4 addresses the scan and the refinement to `PacketFifo` at every head and tail |
| `shared_block` | a block that is demanded as code and as data | finding 1 |
| `swap_in_flight` | one frame, a swap between a walk and the STLB's fill | finding 2 |
| `hold_and_wait` | one load-queue slot, a load that waits for a store that waits for a load | finding 3 |
| `overtaken` | an instruction that stores to two addresses, one that stores to the first again, one that loads both | finding 4 |

*Bounds of the hierarchy.*  One set is enough because sets share only the queues
and the MSHR, which are as small as they can be: with an MSHR of one in the
first level and two below, and queues of one or two entries, two data blocks
fill every structure, evict each other at each level and meet each other in each
queue, while the code block competes for the shared caches.  Two demands and a
prefetch are the shortest history in which a request meets an entry that has
already merged one; two stores the shortest with a dirty victim behind a dirty
block; and two prefetches, in a prefetch queue of two in L2C, the shortest in
which a code block is prefetched by L1I and by L2C, so that the two merge, the
packet is both an instruction's and data's, and the LLC answers it twice.
`MaxIssued` bounds all of these together.  In `hierarchy` the LLC takes every
block; the bypass, which leaves out a fill, is in `hierarchy_live` (with `LLC_BYPASS` set to `TRUE` the
properties of `hierarchy` hold as well, in 954,185 states, which takes TLC
half as long again).  The data blocks are symmetric in `hierarchy`, which has no temporal
property but an action property; the liveness run uses no symmetry.

*Bounds of the controller.*  `LastArrival` lets four cycles of arbitrary
arrivals fill both queues, and `MaxCycle` is past the latest cycle in which the
last request can finish, so `ServedInTime` is a bound on service and not only on
this run: were a request still there at the end, TLC would report it.

*Bounds of the core.*  The traces of `core_traces` are one longer than the ROB, so
head and tail wrap and an entry is reused while the dependence sets of others may
still name it.  They are products of the kinds of instruction per place: a
load or store first, then a dependent one, and so on, which gives chains
through registers and memory, a load that finds an executed and an unexecuted
store, and full load and store queues.  A second family has instructions that
store to both addresses, from whose slots a later instruction takes one operand
or two; retiring one takes two places of the write queue.  `core_live` uses one store-queue slot and
instructions that need several operations; its load queue is as large as the
loads need, since with a smaller one finding 3 applies.

*Bounds of the others.*  In `front_end` each buffer can be full or half moved, `L1I`
refuses a second line, `STA` fits its worst case exactly (`StaAssumption`) and
starts at its first and at its last slot, so it wraps; each kind of branch can
come first, last or in the middle of a batch.  In `page_table` four pages compete
for three frames, and runs of two reach a frame that is taken, so a fault has
to draw again.  In `parts` each structure is as small as its cases allow: arrays
that grow into bit vectors within six numbers, operand lists that overflow, a
window of four, a delay queue of two with times modulo five, three sets of
which two lead.

*Room.*  `RoomAssumption` states what the sizes in `inc/cache.h` have in common: a
lower read queue has room for all misses of the two caches above it
(`MSHR_SIZE[u] + MSHR_SIZE[v] <= RQ_SIZE` of the level below), and `PROCESSED`
(`ROB_SIZE`) for all demands and stores.  The code relies on it: `add_rq` answers
-2 when the queue is full and `handle_read` and `handle_writeback` ignore it after
they have allocated the MSHR.  The proof shows that under it the -2 that is
ignored is never answered (`PendingRoom`).

*Fairness.*  In `CacheHierarchy` it is weak fairness of each handler of each cache,
of the controller's read and write and of `Deliver`: `main()` calls `operate()` of
each component in each cycle, and `operate()` tries each handler.  Nothing is
assumed of the core or the prefetchers.  In `ReorderBuffer` it is weak fairness of
`Next`: a step is a stage doing something it can do, a trace is finite and every
step takes an instruction further, so which stage goes first does not matter.
In `FrontEnd` the cycle goes on for ever (weak fairness of `Cycle`), L1I answers,
and the back end's calls, which are enabled only in one phase of a cycle, are
strongly fair: `update_rob` and `retire_rob` are called in every cycle, so what is
possible in cycle after cycle is done.  In `parts` a loop in progress goes on
(`Round`).  A `Finished` action lets a run end only when everything is empty, so
TLC's deadlock check reports every other standstill.  It is off in
`shared_block` and `hold_and_wait`, where the point is that the system stops, and
in `parts`, where the tracer and the graph end with their input.

## 4. Findings

1. `shared_block`: `handle_read` (cache.cc:767-781) copies `fill_l1i/fill_l1d` of a
   request into the MSHR entry it meets and then overwrites the entry when it is
   a prefetch, so the bits the *prefetch* had are gone.  A data prefetch of
   L1D and a fetch of the same block meet in L2C; L1D is never answered, its
   MSHR entry stays, and a load that merges into it hangs, against the
   deadlock check of main.cc:904.  It needs a block that the core demands both as
   code and as data (or L1D prefetches): without one `NoOrphan` and `Served` hold,
   whatever L2C and LLC prefetch.
2. `swap_in_flight`: a swap invalidates the page "from the cache hierarchy"
   (main.cc:407), but only blocks, never an MSHR entry.  A miss of the STLB walks
   a page (and takes the frame of another for it), an instruction's translation
   swaps that page out while the walk is still in the STLB's MSHR, and the STLB's
   fill then takes in a page whose frame belongs to another.  `TlbAgrees` in
   `page_table` says that a walk a swap overtook is the only way, in both TLBs.
3. `hold_and_wait`: an instruction takes load-queue slots as it reaches them
   (ooo_cpu.cc:1147) and keeps them while it waits.  A younger load takes the
   last slot and waits for a store, which waits for a register of an older load
   that has no slot.  With the real `LQ_SIZE` it takes as many younger loads.
4. `overtaken`: an executed store goes through the instructions that depend on its
   instruction, takes each load of theirs with its address for one of its own,
   and asserts that (ooo_cpu.cc:1646-1649, with `SANITY_CHECK`, champsim.h:24).  An
   instruction stores to `a1` and `a2`, the next one to `a1`, and a third loads both:
   it depends on the first through `a2`, and its load of `a1`, which waits for the
   second, is found by the first's store to `a1`.  `OpsKept` and `AssertsHold` show
   that it takes an operand that is overwritten in between, or an instruction
   that names an address twice among its stores, which the tracer never does.
   Without the assertion the load would be given the address of the older store.

Disagreements met while modelling that no run states, because they touch no
property above or only wording:

* Three comments (cache.cc:319, 658, 933) say a data/instruction collision in the
  MSHR waits, and cache.cc:1701 that it is reported; `check_mshr` no longer
  returns the -2 that the handlers test.
* A store that merges into a load's MSHR entry leaves its type `LOAD`, so the
  block is filled clean, against "RFO marks cache line dirty" (cache.cc:164, 369).
* `reg_dependency` skips a writer that has executed and goes on to an older one of
  the same register (ooo_cpu.cc:940-945).  `OperandsReady` shows that this only
  makes an instruction wait longer.
* A swap asks only the TLBs and caches of the core that swaps (main.cc:407-417),
  also for a page of another core.  `TlbAgrees` is proved for one core.
* "randomly selects a page that is not recently used" (main.cc:363): `recent_page`
  is never filled and the victim is the first page of the map; `page_queue` is
  kept and never asked.
* `update_graph` is "called just when we transitioned, onto the next instruction"
  (builder.cc:285), but it is called in every cycle and by every L2C, and reads
  what the core has read last: the window repeats an instruction of a cycle
  without reads and skips all but the last of a cycle with several.  A repeated
  instruction that reads a register it writes is its own producer, so
  `NearestProducer` compares instructions by their ids and lets an edge lead from
  an instruction to itself.
* "graph is up-to-date" (cache.cc:630): the graph is dropped where it is built
  (builder.cc:305-307).
* An instruction without a source register is taken to read register 0, and any
  earlier one without a destination to have written it (builder.cc:265-269);
  only the first operand of each kind is looked at (builder.cc:177, 198).
* `curr_instr` of the tracer is one for all threads (champsim_tracer.cpp:43):
  with `Thread <- {1, 2}` TLC refutes `TraceFaithful` in a few steps, since the
  routines of one thread write into the record of another.
* `join` takes one word too many when `n` fills the last (set.h:212): a `fastset`
  whose `MAX_SIZE` is the size of the table would need that word.  `Limit` in
  `FastSet` says so.
* The best-offset prefetcher looks up block numbers with byte addresses, so its
  test for a hit succeeds by coincidence only; and a line in the delay queue for
  more than 4096 cycles looks young again (bo.h:209), which delays it and never
  makes it ripe early (`DelayRing`).
* When the LLC is passed by, `update_replacement_state` is called with
  `way == LLC_WAY` (cache.cc:32-41).
* `ROB.next_fetch[1]` is always 0; the first record of a trace is read twice;
  `is_memory` in the graph's instruction format counts sources only; traces of
  `knob_cloudsuite` never set `current_instr`.

## 5. Proofs

For every value of the constants that satisfies the assumptions named in the
modules.

`DramControllerProofs`, for any number of slots, banks and addresses and any
timing parameters that satisfy `DramAssumption`:

* `DramInvariant`: `Spec => []IInv`, where `IInv` says `Sound(State)` and gives the
  types of `now` and `warm`.  The operators of `DramController` take the state as a
  record, and so does the invariant: there is one lemma per function of the
  controller (`StartSound`, `ScheduleSound`, `TransferSound`, `ProcessSound`,
  `TurnSound`, `PutSound`), each from a sound record to a sound record, and
  `OperateSound`, `AddRqSound` and `AddWqSound` put them together as the code does.
* Why the conjuncts need each other: a turn-around's `assert(0)` does not fire
  because the counters count the started requests (`Counted`), all of them in
  banks that work for their queue (`BanksAgree`), and none of them of the other
  direction (`OneDirection`); `process()` finds its request in its bank because
  the cached index is that of a started request (`NextFresh`, `BanksAgree`).
* Strengthening conjuncts: `Distinct`, that a queue never holds a block twice,
  without which `Answered` breaks at the transfer of one of the two; and
  `Separated`, that the bus is not free before the distance from the last
  transfer, with the turn-around when the bus is turned the other way, which
  gives `TransfersApart` (`Spec => BusSeparated`).  It is inductive because each
  turn adds the time, so turning twice only adds more.
* `DramTypes`, `BanksAndQueues`, `IndicesFresh` and `MissesAnswered` are invariants of
  the run `dram`; `OneDirectionOnly`, `CountsExact` and `NoAssertFails` are proved
  only.

`PageTableProofs`, for any set of pages, frames and runs:

* `TablesAlways`: the inductive invariant, types, `MutuallyInverse` and
  `PagesCounted`.  A swap keeps the tables inverse because its victim is mapped and
  the asking page is not; it finds a victim, and something to pop from
  `page_queue`, because both have one entry for each of the allocated pages.
* `OneMapping`, `PagesWithinMemory`, `TypeCorrect` follow; `FramesStayPut` is the action
  property, from the same invariant; `OneCoreTlbs` is `TlbAgrees`, for one core:
  what walks and fills carry is what the tables say, or is marked as overtaken.

`CachePartsProofs`, of the parts of a cache that stand by themselves:

* `BestOffset`: `LearningIsSound`, from the inductive `BoInv`. A score is
  bounded by the number of rounds in which its offset was tested, so none passes
  `SCORE_MAX` and the phase's test by `==` cannot be missed; `best_offset` has
  the highest score; the kept `mshr_threshold` is what its inputs give. The two
  cases of a step are an offset tested before and after it in the round.
  `DelayIsKept` (`DelayRing`, with the types of the queue), for a ring of any
  size, from `RrAssumption`: a delay is shorter than the times are wide (60 and
  4096 in the code). The invariant is `Holds`, that the ring is the list of what
  was pushed, counted from the head by `At`, and `Dated`, which `DelayRing`
  lacks: while a line is younger than `DELAY`, the clock is its slot's cycle
  plus its age. `dq_pop` and `dq_push` each take a ring and its list to a ring
  and its list (`PopKeeps`, `PushKeeps`), and a push that follows a pop composes
  them.
* `LruReplacement`: `OldestIsVictim`. Positions are at most `NUM_WAY - 1` and
  order the ways as `older` does; promoting one way moves those before it by one
  and keeps the order of all others.
* `PacketQueue`: `RingInvariant`: `Spec => []Inv`. The inductive invariant is
  type correctness, `RingShape` (tail is `occupancy` places after head, and
  exactly the live slots hold a packet) and `NoDuplicate`. Membership in the
  live part is restated by the distance from head (`Offset`), which turns the
  arithmetic modulo `SIZE` into linear inequalities; `InvOffset` shows the two
  forms equivalent. Neither conjunct is inductive alone: uniqueness needs the
  scan to see every live slot, which needs the shape. `ScanAlwaysLive`: the
  loops of `check_queue` visit exactly the live slots. `RingImplementsFifo`:
  initial states map to initial states, `Merge`, `Enqueue` and `Serve` to
  `Merge`, `Add` and `Remove` of `PacketFifo`. `ShapeKept`, `UniqueAddresses`
  and `SanityCheck` (the assertions in `add_queue` and `remove_queue`) are
  proved and not checked by a run: the refinement implies them.

`CacheHierarchyProofs`, for any subset of the seven caches, any sizes that satisfy
`SizeAssumption` and `RoomAssumption`, and with or without the bypass:

* `BlockInv` is inductive: types (`Typed`), no block in two ways of a cache
  (`Single`), and `Clean`, which says what the queues and the MSHR hold: one entry
  for an address, under its own address, with waiters only among the demands.
  As in the controller, there is one lemma per operator of `CacheHierarchy`, each
  from a record to a record, and an action's lemma composes them as the handler
  does.
* `TypeCorrect` and `NoDoubleCopy` (`OneCopy`) follow.  A fill finds no copy of its
  block only because a miss is filed for absent blocks and a block cannot arrive
  twice, which is why MSHR entries and ways have to be in one invariant.
* `NoWriteLost` is the action property `DirtyKept`: each operator keeps every dirty
  block dirty somewhere (`KeepsDirty`).  The case that carries it is `handle_fill`
  with a dirty victim, which gives up when the lower write queue is full before
  it touches the way.

The second part of `CacheHierarchyProofs`, under the hypothesis `CodeApart` (the core
demands no block both as code and as data; L2C and LLC may prefetch any block,
and do so as data):

* `AnswerInv` adds a ledger to `BlockInv`.  A level *owes* a block to the cache above
  while a read or prefetch of a lower fill level is in its queues, or a miss of
  one in its MSHR or at the controller.  `Owed` says that a cache waits for a block
  if and only if the level below owes it, and that it owes it in one place.
  Inside a handler a packet may be off one list and not yet on the next, so the
  invariant of the operators has two more arguments, the debts in hand and the
  debts just paid; each operator's lemma says which it takes and which it
  leaves, and every action begins and ends with none.
* `NoFailedAssert` (`NoAssert`): `return_data` finds its miss because whoever answers
  owed the answer.  `EveryMissAwaited` (`NoOrphan`): a miss without its data is owed
  by someone.
* `CodeApart` cannot be dropped: `shared_block` (finding 1) is its counterexample.
  It makes the flags `fill_l1i` and `fill_l1d`, which say what first level to answer,
  functions of the address and the fill level (`Classed`), so that a merge, which
  overwrites one packet's flags with the other's, changes nobody's answer.
  `instruction` and `is_data` are not: a prefetch of L1I that merges with one of L2C
  has both, and the LLC then pays L2C twice in a row.  `ReturnedAgain` and
  `PaySound` show that the second time nothing changes.

`FrontEndProofs`, for buffers, widths, penalties and traces of any size:

* `FrontInv` is inductive.  It reads the three buffers as one list of the
  instructions in flight (`IdAt`, `StoresAt`, `MissAt`): `DecodeAndDispatch` and
  `FetchInstruction` move the borders between the buffers and leave the list alone
  (`SameView`), so all that is said of the list survives them.  `Numbered`: the list is
  `retired + 1 .. read`.  `LastStalls`: only its last member can be a mispredicted
  branch that has not executed, and it is one exactly while fetch is stalled
  without a cycle to resume in.
* `Pending` is the stores of the list in order: one run per instruction, all runs one
  after the other (`FlattenSeq`).  `RingOf` says that the ring holds `Pending` from head
  to tail and nothing else.  Three steps change it.  Reading appends the runs of
  a batch, which fit by `StaAssumption` (`RunsFit`), so that the slots at the tail are
  empty and `read_from_trace`'s assertion holds.  `PlaceStore` takes the first member
  of `Pending`; the instruction that may do so is the one whose id is at the head,
  that is the first with a store left.  Retiring drops an empty run, because an
  executed instruction has placed its stores (`Placed`).
* `InOrder` (`ProgramOrder`), `StallsEnd` (`StallOwed`), `AnswersCome` (`AnswerComing`) and
  `TypeCorrect` follow.
* The slots' remainders are computed once (`SlotAt`, `NextAt`) and then replaced by
  `At`, a case distinction.  What needs induction over a list (the length of a
  flattened list, flattening a concatenation) is proved by `Descent`: a set of
  naturals that contains `m - 1` with each `m` is empty.

`ReorderBufferProofs`, for a core of any size, any finite set of registers
(`RegAssumption`) and any programs:

* `RobInv` is inductive (`Inductive`).  `Ring`: the entries in use are the slots from
  `head` on, around the end of the array, in program order and without a gap;
  `retired` and `dispatched` say which instructions they are.  `Prefix`: instructions
  are scheduled in order, so that `reg_dependency` finds every older entry already
  scheduled.  `Debts`: what an unexecuted entry owes, it owes to a younger entry in
  use that reads the register; this is what makes it safe to reuse a slot, as
  `reg_deps` names slots, not instructions.  `Sources`: the last writer of a register
  that a scheduled entry reads has executed, or owes it the register.  `Stages`:
  nothing executes or takes a slot of a queue before its registers are ready.
  `Queued`: the lists `RTE0` and `RTE1` have no member twice or in common, and their
  members are the entries that wait to execute.
* Two facts carry the proof.  `RegProducer` skips executed entries, yet an
  unexecuted last writer is the one it finds (`RegProducerIs`): every entry between
  it and the reader that writes the register would be a later writer.  And what an
  entry owes is counted once on either side: `num_reg_dependent` becomes the
  cardinality of a set of registers when it is scheduled (`SourcesCounted`, a
  bijection with the pairs owed) and loses the cardinality of the part that one
  producer owes when that executes (`CompletionKeeps`).
* The memory stages are shown to leave all this alone by one relation, `Alike`: an
  operator of `LoadStoreQueue` changes no field that `RobInv` reads, except the slots
  that the entry it works for takes in the queues.  It is transitive, so
  `check_and_add_lsq`'s two loops follow by `Descent`.
* `NoWakeupLost` (`WakeupsOwed`) and `OperandsThere` (`OperandsReady`) follow.
  Remainders are computed once (`Wrap`, `NextAt`) and then replaced by `At`, a case
  distinction.

`LoadStoreQueueProofs` and `InOrderCoreProofs`, for a ROB and queues of any size, any
addresses and any traces:

* `MemInv` is inductive together with `RobInv` (`MemInductive`).  It is a predicate
  `LsqInv` on records, since the operators of `LoadStoreQueue` map records, and
  there is one lemma per operator; an action composes them as the code does.
  `LoadStoreQueueProofs` has the operators that work on operations in the queues
  (translation, forwarding, `execute_store`, the answers of L1D),
  `InOrderCoreProofs` those that put them there and take them out (dispatch,
  `check_and_add_lsq`, retiring) and the actions.
* What it says of data: the producer of a load in the queue is the last store
  before it in the trace (`Sourced`), is in the ROB, knows it, and has a store to
  its address that has not executed (`Awaited`); memory holds what the last retired
  store wrote (`MemoryLast`); what was seen is what the last store before wrote
  (`SeenSound`), and nothing that left the queue was not seen (`SeenAll`).  A load
  without a producer may read memory because it has no store between the last
  retired instruction and itself, and this stays so when others retire.
* What it says of places: a slot and the operation in it name each other
  (`LoadsHeld`, `StoresHeld`), the store queue is a ring in program order and `STA`
  goes on where it ends (`Rings`), each list of ready operations has those of one
  stage, once (`Places`).
* Counters are cardinalities of these sets (`Counted`, `Tallied`).
* `Awaited` has a parameter, the loads that are about to be served: when
  `execute_store` has marked its store, its loads wait for one that has executed,
  and each round of its loop serves one.  After a failed assertion the rest are
  never served; the program stops, and `MemInv` excuses them (`Excused`).
* `InOrderImplemented` (`ImplementsInOrder`): `Retire` is a step of `InOrderCore`, the
  loads of the instruction at the head are all on record and have seen what
  `memory` holds, and every other step changes nothing that `InOrderCore` has.
  `TypesKept` (`TypeOK`) and `CountersKept` (`CountersAgree`) hold as well for
  every trace; `OneAssertOnly` says which assertion may fail.
* `OpsKept` (`OpsPlaced`) and `AssertsHold` are proved under `StoresApart`, which is
  about the traces: no instruction stores twice to an address, and no operand
  from a store of `m` comes with another that `m` stores too and a later
  instruction overwrites.  Every trace whose instructions store at most once
  satisfies it.  It cannot be dropped: the run `overtaken` (finding 4) is the
  counterexample.  The invariant then gains `SeenExecuted`: what a load has taken
  from an instruction in flight, it took from a store that has executed.  So a
  store that executes now finds no load that is already served.
* `ProgramAssumption`, besides the types, is that an instruction has at most
  `NUM_INSTR_SOURCES` loads, the length of `source_memory` (instruction.h:45).

*Model-checked only.*

* Liveness (`Served`, `Drains`, `Retires`, `AllRetire`, `LoopsEnd`) is out of the prover's
  reach.
* `Conserved` of `CacheHierarchy`.  It needs that `PROCESSED` always has room for the
  answers to L1I's prefetches, which holds by counting the tickets of all
  requests in all queues: an argument over cardinalities of the whole hierarchy,
  where the ledger of `AnswerInv` is about one block at a time.
* `ServedInTime` of `DramController` is a bound for the instance's numbers.
* `Tracer`, `FastSet`, `DataFlowGraph` and `SetDueling`, with `TypeOK`, `TraceFaithful`,
  `NearestProducer` and `ImplementsSets` of `MCParts`: recursive operators, or loops
  whose result is defined by one.

## 6. Not modelled

* *Time in the caches and the core*: latencies and widths only choose among the
  enabled steps, and every order is allowed.  Where time decides (DRAM, front
  end, delay queue) it is modelled.
* *Branch predictors*: a predictor is read and trained within one call and shared
  with nothing; its answer is an input of `FrontEnd`.
* *Other prefetchers* (`ip_stride`, SMS, ISB, signature path): the requests they can
  make are those of `CacheHierarchy`'s `Prefetch`.  Their tables are sums and
  shifts over addresses whose quality, not safety, is in question;
  `kpcp_util.cc` is commented out.
* *SHiP's sampler and SRRIP*: SRRIP searches as `SetDueling` does; SHiP's counters
  change only what is inserted.
* *LLC shared by several cores, several channels*: channels are independent; the
  merging of two upper levels is exercised by L1I and L1D.
* *Data caches in a swap*: `invalidate_entry` there removes a block without data;
  what may be lost is the count of a writeback.
* *`graph.cc` functions nobody calls* (`store_load_bypassing`, `remove_vertex`,
  printing), statistics, heartbeats, argument parsing, and the scripts.
