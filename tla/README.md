# A verification development for lsm-cache-simulator

`bin/lsm-sim` replays a trace of key lookups in an LSM tree against several
caches and counts hits, misses and unnecessary reads.  This directory holds
TLA+ models of its parts and of how they work together, TLC configurations that
check them on small instances, and proofs for every instance of most of what
the runs check.  Paths below are relative to `src/`.

## 1. The system

The program is single-threaded.  `main.cc` runs four simulators one after
another on the same trace, with fresh caches each time.  Every simulator pulls
records from a `RecordParser`, which pulls lines from a `ZSTDReader`, and drives
two caches: one for filter and index blocks, one for data blocks.  Around the
program, `run_all_traces.sh` runs it on many traces in parallel, and
`analyze_trace` prints per-file counts of a trace.

    run_all_traces.sh ── starts ──> lsm-sim (main)
                                      │ calls, in turn
       simulate_normal / simulate_modular / simulate_optimal / simulate_optimal_modular
          │ parse_next_record              │ insert_block, record_access,
          v                                │ remove_file_blocks, add_lookahead, ...
       RecordParser ──> ZSTDReader         v
                        (libzstd)       LRUCache | HeapLFUCache | OptimalCache
                                           └── heap_utils.h (percolations)

| Component | State | Operations | What makes it correct |
|---|---|---|---|
| `Cache` (`include/cache.h`) | `max_size_`, `curr_size_`, `block_count_` | the virtual calls | never over capacity; evicts only while the new block does not fit; a purged file is gone |
| `CacheBlock::hash` | none | `hash` | a hit is a hit of that block |
| `LRUCache` | list, map to list nodes | insert, access, remove, evict, remove file | list and map agree; bytes are exact; the loops end and use live nodes; holds the most recently used |
| `HeapLFUCache` | min heap, map to positions, access counts | the same | map follows each swap; heap in order; victim least used |
| `OptimalCache` | max heap, map, lookahead queue, map of next uses | the same, `add_lookahead`, `advance_lookahead` | next uses are those of the queue; victim is used last; no policy misses less |
| `simulate_normal` | file map, counters, series | a step per record | counters add up; series on time; deleted files leave the caches |
| `simulate_modular` | two sorted lists with index maps, prefix counter, ratio tree, counts per level | a step per record, a probe at a time | lists, indices, prefix and tree agree with the probes of live files; module limits in range |
| `simulate_optimal` | two lookaheads, map of unnecessary accesses | read, consume the excess, drain | every access made once; extra reads attributed to their probe |
| `simulate_optimal_modular` | window of Get records with counts over it | enter, decide, leave, drain | the counts are those of the window |
| `ZSTDReader` | input and output buffers, end flag, line number | next line, at end?, go to line | the lines are those of the file wherever chunks end; calls return |
| `RecordParser` | the reader; the caller's `Record`, reused for every line | parse the next record | returns each line that is a record, in order, with nothing of the lines before it |
| `SimulationConfig`, `SimulationResult` | the settings; counters and series | read from a file; push a point, write a log | each line sets what it names, if it fits; a log is named by what it holds |
| `main` | two caches per simulation | simulations in a row, a log file after each | every simulation leaves a log of its own |
| `analyze_trace` | current levels, placed files, rows | a step per record | rows are exactly the placements some Get saw |
| `run_all_traces.sh` | a pool of jobs, log directories | launch, reap, signal | pool bound; every failure counted; a job finds its config; a signal stops everything |

### What is hard

* Redundant structures: most of the state is kept two or three times (list and
  map, heap and map, list and index and tree), each operation has to keep the
  copies in step, and nothing in the program compares them.
* Unsigned arithmetic: `max_size_ - curr_size_` decides whether to evict, ranks
  are differences of indices, windows are decremented.
* Order: a file may be probed after its delete record
  (`key_lookup_tracer.md:482`), accesses of the optimal simulators are judged
  long after the probe that caused them, a percolation needs the map entry to
  exist before it starts (`optimal_cache.cc:94`).
* Chunks: a line, its CRLF or the missing newline at the end may lie across any
  boundary between reads and decompressed chunks.
* Real concurrency only in `run_all_traces.sh`.

`PROJECT.json` lists each of these at its line under `hazards`, with the
properties that watch it, or the reason none does.

## 2. Modules

Field and variable names are those of the code (`lru_block_list_`,
`cache_map_`, ...).  A call that loops over a data structure takes one step per
iteration, with `call` holding its local state; other operations are one step.
Operators commented as *Fault* are plausible slips in the definition that
follows them; nothing in the specifications uses them, they measure whether a
property can fail.

**Caches.**

* `Cache` – what a cache promises: blocks with their sizes, eviction only while
  the new block does not fit, `remove_file_blocks` returning only when the file
  is gone, a too big block ending the program.
* `ResidentBytes`, `ListOps` – bytes held by a map from blocks to sizes, `hash`,
  unsigned `+` and `-` of a given width, erasure from a list, the elements of a
  list at some of its places, or outside a set.
* `LRUCache` – every operation of `lru_cache.cc`.  Of a list node the size is kept
  in `cache_map_`, since that is what `curr_size_` depends on; the size an
  insertion brings is free, as blocks read in vain have none.
* `LRUStack` – two `LRUCache`s (by `INSTANCE`) driven by one trace, next to the
  recency stack of that trace.
* `HeapOps` – `heap_utils.h`, pushing a block and deleting one, as operators on a
  record of heap and map.  A percolation iterates its loop body, in which a swap
  exchanges two entries of the heap *and* two of the map.  The heap is kept
  without the unused entry 0.
* `HeapCache` – the state and the operations that the code has once in each heap
  cache, alike up to the field the heap is ordered by: removal, eviction, the
  eviction loop of an insertion, `remove_file_blocks`.  That field is the parameter
  `key` of the actions.
* `HeapLFUCache` – `lfu_cache.cc`, which extends that by the counts; `is_absolute_`,
  fixed when the cache is made, selects those since admission or since the
  beginning of the trace.
* `OptimalCache` – `optimal_cache.cc`, which extends it by the window and the map of
  next uses.  The max heap is one ordered by the negated next use; `UINT64_MAX` is
  `Never`.
* `Belady` – `OptimalCache` next to a rival with the same capacity that evicts
  whatever it likes.  It has every behaviour of `OptimalCache`; the rival takes
  part as long as the cache is used offline (whole trace read first, blocks of
  one size, nothing removed), which is when Belady's theorem says something.

**Simulators.**  The four simulators are two loops, each with and without
modular filters; a loop composes three modules by `EXTENDS`.

* `AccessCounts` – two caches, the counters, the series, and one access to a
  block.  `series_per_record` is a variable chosen at the start, with any value a
  config may have, and `curr_access` wraps at `Word`; `PointsDue` says when points come.  The caches hold unit blocks and evict any of them: the counting must be
  right for every policy.
* `AccessList`, `RatioTree` – the sorted list with its index map
  (`increment_count` and its open-coded copies in `simulators.cc`), and the
  order-statistics tree.  `LookedUp` is the entry that `operator[]` makes in an index
  for a file it lacks, `IndexOf` the place it yields.  A ratio is a pair of numbers
  compared by cross multiplication.
* `FileCounts` – the counts over files that both modular simulators keep, a file
  and a probe entering and leaving them, and the number of filter modules a
  probe may use by each of the five policies (`simulator_utils.h`).  The policy
  is a variable chosen at the start; `"none"` is a simulator that is not modular.
* `FileMap` – the file map and the probes still to make, the state that the two
  modules of this loop share.
* `ModularFiles` – how `simulate_modular` keeps these counts over a trace, without
  accesses; the history variable `probed` recounts.
* `AccessLoop` – `AccessCounts` and `FileCounts` under the loop of
  `simulate_normal` and `simulate_modular`, down to single accesses.  The extra reads
  of a probe in filter-only mode are a step of their own (`CountExtra`), after the
  accesses to its filter and the points these push.
* `OptimalLoop` – `AccessCounts` and `FileCounts` under the loop of
  `simulate_optimal` and `simulate_optimal_modular`: reading a record and counting
  its probes, deciding the one at the front of the window, taking its probes
  back, consuming the excess over `optimal_lookahead`, and the drain at the end.
  `loop` says which part of the body is next.  Files whose create record is lost
  may be probed.

**Input, process, batch.**

* `ZSTDReader` – the file is a sequence of characters, line ends, carriage returns
  and units that decode to nothing (a frame header); reads and decompression take
  arbitrary amounts within the buffers.  `ZSTD_decompressStream` is external, and
  modelled by what the reader relies on: it consumes some input and yields what
  it decodes to, or fails at a bad unit without consuming it.  `DamagedSpec` adds this
  failure and that of a read, which ends the program (`ReadError`).  The resets of
  the decompressor carry no state at this level.
* `RecordParser` – `parse_next_record` over that reader (by `EXTENDS`: its calls are
  those of `ZSTDReader`, with the parser waiting for them), and `parse_record` as
  an operator on the reused `Record`.  A line of one character stands for the
  contents `ContentsOf` gives it; each of the ways a line can fail half way is a
  difference in its contents.
* `SimulationConfig` – the assignment each line of a config makes, or does not.
* `LsmSim` – the simulations of a process in order, and the names of their results.
* `TraceRunner` – the script over `LsmSim`: main shell, one process per job, one
  simulator per job with the config it read and the logs it wrote, and the
  signal handler in its two steps, listing the process tree and then killing
  what it listed.
* `AnalyzeTrace` – the rows of the access table.  A Get is a sequence of probes, of
  which several may be of one file on one level; the history variables are the
  placements each Get saw and the probes made.

**Proofs.**  Lemmas on the operators are in `ContainerTheorems` (lists, bytes, hash,
heaps) and `SimulatorTheorems` (access lists, ratio tree, policies, an access).  The
theorems are in `LRUCacheProofs`, `LRUStackProofs`, `HeapCacheProofs` (both heap
caches), `SimulatorProofs` (`ModularFiles` and `AccessLoop`), `OptimalLoopProofs` and
`TraceToolsProofs` (the reader and the parser, `analyze_trace`, the script).  `LRUStackProofs` has an instance
of `LRUCacheProofs` for each of its caches and cites the theorems of that.  Where a
module holds the theorems of two components it EXTENDS both; each theorem is
about the specification of one of them, which leaves the variables that only
the other has unconstrained.

The `MC*` modules give the constants their values for TLC.

## 3. Runs

| Run | Shows | Bounds, and why they do |
|---|---|---|
| `lru_cache` | `TypeOK`, `ListMatchesMap`, `Accounting`, `PurgedBehindIterator`, `ImplementsCache`, `CallsReturn` | 4 blocks of 2 files, sizes 0, 1, 2 and 4 in a cache of 3: empty, several evictions for one insertion, too big; three blocks of a file surround one of another in the list |
| `lru_stack` | `Inclusion` | 5 blocks of sizes 1 to 3, caches of 3 and 5: they differ in every state where something was evicted |
| `lfu_cache` | `MapFollowsHeap`, `VictimLeastUsed`, `ImplementsCache`, for both kinds of counts | 7 blocks of 2 files, 6 of size 1 in the heap: three levels, so that an entry moved into a gap can belong to another subtree and has to rise; a block of size 6 evicts them all, one of 7 is too big |
| `optimal_cache` | `NearestIsNextUse`, `MapFollowsHeap`, `VictimUsedLast`, `ImplementsCache`, `Optimal` | 4 blocks, room for 3 of size 1; every trace of 6 accesses with sizes 1, 3 and 4, read and consumed in any order |
| `modular_files` | `ListsIndexed`, `NonZeroPrefix`, `CountsAreTrue`, `RatioTreeMatches`, `MoreEmptyMoreModules` | 3 files on 2 levels, 2 Gets that each probe any of them: ties, exchanges over more than one place, deletions in and behind the non-zero prefix.  The policy is the one that keeps the tree; the limits of the others are evaluated in every state, for every age a file can have |
| `access_loop` | `CountsAddUp`, `SeriesOnTime`, `DeletedFileIsGone` | 2 files with 1 and 2 filter blocks, caches of 2 and 1, all policies, both modes; 2 Gets and 5 accesses, `curr_access` wrapping at 4, with a `series_per_record` of 2 (a point in the middle of a probe, a last one with and without a remainder), 0 (a point at the wrap) and 5 (never reached); accesses after a delete, extra reads after the last point |
| `optimal_loops` | `CountsAreWindow`, `ListsIndexed`, `RatioTreeMatches`, `Bounds`, `NoAccessLost`, `MapTellsUnnecessary`, `SeriesOnTime`, `UnknownNotReported` | 2 files and one whose create record is lost, all policies, both modes, a `series_per_record` of 2 and of 0 with `curr_access` wrapping at 4; 4 Gets through a window of 2 with 1 access ahead: records are decided in the middle of the trace and in the final drain, several waiting each time |
| `trace_reader` | `LinesAreTheFiles`, `RecordsAreTheLines`, `GotoReaches`, `ParserReturns` | every file of up to 4 units, buffers of 2: each boundary in each place; two and three lines of every kind of success and of failure half way, one after the other |
| `analyze_trace` | `RowsExact` | 2 files, 2 levels, any number of placements between 3 Gets, each of no probe, one, or two: of two files, of a file on two levels, or twice of one file on one level |
| `trace_runner` | `PoolBound`, `FailuresExact`, `OwnResults`, `ScriptEnds` | 3 traces, 2 at a time, the first two with one log directory, the third named for a fraction of 1; a good config, one that divides by zero, one without a mode, one with two lines for it; 4 simulations a process (2 policies, 2 kinds of caches), each of which may fail; logs of an earlier run |
| `zstd_damaged`, `trace_runner_interrupt` | violated, see below | 3 units, bad ones among them; as `trace_runner` |

Blocks, and files, that differ in nothing but their names are declared symmetric
where no liveness is checked (`lfu_cache`, `optimal_cache`, `modular_files`).

The bounds `MaxAccess`, `MaxAdded`, `MaxLookups`, `MaxGets` and `MaxAccesses` are
constants of the modules, in the guards of the actions that would otherwise go
on for ever.  `Files` bounds what `ZSTDReader` may be given.  Where a history
variable is compared with a count (`probed`, `added`, `probes`) it exists for that
comparison only, and no action reads it.

The properties of the simulators compare redundant state, as the program never
does: `CountsAreWindow` recounts the window (less the probes the last record has
yet to add or the first has taken back), `NoAccessLost` the accesses between
decision and result, `MapTellsUnnecessary` what the map says at the end of the
lookahead with what the probe said at its beginning.  `UnknownNotReported` is about
an order that looks wrong: probes are counted before `update_lookahead` checks that
their files exist, and a probe of an unknown file raises the count of the file
at index 0.  The limits of other records can go by that count for a while, but
no result comes of it, as the record is met again and ends the program.
`ListsIndexed` of `OptimalLoop` says of such a probe that it leaves the lists as right as
they were: it adds a key to an index, and the entry at place 0 is still found.
`SeriesOnTime` counts the points against the accesses, which the loops never compare:
`PointsDue` gives their number and places for any `series_per_record`.  It also says
how far the last point may lag behind the result when no access came after it: by
the extra reads that filter-only mode counts after the accesses of a probe, and by
the one that `consume_data_lookahead` counts after it has pushed the point.

`CHECK_DEADLOCK FALSE` stands where the program may stop: it exits on a block
bigger than the cache, on a never-created file and on a failed read, and the bounded
traces end.

### What the violated runs show

Two runs state what a comment of the code says, and TLC finds behaviours of the
code that break it.

* `zstd_damaged`: when the compressed stream turns bad before the input buffer
  is used up, `decode_more` never returns (`src/zstd_reader.cc:81`): the flag the
  error branch sets is looked at only when the buffer is empty.
* `trace_runner_interrupt`: a job can start its simulator after its children were
  listed and before it is killed; that simulator keeps running.

### Fairness

`FairSpec` of `LRUCache`, `DamagedSpec` of `ZSTDReader` and `ParserSpec` of
`RecordParser` have weak fairness of the steps of a call that has begun: the
program has one thread, so a call runs until it returns.  Nothing is assumed
about which calls are made.  In `TraceRunner` the main shell and each job are
processes of their own, and the scheduler lets each go on; that a simulator ends
is assumed, as the script waits for it without a timeout.  The arrival of a
signal is not fair.

## 4. Proofs

Each theorem has the form `Spec => []P` (or `[][A]_vars`), for every value of the
constants that their assumptions allow: any blocks, files, levels and traces,
any capacity, lookahead, policy and number of jobs.

| Module | Theorem | Property |
|---|---|---|
| `LRUCacheProofs` | `TypeCorrect`, `ListMatchesMapAlways`, `AccountingAlways`, `PurgedBehindIteratorAlways` | `TypeOK`, `ListMatchesMap`, `Accounting`, `PurgedBehindIterator` |
| | `EvictionFindsVictimAlways` | the loop that makes room never runs out of blocks |
| | `Refinement` | `ImplementsCache` |
| `LRUStackProofs` | `InclusionAlways` | `Inclusion` |
| `ContainerTheorems` | `HashTellsBlocks` | equal hashes are of one block |
| `HeapCacheProofs` | `LFUMapFollowsHeap`, `OptimalMapFollowsHeap` | `MapFollowsHeap`, of either cache |
| | `LFUVictimLeastUsed`, `OptimalVictimUsedLast` | `VictimLeastUsed`, `VictimUsedLast` |
| | `OptimalNearestIsNextUse` | `NearestIsNextUse` |
| | `LFURefinement`, `OptimalRefinement` | `ImplementsCache`, of either cache |
| | `NoRivalMissesLess` | `Optimal` |
| `SimulatorProofs` | `ListsAreIndexed`, `PrefixIsNonZero`, `CountsAreProbes`, `TreeIsPresent` | `ListsIndexed`, `NonZeroPrefix`, `CountsAreTrue`, `RatioTreeMatches` |
| | `MoreEmptyGetsNoFewer` | `MoreEmptyMoreModules` |
| | `CountsAlwaysAddUp`, `SeriesIsOnTime`, `DeletedFilesAreGone` | `CountsAddUp`, `SeriesOnTime`, `DeletedFileIsGone` |
| `OptimalLoopProofs` | `CountsAreOfWindow`, `ListsStayIndexed`, `TreeIsOfPresent` | `CountsAreWindow`, `ListsIndexed`, `RatioTreeMatches` |
| | `WindowIsBounded`, `UnknownIsNotReported` | `Bounds`, `UnknownNotReported` |
| | `AccessesAreKept`, `MapTells`, `PointsComeOnTime` | `NoAccessLost`, `MapTellsUnnecessary`, `SeriesOnTime` |
| `TraceToolsProofs` | `LinesFromAnyFile`, `LinesUnderParser` | `LinesAreTheFiles`, for the reader alone and under the parser |
| | `GotoInAnyFile`, `GotoUnderParser` | `GotoReaches`, likewise |
| | `RecordsComeOut` | `RecordsAreTheLines` |
| | `RowsAreExact` | `RowsExact` |
| | `PoolIsBounded`, `FailuresAreCounted`, `ResultsAreOwn` | `PoolBound`, `FailuresExact`, `OwnResults` |

All rest on an inductive invariant of their component, called `IInv` (or, where
a module proves about two of them, `LFUInv`, `OptimalInv`, `ModularInv`, `TableInv`,
`ReaderInv`, `DamagedInv`),
and on one lemma per action that it is kept.  What it adds to the properties, and why:

* **`LRUCache`**.  `StateInv` joins types, `ListMatchesMap` and `Accounting`: each needs
  the others, because the bytes taken off `curr_size_` are those of a map entry,
  and which entry it is depends on the list.  `CallInv` says of a call in progress
  what its first step established and its loop relies on: a block being inserted
  is absent and not bigger than the cache, and behind an iterator nothing of the
  file is left.  Without the former the eviction loop could empty the cache and
  still not be done.  `curr_size_` is compared with a *sum* over the map; as
  induction over the map is out of the prover's reach, the sum is the cardinality
  of a set of pairs (`Bytes`: one pair per byte of each block), and `AddBytes` and
  `DropBytes` are facts about disjoint unions.
* **`LRUStack`**.  `Inclusion` is about two idle caches; between, one of them may be
  in the middle of evicting or of purging a file.  `Future` is the list that the
  call in progress comes to if it evicts nothing more: with the new block in
  front, or without the blocks of the file.  `InOneStack` says that the futures of
  the two caches and the recency stack begin alike, whatever the calls are doing.
  A purge does not change the future of its cache, an eviction takes the last block
  away from it; that the bigger cache does not lose what the smaller one keeps is
  an argument about bytes (`SmallerHoldsLess`): otherwise the smaller cache would
  hold all that does not fit into the bigger one.
* **Heap caches.**  `HeldBy(key)` joins, for a heap ordered by any `key`: the heap is
  ordered, the map is its inverse, the bytes are counted.  The order is what makes
  the victim the right one, and the bytes what makes the eviction loop end with
  room for the block.  What a percolation does is proved by its loop invariant: the heap is in order but for
  the entry at `index`, whose parent and children are in order with each other
  (`Nearly`), and that entry is in order with its parent (on the way down) or with
  its children (`AboveChildren`, on the way up).
  `PercolateDown` and `PercolateUp` are recursive functions of the number of
  iterations, so that the invariant holds after each of them because there is no
  *least* number after which it fails; that the loop has ended after `Len(heap)` of
  them follows from `index`, which each iteration at least doubles or halves.  A
  deletion fills a gap in the middle with the last entry, which may belong to
  another subtree: the entry has either to sink or to rise, never both, and
  `DeleteBlock` shows that testing for a move (`sunk.index # pos`) is enough.  A step of
  either cache changes the keys of no other blocks than the one it moves in the
  heap; that is the hypothesis under which both use the lemmas.  `OptimalInv`
  adds that the map of next uses has the times of the window in order and no
  others (`WindowOK`) and that the key of a resident block is the first of them
  (`NearestOK`).  These theorems are about `OptimalSpec`; the run, which also needs the
  rival, checks the properties under `BSpec` of `Belady`, whose every step is a
  step of the cache (`ContestStepIsCacheStep`).
* **`Belady`**.  That the rival has missed at least as often is not inductive: a rival
  that is level might hold better blocks.  `BeladyInv` looks ahead: for *every* time
  `t`, what the rival holds that is used again by `t`, plus the misses of the cache, is
  at most what the cache holds that is used again by `t`, plus the misses of the
  rival (`NoRivalAhead`).  So whatever the rival has in advance it has paid for, and
  at `t = 0` this is `Optimal`.  An access keeps it because the cache gives up a block
  used last: if that one is used by `t`, so is all it holds, and the rival cannot
  hold more (`ExchangeKeepsLead`).  While `insert_block` is making room the invariant
  is about what the cache *will* hold (`Prospects`), for each victim it may still
  choose; that the heap's choice is among them is `OptimalVictimUsedLast`'s lemma.
  Blocks of one size are needed, and used: then one eviction makes room
  (`OnePerBlock`).
* **Counts over files** (`ListsCounted`, `TreeCounted` of `SimulatorTheorems`; used by
  three modules).  A list holds each file once, where the index says, in order of
  count; the non-zero prefix has as many entries as there are files with a
  count; the tree is *the* set of keys of the files with a count.  The prefix
  alone is not inductive without the order, and that no old key stays behind
  can only be seen if every key is known.  `IncrementListed`, `DecrementListed` and
  `RemoveListed` say what each operation does to this, `UsesAreCounts` that the
  policies compute a number of modules from it.  An index may hold other keys than
  those of the files listed (`OnlyIndexed` says which), as long as these are right.
* **`ModularFiles`** adds that a file never created was never probed.  That more empty
  probes give no fewer modules (`MoreEmptyMoreModules`) then follows from the counts
  being right, policy by policy.  `PercentileRises`: the list is in order, so
  the file with more is nearer to its front, and both ranks are within the
  non-zero prefix, which the divisor is the length of; for the same reason no limit
  is above the file's modules (`LimitsWithin`, also for the cost model).  `RatioRises`: the tree is the
  set of keys of the probed files, and of these a higher ratio has more below it,
  as comparing ratios by cross-multiplication is transitive (`RatiosChain`); the
  result is within the file's modules because no level has more empty probes than
  probes (`LevelsWithin`).  `CostModelRises`: a module that saves enough for the
  one file does so for the other.
* **`AccessLoop`** needs the counts to be right before anything can be said of an
  access: which filter blocks a probe reads follows from them.  In filter-only
  mode the blocks still to be accessed are filter blocks, and until the last
  point is pushed the series has a point for each period of accesses *and* the
  counters of its last point are those of that access, short only of the extra reads
  of filter-only mode.
* **`OptimalLoop`** has an invariant in three parts, each inductive given the ones
  before it.  *Window*: where the loop is, how many records it holds there, that
  records are numbered as they come, and that a counted probe of an unknown file
  still waits to be decided (from which `UnknownNotReported`).  *Counts*: each
  count is at least, and without such probes exactly, the number of the window's
  counted probes of that file: the inequality is what keeps a decrement from
  going below zero in a run that will exit later.  *Accesses*: what is in each
  lookahead, and that a pair of file and lookup in the map of unnecessary accesses
  has been decided.  The last is the reason a probe cannot change what the map
  says of an access already waiting: a record searches a file once, and
  records have different numbers.  That an index has no keys but those of created
  files, or once a probe of a lost file was counted those of lost files, is carried
  through every exchange (`OnlyIndexed`), where a swap at place 0 must map the file
  that is there and not the one looked up.
* **`ZSTDReader`**.  Three places in the file say all there is: the units that were
  decompressed (`Fed`), the characters these gave (`Given`) and those taken from
  `out_buf_` (`Seen`); the buffers hold just what is between them (`BuffersOK`).
  `Decoded` of a slice of the file is a slice of `Decoded` of the file
  (`DecodedSlice`), which is why no cut into chunks matters.  `LinesOK` relates the
  local variables of `get_next_line` to the file: no newline is between `Begin`,
  where the last complete line ended, and `Seen`; `line` holds what is between
  them, and `consumed_any` says whether that is anything.  So the next newline, or
  the end of the input, ends line `line_number + 1` (`NextEnd`, `CompleteLine`); the
  CR is dropped from the right piece because the last piece is empty exactly if
  the newline comes first in its chunk (`DropCRFrom`).  `goto_line` never passes its
  target (`CallOK`).  `DecompressError` keeps all of this: a damaged file yields its
  lines as far as it is read.  After a failed read the locals are left as they were
  and there is no call they belong to, so `DamagedInv` only keeps the lines returned.
* **`RecordParser`** adds what each stage of `parse_next_record` knows (`StageOK`): of
  the lines passed over none is a record, and after `reached_file_end` said no,
  `get_next_line` comes back with a line, which is why the code may ignore what it
  returns.  `ParsedAlike`: a line gives the same record whatever the reused `Record`
  held before, except for the entry count.
* **`AnalyzeTrace`**: looking only at the files placed since the last Get loses no
  row, because (`NoneForgotten`) a live file was placed since then or was in place
  at that Get.  A Get adds as many rows of the history as it makes probes (`AsManyMade`,
  by their numbers), whatever sequence of probes it is.
* **`TraceRunner`**: what a job knows of its simulator (`JobFollowsSimulator`), that
  nothing is killed but on the way out, and that jobs start in the order of
  `Traces`.  The failures are counted by the set of jobs reaped as failed.
  `OwnResults` is about the end; `SoFar` says the same of every moment: what the copy
  of the config holds when the simulator is about to read it, what it has read, and
  that of the logs with the names its simulations have, the first `written[t]` are
  its own and the others of before (the fraction differs between copies, so it
  matters that it is not in the name: `SameName`).  That no simulation overwrites
  the log of another follows from the names being different (`NamesDiffer`), that is,
  from the order in which `main` counts through policies and caches.  What the copy
  says is compared with the config of the whole line by line (`ParsedKept`): `Parsed` is
  a recursive function of the number of lines, and `Kept` drops those `awk` drops.

Assumptions, each the named `ASSUME` of a module: capacities, lookaheads and sizes
are naturals (those of the simulators' caches not zero); `Block`, `File` and
the traces of a batch are finite; a word can hold the capacity and the number of blocks
(`LRUAssumption`, `StackAssumption`; true of any trace that fits into memory);
`JOBS >= 1`; a Get searches a
file at most once (`OptimalAssumption`; an LSM tree has at most one version of a
file in a lookup); the error rate of a filter module is at most 1 and depends on the
number of modules only (`FileCountsAssumption`; the code computes it from that
and a `bits_per_key` that must not be negative); a log directory is named for its trace, a trace for a natural
percentage; `main` has no policy or cache twice.  `HashTellsBlocks`
assumes ids within their fields (29 bits for a file, 32 for a block within it),
which the code does not check.

Only model-checked: liveness (`CallsReturn`, `ParserReturns`, `ScriptEnds`), whose
proofs would need fairness and `ENABLED`.

## 5. What is left out

* Not modelled: the plotting and aggregation scripts, the trace format and the
  tracer (another program), `simulators.h` (declarations), `Makefile`.
* Text: `RecordParser` starts from what a line holds, not from its characters;
  `AnalyzeTrace` leaves out the key ranges and the order in which rows are
  printed; of a log file its name, and the trace and fraction it was written for,
  are kept.
* The caches of the two loops are sets of unit blocks with any victim, which
  includes what each policy would evict but not what their sizes do; the counters
  in bytes are left out with the sizes.
* Floating point is taken as exact: ratios are fractions, `round` rounds
  halves up, the verdict of a filter is free.
* Traces are well formed where a module says so: a file is created once, deleted
  at most once, and a Get searches a file once.  `ProbeUnknown` of `AccessLoop`,
  `Lost` of `OptimalLoop` and `DecompressError` of `ZSTDReader` drop parts of this.  Under
  `RecordParser` no read fails, since the program ends there.
  A trace that has lost the create record of a file, but not its delete record,
  is outside: the delete handler of `simulate_modular` (`src/simulators.cc:216`) would
  erase another file's entry, and nothing says what it should do.
* Left out because nothing reads or calls it: `access_count_` in `LRUCache` and
  `OptimalCache`, `max_percolate_*_absolute`, `set_max_lookahead`,
  `clear_lookahead`, the levels in the file map of `simulate_normal`.
* Counters of the result are not given a width (the code: 32 bits); the 16 bits of a
  file's `total_modules` are not cut.  Of `curr_access`, 16 bits, the width is modelled.
* `JOBS=0`, with which the script waits for jobs before it has any.

## 6. Plan

The order follows what the results of a simulation depend on: the caches first,
then what drives them, then what feeds them.

Done: the cache contract and its three implementations; the four simulators as
wholes, with every policy; the reader and the parser; the configuration, the
process and the batch; the rows of `analyze_trace`; the proofs of section 4.

Next, modelling:

1. `OptimalLoop` over real `OptimalCache`s, so that the window of each cache is
   the lookahead of the loop.
2. Widths: the 32-bit counters of the result.
3. Traces that lost create records, in `ModularFiles`.
