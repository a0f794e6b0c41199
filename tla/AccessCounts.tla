---------------------------- MODULE AccessCounts ----------------------------
(***************************************************************************)
(* What every simulator does with one block access: look the block up in   *)
(* its cache, a hit or a miss that inserts it, and count it in the result  *)
(* and its series (SimulationResult).  The caches are what Cache promises, *)
(* for blocks of size 1: the victim is any block.                          *)
(***************************************************************************)
EXTENDS ListOps

CONSTANTS FilterCapacity, DataCapacity,
          SeriesPerRecord,      \* values of config.series_per_record
          Word                  \* values of a uint16_t

ASSUME CountsAssumption ==
    /\ FilterCapacity \in Nat \ {0} /\ DataCapacity \in Nat \ {0}
    /\ Word \in Nat \ {0}
    /\ SeriesPerRecord \subseteq Nat

VARIABLES filter_only,      \* config.mode == kFilterOnly
          series_per_record,
          filter_cache, data_cache,
          count,            \* the counters of result
          curr_access, series

config == <<filter_only, series_per_record>>
caches == <<filter_cache, data_cache>>
result == <<count, curr_access, series>>

Counter == {"hit", "miss", "filter_hit", "filter_miss", "index_hit", "index_miss",
            "data_hit", "data_miss", "extra_read"}

\* Fault: a point is the result before the access.
PointBefore(c) == [hit |-> count.hit, miss |-> count.miss, extra_read |-> count.extra_read]
PointOf(c) == [hit |-> c.hit, miss |-> c.miss, extra_read |-> c.extra_read]

CountsInit ==
    /\ filter_only \in BOOLEAN /\ series_per_record \in SeriesPerRecord
    /\ filter_cache = {} /\ data_cache = {}
    /\ count = [c \in Counter |-> 0]
    /\ curr_access = 0 /\ series = <<>>

\* What a trace says of a block that a probe read.
BlockType == {"undefined", "index", "filter", "data"}
Block == [type : BlockType, id : Nat]

\* Of the blocks of a probe only index and data blocks are looked up.
Simulated(reads) == Kept(reads, {i \in 1 .. Len(reads) : reads[i].type \in {"index", "data"}})

\* The blocks of a probe in order: used blocks of its filter, then those read.
BlocksOf(f, used, reads) ==
    [i \in 1 .. used |-> [file |-> f, type |-> "filter", id |-> i]]
        \o [i \in 1 .. Len(reads) |-> [file |-> f, type |-> reads[i].type, id |-> reads[i].id]]

\* The cache after an access to b: some block is evicted if it was full.
After(cache, b, capacity) ==
    IF b \in cache THEN {cache}
    ELSE IF Cardinality(cache) < capacity THEN {cache \cup {b}}
    ELSE {(cache \ {victim}) \cup {b} : victim \in cache}

Typed ==
    [filter |-> [hit |-> "filter_hit", miss |-> "filter_miss"],
     index |-> [hit |-> "index_hit", miss |-> "index_miss"],
     data |-> [hit |-> "data_hit", miss |-> "data_miss"]]

\* Fault: a hit is counted by the type of the block alone.
CountedByType(b, outcome) ==
    [c \in Counter |-> IF c \in {outcome, Typed[b.type][outcome]} \ {"hit"} THEN count[c] + 1
                       ELSE count[c]]
Counted(b, outcome) ==
    [c \in Counter |-> IF c \in {outcome, Typed[b.type][outcome]} THEN count[c] + 1
                       ELSE count[c]]

\* Fault: a filter block missed for nothing is an extra read too.
IsExtraOfAny(b, outcome, unnecessary) == outcome = "miss" /\ unnecessary
\* A miss of a block that need not have been read is an extra read.
IsExtra(b, outcome, unnecessary) == outcome = "miss" /\ unnecessary /\ b.type # "filter"

\* Fault: curr_access is not reset.
PushWithoutReset(point) ==
    LET next == (curr_access + 1) % Word IN
    /\ curr_access' = next
    /\ series' = IF next = series_per_record THEN Append(series, point) ELSE series
\* ++curr_access == series_per_record: a point of the series.  curr_access is a
\* uint16_t, so it is never a big series_per_record, and after it wraps is 0.
Push(point) ==
    LET next == (curr_access + 1) % Word IN
    IF next = series_per_record
    THEN curr_access' = 0 /\ series' = Append(series, point)
    ELSE curr_access' = next /\ UNCHANGED series

\* Where the optimal simulators push a point for a data block, its extra read
\* is not counted yet (late).
AccessTo(b, unnecessary, late) ==
    LET outcome == IF b \in filter_cache \cup data_cache THEN "hit" ELSE "miss"
        counted == Counted(b, outcome)
    IN  /\ IF b.type = "data"
           THEN data_cache' \in After(data_cache, b, DataCapacity) /\ UNCHANGED filter_cache
           ELSE filter_cache' \in After(filter_cache, b, FilterCapacity) /\ UNCHANGED data_cache
        /\ count' = IF IsExtra(b, outcome, unnecessary)
                    THEN [counted EXCEPT !.extra_read = @ + 1] ELSE counted
        /\ Push(PointOf(IF late THEN counted ELSE count'))

\* The last point, for the accesses since the one before it.
LastPush == series' = IF curr_access # 0 THEN Append(series, PointOf(count)) ELSE series

(***************************************************************************)
(* The series, while the accesses are made and when they have ended.       *)
(***************************************************************************)
Latest == series[Len(series)]
Period == IF series_per_record = 0 THEN Word ELSE series_per_record

\* A point is due every Period accesses, none is missed and none taken twice; if
\* curr_access never is series_per_record, none but the last is taken.
FullPoints(ended) == IF ended /\ curr_access # 0 THEN Len(series) - 1 ELSE Len(series)
PointsDue(full) ==
    LET accesses == count.hit + count.miss IN
    /\ IF series_per_record < Word
       THEN full * Period + curr_access = accesses /\ curr_access < Period
       ELSE full = 0 /\ curr_access = accesses % Word
    /\ \A i \in 1 .. full : series[i].hit + series[i].miss = i * Period
=============================================================================
