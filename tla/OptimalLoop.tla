----------------------------- MODULE OptimalLoop -----------------------------
(***************************************************************************)
(* simulate_optimal and simulate_optimal_modular (optimal_simulators.cc)   *)
(* over a trace.  Deciding a Get record adds its accesses to the lookahead *)
(* of their cache; they are made when more than optimal_lookahead wait, or *)
(* the trace has ended.  simulate_optimal decides a Get when it reads it;  *)
(* simulate_optimal_modular (policy # "none") first keeps it in a window   *)
(* of modular_lookahead records, whose probes it counts.  Delete records   *)
(* are ignored, and the create records of some files may be lost.          *)
(***************************************************************************)
EXTENDS AccessCounts, FileCounts

CONSTANTS Gets,                 \* Get records: sequences of probes
          Lost,                 \* the files without a create record
          optimal_lookahead, modular_lookahead,
          workload_empty_fraction,
          MaxGets               \* bound: Get records in the trace

\* file_outcome, as far as the simulators tell outcomes apart.
Outcome == {"found", "not_found", "error"}
Probe == [file : File, level : Level, outcome : Outcome, reads : Seq(Block)]

\* A Get searches a file at most once.
ASSUME OptimalAssumption ==
    /\ Gets \subseteq Seq(Probe)
    /\ \A get \in Gets : \A i, j \in 1 .. Len(get) : get[i].file = get[j].file => i = j
    /\ Lost \subseteq File
    /\ {optimal_lookahead, modular_lookahead, MaxGets} \subseteq Nat
    /\ workload_empty_fraction \in Fraction

VARIABLES file_map,             \* the files created
          next_get_records,     \* the window; of simulate_optimal, the record at hand
          get_counter,
          filter_lookahead, data_lookahead, unnecessary_access_map,
          trace_left,           \* parse_next_record has returned no false yet
          loop,                 \* read, enter, decide, leave, consume, end, exit
          probes_left,          \* of the record that is entered, decided, or leaves
          added,                \* history: accesses added to the lookaheads
          lost_read             \* history: a probe of a lost file was counted

window == <<next_get_records, get_counter>>
lookaheads == <<filter_lookahead, data_lookahead, unnecessary_access_map, added>>
simulated == <<caches, result>>
trace == <<config, file_map, trace_left>>
vars == <<counts, simulated, trace, window, lookaheads, loop, probes_left, lost_read>>

Init ==
    /\ FileCountsInit /\ CountsInit
    /\ file_map = {}
    /\ next_get_records = <<>> /\ get_counter = 0
    /\ filter_lookahead = <<>> /\ data_lookahead = <<>>
    /\ unnecessary_access_map = {}
    /\ trace_left = TRUE /\ loop = "read" /\ probes_left = <<>>
    /\ added = 0 /\ lost_read = FALSE

Front == Head(next_get_records)
Goto(where, probes) == loop' = where /\ probes_left' = probes

(***************************************************************************)
(* Reading.                                                                *)
(***************************************************************************)
CreateFile(f) ==
    /\ loop = "read"
    /\ f \notin file_map \cup Lost
    /\ file_map' = file_map \cup {f}
    /\ IF Modular THEN CountFile(f) ELSE UNCHANGED counts
    /\ UNCHANGED <<simulated, config, trace_left, window, lookaheads, loop,
                   probes_left, lost_read>>

ReadGet(get) ==
    /\ loop = "read"
    /\ get_counter < MaxGets
    /\ \A i \in 1 .. Len(get) : get[i].file \in file_map \cup Lost
    /\ get_counter' = get_counter + 1
    /\ next_get_records' = Append(next_get_records, [lookup |-> get_counter', probes |-> get])
    /\ Goto(IF Modular THEN "enter" ELSE "decide", get)
    /\ UNCHANGED <<counts, simulated, trace, lookaheads, lost_read>>

\* The probes are counted, before anything asks whether their files exist: an
\* unknown one counts for the first entry, and crashes if there is none.
EnterProbe ==
    /\ loop = "enter" /\ probes_left # <<>>
    /\ LET p == Head(probes_left) IN
       /\ p.file \in file_map \/ total.list # <<>>
       /\ CountProbe(p.file, p.level, p.outcome = "not_found")
       /\ lost_read' = (lost_read \/ p.file \notin file_map)
    /\ Goto("enter", Tail(probes_left))
    /\ UNCHANGED <<simulated, trace, window, lookaheads>>

EnterUnknown ==
    /\ loop = "enter" /\ probes_left # <<>>
    /\ Head(probes_left).file \notin file_map /\ total.list = <<>>
    /\ Goto("exit", <<>>)
    /\ UNCHANGED <<counts, simulated, trace, window, lookaheads, lost_read>>

\* Fault: one record too many is kept.
EndEnterLate ==
    /\ loop = "enter" /\ probes_left = <<>>
    /\ IF get_counter <= modular_lookahead THEN Goto("read", <<>>)
       ELSE Goto("decide", Front.probes)
    /\ UNCHANGED <<counts, simulated, trace, window, lookaheads, lost_read>>
EndEnter ==
    /\ loop = "enter" /\ probes_left = <<>>
    /\ IF get_counter < modular_lookahead THEN Goto("read", <<>>)
       ELSE Goto("decide", Front.probes)
    /\ UNCHANGED <<counts, simulated, trace, window, lookaheads, lost_read>>

(***************************************************************************)
(* Deciding the front record: which accesses its probes make.              *)
(***************************************************************************)
Waiting(probe, use) ==
    LET kept_out == filter_only \/ (probe.outcome = "not_found" /\ ~ use[2])
        behind == IF kept_out THEN <<>> ELSE Simulated(probe.reads)
        blocks == BlocksOf(probe.file, use[1], behind)
    IN  [i \in 1 .. Len(blocks) |->
            [block |-> blocks[i], lookup |-> Front.lookup,
             not_found |-> probe.outcome = "not_found"]]

\* The places of the accesses to blocks of some types.
Places(accesses, types) == {i \in 1 .. Len(accesses) : accesses[i].block.type \in types}
NotData == BlockType \ {"data"}

DecideProbe ==
    /\ loop = "decide" /\ probes_left # <<>>
    /\ LET p == Head(probes_left)
           limit == Limit(p.file, Len(next_get_records), LevelFraction(p.level),
                          workload_empty_fraction)
       IN
       /\ p.file \in file_map
       /\ \E use \in FilterUses(p.file, p.outcome = "found", limit) :
             LET accesses == Waiting(p, use)
                 false_positive == p.outcome = "not_found" /\ use[2]
             IN
             /\ filter_lookahead' = filter_lookahead \o Kept(accesses, Places(accesses, NotData))
             /\ data_lookahead' = data_lookahead \o Kept(accesses, Places(accesses, {"data"}))
             /\ unnecessary_access_map' = unnecessary_access_map
                   \cup IF false_positive /\ ~ filter_only THEN {<<p.file, Front.lookup>>} ELSE {}
             /\ count' = IF false_positive /\ filter_only
                         THEN [count EXCEPT !.extra_read = @ + Len(p.reads)] ELSE count
             /\ added' = added + Len(accesses)
    /\ Goto("decide", Tail(probes_left))
    /\ UNCHANGED <<counts, caches, curr_access, series, trace, window, lost_read>>

\* Fault: such a probe is passed over.
DecideUnknownNot ==
    /\ loop = "decide" /\ probes_left # <<>>
    /\ Head(probes_left).file \notin file_map
    /\ Goto("decide", Tail(probes_left))
    /\ UNCHANGED <<counts, simulated, trace, window, lookaheads, lost_read>>
\* "inconsistent simulation state, never-created file_id accessed"
DecideUnknown ==
    /\ loop = "decide" /\ probes_left # <<>>
    /\ Head(probes_left).file \notin file_map
    /\ Goto("exit", <<>>)
    /\ UNCHANGED <<counts, simulated, trace, window, lookaheads, lost_read>>

\* The record at hand of simulate_optimal is done with.
EndDecide ==
    /\ loop = "decide" /\ probes_left = <<>>
    /\ IF Modular THEN Goto("leave", Front.probes) /\ UNCHANGED window
       ELSE /\ Goto("consume", <<>>)
            /\ next_get_records' = <<>> /\ UNCHANGED get_counter
    /\ UNCHANGED <<counts, simulated, trace, lookaheads, lost_read>>

\* The second loop of update_lookahead.
LeaveProbe ==
    /\ loop = "leave" /\ probes_left # <<>>
    /\ LET p == Head(probes_left) IN UncountProbe(p.file, p.level, p.outcome = "not_found")
    /\ Goto("leave", Tail(probes_left))
    /\ UNCHANGED <<simulated, trace, window, lookaheads, lost_read>>

\* update_lookahead returns; after the trace it is called for every record left.
EndLeave ==
    /\ loop = "leave" /\ probes_left = <<>>
    /\ next_get_records' = Tail(next_get_records)
    /\ IF trace_left \/ next_get_records' = <<>> THEN Goto("consume", <<>>)
       ELSE Goto("decide", Head(next_get_records').probes)
    /\ UNCHANGED <<counts, simulated, trace, get_counter, lookaheads, lost_read>>

(***************************************************************************)
(* Consuming: the oldest access is made, of the filter lookahead first.    *)
(***************************************************************************)
Excess(lookahead) ==
    loop = "consume" /\ Len(lookahead) > IF trace_left THEN optimal_lookahead ELSE 0

\* Fault: the map is asked for the file alone.
UnnecessaryOfFile(a) == \E id \in 1 .. MaxGets : <<a.block.file, id>> \in unnecessary_access_map
Unnecessary(a) == <<a.block.file, a.lookup>> \in unnecessary_access_map

ConsumeFilter ==
    /\ Excess(filter_lookahead)
    /\ LET a == Head(filter_lookahead) IN AccessTo(a.block, Unnecessary(a), FALSE)
    /\ filter_lookahead' = Tail(filter_lookahead)
    /\ UNCHANGED <<counts, trace, window, data_lookahead, unnecessary_access_map, added,
                   loop, probes_left, lost_read>>

ConsumeData ==
    /\ ~ Excess(filter_lookahead) /\ Excess(data_lookahead)
    /\ LET a == Head(data_lookahead) IN AccessTo(a.block, Unnecessary(a), TRUE)
    /\ data_lookahead' = Tail(data_lookahead)
    /\ UNCHANGED <<counts, trace, window, filter_lookahead, unnecessary_access_map, added,
                   loop, probes_left, lost_read>>

NextRecord ==
    /\ loop = "consume" /\ trace_left
    /\ ~ Excess(filter_lookahead) /\ ~ Excess(data_lookahead)
    /\ Goto("read", <<>>)
    /\ UNCHANGED <<counts, simulated, trace, window, lookaheads, lost_read>>

\* The records left in the window are all decided before any access is made.
EndTrace ==
    /\ loop = "read"
    /\ trace_left' = FALSE
    /\ IF next_get_records = <<>> THEN Goto("consume", <<>>) ELSE Goto("decide", Front.probes)
    /\ UNCHANGED <<counts, simulated, config, file_map, window, lookaheads, lost_read>>

End ==
    /\ loop = "consume" /\ ~ trace_left
    /\ ~ Excess(filter_lookahead) /\ ~ Excess(data_lookahead)
    /\ Goto("end", <<>>)
    /\ LastPush
    /\ UNCHANGED <<counts, caches, count, curr_access, trace, window, lookaheads, lost_read>>

Next ==
    \/ \E f \in File : CreateFile(f)
    \/ \E get \in Gets : ReadGet(get)
    \/ EnterProbe \/ EnterUnknown \/ EndEnter
    \/ DecideProbe \/ DecideUnknown \/ EndDecide
    \/ LeaveProbe \/ EndLeave
    \/ ConsumeFilter \/ ConsumeData \/ NextRecord
    \/ EndTrace \/ End

Spec == Init /\ [][Next]_vars

(***************************************************************************)
(* Properties.                                                             *)
(***************************************************************************)
\* The probes the counts stand for: those of the window, but not the ones the
\* last record has yet to add, nor the ones the first has already taken back.
CountedProbes ==
    {x \in UNION {{i} \X (1 .. Len(next_get_records[i].probes)) :
                      i \in 1 .. Len(next_get_records)} :
        LET behind == Len(next_get_records[x[1]].probes) - Len(probes_left) IN
        /\ loop = "enter" /\ x[1] = Len(next_get_records) => x[2] <= behind
        /\ loop = "leave" /\ x[1] = 1 => x[2] > behind}
ProbeAt(x) == next_get_records[x[1]].probes[x[2]]

\* "list of <file_id, probe_count> in the current window": every count is a
\* recount of the window, so no decrement goes below zero, and what decides a
\* record includes the record.  A probe of an unknown file breaks this.
CountsAreWindow ==
    Modular /\ ~ lost_read /\ loop # "exit" =>
        /\ \A f \in file_map :
              LET of_f == {x \in CountedProbes : ProbeAt(x).file = f} IN
              /\ TotalCount(f) = Cardinality(of_f)
              /\ EmptyCount(f) = Cardinality({x \in of_f : ProbeAt(x).outcome = "not_found"})
        /\ \A l \in Level :
              LET on_l == {x \in CountedProbes : ProbeAt(x).level = l} IN
              /\ levelwise_total_count[l] = Cardinality(on_l)
              /\ levelwise_empty_count[l]
                    = Cardinality({x \in on_l : ProbeAt(x).outcome = "not_found"})

\* "sorted on probe_count", "file_id to index map": through increments and
\* decrements both lists stay in order, every file where its index says.  What
\* else is in an index, operator[] made for a lost file.
ListsIndexed ==
    Modular => \A l \in {total, empty} :
        /\ Descending(l) /\ WellPlaced(l) /\ Files(l) = file_map
        /\ DOMAIN l.index \subseteq file_map \cup (IF lost_read THEN Lost ELSE {})

\* "holds every file with a non-zero total count", under its present ratio.
RatioTreeMatches == ~ lost_read => PrefixNonZero /\ TreeMatches

\* While there is trace, a record is decided when the window has the length of
\* modular_lookahead (1 if that is 0), and between records no more accesses
\* wait than optimal_lookahead; at the end nothing is left of either.
Bounds ==
    /\ loop = "decide" /\ trace_left =>
          Len(next_get_records) = IF Modular /\ modular_lookahead > 0 THEN modular_lookahead ELSE 1
    /\ loop = "read" => \A q \in {filter_lookahead, data_lookahead} : Len(q) <= optimal_lookahead
    /\ loop = "end" => <<next_get_records, filter_lookahead, data_lookahead>> = <<<<>>, <<>>, <<>>>>

\* Every access decided on is made once, none is lost between the two: those
\* made and those waiting are those added.
NoAccessLost == count.hit + count.miss + Len(filter_lookahead) + Len(data_lookahead) = added

\* An access made long after its probe is still told apart by the map: it is
\* unnecessary exactly if the probe found nothing.
MapTellsUnnecessary ==
    \A a \in {filter_lookahead[i] : i \in 1 .. Len(filter_lookahead)}
                \cup {data_lookahead[i] : i \in 1 .. Len(data_lookahead)} :
        a.block.type # "filter" => (Unnecessary(a) <=> a.not_found)

\* The points of the series come when they are due, however long their accesses
\* had waited.  Whenever no access came after the last point, it has the hits and
\* misses so far; but an extra read of a data block is counted after its point,
\* so one may be missing, in filter-only mode also those of the decisions since.
SeriesOnTime ==
    /\ PointsDue(FullPoints(loop = "end"))
    /\ loop = "end" /\ curr_access # 0 => Latest = PointOf(count)
    /\ curr_access = 0 /\ series # <<>> =>
          LET late == count.extra_read - Latest.extra_read IN
          /\ Latest.hit = count.hit /\ Latest.miss = count.miss
          /\ late >= 0 /\ (~ filter_only => late <= 1)

\* A simulation that ends has counted no probe of a file it knows nothing of:
\* each one is met again when its record is decided, and exits.
UnknownNotReported == loop = "end" => ~ lost_read
=============================================================================
