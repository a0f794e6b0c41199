----------------------------- MODULE AccessLoop -----------------------------
(***************************************************************************)
(* simulate_normal and simulate_modular (simulators.cc) over a trace.  A   *)
(* probe of a file becomes accesses to filter, index and data blocks in    *)
(* two caches; simulate_modular (policy # "none") also counts it, and has  *)
(* the counts of the probes before it limit the filter modules it uses.    *)
(* A move record changes a level that is never read, and is left out.      *)
(***************************************************************************)
EXTENDS AccessCounts, FileMap

CONSTANTS Reads,                \* what a probe reads: sequences of Block
          MaxAccesses           \* bound: block accesses

ASSUME LoopAssumption == Reads \subseteq Seq(Block) /\ MaxAccesses \in Nat

VARIABLES todo, unnecessary,    \* of the probe at hand: the blocks it has yet to
                                \* access, whether it found nothing, and what it
          extra_reads,          \* adds to the extra reads in filter-only mode
          main,             \* run, done, or exit
          clean             \* history: the files deleted and not accessed since

probe == <<todo, unnecessary, extra_reads>>
vars == <<config, counts, files, caches, result, probe, main, clean>>

Init ==
    /\ FileCountsInit /\ FilesInit /\ CountsInit
    /\ todo = <<>> /\ unnecessary = FALSE /\ extra_reads = 0
    /\ main = "run"
    /\ clean = {}

Between == todo = <<>> /\ extra_reads = 0 /\ main = "run"
BetweenRecords == Between /\ touched = {}

CreateFile(f) ==
    /\ BetweenRecords
    /\ f \notin DOMAIN file_map
    /\ file_map' = Add(file_map, f, [deleted |-> FALSE, creation_lookup |-> lookup_count])
    /\ IF Modular THEN CountFile(f) ELSE UNCHANGED counts
    /\ UNCHANGED <<config, lookup_count, touched, caches, result, probe, main, clean>>

\* Fault: the index blocks, which share the filter cache, are not removed.
BlocksWithoutFilters(blocks, f) == {b \in blocks : b.file # f \/ b.type = "index"}
\* remove_file_blocks.
BlocksWithout(blocks, f) == {b \in blocks : b.file # f}

\* The file stays in file_map; simulate_normal does not mark it.
DeleteFile(f) ==
    /\ BetweenRecords
    /\ f \in DOMAIN file_map /\ ~ file_map[f].deleted
    /\ filter_cache' = BlocksWithout(filter_cache, f)
    /\ data_cache' = BlocksWithout(data_cache, f)
    /\ clean' = clean \cup {f}
    /\ file_map' = [file_map EXCEPT ![f].deleted = Modular]
    /\ IF Modular THEN UncountFile(f) ELSE UNCHANGED counts
    /\ UNCHANGED <<config, lookup_count, touched, result, probe, main>>

(***************************************************************************)
(* A probe.  Its outcome is found, not_found, or an error, which is not    *)
(* found and yet not NotFound: its blocks are read whatever a filter says. *)
(***************************************************************************)
ModuleLimit(f, l) ==
    IF file_map[f].deleted THEN TotalModules[f]
    ELSE Limit(f, lookup_count - file_map[f].creation_lookup, LevelFraction(l), LevelFraction(l))

ProbeFile(f, l, outcome, reads) ==
    /\ Between
    /\ lookup_count < MaxLookups
    /\ f \in DOMAIN file_map \ touched
    /\ touched' = touched \cup {f}
    /\ unnecessary' = (outcome = "not_found")
    /\ IF Modular /\ ~ file_map[f].deleted
       THEN CountProbe(f, l, unnecessary') ELSE UNCHANGED counts
    /\ \E use \in FilterUses(f, outcome = "found", ModuleLimit(f, l)) :
          LET kept_out == unnecessary' /\ ~ use[2]
              behind == IF filter_only \/ kept_out THEN <<>> ELSE Simulated(reads)
          IN
          /\ count.hit + count.miss + use[1] + Len(behind) <= MaxAccesses
          /\ todo' = BlocksOf(f, use[1], behind)
          /\ extra_reads' = IF filter_only /\ unnecessary' /\ use[2] THEN Len(reads) ELSE 0
    /\ UNCHANGED <<config, file_map, lookup_count, caches, result, main, clean>>

AccessBlock ==
    /\ todo # <<>>
    /\ AccessTo(Head(todo), unnecessary, FALSE)
    /\ clean' = clean \ {Head(todo).file}
    /\ todo' = Tail(todo)
    /\ UNCHANGED <<config, counts, files, unnecessary, extra_reads, main>>

\* "filter-only: no data blocks are simulated, just count the extra reads": the
\* points that the accesses to the filter have pushed are without them.
CountExtra ==
    /\ todo = <<>> /\ extra_reads > 0
    /\ count' = [count EXCEPT !.extra_read = @ + extra_reads]
    /\ extra_reads' = 0
    /\ UNCHANGED <<config, counts, files, caches, curr_access, series, todo, unnecessary,
                   main, clean>>

EndGet ==
    /\ Between
    /\ lookup_count < MaxLookups
    /\ lookup_count' = lookup_count + 1
    /\ touched' = {}
    /\ UNCHANGED <<config, counts, file_map, caches, result, probe, main, clean>>

\* The end of the trace: a last point for what is left.
EndTrace ==
    /\ BetweenRecords
    /\ main' = "done"
    /\ LastPush
    /\ UNCHANGED <<config, counts, files, caches, count, curr_access, probe, clean>>

\* "inconsistent simulation state, never-created file_id accessed"
ProbeUnknown ==
    /\ Between
    /\ DOMAIN file_map # File
    /\ main' = "exit"
    /\ UNCHANGED <<config, counts, files, caches, result, probe, clean>>

Next ==
    \/ \E f \in File : CreateFile(f) \/ DeleteFile(f)
    \/ \E f \in File, l \in Level, reads \in Reads :
          \E outcome \in {"found", "not_found", "error"} : ProbeFile(f, l, outcome, reads)
    \/ AccessBlock
    \/ CountExtra
    \/ EndGet
    \/ ProbeUnknown
    \/ EndTrace

Spec == Init /\ [][Next]_vars

(***************************************************************************)
(* Properties.                                                             *)
(***************************************************************************)
\* The counts by type add up to the whole; extra reads are misses of blocks
\* behind a filter, except in filter-only mode, where no such block is read.
CountsAddUp ==
    /\ count.hit = count.filter_hit + count.index_hit + count.data_hit
    /\ count.miss = count.filter_miss + count.index_miss + count.data_miss
    /\ ~ filter_only => count.extra_read <= count.index_miss + count.data_miss
    /\ filter_only => count.hit + count.miss = count.filter_hit + count.filter_miss

\* The points of the series come when they are due, for every series_per_record
\* the config may have.  Whenever no access came after the last point, it has the
\* hits and misses so far, and the extra reads but for those of filter-only mode,
\* which are counted after it; if accesses did, another one ends the series.
SeriesOnTime ==
    /\ PointsDue(FullPoints(main = "done"))
    /\ main = "done" /\ curr_access # 0 => Latest = PointOf(count)
    /\ curr_access = 0 /\ series # <<>> =>
          /\ Latest.hit = count.hit /\ Latest.miss = count.miss
          /\ IF filter_only THEN Latest.extra_read <= count.extra_read
             ELSE Latest.extra_read = count.extra_read

\* A deleted file has no block in a cache until it is accessed again, and a
\* block that is resident is one of a file that was created.
DeletedFileIsGone ==
    \A b \in filter_cache \cup data_cache : b.file \in DOMAIN file_map \ clean
=============================================================================
