---------------------------- MODULE AnalyzeTrace ----------------------------
(***************************************************************************)
(* analyze_trace.cc: the rows of the access table, one per file and level. *)
(* A row is made when a Get finds the file in place there, or probes it.   *)
(* To spare the live files at every Get, only those placed since the last  *)
(* one are looked at.  The key ranges of the files, by which the rows are  *)
(* sorted at the end, are left out.                                        *)
(***************************************************************************)
EXTENDS ResidentBytes, Sequences

CONSTANTS File, Level,
          Gets,                 \* Get records: sequences of probes
          MaxGets               \* bound: Get records in the trace

Probe == [file : File, level : Level, not_found : BOOLEAN]

ASSUME AnalyzeAssumption ==
    IsFiniteSet(File) /\ Gets \subseteq Seq(Probe) /\ MaxGets \in Nat

VARIABLES live_levels, placed, access_map,
          gets,                 \* Get records so far
          in_place, probes      \* history: <<level, file>> live at some Get; the
                                \* probes made, <<get, number, level, file,
                                \* not_found>>

analyzeVars == <<live_levels, placed, access_map, gets, in_place, probes>>

AnalyzeInit ==
    /\ live_levels = <<>> /\ placed = {} /\ access_map = <<>>
    /\ gets = 0 /\ in_place = {} /\ probes = {}

\* A create or a move record; a move may also be of a file that was deleted.
PlaceFile(f, l) ==
    /\ live_levels' = Add(live_levels, f, l)
    /\ placed' = placed \cup {f}
    /\ UNCHANGED <<access_map, gets, in_place, probes>>

DeleteFile(f) ==
    /\ live_levels' = Drop(live_levels, f)
    /\ UNCHANGED <<placed, access_map, gets, in_place, probes>>

\* access_map.try_emplace for what is placed and still live, then the counts.
NewRow == [total |-> 0, empty |-> 0]

\* Fault: a row that is there is made anew.
WithNewRows(rows, keys) ==
    [k \in DOMAIN rows \cup keys |-> IF k \in keys THEN NewRow ELSE rows[k]]
WithRows(rows, keys) ==
    [k \in DOMAIN rows \cup keys |-> IF k \in DOMAIN rows THEN rows[k] ELSE NewRow]

PlacedRows == {<<live_levels[f], f>> : f \in placed \cap DOMAIN live_levels}

\* A Get makes any number of probes, one after another.
Get(get) ==
    LET keys == {<<get[i].level, get[i].file>> : i \in 1 .. Len(get)}
        rows == WithRows(access_map, PlacedRows \cup keys)
        ProbesOf(k) == {i \in 1 .. Len(get) : get[i].level = k[1] /\ get[i].file = k[2]}
    IN
    /\ gets < MaxGets
    /\ access_map' = [k \in DOMAIN rows |->
                         [total |-> rows[k].total + Cardinality(ProbesOf(k)),
                          empty |-> rows[k].empty
                                       + Cardinality({i \in ProbesOf(k) : get[i].not_found})]]
    /\ placed' = {}
    /\ gets' = gets + 1
    /\ in_place' = in_place \cup {<<live_levels[f], f>> : f \in DOMAIN live_levels}
    /\ probes' = probes \cup {<<gets, i, get[i].level, get[i].file, get[i].not_found>> :
                                  i \in 1 .. Len(get)}
    /\ UNCHANGED live_levels

AnalyzeNext ==
    \/ \E f \in File, l \in Level : PlaceFile(f, l)
    \/ \E f \in File : DeleteFile(f)
    \/ \E get \in Gets : Get(get)

AnalyzeSpec == AnalyzeInit /\ [][AnalyzeNext]_analyzeVars

(***************************************************************************)
(* Properties.                                                             *)
(***************************************************************************)
\* "a file in place when a Get runs gets a row even if no Get ever probes it",
\* and no other gets one, however it was moved or deleted between two Gets; a
\* row counts the probes of its file on its level, and no other row does.
RowsExact ==
    /\ DOMAIN access_map = in_place \cup {<<p[3], p[4]>> : p \in probes}
    /\ \A k \in DOMAIN access_map :
          LET mine == {p \in probes : p[3] = k[1] /\ p[4] = k[2]} IN
          /\ access_map[k].total = Cardinality(mine)
          /\ access_map[k].empty = Cardinality({p \in mine : p[5]})
=============================================================================
