-------------------------- MODULE OptimalLoopProofs --------------------------
(***************************************************************************)
(* simulate_optimal and simulate_optimal_modular: the counts are those of  *)
(* the window, no access is lost between its record and its cache, and     *)
(* one of a file nothing is known of is never reported: for every trace,   *)
(* lookahead, capacity and policy.                                         *)
(*                                                                         *)
(* The inductive invariant comes in three parts, each inductive given the  *)
(* ones before: the window and its records, the counts of its probes, and  *)
(* the accesses that wait.  The second needs the first, to know that a     *)
(* probe leaves as it entered; the third needs the second, because only by *)
(* true counts is the number of filter modules of a probe a number.        *)
(***************************************************************************)
EXTENDS OptimalLoop, SimulatorTheorems

(***************************************************************************)
(* Part one: the window.                                                   *)
(***************************************************************************)
Record == [lookup : Nat, probes : Gets]

\* What is left of a record's probes: the last of them.
Rest(left, probes) ==
    /\ left \in Seq(Probe)
    /\ Len(left) <= Len(probes)
    /\ \A k \in 1 .. Len(left) : left[k] = probes[Len(probes) - Len(left) + k]

\* The record whose probes are gone through, and how many of them have been.
AtHand == IF loop = "enter" THEN Len(next_get_records) ELSE 1
GoneThrough(i) == Len(next_get_records[i].probes) - Len(probes_left)

\* The length of the window when a record is decided, while there is trace.
Held == IF Modular /\ modular_lookahead > 0 THEN modular_lookahead ELSE 1

Loop == {"read", "enter", "decide", "leave", "consume", "end", "exit"}

ControlOK ==
    /\ filter_only \in BOOLEAN /\ trace_left \in BOOLEAN /\ lost_read \in BOOLEAN
    /\ loop \in Loop
    /\ file_map \subseteq File \ Lost
    /\ get_counter \in Nat
    /\ next_get_records \in Seq(Record)
    /\ loop \in {"enter", "leave"} \/ lost_read => Modular
    /\ loop \in {"read", "enter"} => trace_left
    /\ loop = "end" => ~ trace_left

ProbesOK ==
    IF loop \in {"enter", "decide", "leave"}
    THEN /\ next_get_records # <<>>
         /\ Rest(probes_left, next_get_records[AtHand].probes)
    ELSE probes_left = <<>>

\* Records are numbered as they come.
Numbered ==
    \A i \in 1 .. Len(next_get_records) :
        next_get_records[i].lookup = get_counter - Len(next_get_records) + i

WindowLength ==
    /\ trace_left =>
          /\ loop = "read" =>
                Len(next_get_records) = IF get_counter < Held THEN get_counter ELSE Held - 1
          /\ loop = "enter" =>
                Len(next_get_records) = IF get_counter < Held THEN get_counter ELSE Held
          /\ loop \in {"decide", "leave"} =>
                Len(next_get_records) = Held /\ get_counter >= Held
          /\ loop = "consume" => Len(next_get_records) = Held - 1 /\ get_counter >= Held
    /\ ~ trace_left /\ loop \in {"consume", "end"} => next_get_records = <<>>

\* A record is read when its files are created, but for lost ones; what has been
\* decided of one is of files that are known.
FilesKnown ==
    /\ \A i \in 1 .. Len(next_get_records) : \A j \in 1 .. Len(next_get_records[i].probes) :
          next_get_records[i].probes[j].file \in file_map \cup Lost
    /\ loop \in {"decide", "leave"} =>
          \A j \in 1 .. Len(next_get_records[1].probes) :
              (loop = "decide" => j <= GoneThrough(1)) =>
                  next_get_records[1].probes[j].file \in file_map

\* A probe of a lost file that was counted waits to be decided.
LostWaits ==
    lost_read /\ loop # "exit" =>
        \E i \in 1 .. Len(next_get_records) : \E j \in 1 .. Len(next_get_records[i].probes) :
            /\ next_get_records[i].probes[j].file \in Lost
            /\ loop = "decide" /\ i = 1 => j > GoneThrough(1)
            /\ loop = "leave" => i > 1

Window == ControlOK /\ ProbesOK /\ Numbered /\ WindowLength /\ FilesKnown /\ LostWaits

(***************************************************************************)
(* Part two: the counts.                                                   *)
(***************************************************************************)
\* The probes counted that are of a kind.
Of(kind) == {x \in CountedProbes : ProbeAt(x) \in kind}
OfFile(f) == {p \in Probe : p.file = f}
OnLevel(l) == {p \in Probe : p.level = l}
Empty(kind) == {p \in kind : p.outcome = "not_found"}

CountedFiles == IF Modular THEN file_map ELSE {}

\* A lost file's probe is counted for some other file: no file counts less than
\* its own probes, and none counts more while there is no such probe.
Covers(n, probes) == n >= Cardinality(probes) /\ (~ lost_read => n = Cardinality(probes))

Recounted ==
    Modular /\ loop # "exit" =>
        /\ IsFiniteSet(CountedProbes)
        /\ \A f \in file_map :
              /\ Covers(TotalCount(f), Of(OfFile(f)))
              /\ Covers(EmptyCount(f), Of(Empty(OfFile(f))))
        /\ \A l \in Level :
              /\ levelwise_total_count[l] = Cardinality(Of(OnLevel(l)))
              /\ levelwise_empty_count[l] = Cardinality(Of(Empty(OnLevel(l))))

\* The key that such a probe left is in the tree for good.
TreeOK ==
    /\ IsFiniteSet(ratio_tree)
    /\ ~ lost_read => TreeCounted(CountedFiles)
    /\ lost_read /\ policy = "ratio" => \E k \in ratio_tree : k.file \in Lost

LevelsOK == DOMAIN levelwise_total_count = Level /\ DOMAIN levelwise_empty_count = Level

\* Of a lost file that was counted an index may have a key, but no list an entry.
IndexedFiles == CountedFiles \cup IF lost_read THEN Lost ELSE {}

Counts ==
    /\ ListsCounted(CountedFiles) /\ OnlyIndexed(IndexedFiles)
    /\ Recounted /\ TreeOK /\ LevelsOK

(***************************************************************************)
(* Part three: the accesses that wait.                                     *)
(***************************************************************************)
Access == [block : CachedBlock, lookup : Nat, not_found : BOOLEAN]

Queued(q, types) ==
    /\ q \in Seq(Access)
    /\ \A i \in 1 .. Len(q) : q[i].block.type \in types

QueuesOK ==
    /\ Queued(filter_lookahead, NotData) /\ Queued(data_lookahead, {"data"})
    /\ unnecessary_access_map \subseteq File \X Nat

Shortened ==
    /\ loop \in {"read", "enter"} =>
          Len(filter_lookahead) <= optimal_lookahead /\ Len(data_lookahead) <= optimal_lookahead
    /\ loop = "end" => filter_lookahead = <<>> /\ data_lookahead = <<>>

Waits == Elements(filter_lookahead) \cup Elements(data_lookahead)

\* A pair of a file and a record that the map or an access names is decided.
Decided(f, n) ==
    \/ n <= get_counter - Len(next_get_records)
    \/ /\ loop \in {"decide", "leave"}
       /\ n = next_get_records[1].lookup
       /\ loop = "decide" => \A k \in 1 .. Len(probes_left) : probes_left[k].file # f

NamesDecided ==
    loop # "exit" =>
        /\ \A pair \in unnecessary_access_map : Decided(pair[1], pair[2])
        /\ \A a \in Waits : Decided(a.block.file, a.lookup)

Accesses ==
    /\ QueuesOK /\ Shortened /\ NamesDecided /\ MapTellsUnnecessary
    /\ ResultOK /\ ByType /\ SeriesOnTime /\ NoAccessLost

(***************************************************************************)
(* Facts about the window.                                                 *)
(***************************************************************************)
LEMMA RecordTyped ==
    ASSUME ControlOK, NEW i \in 1 .. Len(next_get_records)
    PROVE  /\ next_get_records[i] \in Record
           /\ next_get_records[i].probes \in Seq(Probe)
           /\ Len(next_get_records[i].probes) \in Nat
           /\ \A j \in 1 .. Len(next_get_records[i].probes) :
                 next_get_records[i].probes[j] \in Probe
<1>1. next_get_records[i] \in Record
  BY ElementOfSeq DEF ControlOK
<1>2. next_get_records[i].probes \in Seq(Probe)
  BY <1>1, OptimalAssumption DEF Record
<1> QED BY <1>1, <1>2, LenProperties, ElementOfSeq

\* A window with a record: the front is the first of them.
LEMMA FrontIsFirst ==
    ASSUME ControlOK, next_get_records # <<>>
    PROVE  /\ Len(next_get_records) \in Nat \ {0}
           /\ Front = next_get_records[1]
           /\ Tail(next_get_records) \in Seq(Record)
           /\ Len(Tail(next_get_records)) = Len(next_get_records) - 1
           /\ \A i \in 1 .. Len(next_get_records) - 1 :
                 Tail(next_get_records)[i] = next_get_records[i + 1]
<1>1. next_get_records \in Seq(Record)
  BY DEF ControlOK
<1>2. Len(next_get_records) \in Nat \ {0}
  BY <1>1, EmptySeq, LenProperties
<1> QED BY <1>1, <1>2, HeadTailProperties DEF Front

\* Of the probes that are left of a record one is gone through.
LEMMA OneProbe ==
    ASSUME NEW probes \in Seq(Probe), NEW left, Rest(left, probes), left # <<>>
    PROVE  /\ Len(left) \in 1 .. Len(probes)
           /\ Head(left) = probes[Len(probes) - Len(left) + 1]
           /\ Head(left) \in Probe
           /\ Rest(Tail(left), probes)
           /\ Len(Tail(left)) = Len(left) - 1
           /\ \A k \in 1 .. Len(left) - 1 : Tail(left)[k] = left[k + 1]
<1>1. left \in Seq(Probe) /\ Len(probes) \in Nat /\ Len(left) \in Nat
  BY LenProperties DEF Rest
<1>2. Len(left) \in 1 .. Len(probes)
  BY <1>1, EmptySeq DEF Rest
<1>3. /\ Head(left) = left[1] /\ Tail(left) \in Seq(Probe) /\ Len(Tail(left)) = Len(left) - 1
      /\ \A k \in 1 .. Len(left) - 1 : Tail(left)[k] = left[k + 1]
  BY <1>1, HeadTailProperties
<1>4. \A k \in 1 .. Len(left) : left[k] = probes[Len(probes) - Len(left) + k]
  BY DEF Rest
<1>5. Head(left) = probes[Len(probes) - Len(left) + 1] /\ left[1] \in Probe
  BY <1>1, <1>2, <1>3, <1>4, ElementOfSeq
<1>6. ASSUME NEW k \in 1 .. Len(Tail(left))
      PROVE  Tail(left)[k] = probes[Len(probes) - Len(Tail(left)) + k]
  <2>1. k \in 1 .. Len(left) - 1 /\ k + 1 \in 1 .. Len(left)
    BY <1>1, <1>3
  <2>2. Len(probes) - Len(left) + (k + 1) = Len(probes) - (Len(left) - 1) + k
    BY <1>1, <2>1
  <2> QED BY <1>3, <1>4, <2>1, <2>2
<1>7. Rest(Tail(left), probes)
  BY <1>1, <1>2, <1>3, <1>6 DEF Rest
<1> QED BY <1>2, <1>3, <1>5, <1>7

LEMMA AllProbes ==
    ASSUME NEW probes \in Seq(Probe)
    PROVE  Rest(probes, probes)
<1>1. Len(probes) \in Nat
  BY LenProperties
<1>2. \A k \in 1 .. Len(probes) : Len(probes) - Len(probes) + k = k
  BY <1>1
<1> QED BY <1>1, <1>2 DEF Rest

\* With no probe left all are gone through.
LEMMA NoProbes ==
    ASSUME NEW probes \in Seq(Probe), NEW left, Rest(left, probes), left = <<>>
    PROVE  Len(probes) - Len(left) = Len(probes)
<1>1. Len(left) = 0 /\ Len(probes) \in Nat
  BY LenProperties
<1> QED BY <1>1

LEMMA HeldIsCount == Held \in Nat \ {0}
BY OptimalAssumption DEF Held

(***************************************************************************)
(* The steps of the window.                                                *)
(***************************************************************************)
LEMMA WindowInit == Init => Window
<1> SUFFICES ASSUME Init PROVE Window
  OBVIOUS
<1>1. /\ next_get_records = <<>> /\ Len(next_get_records) = 0 /\ get_counter = 0
      /\ loop = "read" /\ probes_left = <<>> /\ trace_left = TRUE /\ lost_read = FALSE
      /\ file_map = {} /\ filter_only \in BOOLEAN
  BY DEF Init, CountsInit
<1>2. ControlOK
  <2>1. next_get_records \in Seq(Record)
    BY <1>1
  <2> QED BY <1>1, <2>1 DEF ControlOK, Loop
<1>3. ProbesOK /\ Numbered /\ FilesKnown /\ LostWaits
  BY <1>1 DEF ProbesOK, Numbered, FilesKnown, LostWaits
<1>4. WindowLength
  BY <1>1, HeldIsCount DEF WindowLength
<1> QED BY <1>2, <1>3, <1>4 DEF Window

LEMMA WindowUnchanged ==
    ASSUME Window,
           UNCHANGED <<policy, filter_only, file_map, trace_left, window, lost_read, loop,
                       probes_left>>
    PROVE  Window'
BY DEF Window, ControlOK, ProbesOK, Numbered, WindowLength, FilesKnown, LostWaits, Held, AtHand,
       GoneThrough, Modular, window

\* The loop goes on elsewhere and with no probe at hand.
LEMMA WindowElsewhere ==
    ASSUME Window, UNCHANGED <<policy, filter_only, file_map, trace_left, window, lost_read>>,
           probes_left' = <<>>, loop \in {"read", "consume"} \/ loop' = "exit",
           loop' \in {"read", "end", "exit"},
           loop' = "read" => trace_left /\ loop = "consume",
           loop' = "end" => ~ trace_left /\ loop = "consume"
    PROVE  Window'
<1>1. ControlOK' /\ ProbesOK' /\ Numbered'
  BY DEF Window, ControlOK, ProbesOK, Numbered, Loop, window, Modular
<1>2. FilesKnown'
  BY DEF Window, FilesKnown, window
<1>3. LostWaits'
  BY DEF Window, LostWaits, window
<1>4. WindowLength'
  <2>1. Held' = Held /\ Held \in Nat \ {0}
    BY HeldIsCount DEF Held, Modular
  <2>2. next_get_records' = next_get_records /\ get_counter' = get_counter
        /\ trace_left' = trace_left
    BY DEF window
  <2>3. get_counter \in Nat
    BY DEF Window, ControlOK
  <2> QED BY <2>1, <2>2, <2>3 DEF Window, WindowLength
<1> QED BY <1>1, <1>2, <1>3, <1>4 DEF Window

LEMMA WindowCreate ==
    ASSUME Window, NEW f \in File, CreateFile(f)
    PROVE  Window'
<1>1. /\ file_map' = file_map \cup {f} /\ f \notin Lost
      /\ UNCHANGED <<policy, filter_only, trace_left, window, lost_read, loop, probes_left>>
  BY DEF CreateFile, CountFile, counts, config
<1>2. ControlOK' /\ ProbesOK' /\ Numbered' /\ WindowLength'
  BY <1>1 DEF Window, ControlOK, ProbesOK, Numbered, WindowLength, Held, Modular, AtHand, window
<1>3. FilesKnown'
  BY <1>1 DEF Window, FilesKnown, GoneThrough, window
<1>4. LostWaits'
  BY <1>1 DEF Window, LostWaits, GoneThrough, window
<1> QED BY <1>2, <1>3, <1>4 DEF Window

\* A record is read: it is the last of the window, and all its probes are left.
LEMMA WindowRead ==
    ASSUME Window, NEW get \in Gets, ReadGet(get)
    PROVE  Window'
<1> DEFINE n == Len(next_get_records)
<1>1. /\ loop = "read" /\ trace_left /\ get_counter' = get_counter + 1
      /\ loop' = (IF Modular THEN "enter" ELSE "decide") /\ probes_left' = get
      /\ UNCHANGED <<policy, filter_only, file_map, trace_left, lost_read>>
      /\ \A i \in 1 .. Len(get) : get[i].file \in file_map \cup Lost
  BY DEF ReadGet, Goto, counts, trace, config, Window, ControlOK
<1>2. PICK r \in Record : r = [lookup |-> get_counter + 1, probes |-> get]
  <2>1. get_counter + 1 \in Nat
    BY DEF Window, ControlOK
  <2>2. [lookup |-> get_counter + 1, probes |-> get] \in Record
    BY <2>1 DEF Record
  <2> QED BY <2>2
<1>3. next_get_records' = Append(next_get_records, r)
  BY <1>1, <1>2 DEF ReadGet
<1>4. next_get_records \in Seq(Record) /\ n \in Nat /\ get_counter \in Nat
  BY LenProperties DEF Window, ControlOK
<1>5. /\ next_get_records' \in Seq(Record) /\ Len(next_get_records') = n + 1
      /\ next_get_records'[n + 1] = r
      /\ \A i \in 1 .. n : next_get_records'[i] = next_get_records[i]
      /\ next_get_records' # <<>>
  BY <1>3, <1>4, AppendProperties
<1>6. get \in Seq(Probe) /\ Rest(get, get)
  BY AllProbes, OptimalAssumption
<1>7. n = IF get_counter < Held THEN get_counter ELSE Held - 1
  BY <1>1 DEF Window, WindowLength
<1>8. Held' = Held /\ Held \in Nat \ {0} /\ Modular' = Modular /\ (~ Modular => Held = 1)
  BY <1>1, HeldIsCount DEF Held, Modular
<1> HIDE DEF n
<1>9. loop' = "decide" => n = 0
  BY <1>1, <1>4, <1>7, <1>8
<1>10. next_get_records'[AtHand'] = r
  <2>1. AtHand' = n + 1
    BY <1>1, <1>4, <1>5, <1>9 DEF AtHand
  <2> QED BY <1>5, <2>1
<1>11. ControlOK'
  BY <1>1, <1>4, <1>5, <1>8 DEF Window, ControlOK, Loop
<1>12. ProbesOK'
  BY <1>1, <1>2, <1>5, <1>6, <1>10 DEF ProbesOK
<1>13. Numbered'
  <2>1. \A i \in 1 .. n : next_get_records[i].lookup = get_counter - n + i
    BY DEF Window, Numbered, n
  <2>2. \A i \in 1 .. n + 1 :
           next_get_records'[i].lookup = get_counter + 1 - (n + 1) + i
    <3> SUFFICES ASSUME NEW i \in 1 .. n + 1
                 PROVE  next_get_records'[i].lookup = get_counter + 1 - (n + 1) + i
      OBVIOUS
    <3>1. CASE i = n + 1
      <4>1. next_get_records'[i].lookup = get_counter + 1
        BY <1>2, <1>5, <3>1
      <4> QED BY <1>4, <3>1, <4>1
    <3>2. CASE i # n + 1
      <4>1. i \in 1 .. n
        BY <1>4, <3>2
      <4>2. next_get_records'[i] = next_get_records[i]
        BY <1>5, <4>1
      <4> QED BY <1>4, <2>1, <4>1, <4>2
    <3> QED BY <3>1, <3>2
  <2>3. get_counter' = get_counter + 1 /\ Len(next_get_records') = n + 1
    BY <1>1, <1>5
  <2>4. \A i \in 1 .. n + 1 :
           next_get_records'[i].lookup = get_counter' - Len(next_get_records') + i
    <3> SUFFICES ASSUME NEW i \in 1 .. n + 1
                 PROVE  next_get_records'[i].lookup
                           = get_counter' - Len(next_get_records') + i
      OBVIOUS
    <3>1. next_get_records'[i].lookup = get_counter + 1 - (n + 1) + i
      BY <2>2
    <3>2. get_counter + 1 - (n + 1) + i = get_counter' - Len(next_get_records') + i
      BY <1>4, <2>3
    <3> QED BY <3>1, <3>2
  <2>5. (1 .. Len(next_get_records')) = 1 .. n + 1
    BY <2>3
  <2> QED BY <2>4, <2>5 DEF Numbered
<1>14. WindowLength'
  <2>1. n + 1 = IF get_counter + 1 < Held THEN get_counter + 1 ELSE Held
    BY <1>4, <1>7, <1>8
  <2>2. loop' = "decide" => n + 1 = Held /\ get_counter + 1 >= Held
    BY <1>1, <1>4, <1>8, <1>9
  <2> QED BY <1>1, <1>5, <1>8, <2>1, <2>2 DEF WindowLength
<1>15. FilesKnown'
  <2>1. \A i \in 1 .. n : \A j \in 1 .. Len(next_get_records[i].probes) :
           next_get_records[i].probes[j].file \in file_map \cup Lost
    BY DEF Window, FilesKnown, n
  <2>2. \A i \in 1 .. n + 1 : \A j \in 1 .. Len(next_get_records'[i].probes) :
           next_get_records'[i].probes[j].file \in file_map \cup Lost
    BY <1>1, <1>2, <1>4, <1>5, <2>1
  <2>3. loop' = "decide" => GoneThrough(1)' = 0
    <3>1. loop' = "decide" => next_get_records'[1].probes = get
      BY <1>2, <1>5, <1>9
    <3>2. Len(get) \in Nat
      BY <1>6, LenProperties
    <3> QED BY <1>1, <3>1, <3>2 DEF GoneThrough
  <2> QED BY <1>1, <1>5, <2>2, <2>3 DEF FilesKnown
<1>16. LostWaits'
  <2>1. lost_read' => loop # "exit" /\ lost_read
    BY <1>1
  <2>2. lost_read' => n # 0 /\
           \E i \in 1 .. n : \E j \in 1 .. Len(next_get_records[i].probes) :
              next_get_records[i].probes[j].file \in Lost
    BY <1>4, <2>1 DEF Window, LostWaits, n
  <2>3. lost_read' => loop' = "enter"
    BY <1>1, <1>9, <2>2
  <2> QED BY <1>4, <1>5, <2>2, <2>3 DEF LostWaits
<1> QED BY <1>11, <1>12, <1>13, <1>14, <1>15, <1>16 DEF Window

LEMMA AtHandFacts ==
    ASSUME Window, loop \in {"enter", "decide", "leave"}
    PROVE  /\ next_get_records # <<>> /\ Len(next_get_records) \in Nat \ {0}
           /\ AtHand \in 1 .. Len(next_get_records)
           /\ next_get_records[AtHand].probes \in Seq(Probe)
           /\ Rest(probes_left, next_get_records[AtHand].probes)
           /\ Len(probes_left) \in Nat /\ Len(next_get_records[AtHand].probes) \in Nat
           /\ GoneThrough(AtHand) \in 0 .. Len(next_get_records[AtHand].probes)
<1>1. /\ next_get_records # <<>> /\ next_get_records \in Seq(Record) /\ ControlOK
      /\ Rest(probes_left, next_get_records[AtHand].probes)
  BY DEF Window, ControlOK, ProbesOK
<1>2. Len(next_get_records) \in Nat \ {0}
  BY <1>1, FrontIsFirst
<1>3. AtHand \in 1 .. Len(next_get_records)
  BY <1>2 DEF AtHand
<1>4. /\ next_get_records[AtHand].probes \in Seq(Probe)
      /\ Len(next_get_records[AtHand].probes) \in Nat
  BY <1>1, <1>3, RecordTyped
<1>5. Len(probes_left) \in Nat /\ Len(probes_left) <= Len(next_get_records[AtHand].probes)
  BY <1>1, LenProperties DEF Rest
<1> QED BY <1>1, <1>2, <1>3, <1>4, <1>5 DEF GoneThrough

\* A probe of the record at hand is gone through.
LEMMA WindowOneProbe ==
    ASSUME Window, loop \in {"enter", "decide", "leave"}, probes_left # <<>>,
           probes_left' = Tail(probes_left),
           UNCHANGED <<policy, filter_only, file_map, trace_left, window, loop>>,
           lost_read' \in BOOLEAN, lost_read' => Modular
    PROVE  /\ ControlOK' /\ ProbesOK' /\ Numbered' /\ WindowLength'
           /\ AtHand' = AtHand
           /\ GoneThrough(AtHand)' = GoneThrough(AtHand) + 1
           /\ GoneThrough(AtHand) + 1 \in 1 .. Len(next_get_records[AtHand].probes)
           /\ Head(probes_left) = next_get_records[AtHand].probes[GoneThrough(AtHand) + 1]
           /\ Head(probes_left) \in Probe
<1> DEFINE probes == next_get_records[AtHand].probes
<1>1. /\ next_get_records # <<>> /\ probes \in Seq(Probe) /\ Rest(probes_left, probes)
      /\ Len(probes_left) \in Nat /\ Len(probes) \in Nat
  BY AtHandFacts
<1>2. AtHand' = AtHand /\ probes' = probes
  BY DEF AtHand, window
<1> HIDE DEF probes
<1>3. /\ Len(probes_left) \in 1 .. Len(probes)
      /\ Head(probes_left) = probes[Len(probes) - Len(probes_left) + 1]
      /\ Head(probes_left) \in Probe
      /\ Rest(probes_left', probes)
      /\ Len(probes_left') = Len(probes_left) - 1
  BY <1>1, OneProbe
<1>4. /\ GoneThrough(AtHand) = Len(probes) - Len(probes_left)
      /\ GoneThrough(AtHand)' = Len(probes) - Len(probes_left')
  BY <1>2 DEF GoneThrough, probes
<1>5. ControlOK' /\ Numbered' /\ WindowLength'
  BY DEF Window, ControlOK, Numbered, WindowLength, Held, Modular, window
<1>6. ProbesOK'
  <2>1. next_get_records' # <<>>
    BY <1>1 DEF window
  <2> QED BY <1>2, <1>3, <2>1 DEF ProbesOK, probes
<1>7. /\ GoneThrough(AtHand)' = GoneThrough(AtHand) + 1
      /\ GoneThrough(AtHand) + 1 \in 1 .. Len(probes)
      /\ Head(probes_left) = probes[GoneThrough(AtHand) + 1]
  BY <1>1, <1>3, <1>4
<1> QED BY <1>2, <1>3, <1>5, <1>6, <1>7 DEF probes

LEMMA WindowEnter == Window /\ EnterProbe => Window'
<1> SUFFICES ASSUME Window, EnterProbe PROVE Window'
  OBVIOUS
<1>1. /\ loop = "enter" /\ probes_left # <<>> /\ probes_left' = Tail(probes_left)
      /\ UNCHANGED <<policy, filter_only, file_map, trace_left, window, loop>>
      /\ lost_read' = (lost_read \/ Head(probes_left).file \notin file_map)
  BY DEF EnterProbe, Goto, CountProbe, trace, config
<1>2. lost_read' \in BOOLEAN /\ Modular
  BY <1>1 DEF Window, ControlOK
<1>3. /\ ControlOK' /\ ProbesOK' /\ Numbered' /\ WindowLength'
      /\ GoneThrough(AtHand) + 1 \in 1 .. Len(next_get_records[AtHand].probes)
      /\ Head(probes_left) = next_get_records[AtHand].probes[GoneThrough(AtHand) + 1]
  BY <1>1, <1>2, WindowOneProbe
<1>4. FilesKnown'
  BY <1>1 DEF Window, FilesKnown, window
<1>5. LostWaits'
  <2>1. CASE lost_read
    BY <1>1, <2>1 DEF Window, LostWaits, window
  <2>2. CASE lost_read' /\ ~ lost_read
    <3>1. AtHand \in 1 .. Len(next_get_records)
      BY <1>1, AtHandFacts
    <3>2. Head(probes_left).file \in Lost
      BY <1>1, <1>3, <2>2, <3>1 DEF Window, FilesKnown
    <3> QED BY <1>1, <1>3, <3>1, <3>2 DEF LostWaits, window
  <2>3. CASE ~ lost_read'
    BY <2>3 DEF LostWaits
  <2> QED BY <1>1, <2>1, <2>2, <2>3
<1> QED BY <1>3, <1>4, <1>5 DEF Window

LEMMA WindowDecide == Window /\ DecideProbe => Window'
<1> SUFFICES ASSUME Window, DecideProbe PROVE Window'
  OBVIOUS
<1>1. /\ loop = "decide" /\ probes_left # <<>> /\ probes_left' = Tail(probes_left)
      /\ UNCHANGED <<policy, filter_only, file_map, trace_left, window, loop, lost_read>>
      /\ Head(probes_left).file \in file_map
  BY DEF DecideProbe, Goto, counts, trace, config
<1>2. /\ lost_read' \in BOOLEAN /\ (lost_read' => Modular) /\ AtHand = 1
      /\ file_map \subseteq File \ Lost
  BY <1>1 DEF Window, ControlOK, AtHand
<1>3. /\ ControlOK' /\ ProbesOK' /\ Numbered' /\ WindowLength'
      /\ GoneThrough(1)' = GoneThrough(1) + 1
      /\ GoneThrough(1) + 1 \in 1 .. Len(next_get_records[1].probes)
      /\ Head(probes_left) = next_get_records[1].probes[GoneThrough(1) + 1]
  BY <1>1, <1>2, WindowOneProbe
<1>4. GoneThrough(1) \in Nat
  BY <1>1, <1>2, AtHandFacts
<1>5. FilesKnown'
  <2>1. ASSUME NEW j \in 1 .. Len(next_get_records[1].probes), j <= GoneThrough(1) + 1
        PROVE  next_get_records[1].probes[j].file \in file_map
    <3>1. j <= GoneThrough(1) \/ j = GoneThrough(1) + 1
      BY <1>4, <2>1
    <3> QED BY <1>1, <1>3, <3>1 DEF Window, FilesKnown
  <2> QED BY <1>1, <1>3, <2>1 DEF Window, FilesKnown, window
<1>6. LostWaits'
  <2> SUFFICES ASSUME lost_read PROVE LostWaits'
    BY <1>1 DEF LostWaits
  <2>0. PICK i \in 1 .. Len(next_get_records) :
           \E j \in 1 .. Len(next_get_records[i].probes) :
              next_get_records[i].probes[j].file \in Lost /\ (i = 1 => j > GoneThrough(1))
    BY <1>1 DEF Window, LostWaits
  <2>1. PICK j \in 1 .. Len(next_get_records[i].probes) :
           next_get_records[i].probes[j].file \in Lost /\ (i = 1 => j > GoneThrough(1))
    BY <2>0
  <2>2. i = 1 => j # GoneThrough(1) + 1
    BY <1>1, <1>2, <1>3, <2>1
  <2>3. i = 1 => j > GoneThrough(1) + 1
    BY <1>4, <2>1, <2>2
  <2> QED BY <1>1, <1>3, <2>1, <2>3 DEF LostWaits, window
<1> QED BY <1>3, <1>5, <1>6 DEF Window

LEMMA WindowLeave == Window /\ LeaveProbe => Window'
<1> SUFFICES ASSUME Window, LeaveProbe PROVE Window'
  OBVIOUS
<1>1. /\ loop = "leave" /\ probes_left # <<>> /\ probes_left' = Tail(probes_left)
      /\ UNCHANGED <<policy, filter_only, file_map, trace_left, window, loop, lost_read>>
  BY DEF LeaveProbe, Goto, UncountProbe, trace, config
<1>2. lost_read' \in BOOLEAN /\ (lost_read' => Modular)
  BY <1>1 DEF Window, ControlOK
<1>3. ControlOK' /\ ProbesOK' /\ Numbered' /\ WindowLength'
  BY <1>1, <1>2, WindowOneProbe
<1>4. FilesKnown' /\ LostWaits'
  BY <1>1 DEF Window, FilesKnown, LostWaits, window
<1> QED BY <1>3, <1>4 DEF Window

\* All the probes at hand are gone through.
LEMMA AllGoneThrough ==
    ASSUME Window, loop \in {"enter", "decide", "leave"}, probes_left = <<>>
    PROVE  GoneThrough(AtHand) = Len(next_get_records[AtHand].probes)
BY AtHandFacts, NoProbes DEF GoneThrough

\* The front record is decided next.
LEMMA FrontIsLeft ==
    ASSUME Window, next_get_records # <<>>
    PROVE  /\ Front.probes = next_get_records[1].probes
           /\ Front.probes \in Seq(Probe) /\ Rest(Front.probes, next_get_records[1].probes)
           /\ Len(Front.probes) - Len(Front.probes) = 0
<1>1. Front = next_get_records[1] /\ 1 \in 1 .. Len(next_get_records)
  BY FrontIsFirst DEF Window
<1>2. Front.probes \in Seq(Probe) /\ Len(Front.probes) \in Nat
  BY <1>1, RecordTyped DEF Window
<1> QED BY <1>1, <1>2, AllProbes

LEMMA WindowEndEnter == Window /\ EndEnter => Window'
<1> SUFFICES ASSUME Window, EndEnter PROVE Window'
  OBVIOUS
<1>1. /\ loop = "enter" /\ probes_left = <<>>
      /\ UNCHANGED <<policy, filter_only, file_map, trace_left, window, lost_read>>
      /\ IF get_counter < modular_lookahead THEN loop' = "read" /\ probes_left' = <<>>
         ELSE loop' = "decide" /\ probes_left' = Front.probes
  BY DEF EndEnter, Goto, counts, trace, config
<1>2. next_get_records # <<>> /\ Len(next_get_records) \in Nat \ {0} /\ trace_left /\ Modular
  BY <1>1, AtHandFacts DEF Window, ControlOK
<1>3. ControlOK' /\ Numbered'
  BY <1>1, <1>2 DEF Window, ControlOK, Numbered, window, Loop, Modular
<1>4. loop' = "decide" => GoneThrough(1)' = 0
  BY <1>1, <1>2, FrontIsLeft DEF GoneThrough, window
<1>5. ProbesOK'
  BY <1>1, <1>2, FrontIsLeft DEF ProbesOK, AtHand, window
<1>6. WindowLength'
  <2>1. Held' = Held /\ Held \in Nat \ {0}
        /\ Held = IF modular_lookahead > 0 THEN modular_lookahead ELSE 1
    BY <1>1, <1>2, HeldIsCount DEF Held, Modular
  <2>2. Len(next_get_records) = IF get_counter < Held THEN get_counter ELSE Held
    BY <1>1, <1>2 DEF Window, WindowLength
  <2>3. get_counter \in Nat /\ modular_lookahead \in Nat
    BY OptimalAssumption DEF Window, ControlOK
  <2>4. CASE get_counter < modular_lookahead
    BY <1>1, <1>2, <2>1, <2>2, <2>3, <2>4 DEF WindowLength, window
  <2>5. CASE ~ (get_counter < modular_lookahead)
    <3>1. get_counter >= Held
      BY <1>2, <2>1, <2>2, <2>3, <2>5
    <3> QED BY <1>1, <1>2, <2>1, <2>2, <2>3, <2>5, <3>1 DEF WindowLength, window
  <2> QED BY <2>4, <2>5
<1>7. FilesKnown'
  BY <1>1, <1>4 DEF Window, FilesKnown, window
<1>8. LostWaits'
  BY <1>1, <1>4 DEF Window, LostWaits, window
<1> QED BY <1>3, <1>5, <1>6, <1>7, <1>8 DEF Window

LEMMA WindowEndDecide == Window /\ EndDecide => Window'
<1> SUFFICES ASSUME Window, EndDecide PROVE Window'
  OBVIOUS
<1>1. /\ loop = "decide" /\ probes_left = <<>> /\ AtHand = 1
      /\ UNCHANGED <<policy, filter_only, file_map, trace_left, get_counter, lost_read>>
      /\ IF Modular
         THEN loop' = "leave" /\ probes_left' = Front.probes
              /\ next_get_records' = next_get_records
         ELSE loop' = "consume" /\ probes_left' = <<>> /\ next_get_records' = <<>>
  BY DEF EndDecide, Goto, counts, trace, config, window, AtHand
<1>2. next_get_records # <<>> /\ Len(next_get_records) \in Nat \ {0}
  BY <1>1, AtHandFacts
<1>3. GoneThrough(1) = Len(next_get_records[1].probes)
  BY <1>1, AllGoneThrough
<1>4. ASSUME NEW j \in 1 .. Len(next_get_records[1].probes)
      PROVE  j <= GoneThrough(1) /\ ~ (j > GoneThrough(1))
  <2>1. Len(next_get_records[1].probes) \in Nat
    BY <1>1, AtHandFacts
  <2> QED BY <1>3, <2>1
<1>5. CASE Modular
  <2>1. ControlOK' /\ Numbered' /\ WindowLength'
    BY <1>1, <1>5 DEF Window, ControlOK, Numbered, WindowLength, Loop, Modular, Held
  <2>2. ProbesOK'
    BY <1>1, <1>2, <1>5, FrontIsLeft DEF ProbesOK, AtHand
  <2>3. FilesKnown'
    BY <1>1, <1>4, <1>5 DEF Window, FilesKnown
  <2>4. LostWaits'
    <3> SUFFICES ASSUME lost_read PROVE LostWaits'
      BY <1>1 DEF LostWaits
    <3>1. PICK i \in 1 .. Len(next_get_records) :
             \E j \in 1 .. Len(next_get_records[i].probes) :
                next_get_records[i].probes[j].file \in Lost /\ (i = 1 => j > GoneThrough(1))
      BY <1>1 DEF Window, LostWaits
    <3>2. i # 1
      BY <1>4, <3>1
    <3>3. i > 1
      BY <1>2, <3>2
    <3> QED BY <1>1, <1>5, <3>1, <3>3 DEF LostWaits
  <2> QED BY <2>1, <2>2, <2>3, <2>4 DEF Window
<1>6. CASE ~ Modular
  <2>1. next_get_records' \in Seq(Record) /\ Len(next_get_records') = 0
    BY <1>1, <1>6
  <2>2. ControlOK' /\ Numbered' /\ ProbesOK' /\ FilesKnown' /\ LostWaits'
    BY <1>1, <1>6, <2>1 DEF Window, ControlOK, Numbered, ProbesOK, FilesKnown, LostWaits, Loop,
       Modular
  <2>3. WindowLength'
    <3>1. Held = 1 /\ Held' = 1
      BY <1>1, <1>6 DEF Held, Modular
    <3> QED BY <1>1, <1>6, <2>1, <3>1 DEF Window, WindowLength
  <2> QED BY <2>2, <2>3 DEF Window
<1> QED BY <1>5, <1>6

LEMMA WindowEndLeave == Window /\ EndLeave => Window'
<1> SUFFICES ASSUME Window, EndLeave PROVE Window'
  OBVIOUS
<1> DEFINE n == Len(next_get_records)
<1>1. /\ loop = "leave" /\ probes_left = <<>>
      /\ UNCHANGED <<policy, filter_only, file_map, trace_left, get_counter, lost_read>>
      /\ next_get_records' = Tail(next_get_records)
      /\ IF trace_left \/ next_get_records' = <<>>
         THEN loop' = "consume" /\ probes_left' = <<>>
         ELSE loop' = "decide" /\ probes_left' = Head(next_get_records').probes
  BY DEF EndLeave, Goto, counts, trace, config
<1>2. next_get_records # <<>> /\ ControlOK
  BY <1>1, AtHandFacts DEF Window
<1>3. /\ n \in Nat \ {0}
      /\ next_get_records' \in Seq(Record) /\ Len(next_get_records') = n - 1
      /\ \A i \in 1 .. n - 1 : next_get_records'[i] = next_get_records[i + 1]
  BY <1>1, <1>2, FrontIsFirst
<1> HIDE DEF n
<1>4. get_counter \in Nat /\ Modular
  BY <1>1 DEF Window, ControlOK
<1>5. ControlOK'
  BY <1>1, <1>3 DEF Window, ControlOK, Loop, Modular
<1>6. Numbered'
  <2> SUFFICES ASSUME NEW i \in 1 .. n - 1
               PROVE  next_get_records'[i].lookup = get_counter' - Len(next_get_records') + i
    BY <1>3 DEF Numbered
  <2>1. i + 1 \in 1 .. n /\ next_get_records'[i] = next_get_records[i + 1]
    BY <1>3
  <2>2. next_get_records[i + 1].lookup = get_counter - n + (i + 1)
    BY <2>1 DEF Window, Numbered, n
  <2> QED BY <1>1, <1>3, <1>4, <2>1, <2>2
<1>7. loop' = "decide" =>
         /\ next_get_records' # <<>>
         /\ Rest(probes_left', next_get_records'[1].probes) /\ GoneThrough(1)' = 0
  <2> SUFFICES ASSUME loop' = "decide"
               PROVE  /\ next_get_records' # <<>>
                      /\ Rest(probes_left', next_get_records'[1].probes)
                      /\ GoneThrough(1)' = 0
    OBVIOUS
  <2>1. next_get_records' # <<>>
    BY <1>1
  <2>2. n - 1 \in Nat \ {0}
    BY <1>3, <2>1, EmptySeq
  <2>3. 1 \in 1 .. n - 1 /\ 2 \in 1 .. n
    BY <1>3, <2>2
  <2>4. next_get_records'[1] = next_get_records[2]
    BY <1>3, <2>3
  <2>5. next_get_records[2].probes \in Seq(Probe) /\ Len(next_get_records[2].probes) \in Nat
    BY <1>2, <2>3, RecordTyped DEF n
  <2>6. probes_left' = next_get_records'[1].probes
    <3>1. Head(next_get_records') = next_get_records'[1]
      BY <1>3, <2>1, HeadTailProperties
    <3> QED BY <1>1, <3>1
  <2>7. GoneThrough(1)' = 0
    BY <2>4, <2>5, <2>6 DEF GoneThrough
  <2> QED BY <2>1, <2>4, <2>5, <2>6, <2>7, AllProbes
<1>8. ProbesOK'
  BY <1>1, <1>7 DEF ProbesOK, AtHand
<1>9. WindowLength'
  <2>1. Held' = Held /\ Held \in Nat \ {0}
    BY <1>1, HeldIsCount DEF Held, Modular
  <2>2. CASE trace_left
    <3>1. n = Held /\ get_counter >= Held
      BY <1>1, <2>2 DEF Window, WindowLength, n
    <3> QED BY <1>1, <1>3, <2>1, <2>2, <3>1 DEF WindowLength
  <2>3. CASE ~ trace_left
    BY <1>1, <2>3 DEF WindowLength
  <2> QED BY <2>2, <2>3
<1>10. \A i \in 1 .. n - 1 : i + 1 \in 1 .. n
  BY <1>3
<1>11. FilesKnown'
  <2>1. \A i \in 1 .. n - 1 : \A j \in 1 .. Len(next_get_records'[i].probes) :
           next_get_records'[i].probes[j].file \in file_map \cup Lost
    BY <1>3, <1>10 DEF Window, FilesKnown, n
  <2>2. loop' = "decide" => \A j \in 1 .. Len(next_get_records'[1].probes) :
           ~ (j <= GoneThrough(1)')
    BY <1>7
  <2> QED BY <1>1, <1>3, <2>1, <2>2 DEF FilesKnown
<1>12. LostWaits'
  <2> SUFFICES ASSUME lost_read PROVE LostWaits'
    BY <1>1 DEF LostWaits
  <2>1. PICK i \in 1 .. n :
           i > 1 /\ \E j \in 1 .. Len(next_get_records[i].probes) :
              next_get_records[i].probes[j].file \in Lost
    BY <1>1 DEF Window, LostWaits, n
  <2>2. i - 1 \in 1 .. n - 1 /\ next_get_records'[i - 1] = next_get_records[i]
    BY <1>3, <2>1
  <2>3. PICK j \in 1 .. Len(next_get_records'[i - 1].probes) :
           next_get_records'[i - 1].probes[j].file \in Lost
    BY <2>1, <2>2
  <2>4. loop' = "decide" => j > GoneThrough(1)'
    BY <1>7
  <2> QED BY <1>1, <1>3, <2>2, <2>3, <2>4 DEF LostWaits
<1> QED BY <1>5, <1>6, <1>8, <1>9, <1>11, <1>12 DEF Window

LEMMA WindowEndTrace == Window /\ EndTrace => Window'
<1> SUFFICES ASSUME Window, EndTrace PROVE Window'
  OBVIOUS
<1>1. /\ loop = "read" /\ trace_left' = FALSE
      /\ UNCHANGED <<policy, filter_only, file_map, window, lost_read>>
      /\ IF next_get_records = <<>> THEN loop' = "consume" /\ probes_left' = <<>>
         ELSE loop' = "decide" /\ probes_left' = Front.probes
  BY DEF EndTrace, Goto, counts, config
<1>2. ControlOK' /\ Numbered'
  BY <1>1 DEF Window, ControlOK, Numbered, window, Loop, Modular
<1>3. loop' = "decide" => GoneThrough(1)' = 0
  BY <1>1, FrontIsLeft DEF GoneThrough, window
<1>4. ProbesOK'
  BY <1>1, FrontIsLeft DEF ProbesOK, AtHand, window
<1>5. WindowLength'
  BY <1>1 DEF WindowLength, window
<1>6. FilesKnown'
  BY <1>1, <1>3 DEF Window, FilesKnown, window
<1>7. LostWaits'
  BY <1>1, <1>3 DEF Window, LostWaits, window
<1> QED BY <1>2, <1>4, <1>5, <1>6, <1>7 DEF Window

LEMMA WindowStep == Window /\ [Next]_vars => Window'
<1> SUFFICES ASSUME Window, [Next]_vars PROVE Window'
  OBVIOUS
<1>1. ASSUME NEW f \in File, CreateFile(f) PROVE Window'
  BY <1>1, WindowCreate
<1>2. ASSUME NEW get \in Gets, ReadGet(get) PROVE Window'
  BY <1>2, WindowRead
<1>3. CASE EnterProbe \/ DecideProbe \/ LeaveProbe
  BY <1>3, WindowEnter, WindowDecide, WindowLeave
<1>4. CASE EndEnter \/ EndDecide \/ EndLeave \/ EndTrace
  BY <1>4, WindowEndEnter, WindowEndDecide, WindowEndLeave, WindowEndTrace
<1>5. CASE EnterUnknown \/ DecideUnknown \/ NextRecord \/ End
  BY <1>5, WindowElsewhere DEF EnterUnknown, DecideUnknown, NextRecord, End, Goto, counts, trace, config
<1>6. CASE ConsumeFilter \/ ConsumeData \/ UNCHANGED vars
  BY <1>6, WindowUnchanged DEF ConsumeFilter, ConsumeData, vars, counts, trace, config
<1> QED BY <1>1, <1>2, <1>3, <1>4, <1>5, <1>6 DEF Next

(***************************************************************************)
(* The probes counted, as the loop goes on.                                *)
(***************************************************************************)
IsCounted(i, j) ==
    /\ i \in 1 .. Len(next_get_records)
    /\ j \in 1 .. Len(next_get_records[i].probes)
    /\ loop = "enter" /\ i = Len(next_get_records) => j <= GoneThrough(i)
    /\ loop = "leave" /\ i = 1 => j > GoneThrough(i)

LEMMA CountedAt ==
    /\ \A i, j : <<i, j>> \in CountedProbes <=> IsCounted(i, j)
    /\ \A x \in CountedProbes : x = <<x[1], x[2]>>
BY DEF CountedProbes, IsCounted, GoneThrough

\* How many of each kind there are is what the counts depend on.
SameRecount ==
    IsFiniteSet(CountedProbes) =>
        /\ IsFiniteSet(CountedProbes)'
        /\ \A kind : Cardinality(Of(kind))' = Cardinality(Of(kind))

LEMMA CountedSame ==
    ASSUME \A i, j : IsCounted(i, j)' <=> IsCounted(i, j),
           \A i, j : IsCounted(i, j) =>
               next_get_records'[i].probes[j] = next_get_records[i].probes[j]
    PROVE  CountedProbes' = CountedProbes /\ SameRecount
<1>1. CountedProbes' = CountedProbes
  <2>1. \A i, j : <<i, j>> \in CountedProbes' <=> IsCounted(i, j)'
    BY DEF CountedProbes, IsCounted, GoneThrough
  <2>2. \A x \in CountedProbes' : x = <<x[1], x[2]>>
    BY DEF CountedProbes
  <2> QED BY <2>1, <2>2, CountedAt
<1>2. \A x \in CountedProbes : ProbeAt(x)' = ProbeAt(x)
  BY CountedAt DEF ProbeAt
<1>3. \A kind : Of(kind)' = Of(kind)
  BY <1>1, <1>2 DEF Of
<1> QED BY <1>1, <1>3 DEF SameRecount

\* A record that was read has no probe counted yet.
LEMMA ReadRecount ==
    ASSUME Window, NEW get \in Gets, ReadGet(get), Modular
    PROVE  SameRecount
<1> DEFINE n == Len(next_get_records)
<1>1. /\ loop = "read" /\ loop' = "enter" /\ probes_left' = get
      /\ next_get_records' = Append(next_get_records, [lookup |-> get_counter', probes |-> get])
  BY DEF ReadGet, Goto
<1>2. next_get_records \in Seq(Record) /\ n \in Nat
  BY LenProperties DEF Window, ControlOK
<1>3. PICK r : r = [lookup |-> get_counter', probes |-> get]
  OBVIOUS
<1>4. r \in Record
  <2>1. get_counter' \in Nat
    BY DEF ReadGet, Window, ControlOK
  <2> QED BY <1>3, <2>1 DEF Record
<1>5. /\ Len(next_get_records') = n + 1
      /\ next_get_records'[n + 1] = r
      /\ \A i \in 1 .. n : next_get_records'[i] = next_get_records[i]
  <2>1. next_get_records' = Append(next_get_records, r)
    BY <1>1, <1>3
  <2> QED BY <1>2, <1>4, <2>1, AppendProperties
<1>6. Len(get) \in Nat /\ r.probes = get
  BY <1>3, LenProperties, OptimalAssumption
<1> HIDE DEF n
<1>7. ASSUME NEW i, NEW j PROVE IsCounted(i, j)' <=> IsCounted(i, j)
  <2>1. CASE i = n + 1
    <3>1. ~ IsCounted(i, j)
      BY <1>2, <2>1 DEF IsCounted, n
    <3>2. ~ (j \in 1 .. Len(get) /\ j <= 0)
      BY <1>6
    <3>3. Len(next_get_records'[i].probes) = Len(get) /\ i = Len(next_get_records')
      BY <1>5, <1>6, <2>1
    <3>4. GoneThrough(i)' = 0
      BY <1>1, <1>6, <3>3 DEF GoneThrough
    <3>5. ~ IsCounted(i, j)'
      BY <1>1, <3>2, <3>3, <3>4 DEF IsCounted
    <3> QED BY <3>1, <3>5
  <2>2. CASE i \in 1 .. n
    <3>1. next_get_records'[i] = next_get_records[i] /\ i # n + 1 /\ i \in 1 .. n + 1
      BY <1>2, <1>5, <2>2
    <3> QED BY <1>1, <1>5, <2>2, <3>1 DEF IsCounted, n
  <2>3. CASE i \notin 1 .. n + 1
    <3>1. i \notin 1 .. n
      BY <1>2, <2>3
    <3> QED BY <1>5, <2>3, <3>1 DEF IsCounted, n
  <2>4. i \in 1 .. n + 1 => i \in 1 .. n \/ i = n + 1
    BY <1>2
  <2> QED BY <2>1, <2>2, <2>3, <2>4
<1>8. \A i, j : IsCounted(i, j) => next_get_records'[i].probes[j] = next_get_records[i].probes[j]
  BY <1>5 DEF IsCounted, n
<1> QED BY <1>7, <1>8, CountedSame

\* Outside enter and leave every probe of the window is counted; a record has
\* none left to count when it is entered, and all of them when it leaves.
LEMMA ElsewhereRecount ==
    ASSUME Window, UNCHANGED next_get_records,
           \/ loop \notin {"enter", "leave"}
           \/ loop = "enter" /\ probes_left = <<>>,
           \/ loop' \notin {"enter", "leave"}
           \/ loop' = "leave" /\ probes_left' = Front.probes /\ next_get_records # <<>>
    PROVE  SameRecount
<1>1. ControlOK
  BY DEF Window
<1>2. ASSUME NEW i \in 1 .. Len(next_get_records), NEW j \in 1 .. Len(next_get_records[i].probes)
      PROVE  IsCounted(i, j)
  <2>1. CASE loop \notin {"enter", "leave"}
    BY <2>1 DEF IsCounted
  <2>2. CASE loop = "enter" /\ probes_left = <<>>
    <3>1. i = Len(next_get_records) => GoneThrough(i) = Len(next_get_records[i].probes)
      BY <2>2, AllGoneThrough DEF AtHand
    <3>2. Len(next_get_records[i].probes) \in Nat
      BY <1>1, RecordTyped
    <3>3. j <= Len(next_get_records[i].probes)
      BY <3>2
    <3> QED BY <2>2, <3>1, <3>3 DEF IsCounted
  <2> QED BY <2>1, <2>2
<1>3. ASSUME NEW i \in 1 .. Len(next_get_records), NEW j \in 1 .. Len(next_get_records[i].probes)
      PROVE  IsCounted(i, j)'
  <2>1. CASE loop' \notin {"enter", "leave"}
    BY <2>1 DEF IsCounted
  <2>2. CASE loop' = "leave" /\ probes_left' = Front.probes /\ next_get_records # <<>>
    <3>1. i = 1 => GoneThrough(i)' = 0
      BY <2>2, FrontIsLeft DEF GoneThrough
    <3>2. j > 0
      BY <1>1, RecordTyped
    <3> QED BY <2>2, <3>1, <3>2 DEF IsCounted
  <2> QED BY <2>1, <2>2
<1>4. \A i, j : IsCounted(i, j)' <=> IsCounted(i, j)
  BY <1>2, <1>3 DEF IsCounted
<1> QED BY <1>4, CountedSame

\* A probe that enters is one more of its kinds.
LEMMA EnterRecount ==
    ASSUME Window, loop = "enter", loop' = "enter", probes_left # <<>>,
           probes_left' = Tail(probes_left), UNCHANGED <<policy, trace, window>>,
           lost_read' \in BOOLEAN, IsFiniteSet(CountedProbes)
    PROVE  /\ IsFiniteSet(CountedProbes)'
           /\ \A kind : Cardinality(Of(kind))' =
                 IF Head(probes_left) \in kind THEN Cardinality(Of(kind)) + 1
                 ELSE Cardinality(Of(kind))
<1> DEFINE n == Len(next_get_records)
           g == GoneThrough(n)
<1>1. /\ n \in Nat \ {0} /\ AtHand = n /\ g \in Nat
      /\ g + 1 \in 1 .. Len(next_get_records[n].probes)
      /\ GoneThrough(n)' = g + 1
      /\ Head(probes_left) = next_get_records[n].probes[g + 1]
  <2>1. AtHand = n /\ n \in Nat \ {0} /\ g \in 0 .. Len(next_get_records[n].probes)
    BY AtHandFacts DEF AtHand
  <2>2. Modular
    BY DEF Window, ControlOK
  <2>3. /\ GoneThrough(AtHand) + 1 \in 1 .. Len(next_get_records[AtHand].probes)
        /\ Head(probes_left) = next_get_records[AtHand].probes[GoneThrough(AtHand) + 1]
        /\ GoneThrough(AtHand)' = GoneThrough(AtHand) + 1
        /\ AtHand' = AtHand
    BY <2>2, WindowOneProbe DEF trace, config
  <2>4. AtHand' = n /\ n' = n
    BY <2>1, <2>3 DEF window
  <2> QED BY <2>1, <2>3, <2>4 DEF GoneThrough
<1>2. next_get_records' = next_get_records
  BY DEF window
<1> HIDE DEF g
<1>3. ASSUME NEW i, NEW j
      PROVE  IsCounted(i, j)' <=> IsCounted(i, j) \/ (i = n /\ j = g + 1)
  <2>1. CASE i = n
    <3>1. IsCounted(i, j) <=> j \in 1 .. Len(next_get_records[n].probes) /\ j <= g
      BY <1>1, <2>1 DEF IsCounted, g
    <3>2. IsCounted(i, j)' <=> j \in 1 .. Len(next_get_records[n].probes) /\ j <= g + 1
      BY <1>1, <1>2, <2>1 DEF IsCounted, GoneThrough
    <3> QED BY <1>1, <2>1, <3>1, <3>2
  <2>2. CASE i # n
    BY <1>2, <2>2 DEF IsCounted
  <2> QED BY <2>1, <2>2
<1>4. PICK x : x = <<n, g + 1>>
  OBVIOUS
<1>5. CountedProbes' = CountedProbes \cup {x} /\ x \notin CountedProbes
  <2>1. \A i, j : <<i, j>> \in CountedProbes' <=> IsCounted(i, j)'
    BY DEF CountedProbes, IsCounted, GoneThrough
  <2>2. \A y \in CountedProbes' : y = <<y[1], y[2]>>
    BY DEF CountedProbes
  <2>3. x \notin CountedProbes
    <3>1. ~ IsCounted(n, g + 1)
      BY <1>1 DEF IsCounted, g
    <3> QED BY <1>4, <3>1, CountedAt
  <2>4. \A y : y \in CountedProbes' <=> y \in CountedProbes \cup {x}
    BY <1>3, <1>4, <2>1, <2>2, CountedAt
  <2> QED BY <2>3, <2>4
<1>6. /\ \A y : ProbeAt(y)' = ProbeAt(y)
      /\ ProbeAt(x) = Head(probes_left)
  BY <1>1, <1>2, <1>4 DEF ProbeAt
<1>7. ASSUME NEW kind
      PROVE  /\ Of(kind)' = IF Head(probes_left) \in kind THEN Of(kind) \cup {x} ELSE Of(kind)
             /\ x \notin Of(kind) /\ IsFiniteSet(Of(kind))
  <2>1. Of(kind) \subseteq CountedProbes
    BY DEF Of
  <2>2. IsFiniteSet(Of(kind)) /\ x \notin Of(kind)
    BY <1>5, <2>1, FS_Subset
  <2>3. Of(kind)' = IF Head(probes_left) \in kind THEN Of(kind) \cup {x} ELSE Of(kind)
    BY <1>5, <1>6 DEF Of
  <2> QED BY <2>2, <2>3
<1> QED BY <1>5, <1>7, FS_AddElement

\* A probe that leaves is one less of its kinds.
LEMMA LeaveRecount ==
    ASSUME Window, loop = "leave", loop' = "leave", probes_left # <<>>,
           probes_left' = Tail(probes_left), UNCHANGED <<policy, trace, window, lost_read>>,
           IsFiniteSet(CountedProbes)
    PROVE  /\ IsFiniteSet(CountedProbes)'
           /\ Head(probes_left).file \in file_map
           /\ \A kind : IF Head(probes_left) \in kind
                        THEN /\ Cardinality(Of(kind)) \in Nat \ {0}
                             /\ Cardinality(Of(kind))' = Cardinality(Of(kind)) - 1
                        ELSE Cardinality(Of(kind))' = Cardinality(Of(kind))
<1> DEFINE g == GoneThrough(1)
<1>1. /\ 1 \in 1 .. Len(next_get_records) /\ g \in Nat
      /\ g + 1 \in 1 .. Len(next_get_records[1].probes)
      /\ GoneThrough(1)' = g + 1
      /\ Head(probes_left) = next_get_records[1].probes[g + 1]
  <2>1. AtHand = 1 /\ 1 \in 1 .. Len(next_get_records)
        /\ g \in 0 .. Len(next_get_records[1].probes)
    BY AtHandFacts DEF AtHand
  <2>2. lost_read' \in BOOLEAN /\ (lost_read' => Modular)
    BY DEF Window, ControlOK
  <2>3. /\ GoneThrough(AtHand) + 1 \in 1 .. Len(next_get_records[AtHand].probes)
        /\ Head(probes_left) = next_get_records[AtHand].probes[GoneThrough(AtHand) + 1]
        /\ GoneThrough(AtHand)' = GoneThrough(AtHand) + 1
        /\ AtHand' = AtHand
    BY <2>2, WindowOneProbe DEF trace, config
  <2> QED BY <2>1, <2>3 DEF GoneThrough
<1>2. next_get_records' = next_get_records
  BY DEF window
<1>3. Head(probes_left).file \in file_map
  BY <1>1 DEF Window, FilesKnown
<1> HIDE DEF g
<1>4. IsCounted(1, g + 1)
  BY <1>1 DEF IsCounted, g
<1>5. ASSUME NEW i, NEW j
      PROVE  IsCounted(i, j)' <=> IsCounted(i, j) /\ ~ (i = 1 /\ j = g + 1)
  <2>1. CASE i = 1
    <3>1. IsCounted(i, j) <=> j \in 1 .. Len(next_get_records[1].probes) /\ j > g
      BY <1>1, <2>1 DEF IsCounted, g
    <3>2. IsCounted(i, j)' <=> j \in 1 .. Len(next_get_records[1].probes) /\ j > g + 1
      BY <1>1, <1>2, <2>1 DEF IsCounted
    <3> QED BY <1>1, <2>1, <3>1, <3>2
  <2>2. CASE i # 1
    BY <1>2, <2>2 DEF IsCounted
  <2> QED BY <2>1, <2>2
<1>6. PICK x : x = <<1, g + 1>>
  OBVIOUS
<1>7. CountedProbes' = CountedProbes \ {x} /\ x \in CountedProbes
  <2>1. \A i, j : <<i, j>> \in CountedProbes' <=> IsCounted(i, j)'
    BY DEF CountedProbes, IsCounted, GoneThrough
  <2>2. \A y \in CountedProbes' : y = <<y[1], y[2]>>
    BY DEF CountedProbes
  <2>3. x \in CountedProbes
    BY <1>4, <1>6, CountedAt
  <2>4. \A y : y \in CountedProbes' <=> y \in CountedProbes \ {x}
    BY <1>5, <1>6, <2>1, <2>2, CountedAt
  <2> QED BY <2>3, <2>4
<1>8. /\ \A y : ProbeAt(y)' = ProbeAt(y)
      /\ ProbeAt(x) = Head(probes_left)
  BY <1>1, <1>2, <1>6 DEF ProbeAt
<1>9. ASSUME NEW kind
      PROVE  /\ IsFiniteSet(Of(kind))
             /\ Of(kind)' = Of(kind) \ {x}
             /\ x \in Of(kind) <=> Head(probes_left) \in kind
  <2>1. IsFiniteSet(Of(kind))
    <3>1. Of(kind) \subseteq CountedProbes
      BY DEF Of
    <3> QED BY <3>1, FS_Subset
  <2>2. Of(kind)' = Of(kind) \ {x} /\ (x \in Of(kind) <=> Head(probes_left) \in kind)
    BY <1>7, <1>8 DEF Of
  <2> QED BY <2>1, <2>2
<1>10. ASSUME NEW kind
       PROVE  IF Head(probes_left) \in kind
              THEN /\ Cardinality(Of(kind)) \in Nat \ {0}
                   /\ Cardinality(Of(kind))' = Cardinality(Of(kind)) - 1
              ELSE Cardinality(Of(kind))' = Cardinality(Of(kind))
  <2>1. CASE Head(probes_left) \in kind
    <3>1. x \in Of(kind) /\ Of(kind) # {}
      BY <1>9, <2>1
    <3>2. Cardinality(Of(kind)) \in Nat /\ Cardinality(Of(kind)) # 0
      BY <1>9, <3>1, FS_CardinalityType, FS_EmptySet
    <3> QED BY <1>9, <2>1, <3>1, <3>2, FS_RemoveElement
  <2>2. CASE Head(probes_left) \notin kind
    <3>1. Of(kind)' = Of(kind)
      BY <1>9, <2>2
    <3> QED BY <2>2, <3>1
  <2> QED BY <2>1, <2>2
<1>11. IsFiniteSet(CountedProbes)'
  BY <1>7, FS_RemoveElement
<1> QED BY <1>3, <1>10, <1>11

\* Pairs that move up in their first part are as many.
LEMMA MovedUp ==
    ASSUME NEW A, NEW B, IsFiniteSet(A),
           \A x \in A : x = <<x[1], x[2]>> /\ x[1] \in Int,
           \A x \in B : x = <<x[1], x[2]>> /\ x[1] \in Int,
           \A i \in Int : \A j : <<i, j>> \in B <=> <<i + 1, j>> \in A
    PROVE  IsFiniteSet(B) /\ Cardinality(B) = Cardinality(A)
<1> DEFINE up == [x \in A |-> <<x[1] - 1, x[2]>>]
<1>1. ASSUME NEW x \in A PROVE up[x] \in B
  <2>1. x[1] - 1 \in Int /\ x[1] - 1 + 1 = x[1]
    OBVIOUS
  <2>2. <<x[1] - 1 + 1, x[2]>> = x
    BY <2>1
  <2>3. <<x[1] - 1, x[2]>> \in B
    BY <2>1, <2>2
  <2> QED BY <2>3
<1>2. ASSUME NEW x \in A, NEW y \in A, up[x] = up[y] PROVE x = y
  <2>1. x[1] - 1 = y[1] - 1 /\ x[2] = y[2]
    BY <1>2
  <2>2. x[1] = y[1]
    BY <2>1
  <2> QED BY <2>1, <2>2
<1>3. ASSUME NEW y \in B PROVE \E x \in A : up[x] = y
  <2>1. <<y[1] + 1, y[2]>> \in A
    <3>1. y[1] \in Int /\ <<y[1], y[2]>> \in B
      OBVIOUS
    <3> QED BY <3>1
  <2>2. up[<<y[1] + 1, y[2]>>] = y
    <3>1. y[1] + 1 - 1 = y[1]
      OBVIOUS
    <3> QED BY <2>1, <3>1
  <2> QED BY <2>1, <2>2
<1>4. up \in Bijection(A, B)
  <2>1. up \in [A -> B]
    BY <1>1
  <2> HIDE DEF up
  <2> QED BY <2>1, <1>2, <1>3 DEF Bijection, Injection, Surjection, IsInjective
<1>5. ExistsBijection(A, B)
  BY <1>4 DEF ExistsBijection
<1> QED BY <1>5, FS_Bijection

\* When a record is gone the others move up in the window.
LEMMA EndLeaveRecount ==
    ASSUME Window, EndLeave
    PROVE  SameRecount
<1> DEFINE n == Len(next_get_records)
<1> SUFFICES ASSUME IsFiniteSet(CountedProbes)
             PROVE  /\ IsFiniteSet(CountedProbes)'
                    /\ \A kind : Cardinality(Of(kind))' = Cardinality(Of(kind))
  BY DEF SameRecount
<1>1. /\ loop = "leave" /\ probes_left = <<>> /\ loop' \in {"consume", "decide"}
      /\ next_get_records' = Tail(next_get_records)
  BY DEF EndLeave, Goto
<1>2. next_get_records # <<>> /\ ControlOK
  BY <1>1, AtHandFacts DEF Window
<1>3. /\ n \in Nat \ {0}
      /\ Len(next_get_records') = n - 1
      /\ \A i \in 1 .. n - 1 : next_get_records'[i] = next_get_records[i + 1]
  BY <1>1, <1>2, FrontIsFirst
<1>4. /\ GoneThrough(1) = Len(next_get_records[1].probes)
      /\ Len(next_get_records[1].probes) \in Nat
  BY <1>1, AtHandFacts, AllGoneThrough DEF AtHand
<1> HIDE DEF n
<1>5. ASSUME NEW i \in Int, NEW j
      PROVE  IsCounted(i, j)' <=> IsCounted(i + 1, j)
  <2>1. CASE i \in 1 .. n - 1
    <3>1. i + 1 \in 1 .. n /\ i + 1 # 1 /\ next_get_records'[i] = next_get_records[i + 1]
      BY <1>3, <2>1
    <3> QED BY <1>1, <1>3, <2>1, <3>1 DEF IsCounted, n
  <2>2. CASE i = 0
    <3>1. ~ (j \in 1 .. Len(next_get_records[1].probes) /\ j > GoneThrough(1))
      BY <1>4
    <3> QED BY <1>1, <1>3, <2>2, <3>1 DEF IsCounted
  <2>3. CASE i \notin 0 .. n - 1
    <3>1. i \notin 1 .. n - 1 /\ i + 1 \notin 1 .. n
      BY <1>3, <2>3
    <3> QED BY <1>3, <3>1 DEF IsCounted, n
  <2>4. i \in 0 .. n - 1 => i = 0 \/ i \in 1 .. n - 1
    BY <1>3
  <2> QED BY <2>1, <2>2, <2>3, <2>4
<1>6. /\ \A i, j : <<i, j>> \in CountedProbes' <=> IsCounted(i, j)'
      /\ \A x \in CountedProbes' : x = <<x[1], x[2]>>
  BY DEF CountedProbes, IsCounted, GoneThrough
<1>7. /\ \A x \in CountedProbes : x = <<x[1], x[2]>> /\ x[1] \in Int
      /\ \A x \in CountedProbes' : x = <<x[1], x[2]>> /\ x[1] \in Int
      /\ \A i \in Int : \A j : <<i, j>> \in CountedProbes' <=> <<i + 1, j>> \in CountedProbes
  BY <1>5, <1>6, CountedAt DEF IsCounted
<1>8. IsFiniteSet(CountedProbes)'
  BY <1>7, MovedUp
<1>9. ASSUME NEW kind
      PROVE  Cardinality(Of(kind))' = Cardinality(Of(kind))
  <2>2. ASSUME NEW i \in Int, NEW j, <<i, j>> \in CountedProbes'
        PROVE  ProbeAt(<<i, j>>)' = ProbeAt(<<i + 1, j>>)
    <3>1. i \in 1 .. n - 1
      BY <1>3, <1>6, <2>2 DEF IsCounted
    <3> QED BY <1>3, <3>1 DEF ProbeAt
  <2>3. /\ \A x : x \in Of(kind) <=> x \in CountedProbes /\ ProbeAt(x) \in kind
        /\ \A x : x \in Of(kind)' <=> x \in CountedProbes' /\ ProbeAt(x)' \in kind
    BY DEF Of
  <2>4. /\ \A x \in Of(kind) : x = <<x[1], x[2]>> /\ x[1] \in Int
        /\ \A x \in Of(kind)' : x = <<x[1], x[2]>> /\ x[1] \in Int
        /\ \A i \in Int : \A j : <<i, j>> \in Of(kind)' <=> <<i + 1, j>> \in Of(kind)
    BY <1>7, <2>2, <2>3
  <2>5. IsFiniteSet(Of(kind))
    <3>1. Of(kind) \subseteq CountedProbes
      BY DEF Of
    <3> QED BY <3>1, FS_Subset
  <2> QED BY <2>4, <2>5, MovedUp
<1> QED BY <1>8, <1>9

(***************************************************************************)
(* The steps of the counts.                                                *)
(***************************************************************************)
LEMMA CountsInitially == Init => Counts
<1> SUFFICES ASSUME Init PROVE Counts
  OBVIOUS
<1>1. file_map = {} /\ lost_read = FALSE /\ FileCountsInit /\ next_get_records = <<>>
      /\ loop = "read" /\ ratio_tree = {}
  BY DEF Init, FileCountsInit
<1>2. CountedFiles = {}
  BY <1>1 DEF CountedFiles
<1>3. ListsCounted({}) /\ TreeCounted({})
  BY <1>1, NothingCounted
<1>4. LevelsOK
  BY <1>1 DEF FileCountsInit, LevelsOK
<1>5. CountedProbes = {} /\ \A kind : Of(kind) = {}
  BY <1>1 DEF CountedProbes, Of
<1>6. Recounted
  <2>1. Cardinality({}) = 0 /\ IsFiniteSet({})
    BY FS_EmptySet
  <2>2. \A l \in Level : levelwise_total_count[l] = 0 /\ levelwise_empty_count[l] = 0
    BY <1>1 DEF FileCountsInit
  <2> QED BY <1>1, <1>5, <2>1, <2>2 DEF Recounted
<1>7. TreeOK
  BY <1>1, <1>2, <1>3, FS_EmptySet DEF TreeOK
<1>8. OnlyIndexed(IndexedFiles)
  BY <1>1 DEF FileCountsInit, NoAccesses, OnlyIndexed
<1> QED BY <1>2, <1>3, <1>4, <1>6, <1>7, <1>8 DEF Counts

\* Steps that count nothing.
LEMMA CountsUnchanged ==
    ASSUME Counts, UNCHANGED <<counts, file_map, lost_read>>,
           Modular /\ loop' # "exit" => loop # "exit" /\ SameRecount
    PROVE  Counts'
<1>1. Modular' = Modular /\ CountedFiles' = CountedFiles
  BY DEF Modular, CountedFiles, counts
<1>2. ListsCounted(CountedFiles)' /\ OnlyIndexed(IndexedFiles)'
  BY <1>1 DEF Counts, ListsCounted, OnlyIndexed, IndexedFiles, counts, lists
<1>3. TreeOK' /\ LevelsOK'
  BY <1>1 DEF Counts, TreeOK, LevelsOK, TreeCounted, counts, lists, levels
<1>4. Recounted'
  <2> SUFFICES ASSUME Modular, loop' # "exit" PROVE Recounted'
    BY <1>1 DEF Recounted
  <2>1. Recounted /\ loop # "exit" /\ IsFiniteSet(CountedProbes)
    BY DEF Counts, Recounted
  <2>2. /\ IsFiniteSet(CountedProbes)'
        /\ \A kind : Cardinality(Of(kind))' = Cardinality(Of(kind))
    BY <2>1 DEF SameRecount
  <2>3. ASSUME NEW f \in file_map
        PROVE  Covers(TotalCount(f), Of(OfFile(f)))' /\ Covers(EmptyCount(f), Of(Empty(OfFile(f))))'
    <3>1. Covers(TotalCount(f), Of(OfFile(f))) /\ Covers(EmptyCount(f), Of(Empty(OfFile(f))))
      BY <2>1 DEF Recounted
    <3>2. TotalCount(f)' = TotalCount(f) /\ EmptyCount(f)' = EmptyCount(f)
      BY DEF TotalCount, EmptyCount, counts, lists
    <3> QED BY <2>2, <3>1, <3>2 DEF Covers
  <2>4. ASSUME NEW l \in Level
        PROVE  /\ levelwise_total_count'[l] = Cardinality(Of(OnLevel(l)))'
               /\ levelwise_empty_count'[l] = Cardinality(Of(Empty(OnLevel(l))))'
    BY <2>1, <2>2 DEF Recounted, counts, levels
  <2> QED BY <2>2, <2>3, <2>4 DEF Recounted
<1> QED BY <1>2, <1>3, <1>4 DEF Counts

\* The tree keeps the keys of other files, and what is inserted is in it.
LEMMA TreeKeeps ==
    ASSUME NEW f
    PROVE  /\ Erased(f) \subseteq ratio_tree /\ ErasedIfCounted(f) \subseteq ratio_tree
           /\ \A k \in ratio_tree : k.file # f => k \in Erased(f) /\ k \in ErasedIfCounted(f)
BY DEF Erased, ErasedIfCounted, EraseKey, SameKey, RatioKey

LEMMA TreeInserts ==
    ASSUME NEW f, NEW tree, IsFiniteSet(tree)
    PROVE  /\ IsFiniteSet(Inserted(tree, f)) /\ tree \subseteq Inserted(tree, f)
           /\ policy = "ratio" => \E k \in Inserted(tree, f) : k.file = f
<1>1. PICK key : key = RatioKey(total', empty', f)
  OBVIOUS
<1>6. key.file = f
  BY <1>1 DEF RatioKey
<1>2. Inserted(tree, f) = IF policy = "ratio" THEN InsertKey(tree, key) ELSE tree
  BY <1>1 DEF Inserted
<1>3. IsFiniteSet(tree \cup {key})
  BY FS_AddElement
<1>4. CASE \E k \in tree : SameKey(k, key)
  <2>1. Inserted(tree, f) = tree
    BY <1>2, <1>4 DEF InsertKey
  <2> QED BY <1>4, <1>6, <2>1 DEF SameKey
<1>5. CASE ~ \E k \in tree : SameKey(k, key)
  BY <1>2, <1>3, <1>5, <1>6 DEF InsertKey
<1> QED BY <1>4, <1>5

\* A file that is created has no probe in the window, for its record would have
\* been lost.
LEMMA CountsCreate ==
    ASSUME Window, Counts, NEW f \in File, CreateFile(f)
    PROVE  Counts'
<1>1. /\ loop = "read" /\ f \notin file_map /\ f \notin Lost /\ file_map' = file_map \cup {f}
      /\ UNCHANGED <<next_get_records, loop, probes_left, lost_read, policy>>
  BY DEF CreateFile, window, CountFile, counts
<1>2. Modular' = Modular
  BY <1>1 DEF Modular
<1>3. CASE Modular
  <2>1. CountFile(f) /\ UNCHANGED <<levels, ratio_tree>>
    BY <1>3 DEF CreateFile, CountFile
  <2>2. PICK S : S = file_map
    OBVIOUS
  <2>3. CountedFiles = S /\ CountedFiles' = S \cup {f} /\ f \in File \ S /\ ListsCounted(S)
    BY <1>1, <1>2, <1>3, <2>2 DEF CountedFiles, Counts
  <2>4. /\ ListsCounted(S \cup {f})'
        /\ TreeCounted(S) => TreeCounted(S \cup {f})'
        /\ TotalCount(f)' = 0 /\ EmptyCount(f)' = 0
        /\ \A g \in S : TotalCount(g)' = TotalCount(g) /\ EmptyCount(g)' = EmptyCount(g)
    BY <2>1, <2>3, CountFileKeeps
  <2>5. ListsCounted(CountedFiles)'
    BY <2>3, <2>4 DEF ListsCounted
  <2>6. TreeOK' /\ LevelsOK'
    BY <1>1, <2>1, <2>3, <2>4 DEF Counts, TreeOK, TreeCounted, LevelsOK, levels
  <2>7. SameRecount
    <3>1. loop \notin {"enter", "leave"} /\ loop' \notin {"enter", "leave"}
          /\ UNCHANGED next_get_records
      BY <1>1
    <3> QED BY <3>1, ElsewhereRecount
  <2>8. /\ Recounted /\ IsFiniteSet(CountedProbes) /\ IsFiniteSet(CountedProbes)'
        /\ \A kind : Cardinality(Of(kind))' = Cardinality(Of(kind))
    BY <1>1, <1>3, <2>7 DEF Counts, Recounted, SameRecount
  <2>9. Cardinality(Of(OfFile(f))) = 0 /\ Cardinality(Of(Empty(OfFile(f)))) = 0
    <3>1. ASSUME NEW x \in CountedProbes PROVE ProbeAt(x).file # f
      <4>1. x = <<x[1], x[2]>> /\ IsCounted(x[1], x[2])
        BY CountedAt
      <4>2. ProbeAt(x).file \in file_map \cup Lost
        BY <4>1 DEF IsCounted, ProbeAt, Window, FilesKnown
      <4> QED BY <1>1, <4>2
    <3>2. Of(OfFile(f)) = {} /\ Of(Empty(OfFile(f))) = {}
      BY <3>1 DEF Of, OfFile, Empty
    <3> QED BY <3>2, FS_EmptySet
  <2>10. ASSUME NEW g \in file_map'
         PROVE  /\ Covers(TotalCount(g), Of(OfFile(g)))'
                /\ Covers(EmptyCount(g), Of(Empty(OfFile(g))))'
    <3>1. CASE g = f
      BY <2>4, <2>8, <2>9, <3>1 DEF Covers
    <3>2. CASE g # f
      <4>1. g \in S /\ Covers(TotalCount(g), Of(OfFile(g)))
            /\ Covers(EmptyCount(g), Of(Empty(OfFile(g))))
        BY <1>1, <1>3, <2>2, <2>8, <3>2 DEF Recounted
      <4> QED BY <1>1, <2>4, <2>8, <4>1 DEF Covers
    <3> QED BY <3>1, <3>2
  <2>11. ASSUME NEW l \in Level
         PROVE  /\ levelwise_total_count'[l] = Cardinality(Of(OnLevel(l)))'
                /\ levelwise_empty_count'[l] = Cardinality(Of(Empty(OnLevel(l))))'
    BY <1>1, <1>3, <2>1, <2>8 DEF Recounted, levels
  <2>12. Recounted'
    BY <2>8, <2>10, <2>11 DEF Recounted
  <2>13. OnlyIndexed(IndexedFiles)'
    <3>1. PICK T : T = IndexedFiles
      OBVIOUS
    <3>2. OnlyIndexed(T \cup {f})'
      BY <2>1, <3>1, FileIndexes DEF Counts
    <3>3. T \cup {f} = IndexedFiles'
      BY <1>1, <2>3, <3>1 DEF IndexedFiles
    <3> QED BY <3>2, <3>3 DEF OnlyIndexed
  <2> QED BY <2>5, <2>6, <2>12, <2>13 DEF Counts
<1>4. CASE ~ Modular
  <2>1. UNCHANGED counts
    BY <1>4 DEF CreateFile
  <2>2. CountedFiles = {} /\ CountedFiles' = {}
    BY <1>2, <1>4 DEF CountedFiles
  <2>3. ListsCounted(CountedFiles)' /\ TreeOK' /\ LevelsOK' /\ Recounted'
    BY <1>1, <1>2, <1>4, <2>1, <2>2 DEF Counts, ListsCounted, TreeOK, TreeCounted, LevelsOK,
       Recounted, counts, lists, levels
  <2>4. OnlyIndexed(IndexedFiles)'
    BY <1>1, <2>1, <2>2 DEF Counts, OnlyIndexed, IndexedFiles, counts, lists
  <2> QED BY <2>3, <2>4 DEF Counts
<1> QED BY <1>3, <1>4

\* The kinds a probe is of, and the file it is of.
LEMMA KindsOf ==
    ASSUME NEW p \in Probe, NEW g, NEW l
    PROVE  /\ p \in OfFile(g) <=> g = p.file
           /\ p \in Empty(OfFile(g)) <=> g = p.file /\ p.outcome = "not_found"
           /\ p \in OnLevel(l) <=> l = p.level
           /\ p \in Empty(OnLevel(l)) <=> l = p.level /\ p.outcome = "not_found"
BY DEF OfFile, OnLevel, Empty

LEMMA ProbeLeft ==
    ASSUME Window, loop \in {"enter", "decide", "leave"}, probes_left # <<>>
    PROVE  Head(probes_left) \in Probe /\ Head(probes_left).file \in file_map \cup Lost
<1>1. PICK probes : probes = next_get_records[AtHand].probes
  OBVIOUS
<1>2. /\ AtHand \in 1 .. Len(next_get_records) /\ probes \in Seq(Probe)
      /\ Rest(probes_left, probes)
  BY <1>1, AtHandFacts
<1>3. PICK k : k = Len(probes) - Len(probes_left) + 1
  OBVIOUS
<1>4. /\ Head(probes_left) = probes[k] /\ Head(probes_left) \in Probe
      /\ Len(probes_left) \in 1 .. Len(probes) /\ Len(probes) \in Nat
  BY <1>2, <1>3, OneProbe, LenProperties
<1>5. k \in 1 .. Len(probes)
  BY <1>3, <1>4
<1> QED BY <1>1, <1>2, <1>4, <1>5 DEF Window, FilesKnown

LEMMA OfIsFinite ==
    ASSUME IsFiniteSet(CountedProbes), NEW kind
    PROVE  Cardinality(Of(kind)) \in Nat
<1>1. Of(kind) \subseteq CountedProbes
  BY DEF Of
<1> QED BY <1>1, FS_Subset, FS_CardinalityType

\* A probe that enters counts for its file; a lost file's counts for another, and
\* leaves its key in the tree.
LEMMA CountsEnter ==
    ASSUME Window, Counts, EnterProbe
    PROVE  Counts'
<1>1. PICK p, f, l : p = Head(probes_left) /\ f = p.file /\ l = p.level
  OBVIOUS
<1>2. PICK not_found \in BOOLEAN : not_found = (p.outcome = "not_found")
  OBVIOUS
<1>3. /\ loop = "enter" /\ loop' = "enter" /\ probes_left # <<>>
      /\ probes_left' = Tail(probes_left)
      /\ UNCHANGED <<policy, trace, window>>
      /\ lost_read' = (lost_read \/ f \notin file_map)
      /\ f \in file_map \/ total.list # <<>>
      /\ CountProbe(f, l, not_found)
  BY <1>1, <1>2 DEF EnterProbe, Goto, CountProbe
<1>4. Modular /\ Modular' /\ lost_read \in BOOLEAN /\ lost_read' \in BOOLEAN /\ file_map' = file_map
  BY <1>3 DEF Window, ControlOK, Modular, trace, config
<1>5. p \in Probe /\ f \in file_map \cup Lost
  BY <1>1, <1>3, ProbeLeft
<1>6. PICK S : S = file_map
  OBVIOUS
<1>7. CountedFiles = S /\ CountedFiles' = S /\ ListsCounted(S)
  BY <1>4, <1>6 DEF CountedFiles, Counts
<1>8. S # {}
  <2>1. Files(total) = S /\ total.list \in Seq(Entry) /\ Len(total.list) \in Nat
    BY <1>7, PlacedWhenCounted, LenProperties DEF ListsCounted, Listed
  <2>2. ASSUME Len(total.list) # 0 PROVE S # {}
    <3>1. 1 \in 1 .. Len(total.list)
      BY <2>1, <2>2
    <3>2. total.list[1].file \in S
      BY <2>1, <3>1 DEF Files
    <3> QED BY <3>2
  <2>3. S = {} => total.list = <<>>
    BY <2>1, <2>2, EmptySeq
  <2> QED BY <1>3, <1>6, <2>3
<1>9. /\ ListsCounted(S)'
      /\ \A g \in S : /\ TotalCount(g)' \in {TotalCount(g), TotalCount(g) + 1}
                      /\ EmptyCount(g)' \in {EmptyCount(g), EmptyCount(g) + 1}
      /\ f \in S =>
            \A g \in S :
               /\ TotalCount(g)' = IF g = f THEN TotalCount(g) + 1 ELSE TotalCount(g)
               /\ EmptyCount(g)' = IF g = f /\ not_found THEN EmptyCount(g) + 1
                                   ELSE EmptyCount(g)
  BY <1>3, <1>7, <1>8, CountProbeLists
<1>10. /\ Recounted /\ IsFiniteSet(CountedProbes) /\ TreeOK /\ LevelsOK
  BY <1>3, <1>4 DEF Counts, Recounted
<1>11. /\ IsFiniteSet(CountedProbes)'
       /\ \A kind : Cardinality(Of(kind))' =
             IF p \in kind THEN Cardinality(Of(kind)) + 1 ELSE Cardinality(Of(kind))
  BY <1>1, <1>3, <1>4, <1>10, EnterRecount
<1>12. ASSUME NEW g \in file_map
       PROVE  /\ Covers(TotalCount(g), Of(OfFile(g)))'
              /\ Covers(EmptyCount(g), Of(Empty(OfFile(g))))'
  <2>1. PICK t, e, ct, ce : /\ t = TotalCount(g) /\ e = EmptyCount(g)
                            /\ ct = Cardinality(Of(OfFile(g)))
                            /\ ce = Cardinality(Of(Empty(OfFile(g))))
    OBVIOUS
  <2>2. t \in Nat /\ e \in Nat /\ ct \in Nat /\ ce \in Nat
    BY <1>6, <1>7, <1>10, <2>1, CountOfListed, OfIsFinite
       DEF ListsCounted, TotalCount, EmptyCount
  <2>3. /\ t >= ct /\ (~ lost_read => t = ct)
        /\ e >= ce /\ (~ lost_read => e = ce)
    BY <1>3, <1>4, <1>10, <2>1 DEF Recounted, Covers
  <2>4. /\ Cardinality(Of(OfFile(g)))' = IF g = f THEN ct + 1 ELSE ct
        /\ Cardinality(Of(Empty(OfFile(g))))' = IF g = f /\ not_found THEN ce + 1 ELSE ce
    BY <1>1, <1>2, <1>5, <1>11, <2>1, KindsOf
  <2>5. CASE f \in S
    <3>1. lost_read' = lost_read
      BY <1>3, <1>4, <1>6, <2>5
    <3>2. /\ TotalCount(g)' = IF g = f THEN t + 1 ELSE t
          /\ EmptyCount(g)' = IF g = f /\ not_found THEN e + 1 ELSE e
      BY <1>6, <1>9, <2>1, <2>5
    <3> QED BY <2>2, <2>3, <2>4, <3>1, <3>2 DEF Covers
  <2>6. CASE f \notin S
    <3>1. lost_read' /\ g # f
      BY <1>3, <1>6, <2>6
    <3>2. TotalCount(g)' \in {t, t + 1} /\ EmptyCount(g)' \in {e, e + 1}
      BY <1>6, <1>9, <2>1
    <3>3. TotalCount(g)' >= ct /\ EmptyCount(g)' >= ce
      BY <2>2, <2>3, <3>2
    <3> QED BY <2>4, <3>1, <3>3 DEF Covers
  <2> QED BY <2>5, <2>6
<1>13. ASSUME NEW k \in Level
       PROVE  /\ levelwise_total_count'[k] = Cardinality(Of(OnLevel(k)))'
              /\ levelwise_empty_count'[k] = Cardinality(Of(Empty(OnLevel(k))))'
  <2>1. /\ levelwise_total_count'[k] = IF k = l THEN levelwise_total_count[k] + 1
                                       ELSE levelwise_total_count[k]
        /\ levelwise_empty_count'[k] = IF k = l /\ not_found THEN levelwise_empty_count[k] + 1
                                       ELSE levelwise_empty_count[k]
    BY <1>3, <1>10 DEF CountProbe, AddToLevel, LevelsOK
  <2>2. /\ levelwise_total_count[k] = Cardinality(Of(OnLevel(k)))
        /\ levelwise_empty_count[k] = Cardinality(Of(Empty(OnLevel(k))))
    BY <1>3, <1>4, <1>10 DEF Recounted
  <2> QED BY <1>1, <1>2, <1>5, <1>11, <2>1, <2>2, KindsOf
<1>14. Recounted'
  BY <1>4, <1>11, <1>12, <1>13 DEF Recounted
<1>15. LevelsOK'
  BY <1>3, <1>10 DEF CountProbe, AddToLevel, LevelsOK
<1>16. TreeOK'
  <2>1. PICK tree : tree = ErasedIfCounted(f)
    OBVIOUS
  <2>2. /\ tree \subseteq ratio_tree
        /\ \A k \in ratio_tree : k.file # f => k \in tree
        /\ ratio_tree' = Inserted(tree, f)
    BY <1>3, <2>1, TreeKeeps DEF CountProbe
  <2>3. /\ IsFiniteSet(ratio_tree') /\ tree \subseteq ratio_tree'
        /\ policy = "ratio" => \E k \in ratio_tree' : k.file = f
    BY <1>10, <2>2, FS_Subset, TreeInserts DEF TreeOK
  <2>4. ASSUME ~ lost_read' PROVE TreeCounted(CountedFiles)'
    <3>1. f \in S /\ ~ lost_read
      BY <1>3, <1>4, <1>6, <2>4
    <3>2. TreeCounted(S)
      BY <1>7, <1>10, <3>1 DEF TreeOK
    <3>3. TreeCounted(S)'
      BY <1>3, <1>7, <3>1, <3>2, CountProbeTree
    <3> QED BY <1>7, <3>3 DEF TreeCounted
  <2>5. ASSUME lost_read', policy' = "ratio" PROVE \E k \in ratio_tree' : k.file \in Lost
    <3>1. CASE f \in Lost
      BY <1>3, <2>3, <2>5, <3>1
    <3>2. CASE f \notin Lost
      <4>1. lost_read /\ policy = "ratio"
        BY <1>3, <1>5, <2>5, <3>2
      <4>2. PICK k \in ratio_tree : k.file \in Lost
        BY <1>10, <4>1 DEF TreeOK
      <4> QED BY <2>2, <2>3, <3>2, <4>2
    <3> QED BY <3>1, <3>2
  <2> QED BY <2>3, <2>4, <2>5 DEF TreeOK
<1>17. ListsCounted(CountedFiles)'
  BY <1>7, <1>9 DEF ListsCounted
<1>18. OnlyIndexed(IndexedFiles)'
  <2>1. PICK T : T = IndexedFiles
    OBVIOUS
  <2>2. OnlyIndexed(T \cup {f})'
    <3>1. OnlyIndexed(T)
      BY <2>1 DEF Counts
    <3> QED BY <1>3, <1>7, <1>8, <3>1, IndexesKept
  <2>3. T \cup {f} \subseteq IndexedFiles'
    BY <1>3, <1>5, <1>6, <1>7, <2>1 DEF IndexedFiles
  <2> QED BY <2>2, <2>3 DEF OnlyIndexed
<1> QED BY <1>14, <1>15, <1>16, <1>17, <1>18 DEF Counts

\* A probe that leaves was counted for its file, which is known by then.
LEMMA CountsLeave ==
    ASSUME Window, Counts, LeaveProbe
    PROVE  Counts'
<1>1. PICK p, f, l : p = Head(probes_left) /\ f = p.file /\ l = p.level
  OBVIOUS
<1>2. PICK not_found \in BOOLEAN : not_found = (p.outcome = "not_found")
  OBVIOUS
<1>3. /\ loop = "leave" /\ loop' = "leave" /\ probes_left # <<>>
      /\ probes_left' = Tail(probes_left)
      /\ UNCHANGED <<policy, trace, window, lost_read>>
      /\ UncountProbe(f, l, not_found)
  BY <1>1, <1>2 DEF LeaveProbe, Goto, UncountProbe
<1>4. Modular /\ Modular' /\ lost_read \in BOOLEAN /\ file_map' = file_map
  BY <1>3 DEF Window, ControlOK, Modular, trace, config
<1>5. p \in Probe
  BY <1>1, <1>3, ProbeLeft
<1>6. PICK S : S = file_map
  OBVIOUS
<1>7. CountedFiles = S /\ CountedFiles' = S /\ ListsCounted(S)
  BY <1>4, <1>6 DEF CountedFiles, Counts
<1>8. /\ Recounted /\ IsFiniteSet(CountedProbes) /\ TreeOK /\ LevelsOK
  BY <1>3, <1>4 DEF Counts, Recounted
<1>9. /\ IsFiniteSet(CountedProbes)' /\ f \in S
      /\ \A kind : IF p \in kind
                   THEN /\ Cardinality(Of(kind)) \in Nat \ {0}
                        /\ Cardinality(Of(kind))' = Cardinality(Of(kind)) - 1
                   ELSE Cardinality(Of(kind))' = Cardinality(Of(kind))
  BY <1>1, <1>3, <1>6, <1>8, LeaveRecount
<1>10. ASSUME NEW g \in S
       PROVE  /\ TotalCount(g) \in Nat /\ EmptyCount(g) \in Nat
              /\ Covers(TotalCount(g), Of(OfFile(g)))
              /\ Covers(EmptyCount(g), Of(Empty(OfFile(g))))
  BY <1>3, <1>4, <1>6, <1>7, <1>8, CountOfListed
     DEF ListsCounted, TotalCount, EmptyCount, Recounted
<1>11. TotalCount(f) > 0 /\ (not_found => EmptyCount(f) > 0)
  <2>1. PICK t, e, ct, ce : /\ t = TotalCount(f) /\ e = EmptyCount(f)
                            /\ ct = Cardinality(Of(OfFile(f)))
                            /\ ce = Cardinality(Of(Empty(OfFile(f))))
    OBVIOUS
  <2>2. t \in Nat /\ e \in Nat /\ t >= ct /\ e >= ce
    BY <1>9, <1>10, <2>1 DEF Covers
  <2>3. ct \in Nat \ {0} /\ (not_found => ce \in Nat \ {0})
    BY <1>1, <1>2, <1>5, <1>9, <2>1, KindsOf
  <2> QED BY <2>1, <2>2, <2>3
<1>12. /\ ListsCounted(S)'
       /\ \A g \in S :
             /\ TotalCount(g)' = IF g = f THEN TotalCount(g) - 1 ELSE TotalCount(g)
             /\ EmptyCount(g)' = IF g = f /\ not_found THEN EmptyCount(g) - 1
                                 ELSE EmptyCount(g)
  BY <1>3, <1>7, <1>9, <1>11, UncountProbeLists
<1>13. ASSUME NEW g \in file_map
       PROVE  /\ Covers(TotalCount(g), Of(OfFile(g)))'
              /\ Covers(EmptyCount(g), Of(Empty(OfFile(g))))'
  <2>1. PICK t, e, ct, ce : /\ t = TotalCount(g) /\ e = EmptyCount(g)
                            /\ ct = Cardinality(Of(OfFile(g)))
                            /\ ce = Cardinality(Of(Empty(OfFile(g))))
    OBVIOUS
  <2>2. t \in Nat /\ e \in Nat /\ ct \in Nat /\ ce \in Nat
    BY <1>6, <1>8, <1>10, <2>1, OfIsFinite
  <2>3. /\ t >= ct /\ (~ lost_read => t = ct)
        /\ e >= ce /\ (~ lost_read => e = ce)
    BY <1>6, <1>10, <2>1 DEF Covers
  <2>4. /\ Cardinality(Of(OfFile(g)))' = IF g = f THEN ct - 1 ELSE ct
        /\ Cardinality(Of(Empty(OfFile(g))))' = IF g = f /\ not_found THEN ce - 1 ELSE ce
    BY <1>1, <1>2, <1>5, <1>9, <2>1, KindsOf
  <2>5. /\ TotalCount(g)' = IF g = f THEN t - 1 ELSE t
        /\ EmptyCount(g)' = IF g = f /\ not_found THEN e - 1 ELSE e
    BY <1>6, <1>12, <2>1
  <2> QED BY <1>3, <2>2, <2>3, <2>4, <2>5 DEF Covers
<1>14. ASSUME NEW k \in Level
       PROVE  /\ levelwise_total_count'[k] = Cardinality(Of(OnLevel(k)))'
              /\ levelwise_empty_count'[k] = Cardinality(Of(Empty(OnLevel(k))))'
  <2>1. PICK ct, ce : /\ ct = Cardinality(Of(OnLevel(k)))
                      /\ ce = Cardinality(Of(Empty(OnLevel(k))))
    OBVIOUS
  <2>2. /\ levelwise_total_count[k] = ct /\ levelwise_empty_count[k] = ce
        /\ ct \in Nat /\ ce \in Nat
    BY <1>3, <1>4, <1>8, <2>1, OfIsFinite DEF Recounted
  <2>3. /\ levelwise_total_count'[k] = IF k = l THEN levelwise_total_count[k] + (-1)
                                       ELSE levelwise_total_count[k]
        /\ levelwise_empty_count'[k] = IF k = l /\ not_found
                                       THEN levelwise_empty_count[k] + (-1)
                                       ELSE levelwise_empty_count[k]
    BY <1>3, <1>8 DEF UncountProbe, AddToLevel, LevelsOK
  <2>4. /\ Cardinality(Of(OnLevel(k)))' = IF k = l THEN ct - 1 ELSE ct
        /\ Cardinality(Of(Empty(OnLevel(k))))' = IF k = l /\ not_found THEN ce - 1 ELSE ce
    BY <1>1, <1>2, <1>5, <1>9, <2>1, KindsOf
  <2> QED BY <2>2, <2>3, <2>4
<1>15. Recounted'
  BY <1>3, <1>4, <1>9, <1>13, <1>14 DEF Recounted
<1>16. LevelsOK'
  BY <1>3, <1>8 DEF UncountProbe, AddToLevel, LevelsOK
<1>17. TreeOK'
  <2>1. PICK tree : tree = Erased(f)
    OBVIOUS
  <2>2. /\ tree \subseteq ratio_tree
        /\ \A k \in ratio_tree : k.file # f => k \in tree
        /\ ratio_tree' = IF TotalCount(f) > 1 THEN Inserted(tree, f) ELSE tree
    BY <1>3, <2>1, TreeKeeps DEF UncountProbe
  <2>3. IsFiniteSet(ratio_tree') /\ tree \subseteq ratio_tree'
    BY <1>8, <2>2, FS_Subset, TreeInserts DEF TreeOK
  <2>4. ASSUME ~ lost_read' PROVE TreeCounted(CountedFiles)'
    <3>1. TreeCounted(S)
      BY <1>3, <1>7, <1>8, <2>4 DEF TreeOK
    <3>2. TreeCounted(S)'
      BY <1>3, <1>7, <1>9, <1>11, <3>1, UncountProbeTree
    <3> QED BY <1>7, <3>2 DEF TreeCounted
  <2>5. ASSUME lost_read', policy' = "ratio" PROVE \E k \in ratio_tree' : k.file \in Lost
    <3>1. PICK k \in ratio_tree : k.file \in Lost
      BY <1>3, <1>8, <2>5 DEF TreeOK
    <3>2. f \notin Lost
      BY <1>6, <1>9 DEF Window, ControlOK
    <3> QED BY <2>2, <2>3, <3>1, <3>2
  <2> QED BY <2>3, <2>4, <2>5 DEF TreeOK
<1>18. ListsCounted(CountedFiles)'
  BY <1>7, <1>12 DEF ListsCounted
<1>19. OnlyIndexed(IndexedFiles)'
  <2>1. PICK T : T = IndexedFiles
    OBVIOUS
  <2>2. OnlyIndexed(T \cup {f})'
    <3>1. OnlyIndexed(T) /\ S # {}
      BY <1>9, <2>1 DEF Counts
    <3> QED BY <1>3, <1>7, <1>9, <1>11, <3>1, IndexesKept
  <2>3. T \cup {f} = IndexedFiles'
    BY <1>3, <1>7, <1>9, <2>1 DEF IndexedFiles
  <2> QED BY <2>2, <2>3 DEF OnlyIndexed
<1> QED BY <1>15, <1>16, <1>17, <1>18, <1>19 DEF Counts

LEMMA CountsStep == Window /\ Counts /\ [Next]_vars => Counts'
<1> SUFFICES ASSUME Window, Counts, [Next]_vars PROVE Counts'
  OBVIOUS
<1>1. ASSUME NEW f \in File, CreateFile(f) PROVE Counts'
  BY <1>1, CountsCreate
<1>2. CASE EnterProbe
  BY <1>2, CountsEnter
<1>3. CASE LeaveProbe
  BY <1>3, CountsLeave
<1>4. ASSUME NEW get \in Gets, ReadGet(get) PROVE Counts'
  <2>1. UNCHANGED <<counts, file_map, lost_read>> /\ loop = "read"
    BY <1>4 DEF ReadGet, trace, config
  <2>2. Modular => SameRecount
    BY <1>4, ReadRecount
  <2> QED BY <2>1, <2>2, CountsUnchanged
<1>5. CASE EndLeave
  <2>1. UNCHANGED <<counts, file_map, lost_read>> /\ loop = "leave"
    BY <1>5 DEF EndLeave, trace, config
  <2>2. SameRecount
    BY <1>5, EndLeaveRecount
  <2> QED BY <2>1, <2>2, CountsUnchanged
<1>6. CASE EndEnter \/ EndDecide \/ EndTrace
  <2>1. UNCHANGED <<counts, file_map, lost_read>> /\ loop \in {"enter", "decide", "read"}
    BY <1>6 DEF EndEnter, EndDecide, EndTrace, trace, config
  <2>2. Modular => SameRecount
    <3> SUFFICES ASSUME Modular PROVE SameRecount
      OBVIOUS
    <3>1. UNCHANGED next_get_records
      BY <1>6 DEF EndEnter, EndDecide, EndTrace, window
    <3>2. \/ loop \notin {"enter", "leave"}
          \/ loop = "enter" /\ probes_left = <<>>
      BY <1>6 DEF EndEnter, EndDecide, EndTrace
    <3>3. loop = "decide" => next_get_records # <<>>
      BY AtHandFacts
    <3>4. \/ loop' \notin {"enter", "leave"}
          \/ loop' = "leave" /\ probes_left' = Front.probes /\ next_get_records # <<>>
      BY <1>6, <3>3 DEF EndEnter, EndDecide, EndTrace, Goto
    <3> QED BY <3>1, <3>2, <3>4, ElsewhereRecount
  <2> QED BY <2>1, <2>2, CountsUnchanged
<1>7. CASE EnterUnknown \/ DecideUnknown
  <2>1. UNCHANGED <<counts, file_map, lost_read>> /\ loop' = "exit"
    BY <1>7 DEF EnterUnknown, DecideUnknown, Goto, trace, config
  <2> QED BY <2>1, CountsUnchanged
<1>8. CASE DecideProbe \/ NextRecord \/ End \/ ConsumeFilter \/ ConsumeData
  <2>1. /\ UNCHANGED <<counts, file_map, lost_read, next_get_records>>
        /\ loop \in {"decide", "consume"} /\ loop' \in {"decide", "consume", "read", "end"}
    BY <1>8 DEF DecideProbe, NextRecord, End, ConsumeFilter, ConsumeData, Excess, Goto,
       trace, window, config
  <2>2. SameRecount
    BY <2>1, ElsewhereRecount
  <2> QED BY <2>1, <2>2, CountsUnchanged
<1>9. CASE UNCHANGED vars
  <2>1. /\ UNCHANGED <<counts, file_map, lost_read, next_get_records, loop, probes_left>>
    BY <1>9 DEF vars, trace, config, window
  <2>2. SameRecount
    <3>1. \A i, j : IsCounted(i, j)' <=> IsCounted(i, j)
      BY <2>1 DEF IsCounted, GoneThrough
    <3>2. \A i, j : next_get_records'[i].probes[j] = next_get_records[i].probes[j]
      BY <2>1
    <3> QED BY <3>1, <3>2, CountedSame
  <2> QED BY <2>1, <2>2, CountsUnchanged
<1> QED BY <1>1, <1>2, <1>3, <1>4, <1>5, <1>6, <1>7, <1>8, <1>9 DEF Next

(***************************************************************************)
(* What the first two parts establish.                                     *)
(***************************************************************************)
LEMMA WindowAndCounts == Spec => [](Window /\ Counts)
<1>1. Init => Window /\ Counts
  BY WindowInit, CountsInitially
<1>2. Window /\ Counts /\ [Next]_vars => (Window /\ Counts)'
  BY WindowStep, CountsStep
<1> QED BY <1>1, <1>2, PTL DEF Spec

\* The probes the comment on the counts speaks of are those of the kinds.
LEMMA KindsOfCounted ==
    ASSUME Window
    PROVE  /\ \A f : /\ {x \in CountedProbes : ProbeAt(x).file = f} = Of(OfFile(f))
                     /\ {x \in Of(OfFile(f)) : ProbeAt(x).outcome = "not_found"}
                            = Of(Empty(OfFile(f)))
           /\ \A l : /\ {x \in CountedProbes : ProbeAt(x).level = l} = Of(OnLevel(l))
                     /\ {x \in Of(OnLevel(l)) : ProbeAt(x).outcome = "not_found"}
                            = Of(Empty(OnLevel(l)))
<1>1. ASSUME NEW x \in CountedProbes PROVE ProbeAt(x) \in Probe
  <2>1. IsCounted(x[1], x[2])
    BY CountedAt
  <2> QED BY <2>1, RecordTyped DEF IsCounted, ProbeAt, Window
<1> QED BY <1>1 DEF Of, OfFile, OnLevel, Empty

\* While no probe of a lost file was counted, every count of
\* simulate_optimal_modular is a recount of the window, whatever the lookahead
\* and through every increment and decrement.
THEOREM CountsAreOfWindow == Spec => []CountsAreWindow
<1>1. Window /\ Counts => CountsAreWindow
  <2> SUFFICES ASSUME Window, Counts, Modular, ~ lost_read, loop # "exit"
               PROVE  CountsAreWindow
    BY DEF CountsAreWindow
  <2>1. Recounted
    BY DEF Counts
  <2>2. ASSUME NEW f \in file_map
        PROVE  /\ TotalCount(f) = Cardinality(Of(OfFile(f)))
               /\ EmptyCount(f) = Cardinality(Of(Empty(OfFile(f))))
    BY <2>1 DEF Recounted, Covers
  <2>3. ASSUME NEW l \in Level
        PROVE  /\ levelwise_total_count[l] = Cardinality(Of(OnLevel(l)))
               /\ levelwise_empty_count[l] = Cardinality(Of(Empty(OnLevel(l))))
    BY <2>1 DEF Recounted
  <2> QED BY <2>2, <2>3, KindsOfCounted DEF CountsAreWindow
<1> QED BY <1>1, WindowAndCounts, PTL

\* Both lists stay in order, with every created file where its index says, even
\* when the probe of an unknown file is counted for the first entry; and an index
\* has no key of any other file, but for lost ones whose probes were counted.
THEOREM ListsStayIndexed == Spec => []ListsIndexed
<1>1. Counts => ListsIndexed
  <2> SUFFICES ASSUME Counts, Modular PROVE ListsIndexed
    BY DEF ListsIndexed
  <2>1. PICK S : S = file_map
    OBVIOUS
  <2>2. ListsCounted(S) /\ CountedFiles = S /\ OnlyIndexed(IndexedFiles)
    BY <2>1 DEF Counts, CountedFiles
  <2>3. ASSUME NEW k \in {total, empty}
        PROVE  /\ Descending(k) /\ WellPlaced(k) /\ Files(k) = S
               /\ DOMAIN k.index \subseteq S \cup (IF lost_read THEN Lost ELSE {})
    <3>1. Descending(k) /\ WellPlaced(k) /\ Files(k) = S
      BY <2>2, PlacedWhenCounted
    <3> QED BY <2>2, <2>3, <3>1 DEF OnlyIndexed, IndexedFiles
  <2> QED BY <2>1, <2>3 DEF ListsIndexed
<1> QED BY <1>1, WindowAndCounts, PTL

\* The entries with a count are the first empty_nonzero_count, and the tree holds
\* exactly the files with a probe, each under its present ratio.
THEOREM TreeIsOfPresent == Spec => []RatioTreeMatches
<1>1. Counts => RatioTreeMatches
  <2> SUFFICES ASSUME Counts, ~ lost_read PROVE PrefixNonZero /\ TreeMatches
    BY DEF RatioTreeMatches
  <2>1. ListsCounted(CountedFiles) /\ TreeCounted(CountedFiles)
    BY DEF Counts, TreeOK
  <2> QED BY <2>1, PrefixWhenCounted, TreeWhenCounted
<1> QED BY <1>1, WindowAndCounts, PTL

\* A simulation that reaches its end has counted no probe of a file without a
\* create record: the probe stays in the window until it is decided, which exits.
THEOREM UnknownIsNotReported == Spec => []UnknownNotReported
<1>1. Window => UnknownNotReported
  <2> SUFFICES ASSUME Window, loop = "end", lost_read PROVE FALSE
    BY DEF UnknownNotReported, Window, ControlOK
  <2>1. next_get_records = <<>>
    BY DEF Window, ControlOK, WindowLength
  <2> QED BY <2>1 DEF Window, LostWaits
<1> QED BY <1>1, WindowAndCounts, PTL

(***************************************************************************)
(* The accesses: steps that neither add one nor make one.                  *)
(***************************************************************************)
LEMMA AccessesInit == Init => Accesses
<1> SUFFICES ASSUME Init PROVE Accesses
  OBVIOUS
<1>1. /\ filter_lookahead = <<>> /\ data_lookahead = <<>> /\ unnecessary_access_map = {}
      /\ added = 0 /\ count = [c \in Counter |-> 0] /\ curr_access = 0 /\ series = <<>>
  BY DEF Init, CountsInit
<1>2. /\ filter_lookahead \in Seq(Access) /\ data_lookahead \in Seq(Access)
      /\ Len(filter_lookahead) = 0 /\ Len(data_lookahead) = 0 /\ Len(series) = 0
      /\ series \in Seq(Point)
  BY <1>1
<1>3. QueuesOK /\ Shortened
  BY <1>1, <1>2, OptimalAssumption DEF QueuesOK, Queued, Shortened
<1>4. NamesDecided /\ MapTellsUnnecessary
  BY <1>1, <1>2 DEF NamesDecided, MapTellsUnnecessary, Waits, Elements
<1>5. \A c \in Counter : count[c] = 0
  BY <1>1
<1>6. ResultOK /\ ByType /\ PointsDue(Len(series)) /\ loop = "read"
  BY NothingDue DEF Init
<1>7. count.hit = 0 /\ count.miss = 0
  BY <1>5 DEF Counter
<1>8. NoAccessLost
  BY <1>1, <1>2, <1>7 DEF NoAccessLost
<1>9. SeriesOnTime
  BY <1>1, <1>6 DEF SeriesOnTime, FullPoints
<1> QED BY <1>3, <1>4, <1>6, <1>8, <1>9 DEF Accesses

\* A step that pushes no point and counts nothing leaves the series on time.
LEMMA SeriesStays ==
    ASSUME SeriesOnTime, UNCHANGED <<result, config>>, (loop' = "end") <=> (loop = "end")
    PROVE  SeriesOnTime'
BY DEF SeriesOnTime, PointsDue, FullPoints, Period, Latest, PointOf, result, config

\* What is decided stays decided.
StaysDecided == \A f, n : n \in Nat /\ Decided(f, n) => Decided(f, n)'

LEMMA NamesStay ==
    ASSUME Accesses, UNCHANGED <<lookaheads, simulated, config>>,
           loop' # "exit" => loop # "exit" /\ StaysDecided,
           Shortened', (loop' = "end") <=> (loop = "end")
    PROVE  Accesses'
<1>1. QueuesOK' /\ MapTellsUnnecessary' /\ NoAccessLost'
  BY DEF Accesses, QueuesOK, Queued, MapTellsUnnecessary, Unnecessary, NoAccessLost,
         lookaheads, simulated, result
<1>2. ResultOK' /\ ByType' /\ SeriesOnTime'
  <2>1. UNCHANGED <<result, config>>
    BY DEF simulated
  <2>2. ResultOK' /\ ByType'
    BY <2>1 DEF Accesses, ResultOK, ByType, result, config
  <2> QED BY <2>1, <2>2, SeriesStays DEF Accesses
<1>3. NamesDecided'
  <2> SUFFICES ASSUME loop' # "exit" PROVE NamesDecided'
    BY DEF NamesDecided
  <2>1. Waits' = Waits /\ unnecessary_access_map' = unnecessary_access_map
    BY DEF Waits, Elements, lookaheads
  <2>2. \A pair \in unnecessary_access_map : pair[2] \in Nat
    BY DEF Accesses, QueuesOK
  <2>3. \A a \in Waits : a.lookup \in Nat
    <3>1. \A a \in Waits : a \in Access
      BY ElementOfSeq DEF Accesses, QueuesOK, Queued, Waits, Elements
    <3> QED BY <3>1 DEF Access
  <2> QED BY <2>1, <2>2, <2>3 DEF Accesses, NamesDecided, StaysDecided
<1> QED BY <1>1, <1>2, <1>3 DEF Accesses

\* Where a record is in the window depends on its number only.
LEMMA WindowNumbers ==
    ASSUME Window
    PROVE  /\ get_counter \in Nat /\ Len(next_get_records) \in Nat
           /\ next_get_records # <<>> =>
                 /\ Len(next_get_records) > 0
                 /\ next_get_records[1].lookup = get_counter - Len(next_get_records) + 1
                 /\ Front = next_get_records[1]
<1>1. get_counter \in Nat /\ Len(next_get_records) \in Nat
  BY LenProperties DEF Window, ControlOK
<1>2. ASSUME next_get_records # <<>>
      PROVE  /\ Len(next_get_records) > 0
             /\ next_get_records[1].lookup = get_counter - Len(next_get_records) + 1
             /\ Front = next_get_records[1]
  <2>1. Len(next_get_records) > 0 /\ Front = next_get_records[1]
    BY <1>2, FrontIsFirst DEF Window
  <2> QED BY <1>1, <2>1 DEF Window, Numbered
<1> QED BY <1>1, <1>2

\* As records come in at the end nothing changes for the front one.
LEMMA DecidedStays ==
    ASSUME loop \notin {"decide", "leave"},
           get_counter' - Len(next_get_records') = get_counter - Len(next_get_records)
    PROVE  StaysDecided
BY DEF StaysDecided, Decided

LEMMA ElsewhereAccesses ==
    ASSUME Window, Accesses,
           \/ \E f \in File : CreateFile(f)
           \/ \E get \in Gets : ReadGet(get)
           \/ EnterProbe \/ EnterUnknown \/ EndEnter \/ DecideUnknown \/ NextRecord \/ EndTrace
    PROVE  Accesses'
<1>1. UNCHANGED <<lookaheads, simulated, config>>
  BY DEF CreateFile, ReadGet, EnterProbe, EnterUnknown, EndEnter, DecideUnknown, NextRecord,
         EndTrace, trace
<1>2. get_counter \in Nat /\ Len(next_get_records) \in Nat
  BY WindowNumbers
<1>3. CASE \E f \in File : CreateFile(f)
  <2>1. loop = "read" /\ loop' = "read" /\ UNCHANGED window
    BY <1>3 DEF CreateFile
  <2>2. StaysDecided
    BY <2>1, DecidedStays DEF window
  <2>3. Shortened'
    BY <1>1, <2>1 DEF Accesses, Shortened, lookaheads
  <2> QED BY <1>1, <2>1, <2>2, <2>3, NamesStay
<1>4. ASSUME NEW get \in Gets, ReadGet(get) PROVE Accesses'
  <2>1. /\ loop = "read" /\ loop' \in {"enter", "decide"}
        /\ get_counter' = get_counter + 1
        /\ next_get_records' = Append(next_get_records, [lookup |-> get_counter', probes |-> get])
    BY <1>4 DEF ReadGet, Goto
  <2>2. Len(next_get_records') = Len(next_get_records) + 1
    <3>1. PICK r : r = [lookup |-> get_counter', probes |-> get]
      OBVIOUS
    <3>2. r \in Record /\ next_get_records \in Seq(Record)
      BY <1>2, <2>1, <3>1 DEF Record, Window, ControlOK
    <3>3. next_get_records' = Append(next_get_records, r)
      BY <2>1, <3>1
    <3> QED BY <3>2, <3>3, AppendProperties
  <2>3. get_counter' - Len(next_get_records') = get_counter - Len(next_get_records)
    BY <1>2, <2>1, <2>2
  <2>4. StaysDecided
    BY <2>1, <2>3, DecidedStays
  <2>5. Shortened'
    BY <1>1, <2>1 DEF Accesses, Shortened, lookaheads
  <2> QED BY <1>1, <2>1, <2>4, <2>5, NamesStay
<1>5. CASE EnterProbe \/ EndEnter
  <2>1. loop = "enter" /\ loop' \in {"enter", "read", "decide"} /\ UNCHANGED window
    BY <1>5 DEF EnterProbe, EndEnter, Goto
  <2>2. StaysDecided
    BY <2>1, DecidedStays DEF window
  <2>3. Shortened'
    BY <1>1, <2>1 DEF Accesses, Shortened, lookaheads
  <2> QED BY <1>1, <2>1, <2>2, <2>3, NamesStay
<1>6. CASE EnterUnknown \/ DecideUnknown
  <2>1. loop' = "exit" /\ loop \in {"enter", "decide"}
    BY <1>6 DEF EnterUnknown, DecideUnknown, Goto
  <2>2. Shortened'
    BY <2>1 DEF Shortened
  <2> QED BY <1>1, <2>1, <2>2, NamesStay
<1>7. CASE NextRecord
  <2>1. /\ loop = "consume" /\ loop' = "read" /\ trace_left /\ UNCHANGED window
        /\ ~ (Len(filter_lookahead) > optimal_lookahead)
        /\ ~ (Len(data_lookahead) > optimal_lookahead)
    BY <1>7 DEF NextRecord, Goto, Excess
  <2>2. StaysDecided
    BY <2>1, DecidedStays DEF window
  <2>3. Shortened'
    <3>1. Len(filter_lookahead) \in Nat /\ Len(data_lookahead) \in Nat
      BY LenProperties DEF Accesses, QueuesOK, Queued
    <3> QED BY <1>1, <2>1, <3>1, OptimalAssumption DEF Shortened, lookaheads
  <2> QED BY <1>1, <2>1, <2>2, <2>3, NamesStay
<1>8. CASE EndTrace
  <2>1. loop = "read" /\ loop' \in {"consume", "decide"} /\ UNCHANGED window
    BY <1>8 DEF EndTrace, Goto
  <2>2. StaysDecided
    BY <2>1, DecidedStays DEF window
  <2>3. Shortened'
    BY <2>1 DEF Shortened
  <2> QED BY <1>1, <2>1, <2>2, <2>3, NamesStay
<1> QED BY <1>3, <1>4, <1>5, <1>6, <1>7, <1>8

\* The front record is decided, leaves the counts, and then the window.
LEMMA FrontAccesses ==
    ASSUME Window, Accesses, EndDecide \/ LeaveProbe \/ EndLeave
    PROVE  Accesses'
<1>1. /\ UNCHANGED <<lookaheads, simulated, config, get_counter>>
      /\ loop \in {"decide", "leave"} /\ loop' \in {"leave", "consume", "decide"}
  BY DEF EndDecide, LeaveProbe, EndLeave, Goto, window, trace
<1>2. /\ get_counter \in Nat /\ Len(next_get_records) \in Nat /\ Len(next_get_records) > 0
      /\ next_get_records[1].lookup = get_counter - Len(next_get_records) + 1
      /\ next_get_records # <<>>
  BY <1>1, WindowNumbers, AtHandFacts
<1>3. Shortened'
  BY <1>1 DEF Shortened
<1>4. CASE loop' = "leave"
  <2>1. UNCHANGED next_get_records
    BY <1>4 DEF EndDecide, LeaveProbe, EndLeave, Goto, window
  <2>2. StaysDecided
    BY <1>1, <1>4, <2>1 DEF StaysDecided, Decided
  <2> QED BY <1>1, <1>3, <2>2, NamesStay
<1>5. CASE loop' # "leave"
  <2>1. Len(next_get_records') \in Nat /\ Len(next_get_records') <= Len(next_get_records) - 1
    <3>1. next_get_records' = <<>> \/ next_get_records' = Tail(next_get_records)
      BY <1>5 DEF EndDecide, LeaveProbe, EndLeave, Goto
    <3>2. Len(Tail(next_get_records)) = Len(next_get_records) - 1
      BY <1>2, FrontIsFirst DEF Window
    <3> QED BY <1>2, <3>1, <3>2
  <2>2. ASSUME NEW f, NEW n \in Nat, Decided(f, n) PROVE Decided(f, n)'
    <3>1. n <= get_counter - Len(next_get_records) \/ n = next_get_records[1].lookup
      BY <2>2 DEF Decided
    <3>2. n <= get_counter - Len(next_get_records')
      BY <1>2, <2>1, <3>1
    <3> QED BY <1>1, <3>2 DEF Decided
  <2>3. StaysDecided
    BY <2>2 DEF StaysDecided
  <2> QED BY <1>1, <1>3, <2>3, NamesStay
<1> QED BY <1>4, <1>5

(***************************************************************************)
(* The accesses: the oldest one is made.                                   *)
(***************************************************************************)
\* Of a queue that is not empty the first access leaves.
LEMMA FirstLeaves ==
    ASSUME NEW q, NEW types, Queued(q, types), NEW n \in Nat, Len(q) > n
    PROVE  /\ Head(q) \in Access /\ Head(q).block \in CachedBlock
           /\ Head(q).block.type \in types
           /\ Queued(Tail(q), types)
           /\ Len(q) \in Nat /\ Len(Tail(q)) = Len(q) - 1
           /\ Elements(Tail(q)) \subseteq Elements(q)
<1>1. q \in Seq(Access) /\ Len(q) \in Nat /\ Len(q) > 0
  BY LenProperties DEF Queued
<1>2. q # <<>>
  BY <1>1
<1>3. /\ Head(q) = q[1] /\ Tail(q) \in Seq(Access) /\ Len(Tail(q)) = Len(q) - 1
      /\ \A i \in 1 .. Len(q) - 1 : Tail(q)[i] = q[i + 1]
  BY <1>1, <1>2, HeadTailProperties
<1>4. Head(q) \in Access /\ Head(q).block.type \in types
  BY <1>1, <1>3, ElementOfSeq DEF Queued
<1>5. ASSUME NEW i \in 1 .. Len(Tail(q))
      PROVE  \E j \in 1 .. Len(q) : Tail(q)[i] = q[j]
  <2>1. i + 1 \in 1 .. Len(q) /\ i \in 1 .. Len(q) - 1
    BY <1>1, <1>3
  <2> QED BY <1>3, <2>1
<1>6. Queued(Tail(q), types) /\ Elements(Tail(q)) \subseteq Elements(q)
  BY <1>3, <1>5 DEF Queued, Elements
<1> QED BY <1>1, <1>3, <1>4, <1>6 DEF Access

LEMMA ExcessIsSome ==
    ASSUME NEW q, Excess(q)
    PROVE  \E n \in Nat : Len(q) > n
BY OptimalAssumption DEF Excess

\* What a made access leaves of the invariant, whichever queue it was in.
LEMMA MadeAccesses ==
    ASSUME Accesses, loop = "consume",
           UNCHANGED <<loop, config, window, probes_left, unnecessary_access_map, added>>,
           NEW b \in CachedBlock, NEW unnecessary, NEW late \in BOOLEAN,
           AccessTo(b, unnecessary, late),
           QueuesOK', Waits' \subseteq Waits,
           Len(filter_lookahead') + Len(data_lookahead') + 1
                = Len(filter_lookahead) + Len(data_lookahead)
    PROVE  Accesses'
<1>1. ResultOK /\ ByType /\ PointsDue(Len(series)) /\ series_per_record' = series_per_record
  BY DEF Accesses, SeriesOnTime, FullPoints, config
<1>2. /\ ResultOK' /\ ByType' /\ PointsDue(Len(series))'
      /\ count'.hit + count'.miss = count.hit + count.miss + 1
      /\ count'.extra_read \in {count.extra_read, count.extra_read + 1}
      /\ curr_access' = 0 /\ series' # <<>> =>
            /\ Latest'.hit = count'.hit /\ Latest'.miss = count'.miss
            /\ Latest'.extra_read = IF late THEN count.extra_read ELSE count'.extra_read
  BY <1>1, AccessKeeps
<1>3. NoAccessLost'
  <2>1. /\ Len(filter_lookahead) \in Nat /\ Len(data_lookahead) \in Nat
        /\ Len(filter_lookahead') \in Nat /\ Len(data_lookahead') \in Nat
    BY LenProperties DEF Accesses, QueuesOK, Queued
  <2>2. /\ count.hit \in Nat /\ count.miss \in Nat /\ count'.hit \in Nat /\ count'.miss \in Nat
    BY <1>1, <1>2 DEF ResultOK, Counter
  <2>3. count.hit + count.miss + Len(filter_lookahead) + Len(data_lookahead) = added
    BY DEF Accesses, NoAccessLost
  <2>4. PICK h, m, x, y, H, M, X, Y :
           /\ h = count.hit /\ m = count.miss /\ H = count'.hit /\ M = count'.miss
           /\ x = Len(filter_lookahead) /\ y = Len(data_lookahead)
           /\ X = Len(filter_lookahead') /\ Y = Len(data_lookahead')
    OBVIOUS
  <2>5. /\ h \in Nat /\ m \in Nat /\ x \in Nat /\ y \in Nat
        /\ H \in Nat /\ M \in Nat /\ X \in Nat /\ Y \in Nat
        /\ H + M = h + m + 1 /\ X + Y + 1 = x + y
    BY <1>2, <2>1, <2>2, <2>4
  <2>6. H + M + X + Y = h + m + x + y
    BY <2>5
  <2>7. H + M + X + Y = added'
    BY <2>3, <2>4, <2>6
  <2> QED BY <2>4, <2>7 DEF NoAccessLost
<1>4. NamesDecided'
  BY DEF Accesses, NamesDecided, Decided, window
<1>5. MapTellsUnnecessary'
  <2>1. \A a \in Waits : a.block.type # "filter" => (Unnecessary(a) <=> a.not_found)
    BY DEF Accesses, MapTellsUnnecessary, Waits, Elements
  <2>2. \A a : Unnecessary(a)' <=> Unnecessary(a)
    BY DEF Unnecessary
  <2>3. \A a \in Waits' : a.block.type # "filter" => (Unnecessary(a)' <=> a.not_found)
    BY <2>1, <2>2
  <2> QED BY <2>3 DEF MapTellsUnnecessary, Waits, Elements
<1>6. Shortened'
  BY DEF Shortened
<1>7. SeriesOnTime'
  <2>1. count.extra_read \in Nat /\ count'.extra_read \in Nat
    BY <1>1, <1>2 DEF ResultOK, Counter
  <2>2. curr_access' = 0 /\ series' # <<>> =>
           /\ count'.extra_read - Latest'.extra_read >= 0
           /\ count'.extra_read - Latest'.extra_read <= 1
    BY <1>2, <2>1
  <2> QED BY <1>2, <2>2 DEF SeriesOnTime, FullPoints
<1> QED BY <1>2, <1>3, <1>4, <1>5, <1>6, <1>7 DEF Accesses

LEMMA ConsumeFilterAccesses ==
    ASSUME Accesses, ConsumeFilter
    PROVE  Accesses'
<1>1. PICK a : a = Head(filter_lookahead)
  OBVIOUS
<1>2. /\ loop = "consume" /\ Excess(filter_lookahead)
      /\ AccessTo(a.block, Unnecessary(a), FALSE)
      /\ filter_lookahead' = Tail(filter_lookahead)
      /\ UNCHANGED <<loop, config, window, probes_left, unnecessary_access_map, added,
                     data_lookahead>>
  BY <1>1 DEF ConsumeFilter, Excess, trace
<1>3. PICK unnecessary : unnecessary = Unnecessary(a)
  OBVIOUS
<1>4. /\ Queued(filter_lookahead, NotData) /\ Queued(data_lookahead, {"data"})
      /\ Len(data_lookahead) \in Nat
  BY LenProperties DEF Accesses, QueuesOK, Queued
<1>5. /\ a.block \in CachedBlock /\ Queued(Tail(filter_lookahead), NotData)
      /\ Len(filter_lookahead) \in Nat
      /\ Len(Tail(filter_lookahead)) = Len(filter_lookahead) - 1
      /\ Elements(Tail(filter_lookahead)) \subseteq Elements(filter_lookahead)
  BY <1>1, <1>2, <1>4, ExcessIsSome, FirstLeaves
<1>6. QueuesOK'
  BY <1>2, <1>4, <1>5 DEF Accesses, QueuesOK, Queued
<1>7. Waits' \subseteq Waits
  BY <1>2, <1>5 DEF Waits, Elements
<1>8. Len(filter_lookahead') + Len(data_lookahead') + 1
        = Len(filter_lookahead) + Len(data_lookahead)
  BY <1>2, <1>4, <1>5
<1>9. AccessTo(a.block, unnecessary, FALSE)
  BY <1>2, <1>3
<1> QED BY <1>2, <1>5, <1>6, <1>7, <1>8, <1>9, MadeAccesses

LEMMA ConsumeDataAccesses ==
    ASSUME Accesses, ConsumeData
    PROVE  Accesses'
<1>1. PICK a : a = Head(data_lookahead)
  OBVIOUS
<1>2. /\ loop = "consume" /\ Excess(data_lookahead)
      /\ AccessTo(a.block, Unnecessary(a), TRUE)
      /\ data_lookahead' = Tail(data_lookahead)
      /\ UNCHANGED <<loop, config, window, probes_left, unnecessary_access_map, added,
                     filter_lookahead>>
  BY <1>1 DEF ConsumeData, Excess, trace
<1>3. PICK unnecessary : unnecessary = Unnecessary(a)
  OBVIOUS
<1>4. /\ Queued(filter_lookahead, NotData) /\ Queued(data_lookahead, {"data"})
      /\ Len(filter_lookahead) \in Nat
  BY LenProperties DEF Accesses, QueuesOK, Queued
<1>5. /\ a.block \in CachedBlock /\ Queued(Tail(data_lookahead), {"data"})
      /\ Len(data_lookahead) \in Nat
      /\ Len(Tail(data_lookahead)) = Len(data_lookahead) - 1
      /\ Elements(Tail(data_lookahead)) \subseteq Elements(data_lookahead)
  BY <1>1, <1>2, <1>4, ExcessIsSome, FirstLeaves
<1>6. QueuesOK'
  BY <1>2, <1>4, <1>5 DEF Accesses, QueuesOK, Queued
<1>7. Waits' \subseteq Waits
  BY <1>2, <1>5 DEF Waits, Elements
<1>8. Len(filter_lookahead') + Len(data_lookahead') + 1
        = Len(filter_lookahead) + Len(data_lookahead)
  BY <1>2, <1>4, <1>5
<1>9. AccessTo(a.block, unnecessary, TRUE)
  BY <1>2, <1>3
<1> QED BY <1>2, <1>5, <1>6, <1>7, <1>8, <1>9, MadeAccesses

\* After the trace nothing waits when the last point is pushed.
LEMMA EndAccesses ==
    ASSUME Accesses, End
    PROVE  Accesses'
<1>1. /\ loop = "consume" /\ loop' = "end" /\ ~ trace_left /\ LastPush
      /\ ~ (Len(filter_lookahead) > 0) /\ ~ (Len(data_lookahead) > 0)
      /\ UNCHANGED <<count, curr_access, filter_only, series_per_record, lookaheads, window>>
  BY DEF End, Goto, Excess, trace, config
<1>2. QueuesOK' /\ MapTellsUnnecessary' /\ NoAccessLost'
  BY <1>1 DEF Accesses, QueuesOK, Queued, MapTellsUnnecessary, Unnecessary, NoAccessLost,
              lookaheads
<1>3. Shortened'
  <2>1. Len(filter_lookahead) \in Nat /\ Len(data_lookahead) \in Nat
        /\ filter_lookahead \in Seq(Access) /\ data_lookahead \in Seq(Access)
    BY LenProperties DEF Accesses, QueuesOK, Queued
  <2>2. Len(filter_lookahead) = 0 /\ Len(data_lookahead) = 0
    BY <1>1, <2>1
  <2>3. filter_lookahead = <<>> /\ data_lookahead = <<>>
    BY <2>1, <2>2, EmptySeq
  <2> QED BY <1>1, <2>3 DEF Shortened, lookaheads
<1>4. NamesDecided'
  <2>1. Waits' = Waits /\ unnecessary_access_map' = unnecessary_access_map
    BY <1>1 DEF Waits, Elements, lookaheads
  <2>2. ASSUME NEW f, NEW n, Decided(f, n) PROVE Decided(f, n)'
    BY <1>1, <2>2 DEF Decided, window
  <2> QED BY <1>1, <2>1, <2>2 DEF Accesses, NamesDecided
<1>5. /\ ResultOK /\ PointsDue(Len(series)) /\ ByType'
      /\ curr_access = 0 /\ series # <<>> =>
            LET late == count.extra_read - Latest.extra_read IN
            /\ Latest.hit = count.hit /\ Latest.miss = count.miss
            /\ late >= 0 /\ (~ filter_only => late <= 1)
  BY <1>1 DEF Accesses, SeriesOnTime, FullPoints, ByType
<1>7. /\ ResultOK' /\ PointsDue(IF curr_access # 0 THEN Len(series) - 1 ELSE Len(series))'
      /\ curr_access # 0 => Latest' = PointOf(count)
      /\ curr_access = 0 => series' = series
  BY <1>1, <1>5, LastPushKeeps
<1>6. SeriesOnTime'
  BY <1>1, <1>5, <1>7 DEF SeriesOnTime, FullPoints, Latest, PointOf
<1> QED BY <1>2, <1>3, <1>4, <1>5, <1>6, <1>7 DEF Accesses

(***************************************************************************)
(* The accesses: a probe is decided.                                       *)
(***************************************************************************)
\* By true counts, or by the key that a lost file left, the filter modules a
\* probe uses are a number.
LEMMA UseOfProbe ==
    ASSUME Window, Counts, loop # "exit", NEW f \in file_map, NEW l \in Level, NEW n, NEW found,
           NEW use \in FilterUses(f, found, Limit(f, n, LevelFraction(l),
                                                  workload_empty_fraction))
    PROVE  f \in File /\ use[1] \in Nat
<1>1. f \in File
  BY DEF Window, ControlOK
<1>2. PICK limit : limit = Limit(f, n, LevelFraction(l), workload_empty_fraction)
  OBVIOUS
<1>3. ASSUME Modular PROVE limit \in Nat
  <2>1. PICK S : S = file_map
    OBVIOUS
  <2>2. /\ f \in S /\ ListsCounted(S) /\ Recounted /\ TreeOK /\ IsFiniteSet(CountedProbes)
        /\ (~ lost_read => TreeCounted(S))
    BY <1>3, <2>1 DEF Counts, CountedFiles, TreeOK, Recounted
  <2>3. IsFiniteSet(ratio_tree)
    BY <2>2 DEF TreeOK
  <2>4. ASSUME policy = "ratio", EmptyCount(f) > 0 PROVE ratio_tree # {}
    <3>1. CASE lost_read
      BY <2>2, <2>4, <3>1 DEF TreeOK
    <3>2. CASE ~ lost_read
      <4>1. EmptyWithin(S)
        <5> SUFFICES ASSUME NEW g \in S PROVE EmptyCount(g) <= TotalCount(g)
          BY DEF EmptyWithin
        <5>1. /\ TotalCount(g) = Cardinality(Of(OfFile(g)))
              /\ EmptyCount(g) = Cardinality(Of(Empty(OfFile(g))))
          BY <1>3, <2>1, <2>2, <3>2 DEF Recounted, Covers
        <5>2. Of(Empty(OfFile(g))) \subseteq Of(OfFile(g)) /\ Of(OfFile(g)) \subseteq CountedProbes
          BY DEF Of, Empty
        <5>3. IsFiniteSet(Of(OfFile(g)))
          BY <2>2, <5>2, FS_Subset
        <5> QED BY <5>1, <5>2, <5>3, FS_Subset
      <4> QED BY <2>2, <2>4, <3>2, <4>1, TreeNotEmpty
    <3> QED BY <3>1, <3>2
  <2>5. LevelFraction(l) \in Fraction
    <3>1. /\ levelwise_total_count[l] = Cardinality(Of(OnLevel(l)))
          /\ levelwise_empty_count[l] = Cardinality(Of(Empty(OnLevel(l))))
      BY <1>3, <2>2 DEF Recounted
    <3>2. levelwise_total_count[l] \in Nat /\ levelwise_empty_count[l] \in Nat
      BY <2>2, <3>1, OfIsFinite
    <3> QED BY <3>2 DEF LevelFraction, Fraction
  <2>6. workload_empty_fraction \in Fraction
    BY OptimalAssumption
  <2> QED BY <1>2, <2>2, <2>3, <2>4, <2>5, <2>6, LimitIsCount
<1> QED BY <1>1, <1>2, <1>3, UsesAreCounts

\* The accesses of a probe: those behind its filter only if they need be made,
\* or the filter errs.
LEMMA WaitingTyped ==
    ASSUME Window, loop = "decide", probes_left # <<>>,
           NEW p, p = Head(probes_left), p.file \in File, NEW use, use[1] \in Nat,
           NEW accesses, accesses = Waiting(p, use)
    PROVE  /\ accesses \in Seq(Access)
           /\ \A i \in 1 .. Len(accesses) :
                 /\ accesses[i].block.file = p.file
                 /\ accesses[i].lookup = next_get_records[1].lookup
                 /\ accesses[i].not_found = (p.outcome = "not_found")
                 /\ accesses[i].block.type # "filter" =>
                       ~ filter_only /\ (p.outcome = "not_found" => use[2])
<1>1. PICK lookup, not_found, used, kept_out :
         /\ lookup = Front.lookup /\ not_found = (p.outcome = "not_found") /\ used = use[1]
         /\ kept_out = (filter_only \/ (p.outcome = "not_found" /\ ~ use[2]))
  OBVIOUS
<1>2. PICK behind : behind = IF kept_out THEN <<>> ELSE Simulated(p.reads)
  OBVIOUS
<1>3. PICK blocks : blocks = BlocksOf(p.file, used, behind)
  OBVIOUS
<1>4. accesses = [i \in 1 .. Len(blocks) |->
                     [block |-> blocks[i], lookup |-> lookup, not_found |-> not_found]]
  BY <1>1, <1>2, <1>3 DEF Waiting
<1>5. p.reads \in Seq(Block)
  <2>1. p \in Probe
    BY ProbeLeft
  <2> QED BY <2>1 DEF Probe
<1>6. /\ lookup \in Nat /\ lookup = next_get_records[1].lookup
      /\ not_found \in BOOLEAN /\ used \in Nat /\ kept_out \in BOOLEAN
  <2>1. next_get_records # <<>>
    BY AtHandFacts
  <2>2. 1 \in 1 .. Len(next_get_records) /\ Front = next_get_records[1]
    BY <2>1, FrontIsFirst DEF Window
  <2>3. next_get_records[1] \in Record
    BY <2>2, RecordTyped DEF Window
  <2> QED BY <1>1, <2>2, <2>3 DEF Record
<1>7. behind \in Seq(Looked) /\ (kept_out => Len(behind) = 0)
  BY <1>2, <1>5, SimulatedTyped
<1>8. FilterFirst(blocks, p.file, used, Len(behind))
  BY <1>3, <1>6, <1>7, BlocksOfTyped
<1>9. Len(blocks) \in Nat /\ Len(behind) \in Nat
  BY <1>7, <1>8, LenProperties DEF FilterFirst
<1>10. ASSUME NEW i \in 1 .. Len(blocks)
       PROVE  /\ [block |-> blocks[i], lookup |-> lookup, not_found |-> not_found] \in Access
              /\ blocks[i].file = p.file
              /\ blocks[i].type # "filter" => ~ kept_out
  <2>1. blocks[i] \in CachedBlock /\ blocks[i].file = p.file
    BY <1>8, ElementOfSeq DEF FilterFirst
  <2>2. kept_out => blocks[i].type = "filter"
    BY <1>6, <1>7, <1>8, <1>9 DEF FilterFirst
  <2> QED BY <1>6, <2>1, <2>2 DEF Access
<1>11. accesses \in [1 .. Len(blocks) -> Access]
  BY <1>4, <1>10
<1>12. accesses \in Seq(Access) /\ Len(accesses) = Len(blocks)
  <2>1. PICK n \in Nat : n = Len(blocks)
    BY <1>9
  <2>2. accesses \in [1 .. n -> Access]
    BY <1>11, <2>1
  <2>3. accesses \in Seq(Access) /\ Len(accesses) = n
    BY <2>2, SeqDef, LenProperties
  <2> QED BY <2>1, <2>3
<1>13. \A i \in 1 .. Len(accesses) :
          /\ accesses[i].block = blocks[i]
          /\ accesses[i].lookup = lookup
          /\ accesses[i].not_found = not_found
  BY <1>4, <1>12
<1>14. ASSUME NEW i \in 1 .. Len(accesses)
       PROVE  /\ accesses[i].block.file = p.file
              /\ accesses[i].lookup = next_get_records[1].lookup
              /\ accesses[i].not_found = (p.outcome = "not_found")
              /\ accesses[i].block.type # "filter" => ~ kept_out
  <2>1. i \in 1 .. Len(blocks)
    BY <1>12
  <2>2. blocks[i].file = p.file /\ (blocks[i].type # "filter" => ~ kept_out)
    BY <1>10, <2>1
  <2> QED BY <1>1, <1>6, <1>13, <2>2
<1>15. ~ kept_out => ~ filter_only /\ (p.outcome = "not_found" => use[2])
  BY <1>1
<1> QED BY <1>12, <1>14, <1>15

LEMMA KeptQueued ==
    ASSUME NEW accesses \in Seq(Access), NEW types,
           NEW kept, kept = Kept(accesses, Places(accesses, types))
    PROVE  /\ Queued(kept, types)
           /\ Len(kept) = Cardinality(Places(accesses, types))
           /\ Elements(kept) \subseteq Elements(accesses)
<1>1. PICK places : places = Places(accesses, types)
  OBVIOUS
<1>2. places \in SUBSET (1 .. Len(accesses))
  BY <1>1 DEF Places
<1>3. /\ kept \in Seq(Access) /\ Len(kept) = Cardinality(places)
      /\ \A k \in 1 .. Len(kept) : \E i \in places : kept[k] = accesses[i]
  <2>1. kept = Kept(accesses, places)
    BY <1>1
  <2>2. kept \in Seq(Access) /\ Len(kept) = Cardinality(places)
    BY <1>2, <2>1, KeptElements
  <2>3. \A k \in 1 .. Len(Kept(accesses, places)) :
           \E i \in places : Kept(accesses, places)[k] = accesses[i]
    BY <1>2, KeptFrom
  <2> QED BY <2>1, <2>2, <2>3
<1>4. \A k \in 1 .. Len(kept) : kept[k].block.type \in types
  BY <1>1, <1>3 DEF Places
<1>5. Elements(kept) \subseteq Elements(accesses)
  BY <1>2, <1>3 DEF Elements
<1> QED BY <1>1, <1>3, <1>4, <1>5 DEF Queued

LEMMA JoinQueued ==
    ASSUME NEW types, NEW q, Queued(q, types), NEW new, Queued(new, types)
    PROVE  /\ Queued(q \o new, types)
           /\ Len(q) \in Nat /\ Len(new) \in Nat
           /\ Len(q \o new) = Len(q) + Len(new)
           /\ Elements(q \o new) \subseteq Elements(q) \cup Elements(new)
<1>1. q \in Seq(Access) /\ new \in Seq(Access) /\ Len(q) \in Nat /\ Len(new) \in Nat
  BY LenProperties DEF Queued
<1>2. PICK joined : joined = q \o new
  OBVIOUS
<1>3. /\ joined \in Seq(Access) /\ Len(joined) = Len(q) + Len(new)
      /\ \A i \in 1 .. Len(q) + Len(new) :
            joined[i] = IF i <= Len(q) THEN q[i] ELSE new[i - Len(q)]
  BY <1>1, <1>2, ConcatProperties
<1>4. ASSUME NEW i \in 1 .. Len(joined)
      PROVE  \/ \E j \in 1 .. Len(q) : joined[i] = q[j]
             \/ \E j \in 1 .. Len(new) : joined[i] = new[j]
  <2>1. CASE i <= Len(q)
    BY <1>1, <1>3, <2>1
  <2>2. CASE i > Len(q)
    <3>1. i - Len(q) \in 1 .. Len(new) /\ ~ (i <= Len(q))
      BY <1>1, <1>3, <2>2
    <3> QED BY <1>3, <3>1
  <2> QED BY <1>1, <1>3, <2>1, <2>2
<1>5. Queued(joined, types)
  BY <1>3, <1>4 DEF Queued
<1>6. Elements(joined) \subseteq Elements(q) \cup Elements(new)
  BY <1>4 DEF Elements
<1> QED BY <1>1, <1>2, <1>3, <1>5, <1>6

\* An access is to a block of data or to another.
LEMMA PlacesSplit ==
    ASSUME NEW accesses \in Seq(Access)
    PROVE  /\ Cardinality(Places(accesses, NotData)) \in Nat
           /\ Cardinality(Places(accesses, {"data"})) \in Nat
           /\ Cardinality(Places(accesses, NotData)) + Cardinality(Places(accesses, {"data"}))
                 = Len(accesses)
<1>1. PICK A, B, n : /\ A = Places(accesses, NotData) /\ B = Places(accesses, {"data"})
                     /\ n = Len(accesses)
  OBVIOUS
<1>2. n \in Nat
  BY <1>1, LenProperties
<1>3. \A i \in 1 .. n : accesses[i].block.type \in NotData \cup {"data"}
  <2>1. \A i \in 1 .. n : accesses[i] \in Access
    BY <1>1, ElementOfSeq
  <2> QED BY <2>1 DEF Access, CachedBlock, Simulable, NotData, BlockType
<1>4. A \cup B = 1 .. n /\ A \cap B = {}
  BY <1>1, <1>3 DEF Places, NotData
<1>5. IsFiniteSet(1 .. n) /\ Cardinality(1 .. n) = n
  BY <1>2, FS_Interval
<1>6. IsFiniteSet(A) /\ IsFiniteSet(B)
  BY <1>4, <1>5, FS_Subset
<1>7. Cardinality(A) \in Nat /\ Cardinality(B) \in Nat /\ Cardinality({}) = 0
  BY <1>6, FS_CardinalityType, FS_EmptySet
<1>8. Cardinality(A \cup B) = Cardinality(A) + Cardinality(B) - Cardinality(A \cap B)
  BY <1>6, FS_Union
<1>9. n = Cardinality(A) + Cardinality(B) - 0
  BY <1>4, <1>5, <1>7, <1>8
<1>10. Cardinality(A) + Cardinality(B) = n
  BY <1>7, <1>9
<1> QED BY <1>1, <1>7, <1>10

\* A Get searches a file once: the file of a probe is not that of one behind it.
LEMMA SearchedOnce ==
    ASSUME Window, loop = "decide", probes_left # <<>>
    PROVE  /\ Len(probes_left) \in Nat /\ Len(probes_left) > 0
           /\ probes_left[1] = Head(probes_left)
           /\ Len(Tail(probes_left)) = Len(probes_left) - 1
           /\ \A k \in 1 .. Len(Tail(probes_left)) :
                 /\ Tail(probes_left)[k] = probes_left[k + 1]
                 /\ Tail(probes_left)[k].file # Head(probes_left).file
<1>1. PICK probes : probes = next_get_records[1].probes
  OBVIOUS
<1>2. /\ 1 \in 1 .. Len(next_get_records) /\ probes \in Seq(Probe)
      /\ Rest(probes_left, probes)
  BY <1>1, AtHandFacts DEF AtHand
<1>3. probes \in Gets
  <2>1. next_get_records[1] \in Record
    BY <1>2, RecordTyped DEF Window
  <2> QED BY <1>1, <2>1 DEF Record
<1>4. \A i, j \in 1 .. Len(probes) : probes[i].file = probes[j].file => i = j
  BY <1>3, OptimalAssumption
<1>5. PICK m, n : m = Len(probes) /\ n = Len(probes_left)
  OBVIOUS
<1>6. /\ n \in 1 .. m /\ m \in Nat
      /\ Head(probes_left) = probes[m - n + 1]
      /\ Len(Tail(probes_left)) = n - 1
      /\ \A k \in 1 .. n - 1 : Tail(probes_left)[k] = probes_left[k + 1]
  BY <1>2, <1>5, OneProbe, LenProperties
<1>7. \A k \in 1 .. n : probes_left[k] = probes[m - n + k]
  BY <1>2, <1>5 DEF Rest
<1>8. ASSUME NEW k \in 1 .. n - 1
      PROVE  Tail(probes_left)[k].file # Head(probes_left).file
  <2>1. k + 1 \in 1 .. n
    BY <1>6
  <2>2. Tail(probes_left)[k] = probes[m - n + (k + 1)]
    BY <1>6, <1>7, <2>1
  <2>3. m - n + (k + 1) \in 1 .. m /\ m - n + 1 \in 1 .. m /\ m - n + (k + 1) # m - n + 1
    BY <1>6
  <2> QED BY <1>4, <1>5, <1>6, <2>2, <2>3
<1>9. probes_left[1] = Head(probes_left)
  <2>1. 1 \in 1 .. n
    BY <1>6
  <2> QED BY <1>6, <1>7, <2>1
<1> QED BY <1>5, <1>6, <1>8, <1>9

\* The pair of a probe is no pair before it is decided, and is one from then on.
LEMMA PairOfProbe ==
    ASSUME Window, loop = "decide", loop' = "decide", probes_left # <<>>,
           probes_left' = Tail(probes_left), UNCHANGED window,
           NEW f, f = Head(probes_left).file, NEW n, n = next_get_records[1].lookup
    PROVE  /\ ~ Decided(f, n) /\ Decided(f, n)' /\ StaysDecided /\ n \in Nat
<1>1. /\ get_counter \in Nat /\ Len(next_get_records) \in Nat
      /\ n = get_counter - Len(next_get_records) + 1
  BY WindowNumbers, AtHandFacts
<1>2. ~ (n <= get_counter - Len(next_get_records))
  BY <1>1
<1>3. 1 \in 1 .. Len(probes_left) /\ probes_left[1].file = f
  BY SearchedOnce
<1>4. ~ Decided(f, n)
  BY <1>2, <1>3 DEF Decided
<1>5. \A k \in 1 .. Len(probes_left') : probes_left'[k].file # f
  BY SearchedOnce
<1>6. Decided(f, n)'
  BY <1>5 DEF Decided, window
<1>7. ASSUME NEW g, NEW m \in Nat, Decided(g, m) PROVE Decided(g, m)'
  <2>1. CASE m <= get_counter - Len(next_get_records)
    BY <2>1 DEF Decided, window
  <2>2. CASE m = next_get_records[1].lookup
             /\ \A k \in 1 .. Len(probes_left) : probes_left[k].file # g
    <3>1. ASSUME NEW k \in 1 .. Len(probes_left') PROVE probes_left'[k].file # g
      <4>1. k + 1 \in 1 .. Len(probes_left) /\ probes_left'[k] = probes_left[k + 1]
        BY SearchedOnce
      <4> QED BY <2>2, <4>1
    <3> QED BY <2>2, <3>1 DEF Decided, window
  <2> QED BY <1>7, <2>1, <2>2 DEF Decided
<1>8. StaysDecided
  BY <1>7 DEF StaysDecided
<1>9. n \in Nat
  <2>1. 1 \in 1 .. Len(next_get_records)
    BY AtHandFacts DEF AtHand
  <2>2. next_get_records[1] \in Record
    BY <2>1, RecordTyped DEF Window
  <2> QED BY <2>2 DEF Record
<1> QED BY <1>4, <1>6, <1>8, <1>9

LEMMA DecideAccesses ==
    ASSUME Window, Counts, Accesses, DecideProbe
    PROVE  Accesses'
<1>1. PICK p, f, n : /\ p = Head(probes_left) /\ f = p.file
                     /\ n = next_get_records[1].lookup
  OBVIOUS
<1>2. /\ loop = "decide" /\ loop' = "decide" /\ probes_left # <<>>
      /\ probes_left' = Tail(probes_left) /\ f \in file_map
      /\ UNCHANGED <<window, filter_only, series_per_record, curr_access, series>>
  BY <1>1 DEF DecideProbe, Goto, trace, config
<1>3. p \in Probe
  BY <1>1, <1>2, ProbeLeft
<1>4. PICK use \in FilterUses(f, p.outcome = "found",
                              Limit(f, Len(next_get_records), LevelFraction(p.level),
                                    workload_empty_fraction)) :
         /\ filter_lookahead' = filter_lookahead
                                   \o Kept(Waiting(p, use), Places(Waiting(p, use), NotData))
         /\ data_lookahead' = data_lookahead
                                   \o Kept(Waiting(p, use), Places(Waiting(p, use), {"data"}))
         /\ unnecessary_access_map' = unnecessary_access_map
               \cup IF p.outcome = "not_found" /\ use[2] /\ ~ filter_only
                    THEN {<<f, Front.lookup>>} ELSE {}
         /\ count' = IF p.outcome = "not_found" /\ use[2] /\ filter_only
                     THEN [count EXCEPT !.extra_read = @ + Len(p.reads)] ELSE count
         /\ added' = added + Len(Waiting(p, use))
  BY <1>1 DEF DecideProbe
<1>5. f \in File /\ use[1] \in Nat
  <2>1. p.level \in Level
    BY <1>3 DEF Probe
  <2> QED BY <1>2, <1>4, <2>1, UseOfProbe
<1>6. PICK accesses : accesses = Waiting(p, use)
  OBVIOUS
<1>7. /\ accesses \in Seq(Access)
      /\ \A i \in 1 .. Len(accesses) :
            /\ accesses[i].block.file = f
            /\ accesses[i].lookup = n
            /\ accesses[i].not_found = (p.outcome = "not_found")
            /\ accesses[i].block.type # "filter" =>
                  ~ filter_only /\ (p.outcome = "not_found" => use[2])
  BY <1>1, <1>2, <1>5, <1>6, WaitingTyped
<1>8. PICK kept, kept_data : /\ kept = Kept(accesses, Places(accesses, NotData))
                             /\ kept_data = Kept(accesses, Places(accesses, {"data"}))
  OBVIOUS
<1>9. /\ filter_lookahead' = filter_lookahead \o kept
      /\ data_lookahead' = data_lookahead \o kept_data
      /\ added' = added + Len(accesses)
  BY <1>4, <1>6, <1>8
<1>10. /\ Queued(kept, NotData) /\ Queued(kept_data, {"data"})
       /\ Len(kept) \in Nat /\ Len(kept_data) \in Nat
       /\ Len(kept) + Len(kept_data) = Len(accesses)
       /\ Elements(kept) \subseteq Elements(accesses)
       /\ Elements(kept_data) \subseteq Elements(accesses)
  BY <1>7, <1>8, KeptQueued, PlacesSplit
<1>11. Queued(filter_lookahead, NotData) /\ Queued(data_lookahead, {"data"})
  BY DEF Accesses, QueuesOK
<1>12. /\ Queued(filter_lookahead \o kept, NotData)
       /\ Queued(data_lookahead \o kept_data, {"data"})
       /\ Len(filter_lookahead) \in Nat /\ Len(data_lookahead) \in Nat
       /\ Len(filter_lookahead') = Len(filter_lookahead) + Len(kept)
       /\ Len(data_lookahead') = Len(data_lookahead) + Len(kept_data)
       /\ Elements(filter_lookahead') \subseteq Elements(filter_lookahead) \cup Elements(kept)
       /\ Elements(data_lookahead') \subseteq Elements(data_lookahead) \cup Elements(kept_data)
  <2>1. /\ Queued(filter_lookahead \o kept, NotData)
        /\ Len(filter_lookahead) \in Nat
        /\ Len(filter_lookahead \o kept) = Len(filter_lookahead) + Len(kept)
        /\ Elements(filter_lookahead \o kept) \subseteq Elements(filter_lookahead) \cup Elements(kept)
    BY <1>10, <1>11, JoinQueued
  <2>2. /\ Queued(data_lookahead \o kept_data, {"data"})
        /\ Len(data_lookahead) \in Nat
        /\ Len(data_lookahead \o kept_data) = Len(data_lookahead) + Len(kept_data)
        /\ Elements(data_lookahead \o kept_data)
              \subseteq Elements(data_lookahead) \cup Elements(kept_data)
    BY <1>10, <1>11, JoinQueued
  <2> QED BY <1>9, <2>1, <2>2
<1>13. ~ Decided(f, n) /\ Decided(f, n)' /\ StaysDecided /\ n \in Nat /\ Front.lookup = n
  BY <1>1, <1>2, PairOfProbe, WindowNumbers, AtHandFacts
<1>14. unnecessary_access_map' = unnecessary_access_map
          \cup IF p.outcome = "not_found" /\ use[2] /\ ~ filter_only THEN {<<f, n>>} ELSE {}
  BY <1>4, <1>13
<1>15. QueuesOK'
  <2>1. unnecessary_access_map' \subseteq File \X Nat
    BY <1>5, <1>13, <1>14 DEF Accesses, QueuesOK
  <2> QED BY <1>9, <1>12, <2>1 DEF QueuesOK, Queued
<1>16. Waits' \subseteq Waits \cup Elements(accesses)
  <2>1. Waits' = Elements(filter_lookahead') \cup Elements(data_lookahead')
    BY DEF Waits, Elements
  <2> QED BY <1>10, <1>12, <2>1 DEF Waits
<1>17. \A a \in Elements(accesses) :
          /\ a.block.file = f /\ a.lookup = n /\ a.not_found = (p.outcome = "not_found")
          /\ a.block.type # "filter" => ~ filter_only /\ (p.outcome = "not_found" => use[2])
  BY <1>7 DEF Elements
<1>18. /\ \A pair \in unnecessary_access_map :
             pair = <<pair[1], pair[2]>> /\ pair[2] \in Nat /\ Decided(pair[1], pair[2])
       /\ \A a \in Waits : a.lookup \in Nat /\ Decided(a.block.file, a.lookup)
  <2>1. \A a \in Waits : a \in Access
    BY <1>11, ElementOfSeq DEF Queued, Waits, Elements
  <2> QED BY <1>2, <2>1 DEF Accesses, QueuesOK, NamesDecided, Access
<1>19. NamesDecided'
  <2>1. \A pair \in unnecessary_access_map' : Decided(pair[1], pair[2])'
    BY <1>13, <1>14, <1>18 DEF StaysDecided
  <2>2. \A a \in Waits' : Decided(a.block.file, a.lookup)'
    BY <1>13, <1>16, <1>17, <1>18 DEF StaysDecided
  <2> QED BY <2>1, <2>2 DEF NamesDecided
<1>20. ASSUME NEW a \in Waits', a.block.type # "filter"
       PROVE  <<a.block.file, a.lookup>> \in unnecessary_access_map' <=> a.not_found
  <2>1. CASE a \in Waits
    <3>1. <<a.block.file, a.lookup>> # <<f, n>>
      <4>1. a.block.file = f /\ a.lookup = n => FALSE
        BY <1>13, <1>18, <2>1
      <4> QED BY <4>1
    <3>2. <<a.block.file, a.lookup>> \in unnecessary_access_map <=> a.not_found
      BY <1>20, <2>1 DEF Accesses, MapTellsUnnecessary, Unnecessary, Waits, Elements
    <3> QED BY <1>14, <3>1, <3>2
  <2>2. CASE a \in Elements(accesses)
    <3>1. <<f, n>> \notin unnecessary_access_map
      BY <1>13, <1>18
    <3>2. /\ <<a.block.file, a.lookup>> = <<f, n>>
          /\ a.not_found = (p.outcome = "not_found")
          /\ ~ filter_only /\ (p.outcome = "not_found" => use[2])
      BY <1>17, <1>20, <2>2
    <3> QED BY <1>14, <3>1, <3>2
  <2> QED BY <1>16, <2>1, <2>2
<1>21. MapTellsUnnecessary'
  <2>1. Waits' = {filter_lookahead[i] : i \in 1 .. Len(filter_lookahead)}'
                    \cup {data_lookahead[i] : i \in 1 .. Len(data_lookahead)}'
    BY DEF Waits, Elements
  <2> QED BY <1>20, <2>1 DEF MapTellsUnnecessary, Unnecessary
<1>22. /\ count \in [Counter -> Nat] /\ count' \in [Counter -> Nat]
       /\ \A c \in Counter \ {"extra_read"} : count'[c] = count[c]
  <2>1. count \in [Counter -> Nat] /\ "extra_read" \in Counter
    BY DEF Accesses, ResultOK, Counter
  <2>2. Len(p.reads) \in Nat
    BY <1>3, LenProperties DEF Probe
  <2>3. count["extra_read"] + Len(p.reads) \in Nat
    BY <2>1, <2>2
  <2> QED BY <1>4, <2>1, <2>3
<1>23. /\ count'.hit = count.hit /\ count'.miss = count.miss
       /\ count'.filter_hit = count.filter_hit /\ count'.filter_miss = count.filter_miss
       /\ count'.index_hit = count.index_hit /\ count'.index_miss = count.index_miss
       /\ count'.data_hit = count.data_hit /\ count'.data_miss = count.data_miss
       /\ count.hit \in Nat /\ count.miss \in Nat
  BY <1>22 DEF Counter
<1>24. ResultOK' /\ ByType'
  BY <1>2, <1>22, <1>23 DEF Accesses, ResultOK, ByType
<1>27. SeriesOnTime'
  <2>1. PICK e, E : e = count.extra_read /\ E = count'.extra_read
    OBVIOUS
  <2>2. e \in Nat /\ E \in Nat /\ E >= e /\ (~ filter_only => E = e)
    <3>1. "extra_read" \in Counter
      BY DEF Counter
    <3>2. E = e \/ (filter_only /\ E = e + Len(p.reads))
      BY <1>4, <1>22, <2>1, <3>1
    <3>3. Len(p.reads) \in Nat
      BY <1>3, LenProperties DEF Probe
    <3> QED BY <1>22, <2>1, <3>1, <3>2, <3>3
  <2>3. /\ PointsDue(Len(series))
        /\ curr_access = 0 /\ series # <<>> =>
              /\ Latest.hit = count.hit /\ Latest.miss = count.miss
              /\ e - Latest.extra_read >= 0 /\ (~ filter_only => e - Latest.extra_read <= 1)
    BY <1>2, <2>1 DEF Accesses, SeriesOnTime, FullPoints
  <2>4. PointsDue(Len(series))'
    BY <1>2, <1>23, <2>3 DEF PointsDue, Period
  <2>5. Latest' = Latest
    BY <1>2 DEF Latest
  <2>6. ASSUME curr_access = 0, series # <<>>
        PROVE  E - Latest.extra_read >= 0 /\ (~ filter_only => E - Latest.extra_read <= 1)
    <3>1. Latest.extra_read \in Nat
      <4>1. Latest \in Point
        BY <2>6, LatestTyped DEF Accesses
      <4> QED BY <4>1 DEF Point
    <3> QED BY <2>2, <2>3, <2>6, <3>1
  <2> QED BY <1>2, <1>23, <2>1, <2>3, <2>4, <2>5, <2>6 DEF SeriesOnTime, FullPoints
<1>25. NoAccessLost'
  <2>1. PICK h, m, x, y, u, v :
           /\ h = count.hit /\ m = count.miss
           /\ x = Len(filter_lookahead) /\ y = Len(data_lookahead)
           /\ u = Len(kept) /\ v = Len(kept_data)
    OBVIOUS
  <2>2. /\ h \in Nat /\ m \in Nat /\ x \in Nat /\ y \in Nat /\ u \in Nat /\ v \in Nat
        /\ h + m + x + y = added /\ u + v = Len(accesses)
    BY <1>10, <1>12, <1>23, <2>1 DEF Accesses, NoAccessLost
  <2>3. h + m + (x + u) + (y + v) = added + Len(accesses)
    BY <2>2
  <2> QED BY <1>9, <1>12, <1>23, <2>1, <2>3 DEF NoAccessLost
<1>26. Shortened'
  BY <1>2 DEF Shortened
<1> QED BY <1>15, <1>19, <1>21, <1>24, <1>25, <1>26, <1>27 DEF Accesses

LEMMA AccessesUnchanged == Accesses /\ UNCHANGED vars => Accesses'
<1> SUFFICES ASSUME Accesses, UNCHANGED vars PROVE Accesses'
  OBVIOUS
<1>1. /\ UNCHANGED <<lookaheads, simulated, config, loop, probes_left>>
      /\ UNCHANGED <<next_get_records, get_counter>>
  BY DEF vars, window, trace
<1>2. StaysDecided
  BY <1>1 DEF StaysDecided, Decided
<1>3. Shortened'
  BY <1>1 DEF Accesses, Shortened, lookaheads
<1> QED BY <1>1, <1>2, <1>3, NamesStay

LEMMA AccessesStep == Window /\ Counts /\ Accesses /\ [Next]_vars => Accesses'
<1> SUFFICES ASSUME Window, Counts, Accesses, [Next]_vars PROVE Accesses'
  OBVIOUS
<1>1. CASE \/ \E f \in File : CreateFile(f)
           \/ \E get \in Gets : ReadGet(get)
           \/ EnterProbe \/ EnterUnknown \/ EndEnter \/ DecideUnknown \/ NextRecord \/ EndTrace
  BY <1>1, ElsewhereAccesses
<1>2. CASE DecideProbe
  BY <1>2, DecideAccesses
<1>3. CASE EndDecide \/ LeaveProbe \/ EndLeave
  BY <1>3, FrontAccesses
<1>4. CASE ConsumeFilter \/ ConsumeData \/ End
  BY <1>4, ConsumeFilterAccesses, ConsumeDataAccesses, EndAccesses
<1>5. CASE UNCHANGED vars
  BY <1>5, AccessesUnchanged
<1> QED BY <1>1, <1>2, <1>3, <1>4, <1>5 DEF Next

(***************************************************************************)
(* What the three parts establish.                                         *)
(***************************************************************************)
IInv == Window /\ Counts /\ Accesses

LEMMA OptimalInvariant == Spec => []IInv
<1>1. Init => IInv
  BY WindowInit, CountsInitially, AccessesInit DEF IInv
<1>2. IInv /\ [Next]_vars => IInv'
  BY WindowStep, CountsStep, AccessesStep DEF IInv
<1> QED BY <1>1, <1>2, PTL DEF Spec

\* Between the record that decides on an access and the cache that it is made in
\* none is lost or made twice, by either simulator and for every lookahead.
THEOREM AccessesAreKept == Spec => []NoAccessLost
<1>1. IInv => NoAccessLost
  BY DEF IInv, Accesses
<1> QED BY <1>1, OptimalInvariant, PTL

\* However late an access is made, the pair of its file and the number of its Get
\* says whether it was unnecessary: the pair is of no other probe.
THEOREM MapTells == Spec => []MapTellsUnnecessary
<1>1. IInv => MapTellsUnnecessary
  BY DEF IInv, Accesses
<1> QED BY <1>1, OptimalInvariant, PTL

\* A record is decided with modular_lookahead records in the window, no more than
\* optimal_lookahead accesses wait between records, and nothing waits at the end.
THEOREM WindowIsBounded == Spec => []Bounds
<1>1. IInv => Bounds
  <2> SUFFICES ASSUME IInv PROVE Bounds
    OBVIOUS
  <2>1. Window /\ Shortened
    BY DEF IInv, Accesses
  <2>2. loop = "decide" /\ trace_left =>
           Len(next_get_records)
              = IF Modular /\ modular_lookahead > 0 THEN modular_lookahead ELSE 1
    BY <2>1 DEF Window, WindowLength, Held
  <2>3. loop = "read" => \A q \in {filter_lookahead, data_lookahead} : Len(q) <= optimal_lookahead
    BY <2>1 DEF Shortened
  <2>4. loop = "end" =>
           <<next_get_records, filter_lookahead, data_lookahead>> = <<<<>>, <<>>, <<>>>>
    BY <2>1 DEF Window, ControlOK, WindowLength, Shortened
  <2> QED BY <2>2, <2>3, <2>4 DEF Bounds
<1> QED BY <1>1, OptimalInvariant, PTL

\* However long the accesses wait, the points of the series come when they are
\* due; between a point and the next access only extra reads are counted, and
\* but for filter-only mode at most the one of the access before the point.
THEOREM PointsComeOnTime == Spec => []SeriesOnTime
<1>1. IInv => SeriesOnTime
  BY DEF IInv, Accesses
<1> QED BY <1>1, OptimalInvariant, PTL
=============================================================================
