-------------------------- MODULE SimulatorProofs --------------------------
(***************************************************************************)
(* The loops of simulators.cc.  Through every create, move, delete and Get *)
(* record of a well-formed trace, the access lists, the length of their    *)
(* non-zero prefix and the ratio tree of simulate_modular say the truth    *)
(* about the live files, and more empty probes give a file no fewer        *)
(* modules.  In simulate_normal and simulate_modular no access is missed   *)
(* or counted twice, in the result or in its series, and a deleted file    *)
(* leaves no block behind: for every trace, capacity, policy and series    *)
(* length.                                                                 *)
(***************************************************************************)
EXTENDS ModularFiles, AccessLoop, SimulatorTheorems

(***************************************************************************)
(* ModularFiles.  The inductive invariant has the lists list the live      *)
(* files, and gives the prefix and the tree exactly, the tree as the set   *)
(* of its keys: that an old key is found and erased can only be seen if    *)
(* every key is known.                                                     *)
(***************************************************************************)
FileRecord == [level : Level, deleted : BOOLEAN, creation_lookup : Nat]

FilesOK ==
    /\ DOMAIN file_map \subseteq File
    /\ file_map \in [DOMAIN file_map -> FileRecord]
    /\ lookup_count \in Nat
    /\ probed \in [File -> [total : Nat, empty : Nat]]

\* A file that was never created was never probed.
NotYetProbed == \A f \in File \ DOMAIN file_map : probed[f] = [total |-> 0, empty |-> 0]

\* The probes that found nothing are some of the probes.
EmptyAreProbes == \A f \in File : probed[f].empty <= probed[f].total

ModularInv ==
    /\ FilesOK /\ NotYetProbed /\ EmptyAreProbes
    /\ ListsCounted(Live) /\ OnlyIndexed(Live) /\ TreeCounted(Live)
    /\ CountsAreTrue

LEMMA ModularInitially == ModularInit => ModularInv
<1> SUFFICES ASSUME ModularInit PROVE ModularInv
  OBVIOUS
<1>1. Live = {} /\ DOMAIN file_map = {}
  BY DEF FilesInit, ModularInit, Live
<1>2. FilesOK /\ NotYetProbed /\ EmptyAreProbes
  BY <1>1 DEF FilesInit, ModularInit, FilesOK, NotYetProbed, EmptyAreProbes
<1>3. ListsCounted(Live) /\ TreeCounted(Live)
  BY <1>1, NothingCounted DEF FilesInit, ModularInit
<1>4. OnlyIndexed(Live)
  BY DEF ModularInit, FileCountsInit, NoAccesses, OnlyIndexed
<1> QED BY <1>1, <1>2, <1>3, <1>4 DEF ModularInv, CountsAreTrue

LEMMA CreateRecordInv ==
    ASSUME NEW f \in File, NEW l \in Level, ModularInv, CreateRecord(f, l)
    PROVE  ModularInv'
<1>1. PICK S : S = Live
  OBVIOUS
<1>2. /\ f \in File \ S /\ ListsCounted(S) /\ OnlyIndexed(S) /\ TreeCounted(S)
      /\ CountFile(f)
  BY <1>1 DEF ModularInv, CreateRecord, Live
<1>3. /\ DOMAIN file_map' = DOMAIN file_map \cup {f}
      /\ ~ file_map'[f].deleted
      /\ \A g \in DOMAIN file_map : file_map'[g] = file_map[g]
  BY DEF CreateRecord, Add
<1>4. Live' = S \cup {f}
  BY <1>1, <1>2, <1>3 DEF Live
<1>5. ListsCounted(Live)' /\ OnlyIndexed(Live)' /\ TreeCounted(Live)'
  <2>1. ListsCounted(S \cup {f})' /\ TreeCounted(S \cup {f})'
    BY <1>2, CountFileKeeps
  <2>2. OnlyIndexed(S \cup {f})'
    BY <1>2, FileIndexes
  <2> QED BY <1>4, <2>1, <2>2 DEF ListsCounted, OnlyIndexed, TreeCounted
<1>6. CountsAreTrue'
  <2>1. /\ TotalCount(f)' = 0 /\ EmptyCount(f)' = 0
        /\ \A g \in S : TotalCount(g)' = TotalCount(g) /\ EmptyCount(g)' = EmptyCount(g)
    BY <1>2, CountFileKeeps
  <2>2. probed' = probed /\ probed[f] = [total |-> 0, empty |-> 0]
    BY DEF CreateRecord, ModularInv, NotYetProbed
  <2> QED BY <1>1, <1>4, <2>1, <2>2 DEF CountsAreTrue, ModularInv
<1>7. FilesOK' /\ NotYetProbed' /\ EmptyAreProbes'
  <2>1. file_map \in [DOMAIN file_map -> FileRecord] /\ lookup_count \in Nat
    BY DEF ModularInv, FilesOK
  <2>2. [level |-> l, deleted |-> FALSE, creation_lookup |-> lookup_count] \in FileRecord
    BY <2>1 DEF FileRecord
  <2>3. file_map' \in [DOMAIN file_map' -> FileRecord]
    BY <2>1, <2>2 DEF CreateRecord, Add
  <2> QED BY <1>3, <2>1, <2>3 DEF CreateRecord, ModularInv, FilesOK, NotYetProbed, EmptyAreProbes
<1> QED BY <1>5, <1>6, <1>7 DEF ModularInv

\* The record of a file is written in place.
LEMMA FileMoved ==
    ASSUME ModularInv, NEW f \in DOMAIN file_map, NEW l \in Level
    PROVE  [file_map EXCEPT ![f].level = l]
              = [file_map EXCEPT ![f] = [level |-> l, deleted |-> file_map[f].deleted,
                                         creation_lookup |-> file_map[f].creation_lookup]]
<1>1. file_map[f] \in [level : Level, deleted : BOOLEAN, creation_lookup : Nat]
  BY DEF ModularInv, FilesOK, FileRecord
<1>2. PICK r \in [level : Level, deleted : BOOLEAN, creation_lookup : Nat] : r = file_map[f]
  BY <1>1
<1>3. [r EXCEPT !.level = l]
         = [level |-> l, deleted |-> r.deleted, creation_lookup |-> r.creation_lookup]
  OBVIOUS
<1> QED BY <1>2, <1>3

LEMMA FileDeleted ==
    ASSUME ModularInv, NEW f \in DOMAIN file_map
    PROVE  [file_map EXCEPT ![f].deleted = TRUE]
              = [file_map EXCEPT ![f] = [level |-> file_map[f].level, deleted |-> TRUE,
                                         creation_lookup |-> file_map[f].creation_lookup]]
<1>1. file_map[f] \in [level : Level, deleted : BOOLEAN, creation_lookup : Nat]
  BY DEF ModularInv, FilesOK, FileRecord
<1>2. PICK r \in [level : Level, deleted : BOOLEAN, creation_lookup : Nat] : r = file_map[f]
  BY <1>1
<1>3. PICK yes \in BOOLEAN : yes = TRUE
  OBVIOUS
<1>4. [r EXCEPT !.deleted = yes]
         = [level |-> r.level, deleted |-> yes, creation_lookup |-> r.creation_lookup]
  OBVIOUS
<1> QED BY <1>2, <1>3, <1>4

LEMMA MoveRecordInv ==
    ASSUME NEW f \in File, NEW l \in Level, ModularInv, MoveRecord(f, l)
    PROVE  ModularInv'
<1>1. file_map \in [DOMAIN file_map -> FileRecord] /\ f \in DOMAIN file_map
  BY DEF ModularInv, FilesOK, MoveRecord, Live
<1>2. PICK e \in FileRecord : /\ e.deleted = file_map[f].deleted
                            /\ file_map' = [file_map EXCEPT ![f] = e]
  <2> DEFINE e == [level |-> l, deleted |-> file_map[f].deleted,
                   creation_lookup |-> file_map[f].creation_lookup]
  <2>1. file_map[f] \in FileRecord
    BY <1>1
  <2>2. e \in FileRecord /\ e.deleted = file_map[f].deleted
    BY <2>1 DEF FileRecord
  <2>3. file_map' = [file_map EXCEPT ![f] = e]
    BY <1>1, FileMoved DEF MoveRecord
  <2> QED BY <2>2, <2>3
<1>3. /\ DOMAIN file_map' = DOMAIN file_map
      /\ file_map' \in [DOMAIN file_map' -> FileRecord]
      /\ \A g \in DOMAIN file_map : file_map'[g].deleted = file_map[g].deleted
  BY <1>1, <1>2
<1>4. Live' = Live
  BY <1>3 DEF Live
<1> QED BY <1>3, <1>4 DEF MoveRecord, ModularInv, FilesOK, NotYetProbed, EmptyAreProbes,
           CountsAreTrue, TotalCount, EmptyCount, ListsCounted, OnlyIndexed, TreeCounted, counts,
           lists

LEMMA DeleteRecordInv ==
    ASSUME NEW f \in File, ModularInv, DeleteRecord(f)
    PROVE  ModularInv'
<1>1. PICK S : S = Live
  OBVIOUS
<1>2. f \in S /\ ListsCounted(S) /\ OnlyIndexed(S) /\ TreeCounted(S) /\ UncountFile(f)
  BY <1>1 DEF ModularInv, DeleteRecord
<1>3. /\ DOMAIN file_map' = DOMAIN file_map
      /\ file_map' \in [DOMAIN file_map' -> FileRecord]
      /\ file_map'[f].deleted
      /\ \A g \in DOMAIN file_map \ {f} : file_map'[g] = file_map[g]
  <2>1. file_map \in [DOMAIN file_map -> FileRecord] /\ f \in DOMAIN file_map
    BY <1>1, <1>2 DEF ModularInv, FilesOK, Live
  <2> DEFINE e == [level |-> file_map[f].level, deleted |-> TRUE,
                   creation_lookup |-> file_map[f].creation_lookup]
  <2>2. file_map[f] \in FileRecord
    BY <2>1
  <2>3. e \in FileRecord /\ e.deleted
    BY <2>2 DEF FileRecord
  <2>4. file_map' = [file_map EXCEPT ![f] = e]
    BY <2>1, FileDeleted DEF DeleteRecord
  <2> HIDE DEF e
  <2> QED BY <2>1, <2>3, <2>4
<1>4. Live' = S \ {f}
  BY <1>1, <1>3 DEF Live
<1>5. ListsCounted(Live)' /\ OnlyIndexed(Live)' /\ TreeCounted(Live)'
  <2>1. ListsCounted(S \ {f})' /\ TreeCounted(S \ {f})'
    BY <1>2, UncountFileKeeps
  <2>2. OnlyIndexed(S \ {f})'
    BY <1>2, FileIndexes
  <2> QED BY <1>4, <2>1, <2>2 DEF ListsCounted, OnlyIndexed, TreeCounted
<1>6. CountsAreTrue'
  <2>1. \A g \in S \ {f} : TotalCount(g)' = TotalCount(g) /\ EmptyCount(g)' = EmptyCount(g)
    BY <1>2, UncountFileKeeps
  <2> QED BY <1>1, <1>4, <2>1 DEF CountsAreTrue, ModularInv, DeleteRecord
<1>7. FilesOK' /\ NotYetProbed' /\ EmptyAreProbes'
  BY <1>3 DEF DeleteRecord, ModularInv, FilesOK, NotYetProbed, EmptyAreProbes
<1> QED BY <1>5, <1>6, <1>7 DEF ModularInv

LEMMA GetProbeInv ==
    ASSUME NEW f \in File, NEW l \in Level, NEW not_found \in BOOLEAN, ModularInv,
           GetProbe(f, l, not_found)
    PROVE  ModularInv'
<1>1. Live' = Live /\ file_map' = file_map
  BY DEF GetProbe, Live
<1>2. CASE file_map[f].deleted
  BY <1>1, <1>2 DEF GetProbe, ModularInv, FilesOK, NotYetProbed, EmptyAreProbes, CountsAreTrue,
        TotalCount, EmptyCount, ListsCounted, OnlyIndexed, TreeCounted, counts, lists
<1>3. CASE ~ file_map[f].deleted
  <2>1. PICK S : S = Live
    OBVIOUS
  <2>2. /\ f \in S /\ f \in DOMAIN file_map
        /\ ListsCounted(S) /\ OnlyIndexed(S) /\ TreeCounted(S)
        /\ CountProbe(f, l, not_found)
    BY <1>3, <2>1 DEF ModularInv, GetProbe, Live
  <2>3. PICK p \in [File -> [total : Nat, empty : Nat]] : p = probed
    BY DEF ModularInv, FilesOK
  <2>4. PICK e \in Nat : e = IF not_found THEN p[f].empty + 1 ELSE p[f].empty
    BY <2>3
  <2>5. probed' = [p EXCEPT ![f] = [total |-> p[f].total + 1, empty |-> e]]
    <3>1. probed' = [p EXCEPT ![f].total = @ + 1,
                              ![f].empty = IF not_found THEN @ + 1 ELSE @]
      BY <1>3, <2>3 DEF GetProbe
    <3>2. p[f] \in [total : Nat, empty : Nat]
      BY <2>3
    <3>3. PICK q : q = [p EXCEPT ![f] = [p[f] EXCEPT !.total = @ + 1]]
      OBVIOUS
    <3>4. /\ q \in [File -> [total : Nat, empty : Nat]]
          /\ q[f] = [total |-> p[f].total + 1, empty |-> p[f].empty]
          /\ \A g \in File \ {f} : q[g] = p[g]
      BY <2>3, <3>2, <3>3
    <3>5. probed' = [q EXCEPT ![f] = [q[f] EXCEPT !.empty = IF not_found THEN @ + 1 ELSE @]]
      BY <3>1, <3>3
    <3>6. [q[f] EXCEPT !.empty = IF not_found THEN @ + 1 ELSE @]
             = [total |-> p[f].total + 1, empty |-> e]
      BY <2>4, <3>4
    <3> QED BY <2>3, <3>4, <3>5, <3>6
  <2>6. /\ p[f] \in [total : Nat, empty : Nat]
        /\ probed'[f] = [total |-> p[f].total + 1, empty |-> e]
        /\ \A g \in File \ {f} : probed'[g] = p[g]
    BY <2>3, <2>5
  <2>7. ListsCounted(Live)' /\ OnlyIndexed(Live)' /\ TreeCounted(Live)'
    <3>1. ListsCounted(S)' /\ TreeCounted(S)'
      BY <2>2, CountProbeLists, CountProbeTree
    <3>2. OnlyIndexed(S)'
      <4>1. OnlyIndexed(S \cup {f})'
        BY <2>2, IndexesKept
      <4>2. S \cup {f} = S
        BY <2>2
      <4> QED BY <4>1, <4>2
    <3> QED BY <1>1, <2>1, <3>1, <3>2 DEF ListsCounted, OnlyIndexed, TreeCounted
  <2>8. CountsAreTrue'
    <3>1. \A g \in S :
             /\ TotalCount(g)' = IF g = f THEN TotalCount(g) + 1 ELSE TotalCount(g)
             /\ EmptyCount(g)' = IF g = f /\ not_found THEN EmptyCount(g) + 1
                                 ELSE EmptyCount(g)
      BY <2>2, CountProbeLists
    <3>2. \A g \in S : TotalCount(g) = p[g].total /\ EmptyCount(g) = p[g].empty
      BY <2>1, <2>3 DEF ModularInv, CountsAreTrue
    <3>3. \A g \in S : g \in File
      BY <2>1 DEF ModularInv, FilesOK, Live
    <3>4. \A g \in S : TotalCount(g)' = probed'[g].total /\ EmptyCount(g)' = probed'[g].empty
      BY <2>2, <2>4, <2>6, <3>1, <3>2, <3>3
    <3> QED BY <1>1, <2>1, <3>4 DEF CountsAreTrue
  <2>9. FilesOK' /\ NotYetProbed' /\ EmptyAreProbes'
    <3>1. probed' \in [File -> [total : Nat, empty : Nat]]
      BY <2>3, <2>4, <2>5, <2>6
    <3>2. EmptyAreProbes'
      BY <2>3, <2>4, <2>6 DEF EmptyAreProbes, ModularInv
    <3>3. NotYetProbed'
      BY <1>1, <2>2, <2>3, <2>6 DEF NotYetProbed, ModularInv
    <3>4. lookup_count' = lookup_count
      BY DEF GetProbe
    <3> QED BY <1>1, <3>1, <3>2, <3>3, <3>4 DEF FilesOK, ModularInv
  <2> QED BY <2>7, <2>8, <2>9 DEF ModularInv
<1> QED BY <1>2, <1>3

LEMMA ModularStep == ModularInv /\ [ModularNext]_modularVars => ModularInv'
<1> SUFFICES ASSUME ModularInv, [ModularNext]_modularVars PROVE ModularInv'
  OBVIOUS
<1>1. ASSUME NEW f \in File, NEW l \in Level, CreateRecord(f, l) PROVE ModularInv'
  BY <1>1, CreateRecordInv
<1>2. ASSUME NEW f \in File, NEW l \in Level, MoveRecord(f, l) PROVE ModularInv'
  BY <1>2, MoveRecordInv
<1>3. ASSUME NEW f \in File, DeleteRecord(f) PROVE ModularInv'
  BY <1>3, DeleteRecordInv
<1>4. ASSUME NEW f \in File, NEW l \in Level, NEW not_found \in BOOLEAN,
             GetProbe(f, l, not_found)
      PROVE  ModularInv'
  BY <1>4, GetProbeInv
<1>5. CASE GetRecord
  BY <1>5 DEF GetRecord, Live, ModularInv, FilesOK, NotYetProbed, EmptyAreProbes, CountsAreTrue,
        TotalCount, EmptyCount, ListsCounted, OnlyIndexed, TreeCounted, counts, lists
<1>6. CASE UNCHANGED modularVars
  BY <1>6 DEF modularVars, files, Live, ModularInv, FilesOK, NotYetProbed, EmptyAreProbes, CountsAreTrue,
        TotalCount, EmptyCount, ListsCounted, OnlyIndexed, TreeCounted, counts, lists
<1> QED BY <1>1, <1>2, <1>3, <1>4, <1>5, <1>6 DEF ModularNext

LEMMA ModularInvariance == ModularSpec => []ModularInv
BY ModularInitially, ModularStep, PTL DEF ModularSpec

\* At any point of a well-formed trace both lists are of exactly the live
\* files, in descending order of count, and the index finds every one.
THEOREM ListsAreIndexed == ModularSpec => []ListsIndexed
<1>1. ModularInv => ListsIndexed
  BY IndexedWhenCounted DEF ModularInv, ListsIndexed
<1> QED BY <1>1, ModularInvariance, PTL

\* empty_nonzero_count is the length of the prefix of files with an empty probe.
THEOREM PrefixIsNonZero == ModularSpec => []NonZeroPrefix
<1>1. ModularInv => NonZeroPrefix
  BY PrefixWhenCounted DEF ModularInv, NonZeroPrefix
<1> QED BY <1>1, ModularInvariance, PTL

\* The counts under which a live file is listed are the probes it had.
THEOREM CountsAreProbes == ModularSpec => []CountsAreTrue
<1>1. ModularInv => CountsAreTrue
  BY DEF ModularInv
<1> QED BY <1>1, ModularInvariance, PTL

\* The ratio tree has one key for every live file that was probed, its present
\* one, and no other: no key of an old ratio and none of a deleted file stays.
THEOREM TreeIsPresent == ModularSpec => []RatioTreeMatches
<1>1. ModularInv => RatioTreeMatches
  BY TreeWhenCounted DEF ModularInv, RatioTreeMatches
<1> QED BY <1>1, ModularInvariance, PTL

\* The probes of a level, and those of them that found nothing.
LevelsOK ==
    /\ levelwise_total_count \in [Level -> Nat]
    /\ levelwise_empty_count \in [Level -> Nat]

LevelsWithin ==
    LevelsOK /\ \A l \in Level : levelwise_empty_count[l] <= levelwise_total_count[l]

LEMMA LevelsInvariance == ModularSpec => []LevelsWithin
<1>1. ModularInit => LevelsWithin
  BY DEF ModularInit, FileCountsInit, LevelsWithin, LevelsOK
<1>2. LevelsWithin /\ [ModularNext]_modularVars => LevelsWithin'
  <2> SUFFICES ASSUME LevelsWithin, [ModularNext]_modularVars PROVE LevelsWithin'
    OBVIOUS
  <2>1. CASE UNCHANGED levels
    BY <2>1 DEF levels, LevelsWithin, LevelsOK
  <2>2. ASSUME NEW f \in File, NEW l \in Level, CreateRecord(f, l) \/ MoveRecord(f, l)
        PROVE  LevelsWithin'
    BY <2>1, <2>2 DEF CreateRecord, MoveRecord, CountFile, counts
  <2>3. ASSUME NEW f \in File, DeleteRecord(f) PROVE LevelsWithin'
    BY <2>1, <2>3 DEF DeleteRecord, UncountFile
  <2>4. ASSUME NEW f \in File, NEW l \in Level, NEW not_found \in BOOLEAN,
               GetProbe(f, l, not_found)
        PROVE  LevelsWithin'
    <3>1. CASE file_map[f].deleted
      BY <2>1, <2>4, <3>1 DEF GetProbe, counts
    <3>2. CASE ~ file_map[f].deleted
      <4>1. /\ levelwise_total_count' = [levelwise_total_count EXCEPT ![l] = @ + 1]
            /\ levelwise_empty_count' =
                  IF not_found THEN [levelwise_empty_count EXCEPT ![l] = @ + 1]
                  ELSE levelwise_empty_count
        BY <2>4, <3>2 DEF GetProbe, CountProbe, AddToLevel
      <4> QED BY <4>1 DEF LevelsWithin, LevelsOK
    <3> QED BY <3>1, <3>2
  <2>5. CASE GetRecord
    BY <2>1, <2>5 DEF GetRecord, counts
  <2>6. CASE UNCHANGED modularVars
    BY <2>1, <2>6 DEF modularVars, counts
  <2> QED BY <2>2, <2>3, <2>4, <2>5, <2>6 DEF ModularNext
<1> QED BY <1>1, <1>2, PTL DEF ModularSpec

\* Of two live files with as many modules, the one with more empty probes may
\* use no fewer by the percentile policy or by the cost model, and the one with
\* the higher ratio no fewer by the ratio policy; by none of the three may a file
\* use more than it has.
THEOREM MoreEmptyGetsNoFewer == ModularSpec => []MoreEmptyMoreModules
<1>1. ASSUME ModularInv, LevelsWithin PROVE MoreEmptyMoreModules
  <2>1. PICK S : S = Live
    OBVIOUS
  <2>2. ListsCounted(S) /\ TreeCounted(S)
    BY <1>1, <2>1 DEF ModularInv
  <2>3. \A f \in S : f \in File
    BY <1>1, <2>1 DEF ModularInv, FilesOK, Live
  <2>4. \A f \in S : TotalCount(f) \in Nat /\ EmptyCount(f) \in Nat
    BY <2>2, CountOfListed DEF ListsCounted, TotalCount, EmptyCount
  <2>5. \A l \in Level : /\ LevelFraction(l) \in Fraction
                         /\ LevelFraction(l).num <= LevelFraction(l).den
    BY <1>1 DEF LevelsWithin, LevelsOK, LevelFraction, Fraction
  <2>6. ASSUME NEW f \in S, NEW g \in S, TotalModules[f] = TotalModules[g],
               TotalCount(f) * TotalCount(g) > 0
        PROVE  /\ PercentileLimit(f) \in 0 .. TotalModules[f]
               /\ \A n \in 0 .. MaxLookups : CostModelLimit(f, n) \in 0 .. TotalModules[f]
               /\ EmptyCount(f) > EmptyCount(g) =>
                     /\ PercentileLimit(f) >= PercentileLimit(g)
                     /\ \A n \in 0 .. MaxLookups : CostModelLimit(f, n) >= CostModelLimit(g, n)
               /\ policy = "ratio" => \A l \in Level :
                     /\ RatioLimit(f, LevelFraction(l)) \in 0 .. TotalModules[f]
                     /\ LessOrEqual(RatioKey(total, empty, g), RatioKey(total, empty, f)) =>
                           RatioLimit(f, LevelFraction(l)) >= RatioLimit(g, LevelFraction(l))
    <3>1. /\ f \in File /\ g \in File
          /\ EmptyCount(f) \in Nat /\ EmptyCount(g) \in Nat
          /\ TotalCount(f) > 0 /\ TotalCount(g) > 0
      <4>1. \A x, y \in Nat : x * y > 0 => x > 0 /\ y > 0
        OBVIOUS
      <4> QED BY <2>3, <2>4, <2>6, <4>1
    <3>2. ASSUME EmptyCount(f) > EmptyCount(g)
          PROVE  /\ PercentileLimit(f) >= PercentileLimit(g)
                 /\ \A n \in 0 .. MaxLookups : CostModelLimit(f, n) >= CostModelLimit(g, n)
      <4>1. PercentileLimit(f) >= PercentileLimit(g)
        BY <2>2, <2>6, <3>1, <3>2, PercentileRises
      <4>2. \A n \in 0 .. MaxLookups : n \in Nat
        BY FileMapAssumption
      <4>3. EmptyCount(f) >= EmptyCount(g) /\ TotalCount(f) # 0 /\ TotalCount(g) # 0
        BY <2>4, <3>1, <3>2
      <4> QED BY <2>6, <3>1, <4>1, <4>2, <4>3, CostModelRises
    <3>3. ASSUME policy = "ratio", NEW l \in Level
          PROVE  /\ RatioLimit(f, LevelFraction(l)) \in 0 .. TotalModules[f]
                 /\ LessOrEqual(RatioKey(total, empty, g), RatioKey(total, empty, f)) =>
                       RatioLimit(f, LevelFraction(l)) >= RatioLimit(g, LevelFraction(l))
      <4>1. PICK fraction \in Fraction : /\ fraction = LevelFraction(l)
                                         /\ fraction.num <= fraction.den
        BY <2>5, <3>3
      <4>2. /\ RatioLimit(f, fraction) \in 0 .. TotalModules[f]
            /\ LessOrEqual(RatioKey(total, empty, g), RatioKey(total, empty, f)) =>
                  RatioLimit(f, fraction) >= RatioLimit(g, fraction)
        BY <2>2, <2>6, <3>1, <3>3, <4>1, RatioRises
      <4> QED BY <4>1, <4>2
    <3>4. /\ PercentileLimit(f) \in 0 .. TotalModules[f]
          /\ \A n \in 0 .. MaxLookups : CostModelLimit(f, n) \in 0 .. TotalModules[f]
      BY <2>2, LimitsWithin
    <3> QED BY <3>2, <3>3, <3>4
  <2> QED BY <2>1, <2>6 DEF MoreEmptyMoreModules
<1> QED BY <1>1, ModularInvariance, LevelsInvariance, PTL

(***************************************************************************)
(* AccessLoop.  Which filter modules a probe uses is a number only if the  *)
(* counts it is computed from are right: without them (CountsOK) the       *)
(* invariant could say nothing of the accesses that are to come.           *)
(***************************************************************************)
FileInfo == [deleted : BOOLEAN, creation_lookup : Nat]

\* The files whose probes are counted.
LiveFiles == {f \in DOMAIN file_map : Modular /\ ~ file_map[f].deleted}

\* In filter-only mode no block behind a filter is looked up.
TodoBlock ==
    {b \in CachedBlock : b.file \in DOMAIN file_map /\ (filter_only => b.type = "filter")}

LoopOK ==
    /\ filter_only \in BOOLEAN
    /\ DOMAIN file_map \subseteq File
    /\ file_map \in [DOMAIN file_map -> FileInfo]
    /\ lookup_count \in Nat
    /\ todo \in Seq(TodoBlock)
    /\ extra_reads \in Nat
    /\ extra_reads # 0 => filter_only
    /\ main # "run" => todo = <<>> /\ extra_reads = 0

CountsOK == ListsCounted(LiveFiles) /\ TreeCounted(LiveFiles) /\ EmptyWithin(LiveFiles)

IInv ==
    /\ LoopOK /\ LevelsOK /\ CountsOK
    /\ ResultOK /\ CountsAddUp /\ SeriesOnTime
    /\ DeletedFileIsGone

(***************************************************************************)
(* What each part depends on.                                              *)
(***************************************************************************)
LEMMA CountsUnchanged ==
    ASSUME CountsOK, LevelsOK, LiveFiles' = LiveFiles, UNCHANGED counts
    PROVE  CountsOK' /\ LevelsOK'
BY DEF CountsOK, LevelsOK, ListsCounted, TreeCounted, EmptyWithin, EmptyCount, TotalCount,
       counts, lists, levels

LEMMA ResultUnchanged ==
    ASSUME ResultOK, CountsAddUp, SeriesOnTime, UNCHANGED <<result, config>>,
           main' = main \/ (main # "done" /\ main' # "done")
    PROVE  ResultOK' /\ CountsAddUp' /\ SeriesOnTime'
BY DEF ResultOK, CountsAddUp, SeriesOnTime, PointsDue, FullPoints, Period, Latest, PointOf, result,
   config

\* Until the last point is pushed, every point is one that was due.
LEMMA PointsWhileRunning ==
    ASSUME main # "done"
    PROVE  SeriesOnTime =
              /\ PointsDue(Len(series))
              /\ curr_access = 0 /\ series # <<>> =>
                    /\ Latest.hit = count.hit /\ Latest.miss = count.miss
                    /\ IF filter_only THEN Latest.extra_read <= count.extra_read
                       ELSE Latest.extra_read = count.extra_read
BY DEF SeriesOnTime, FullPoints

LEMMA LevelsCounted ==
    ASSUME LevelsOK, NEW l \in Level, NEW not_found \in BOOLEAN, AddToLevel(1, l, not_found)
    PROVE  LevelsOK'
<1>1. /\ levelwise_total_count' = [levelwise_total_count EXCEPT ![l] = @ + 1]
      /\ levelwise_empty_count' = IF not_found THEN [levelwise_empty_count EXCEPT ![l] = @ + 1]
                                  ELSE levelwise_empty_count
  BY DEF AddToLevel
<1> QED BY <1>1 DEF LevelsOK

(***************************************************************************)
(* The steps.                                                              *)
(***************************************************************************)
LEMMA InitInv == Init => IInv
<1> SUFFICES ASSUME Init PROVE IInv
  OBVIOUS
<1>1. LiveFiles = {} /\ DOMAIN file_map = {} /\ todo = <<>>
  BY DEF Init, FilesInit, LiveFiles
<1>2. LoopOK
  BY <1>1 DEF Init, FilesInit, CountsInit, LoopOK
<1>3. LevelsOK
  BY DEF Init, FilesInit, FileCountsInit, LevelsOK
<1>4. CountsOK
  BY <1>1, NothingCounted DEF Init, FilesInit, CountsOK
<1>5. CountsInit /\ main = "run"
  BY DEF Init
<1>6. ResultOK /\ ByType /\ PointsDue(Len(series))
  BY <1>5, NothingDue
<1>7. \A c \in Counter : count[c] = 0
  BY <1>5 DEF CountsInit
<1>8. CountsAddUp
  BY <1>7 DEF CountsAddUp, Counter
<1>10. SeriesOnTime
  <2>1. series = <<>>
    BY <1>5 DEF CountsInit
  <2> QED BY <1>5, <1>6, <2>1, PointsWhileRunning
<1>11. DeletedFileIsGone
  BY DEF DeletedFileIsGone, Init, CountsInit
<1> QED BY <1>2, <1>3, <1>4, <1>6, <1>8, <1>10, <1>11 DEF IInv

LEMMA CreateFileInv ==
    ASSUME NEW f \in File, IInv, CreateFile(f)
    PROVE  IInv'
<1>1. /\ DOMAIN file_map' = DOMAIN file_map \cup {f} /\ f \notin DOMAIN file_map
      /\ ~ file_map'[f].deleted
      /\ \A g \in DOMAIN file_map : file_map'[g] = file_map[g]
  BY DEF CreateFile, Add
<1>2. todo = <<>> /\ todo' = <<>> /\ main = "run" /\ main' = "run"
  BY DEF CreateFile, BetweenRecords, Between, probe
<1>3. LoopOK'
  <2>1. [deleted |-> FALSE, creation_lookup |-> lookup_count] \in FileInfo
    BY DEF IInv, LoopOK, FileInfo
  <2>2. file_map' \in [DOMAIN file_map' -> FileInfo]
    BY <2>1 DEF CreateFile, Add, IInv, LoopOK
  <2>3. todo' \in Seq(TodoBlock')
    BY <1>2
  <2>4. UNCHANGED <<filter_only, lookup_count, extra_reads>>
    BY DEF CreateFile, config, probe
  <2> QED BY <1>1, <1>2, <2>2, <2>3, <2>4 DEF IInv, LoopOK
<1>4. CountsOK' /\ LevelsOK'
  <2>1. CASE Modular
    <3>1. PICK S : S = LiveFiles
      OBVIOUS
    <3>2. /\ f \in File \ S /\ ListsCounted(S) /\ TreeCounted(S) /\ EmptyWithin(S)
          /\ CountFile(f) /\ UNCHANGED <<policy, levels>>
      BY <1>1, <2>1, <3>1 DEF IInv, CountsOK, LiveFiles, CreateFile, CountFile
    <3>3. LiveFiles' = S \cup {f}
      BY <1>1, <2>1, <3>1, <3>2 DEF LiveFiles, Modular
    <3>4. /\ ListsCounted(S \cup {f})' /\ TreeCounted(S \cup {f})'
          /\ TotalCount(f)' = 0 /\ EmptyCount(f)' = 0
          /\ \A g \in S : TotalCount(g)' = TotalCount(g) /\ EmptyCount(g)' = EmptyCount(g)
      BY <3>2, CountFileKeeps
    <3>5. EmptyWithin(S \cup {f})'
      BY <3>2, <3>4 DEF EmptyWithin
    <3> QED BY <3>2, <3>3, <3>4, <3>5 DEF CountsOK, ListsCounted, TreeCounted, EmptyWithin,
               IInv, LevelsOK, levels
  <2>2. CASE ~ Modular
    <3>1. UNCHANGED counts
      BY <2>2 DEF CreateFile
    <3>2. LiveFiles' = LiveFiles
      BY <2>2, <3>1 DEF LiveFiles, Modular, counts
    <3> QED BY <3>1, <3>2, CountsUnchanged DEF IInv
  <2> QED BY <2>1, <2>2
<1>5. ResultOK' /\ CountsAddUp' /\ SeriesOnTime'
  BY <1>2, ResultUnchanged DEF CreateFile, IInv
<1>6. DeletedFileIsGone'
  BY <1>1 DEF CreateFile, DeletedFileIsGone, caches, IInv
<1> QED BY <1>3, <1>4, <1>5, <1>6 DEF IInv

LEMMA DeleteFileInv ==
    ASSUME NEW f \in File, IInv, DeleteFile(f)
    PROVE  IInv'
<1>1. PICK gone \in BOOLEAN : gone = Modular
  BY DEF Modular
<1>2. f \in DOMAIN file_map /\ ~ file_map[f].deleted
      /\ file_map \in [DOMAIN file_map -> FileInfo]
  BY DEF DeleteFile, IInv, LoopOK
<1>3. PICK e \in FileInfo : e.deleted = gone /\ file_map' = [file_map EXCEPT ![f] = e]
  <2>1. PICK r \in [deleted : BOOLEAN, creation_lookup : Nat] : r = file_map[f]
    BY <1>2 DEF FileInfo
  <2>2. [r EXCEPT !.deleted = gone] = [deleted |-> gone, creation_lookup |-> r.creation_lookup]
    OBVIOUS
  <2>3. file_map' = [file_map EXCEPT ![f].deleted = gone]
    BY <1>1 DEF DeleteFile
  <2>4. file_map' = [file_map EXCEPT ![f] = [deleted |-> gone,
                                             creation_lookup |-> r.creation_lookup]]
    BY <2>1, <2>2, <2>3
  <2>5. [deleted |-> gone, creation_lookup |-> r.creation_lookup] \in FileInfo
    BY <1>1 DEF FileInfo
  <2> QED BY <2>4, <2>5
<1>4. /\ DOMAIN file_map' = DOMAIN file_map
      /\ file_map' \in [DOMAIN file_map' -> FileInfo]
      /\ file_map'[f].deleted = gone
      /\ \A g \in DOMAIN file_map \ {f} : file_map'[g] = file_map[g]
  BY <1>2, <1>3
<1>5. todo = <<>> /\ todo' = <<>> /\ main = "run" /\ main' = "run"
  BY DEF DeleteFile, BetweenRecords, Between, probe
<1>6. LoopOK'
  <2>1. todo' \in Seq(TodoBlock')
    BY <1>5
  <2>2. UNCHANGED <<filter_only, lookup_count, extra_reads>>
    BY DEF DeleteFile, config, probe
  <2> QED BY <1>4, <1>5, <2>1, <2>2 DEF IInv, LoopOK
<1>7. CountsOK' /\ LevelsOK'
  <2>1. CASE Modular
    <3>1. PICK S : S = LiveFiles
      OBVIOUS
    <3>2. /\ f \in S /\ ListsCounted(S) /\ TreeCounted(S) /\ EmptyWithin(S)
          /\ UncountFile(f) /\ UNCHANGED <<policy, levels>>
      BY <1>2, <2>1, <3>1 DEF IInv, CountsOK, LiveFiles, DeleteFile, UncountFile
    <3>3. LiveFiles' = S \ {f}
      BY <1>1, <1>4, <2>1, <3>1, <3>2 DEF LiveFiles, Modular
    <3>4. /\ ListsCounted(S \ {f})' /\ TreeCounted(S \ {f})'
          /\ \A g \in S \ {f} :
                TotalCount(g)' = TotalCount(g) /\ EmptyCount(g)' = EmptyCount(g)
      BY <3>2, UncountFileKeeps
    <3>5. EmptyWithin(S \ {f})'
      BY <3>2, <3>4 DEF EmptyWithin
    <3> QED BY <3>2, <3>3, <3>4, <3>5 DEF CountsOK, ListsCounted, TreeCounted, EmptyWithin,
               IInv, LevelsOK, levels
  <2>2. CASE ~ Modular
    <3>1. UNCHANGED counts
      BY <2>2 DEF DeleteFile
    <3>2. LiveFiles' = LiveFiles
      BY <2>2, <3>1 DEF LiveFiles, Modular, counts
    <3> QED BY <3>1, <3>2, CountsUnchanged DEF IInv
  <2> QED BY <2>1, <2>2
<1>8. ResultOK' /\ CountsAddUp' /\ SeriesOnTime'
  BY <1>5, ResultUnchanged DEF DeleteFile, IInv
<1>9. DeletedFileIsGone'
  BY <1>4 DEF DeleteFile, DeletedFileIsGone, BlocksWithout, IInv
<1> QED BY <1>6, <1>7, <1>8, <1>9 DEF IInv

\* A probe uses a number of filter modules, whatever the policy goes by.
LEMMA UseIsCount ==
    ASSUME IInv, NEW f \in DOMAIN file_map, NEW l \in Level, NEW found \in BOOLEAN,
           NEW use \in FilterUses(f, found, ModuleLimit(f, l))
    PROVE  use[1] \in Nat
<1>1. f \in File /\ TotalModules[f] \in Nat
  BY FileCountsAssumption DEF IInv, LoopOK
<1>2. LevelFraction(l) \in Fraction
  BY DEF LevelFraction, Fraction, IInv, LevelsOK
<1>3. CASE Modular
  <2>1. ModuleLimit(f, l) \in Nat
    <3>1. CASE file_map[f].deleted
      BY <1>1, <3>1 DEF ModuleLimit
    <3>2. CASE ~ file_map[f].deleted
      <4>1. PICK S : S = LiveFiles
        OBVIOUS
      <4>2. f \in S /\ ListsCounted(S) /\ TreeCounted(S) /\ EmptyWithin(S)
        BY <1>3, <3>2, <4>1 DEF LiveFiles, IInv, CountsOK
      <4>3. /\ IsFiniteSet(ratio_tree)
            /\ policy = "ratio" /\ EmptyCount(f) > 0 => ratio_tree # {}
        BY <4>2, TreeNotEmpty
      <4>4. \A n : Limit(f, n, LevelFraction(l), LevelFraction(l)) \in Nat
        BY <1>2, <4>2, <4>3, LimitIsCount
      <4> QED BY <3>2, <4>4 DEF ModuleLimit
    <3> QED BY <3>1, <3>2
  <2> QED BY <1>1, <2>1, UsesAreCounts
<1>4. CASE ~ Modular
  BY <1>1, <1>4, UsesAreCounts
<1> QED BY <1>3, <1>4

LEMMA ProbeFileInv ==
    ASSUME NEW f \in File, NEW l \in Level, NEW reads \in Reads,
           NEW outcome \in {"found", "not_found", "error"}, IInv,
           ProbeFile(f, l, outcome, reads)
    PROVE  IInv'
<1>1. PICK nothing \in BOOLEAN : nothing = (outcome = "not_found")
  OBVIOUS
<1>2. /\ f \in DOMAIN file_map /\ unnecessary' = nothing
      /\ main = "run" /\ main' = "run"
      /\ UNCHANGED <<config, filter_only, file_map, lookup_count, caches, result, clean>>
  BY <1>1 DEF ProbeFile, Between, config
<1>3. CountsOK' /\ LevelsOK'
  <2>1. CASE Modular /\ ~ file_map[f].deleted
    <3>1. PICK S : S = LiveFiles
      OBVIOUS
    <3>2. /\ f \in S /\ ListsCounted(S) /\ TreeCounted(S) /\ EmptyWithin(S)
      BY <1>2, <2>1, <3>1 DEF IInv, CountsOK, LiveFiles
    <3>3. CountProbe(f, l, nothing)
      BY <1>2, <2>1 DEF ProbeFile, CountProbe, AddToLevel
    <3>4. LiveFiles' = S
      BY <1>2, <3>1, <3>3 DEF LiveFiles, Modular, CountProbe
    <3>5. ListsCounted(S)' /\ TreeCounted(S)'
      BY <3>2, <3>3, CountProbeLists, CountProbeTree
    <3>6. EmptyWithin(S)'
      <4>1. \A g \in S : TotalCount(g) \in Nat /\ EmptyCount(g) \in Nat
        BY <3>2, CountOfListed DEF ListsCounted, TotalCount, EmptyCount
      <4>2. \A g \in S :
               /\ TotalCount(g)' = IF g = f THEN TotalCount(g) + 1 ELSE TotalCount(g)
               /\ EmptyCount(g)' = IF g = f /\ nothing THEN EmptyCount(g) + 1
                                   ELSE EmptyCount(g)
        BY <3>2, <3>3, CountProbeLists
      <4>3. \A g \in S : EmptyCount(g)' <= TotalCount(g)'
        BY <3>2, <4>1, <4>2 DEF EmptyWithin
      <4> QED BY <4>3 DEF EmptyWithin
    <3>7. LevelsOK'
      BY <3>3, LevelsCounted DEF CountProbe, IInv
    <3> QED BY <3>4, <3>5, <3>6, <3>7 DEF CountsOK, ListsCounted, TreeCounted, EmptyWithin
  <2>2. CASE ~ (Modular /\ ~ file_map[f].deleted)
    <3>1. UNCHANGED counts
      BY <2>2 DEF ProbeFile
    <3>2. LiveFiles' = LiveFiles
      BY <1>2, <3>1 DEF LiveFiles, Modular, counts
    <3> QED BY <3>1, <3>2, CountsUnchanged DEF IInv
  <2> QED BY <2>1, <2>2
<1>4. PICK use \in FilterUses(f, outcome = "found", ModuleLimit(f, l)) :
         \E behind :
            /\ behind = IF filter_only \/ (nothing /\ ~ use[2]) THEN <<>> ELSE Simulated(reads)
            /\ todo' = BlocksOf(f, use[1], behind)
            /\ extra_reads' = IF filter_only /\ nothing /\ use[2] THEN Len(reads) ELSE 0
  BY <1>2 DEF ProbeFile
<1>13. PICK behind :
          /\ behind = IF filter_only \/ (nothing /\ ~ use[2]) THEN <<>> ELSE Simulated(reads)
          /\ todo' = BlocksOf(f, use[1], behind)
          /\ extra_reads' = IF filter_only /\ nothing /\ use[2] THEN Len(reads) ELSE 0
  BY <1>4
<1>5. reads \in Seq(Block) /\ Len(reads) \in Nat
  BY LoopAssumption, LenProperties
<1>6. LoopOK'
  <2>1. use[1] \in Nat
    BY <1>2, UseIsCount
  <2>2. behind \in Seq(Looked) /\ (filter_only => Len(behind) = 0)
    BY <1>13, <1>5, SimulatedTyped
  <2>n. PICK used \in Nat : used = use[1]
    BY <2>1
  <2>3. PICK blocks : blocks = BlocksOf(f, used, behind)
    OBVIOUS
  <2>4. FilterFirst(blocks, f, used, Len(behind))
    BY <2>2, <2>3, BlocksOfTyped
  <2>5. ASSUME NEW i \in 1 .. Len(blocks) PROVE blocks[i] \in TodoBlock
    <3>1. blocks[i] \in CachedBlock
      BY <2>4, ElementOfSeq DEF FilterFirst
    <3>2. filter_only => i <= used
      BY <2>2, <2>4 DEF FilterFirst
    <3> QED BY <1>2, <2>4, <3>1, <3>2 DEF TodoBlock, FilterFirst
  <2>6. blocks \in Seq(TodoBlock)
    BY <2>4, <2>5, SeqOf DEF FilterFirst
  <2>7. TodoBlock' = TodoBlock
    BY <1>2 DEF TodoBlock
  <2>8. extra_reads' \in Nat /\ (extra_reads' # 0 => filter_only)
    BY <1>5, <1>13
  <2> QED BY <1>2, <1>13, <2>n, <2>3, <2>6, <2>7, <2>8 DEF IInv, LoopOK
<1>7. ResultOK' /\ CountsAddUp' /\ SeriesOnTime'
  BY <1>2, ResultUnchanged DEF IInv
<1>12. DeletedFileIsGone'
  BY <1>2 DEF IInv, DeletedFileIsGone, caches
<1> QED BY <1>3, <1>6, <1>7, <1>12 DEF IInv

LEMMA AccessBlockInv == IInv /\ AccessBlock => IInv'
<1> SUFFICES ASSUME IInv, AccessBlock PROVE IInv'
  OBVIOUS
<1>1. todo \in Seq(TodoBlock) /\ todo # <<>> /\ main = "run"
  BY DEF IInv, LoopOK, AccessBlock
<1>2. PICK b \in TodoBlock : b = Head(todo)
  BY <1>1, HeadTailProperties
<1>3. /\ AccessTo(b, unnecessary, FALSE)
      /\ clean' = clean \ {b.file}
      /\ todo' = Tail(todo)
      /\ UNCHANGED <<filter_only, series_per_record, counts, files, extra_reads, main>>
  BY <1>2 DEF AccessBlock, config
<1>4. b \in CachedBlock /\ b.file \in DOMAIN file_map /\ (filter_only => b.type = "filter")
  BY DEF TodoBlock
<1>5. LoopOK'
  <2>1. todo' \in Seq(TodoBlock)
    BY <1>1, <1>3, HeadTailProperties
  <2>2. TodoBlock' = TodoBlock
    BY <1>3 DEF TodoBlock, files
  <2> QED BY <1>1, <1>3, <2>1, <2>2 DEF IInv, LoopOK, files
<1>6. CountsOK' /\ LevelsOK'
  <2>1. LiveFiles' = LiveFiles
    BY <1>3 DEF LiveFiles, Modular, files, counts
  <2> QED BY <1>3, <2>1, CountsUnchanged DEF IInv
<1>7. ResultOK /\ ByType /\ PointsDue(Len(series))
  BY <1>1, PointsWhileRunning DEF IInv, CountsAddUp, ByType
<1>8. PICK late \in BOOLEAN : late = FALSE
  OBVIOUS
<1>12. /\ ResultOK' /\ ByType' /\ PointsDue(Len(series))'
       /\ curr_access' = 0 /\ series' # <<>> =>
             /\ Latest'.hit = count'.hit /\ Latest'.miss = count'.miss
             /\ Latest'.extra_read = count'.extra_read
  BY <1>3, <1>4, <1>7, <1>8, AccessKeeps
<1>9. CountsAddUp'
  <2>0. ResultOK /\ AccessTo(b, unnecessary, FALSE) /\ FALSE \in BOOLEAN
    BY <1>3, <1>7
  <2>1. PICK outcome \in {"hit", "miss"}, p \in Point :
           /\ count' \in [Counter -> Nat]
           /\ \A c \in Counter \ {"extra_read"} :
                 count'[c] = IF c \in {outcome, Typed[b.type][outcome]} THEN count[c] + 1
                             ELSE count[c]
           /\ count'["extra_read"] = IF IsExtra(b, outcome, unnecessary)
                                     THEN count["extra_read"] + 1 ELSE count["extra_read"]
           /\ p.hit = count'["hit"] /\ p.miss = count'["miss"]
           /\ p.extra_read = IF FALSE THEN count["extra_read"] ELSE count'["extra_read"]
           /\ Push(p)
    BY <1>4, <2>0, AccessCounted
  <2>2. b.type \in Simulable /\ count \in [Counter -> Nat]
    BY <1>4, <1>7 DEF CachedBlock, ResultOK
  <2>3. /\ count'["index_miss"] = IF outcome = "miss" /\ b.type = "index"
                                  THEN count["index_miss"] + 1 ELSE count["index_miss"]
        /\ count'["data_miss"] = IF outcome = "miss" /\ b.type = "data"
                                 THEN count["data_miss"] + 1 ELSE count["data_miss"]
        /\ count'["index_hit"] = IF outcome = "hit" /\ b.type = "index"
                                 THEN count["index_hit"] + 1 ELSE count["index_hit"]
        /\ count'["data_hit"] = IF outcome = "hit" /\ b.type = "data"
                                THEN count["data_hit"] + 1 ELSE count["data_hit"]
    BY <2>1, <2>2 DEF Counter, Typed, Simulable
  <2>4. \A c \in Counter : count[c] \in Nat /\ count'[c] \in Nat
    BY <2>1, <2>2
  <2>5. ASSUME ~ filter_only
        PROVE  count'.extra_read <= count'.index_miss + count'.data_miss
    <3>1. count.extra_read <= count.index_miss + count.data_miss
      BY <2>5 DEF IInv, CountsAddUp
    <3> QED BY <2>1, <2>2, <2>3, <2>4, <3>1 DEF IsExtra, Counter, Simulable
  <2>6. ASSUME filter_only
        PROVE  count'.hit + count'.miss = count'.filter_hit + count'.filter_miss
    <3>1. count.hit + count.miss = count.filter_hit + count.filter_miss /\ b.type = "filter"
      BY <1>4, <2>6 DEF IInv, CountsAddUp
    <3>2. /\ count'["hit"] = IF outcome = "hit" THEN count["hit"] + 1 ELSE count["hit"]
          /\ count'["miss"] = IF outcome = "miss" THEN count["miss"] + 1 ELSE count["miss"]
          /\ count'["filter_hit"] = IF outcome = "hit" THEN count["filter_hit"] + 1
                                    ELSE count["filter_hit"]
          /\ count'["filter_miss"] = IF outcome = "miss" THEN count["filter_miss"] + 1
                                     ELSE count["filter_miss"]
      BY <2>1, <3>1 DEF Counter, Typed
    <3> QED BY <2>4, <3>1, <3>2 DEF Counter
  <2> QED BY <1>3, <1>12, <2>5, <2>6 DEF CountsAddUp, ByType
<1>10. SeriesOnTime'
  <2>1. main' # "done"
    BY <1>1, <1>3
  <2>2. count'.extra_read \in Nat
    BY <1>12 DEF ResultOK, Counter
  <2> QED BY <1>12, <2>1, <2>2 DEF SeriesOnTime, FullPoints
<1>11. DeletedFileIsGone'
  <2>1. filter_cache' \cup data_cache' \subseteq filter_cache \cup data_cache \cup {b}
    BY <1>3 DEF AccessTo, After
  <2>2. file_map' = file_map
    BY <1>3 DEF files
  <2>3. ASSUME NEW x \in filter_cache' \cup data_cache'
        PROVE  x.file \in DOMAIN file_map' \ clean'
    BY <1>3, <1>4, <2>1, <2>2 DEF IInv, DeletedFileIsGone
  <2> QED BY <2>3 DEF DeletedFileIsGone
<1> QED BY <1>5, <1>6, <1>9, <1>10, <1>11, <1>12 DEF IInv

\* Only the extra reads grow: the points before are behind them.
LEMMA CountExtraInv == IInv /\ CountExtra => IInv'
<1> SUFFICES ASSUME IInv, CountExtra PROVE IInv'
  OBVIOUS
<1>1. /\ todo = <<>> /\ todo' = <<>> /\ extra_reads \in Nat /\ extra_reads' = 0
      /\ filter_only /\ main = "run" /\ main' = "run"
      /\ UNCHANGED <<config, filter_only, series_per_record, counts, files, caches, curr_access,
                     series, clean>>
  BY DEF CountExtra, IInv, LoopOK, config
<1>2. LoopOK'
  <2>1. todo' \in Seq(TodoBlock')
    BY <1>1
  <2> QED BY <1>1, <2>1 DEF IInv, LoopOK, files
<1>3. CountsOK' /\ LevelsOK'
  <2>1. LiveFiles' = LiveFiles
    BY <1>1 DEF LiveFiles, Modular, files, counts
  <2> QED BY <1>1, <2>1, CountsUnchanged DEF IInv
<1>4. /\ count \in [Counter -> Nat] /\ count' \in [Counter -> Nat]
      /\ \A c \in Counter \ {"extra_read"} : count'[c] = count[c]
      /\ count'["extra_read"] = count["extra_read"] + extra_reads
  <2>1. count \in [Counter -> Nat] /\ "extra_read" \in Counter
    BY DEF IInv, ResultOK, Counter
  <2>2. count["extra_read"] + extra_reads \in Nat
    BY <1>1, <2>1
  <2>3. count' = [count EXCEPT !.extra_read = @ + extra_reads]
    BY DEF CountExtra
  <2> QED BY <2>1, <2>2, <2>3
<1>5. /\ count'.hit = count.hit /\ count'.miss = count.miss
      /\ count'.filter_hit = count.filter_hit /\ count'.filter_miss = count.filter_miss
      /\ count'.index_hit = count.index_hit /\ count'.index_miss = count.index_miss
      /\ count'.data_hit = count.data_hit /\ count'.data_miss = count.data_miss
  BY <1>4 DEF Counter
<1>6. ResultOK'
  BY <1>1, <1>4 DEF IInv, ResultOK
<1>7. CountsAddUp'
  BY <1>1, <1>5 DEF IInv, CountsAddUp
<1>8. SeriesOnTime'
  <2>1. /\ PointsDue(Len(series))
        /\ curr_access = 0 /\ series # <<>> =>
              /\ Latest.hit = count.hit /\ Latest.miss = count.miss
              /\ Latest.extra_read <= count.extra_read
    BY <1>1, PointsWhileRunning DEF IInv
  <2>2. PointsDue(Len(series))'
    BY <1>1, <1>5, <2>1 DEF PointsDue, Period
  <2>3. Latest' = Latest
    BY <1>1 DEF Latest
  <2>4. ASSUME curr_access = 0, series # <<>> PROVE Latest.extra_read <= count'.extra_read
    <3>1. Latest.extra_read \in Nat
      <4>1. Latest \in Point
        BY <2>4, LatestTyped DEF IInv
      <4> QED BY <4>1 DEF Point
    <3>2. count.extra_read \in Nat /\ count'.extra_read = count.extra_read + extra_reads
      BY <1>4 DEF Counter
    <3> QED BY <1>1, <2>1, <2>4, <3>1, <3>2
  <2> QED BY <1>1, <1>5, <2>1, <2>2, <2>3, <2>4 DEF SeriesOnTime, FullPoints
<1>9. DeletedFileIsGone'
  BY <1>1 DEF IInv, DeletedFileIsGone, caches, files
<1> QED BY <1>2, <1>3, <1>6, <1>7, <1>8, <1>9 DEF IInv

\* The last point is the result; it closes the accesses since the one before.
LEMMA EndTraceInv == IInv /\ EndTrace => IInv'
<1> SUFFICES ASSUME IInv, EndTrace PROVE IInv'
  OBVIOUS
<1>1. /\ main = "run" /\ main' = "done"
      /\ todo = <<>> /\ todo' = <<>> /\ extra_reads = 0 /\ extra_reads' = 0
      /\ UNCHANGED <<filter_only, series_per_record, counts, files, caches, count, curr_access,
                     clean>>
  BY DEF EndTrace, BetweenRecords, Between, config, probe
<1>2. LoopOK'
  <2>1. todo' \in Seq(TodoBlock')
    BY <1>1
  <2> QED BY <1>1, <2>1 DEF IInv, LoopOK, files
<1>3. CountsOK' /\ LevelsOK'
  <2>1. LiveFiles' = LiveFiles
    BY <1>1 DEF LiveFiles, Modular, files, counts
  <2> QED BY <1>1, <2>1, CountsUnchanged DEF IInv
<1>4. /\ PointsDue(Len(series))
      /\ curr_access = 0 /\ series # <<>> =>
            /\ Latest.hit = count.hit /\ Latest.miss = count.miss
            /\ IF filter_only THEN Latest.extra_read <= count.extra_read
               ELSE Latest.extra_read = count.extra_read
  BY <1>1, PointsWhileRunning DEF IInv
<1>5. /\ ResultOK' /\ PointsDue(IF curr_access # 0 THEN Len(series) - 1 ELSE Len(series))'
      /\ curr_access # 0 => Latest' = PointOf(count)
      /\ curr_access = 0 => series' = series
  BY <1>1, <1>4, LastPushKeeps DEF IInv, EndTrace
<1>6. SeriesOnTime'
  BY <1>1, <1>4, <1>5 DEF SeriesOnTime, FullPoints, Latest, PointOf
<1>7. CountsAddUp' /\ DeletedFileIsGone'
  BY <1>1 DEF IInv, CountsAddUp, DeletedFileIsGone, caches, files
<1> QED BY <1>2, <1>3, <1>5, <1>6, <1>7 DEF IInv

\* Steps that leave the counts, the result and the caches alone.
LEMMA OtherInv == IInv /\ (EndGet \/ ProbeUnknown \/ UNCHANGED vars) => IInv'
<1> SUFFICES ASSUME IInv, EndGet \/ ProbeUnknown \/ UNCHANGED vars PROVE IInv'
  OBVIOUS
<1>1. /\ UNCHANGED <<config, filter_only, counts, file_map, caches, result, todo, extra_reads,
                     clean>>
      /\ \/ lookup_count' = lookup_count
         \/ lookup_count' = lookup_count + 1
      /\ main' # "run" => todo = <<>> /\ extra_reads = 0
  BY DEF EndGet, ProbeUnknown, Between, vars, files, config, probe, IInv, LoopOK
<1>2. LoopOK'
  <2>1. TodoBlock' = TodoBlock
    BY <1>1 DEF TodoBlock
  <2> QED BY <1>1, <2>1 DEF IInv, LoopOK
<1>3. CountsOK' /\ LevelsOK'
  <2>1. LiveFiles' = LiveFiles
    BY <1>1 DEF LiveFiles, Modular, counts
  <2> QED BY <1>1, <2>1, CountsUnchanged DEF IInv
<1>4. main' = main \/ (main # "done" /\ main' # "done")
  BY DEF EndGet, ProbeUnknown, Between, vars
<1>5. ResultOK' /\ CountsAddUp' /\ SeriesOnTime'
  BY <1>1, <1>4, ResultUnchanged DEF IInv
<1>6. DeletedFileIsGone'
  BY <1>1 DEF IInv, DeletedFileIsGone, caches
<1> QED BY <1>2, <1>3, <1>5, <1>6 DEF IInv

LEMMA StepInv == IInv /\ [Next]_vars => IInv'
<1> SUFFICES ASSUME IInv, [Next]_vars PROVE IInv'
  OBVIOUS
<1>1. ASSUME NEW f \in File, CreateFile(f) PROVE IInv'
  BY <1>1, CreateFileInv
<1>2. ASSUME NEW f \in File, DeleteFile(f) PROVE IInv'
  BY <1>2, DeleteFileInv
<1>3. ASSUME NEW f \in File, NEW l \in Level, NEW reads \in Reads,
             NEW outcome \in {"found", "not_found", "error"}, ProbeFile(f, l, outcome, reads)
      PROVE  IInv'
  BY <1>3, ProbeFileInv
<1>4. CASE AccessBlock
  BY <1>4, AccessBlockInv
<1>7. CASE CountExtra
  BY <1>7, CountExtraInv
<1>5. CASE EndTrace
  BY <1>5, EndTraceInv
<1>6. CASE EndGet \/ ProbeUnknown \/ UNCHANGED vars
  BY <1>6, OtherInv
<1> QED BY <1>1, <1>2, <1>3, <1>4, <1>5, <1>6, <1>7 DEF Next

LEMMA Invariance == Spec => []IInv
BY InitInv, StepInv, PTL DEF Spec

(***************************************************************************)
(* The theorems.                                                           *)
(***************************************************************************)
\* The counts by type always add up to the whole, and an extra read is a miss
\* of a block behind a filter.
THEOREM CountsAlwaysAddUp == Spec => []CountsAddUp
<1>1. IInv => CountsAddUp
  BY DEF IInv
<1> QED BY <1>1, Invariance, PTL

\* For every series_per_record that the config may have, also those that a
\* uint16_t does not reach, the points come when they are due, and after the last
\* one come only the extra reads of filter-only mode.
THEOREM SeriesIsOnTime == Spec => []SeriesOnTime
<1>1. IInv => SeriesOnTime
  BY DEF IInv
<1> QED BY <1>1, Invariance, PTL

\* A deleted file has no block in a cache until it is accessed again.
THEOREM DeletedFilesAreGone == Spec => []DeletedFileIsGone
<1>1. IInv => DeletedFileIsGone
  BY DEF IInv
<1> QED BY <1>1, Invariance, PTL
=============================================================================
