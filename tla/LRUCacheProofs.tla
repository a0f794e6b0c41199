--------------------------- MODULE LRUCacheProofs ---------------------------
(***************************************************************************)
(* LRUCache, for every set of blocks, sizes and capacity: its accounting,  *)
(* the agreement of its list and its map, and that it implements Cache.    *)
(***************************************************************************)
EXTENDS LRUCache, ContainerTheorems

(***************************************************************************)
(* The inductive invariant.  StateInv speaks of the data, CallInv of the   *)
(* call in progress: a block is inserted only when it is new and not       *)
(* bigger than the cache, which is what keeps the eviction loop going.     *)
(***************************************************************************)
StateTypeOK ==
    /\ lru_block_list_ \in Seq(Block)
    /\ DOMAIN cache_map_ \subseteq Block
    /\ cache_map_ \in [DOMAIN cache_map_ -> Size]
    /\ curr_size_ \in 0 .. Word - 1
    /\ block_count_ \in 0 .. Word - 1

StateInv ==
    /\ StateTypeOK
    /\ ListMatchesMap
    /\ IsFiniteSet(Bytes(cache_map_))
    /\ Accounting

CallInv ==
    /\ call \in Call
    /\ call.op = "insert" => call.block \notin DOMAIN cache_map_ /\ call.size <= MaxSize
    /\ PurgedBehindIterator

IInv == StateInv /\ CallInv

(***************************************************************************)
(* The data.                                                               *)
(***************************************************************************)
\* A list without repetitions is no longer than there are blocks.
LEMMA ListBound ==
    ASSUME NEW s \in Seq(Block), NoRepeat(s)
    PROVE  Len(s) \in Nat /\ Len(s) <= Cardinality(Block)
<1>1. Len(s) \in Nat /\ s \in [1 .. Len(s) -> Block]
  BY LenProperties
<1>2. s \in Injection(1 .. Len(s), Block)
  BY <1>1 DEF NoRepeat, Injection, IsInjective
<1>3. Cardinality(1 .. Len(s)) <= Cardinality(Block)
  BY <1>2, FS_Injection, LRUAssumption
<1>4. Cardinality(1 .. Len(s)) = Len(s)
  BY <1>1, FS_Interval
<1> QED BY <1>1, <1>3, <1>4

\* The iterator of a resident block points to its node.
LEMMA PositionFinds ==
    ASSUME ListMatchesMap, NEW b \in DOMAIN cache_map_
    PROVE  Position(b) \in 1 .. Len(lru_block_list_) /\ lru_block_list_[Position(b)] = b
<1>1. \E i \in 1 .. Len(lru_block_list_) : lru_block_list_[i] = b
  BY DEF ListMatchesMap, Elements
<1> QED BY <1>1 DEF Position

\* Erasing a node keeps list, map and counters in step.
LEMMA EraseNodeInv ==
    ASSUME StateInv, NEW i \in 1 .. Len(lru_block_list_),
           EraseNode(lru_block_list_[i], i)
    PROVE  StateInv'
<1> DEFINE b == lru_block_list_[i]
<1>1. /\ lru_block_list_ \in Seq(Block) /\ NoRepeat(lru_block_list_)
      /\ Len(lru_block_list_) \in Nat
      /\ b \in DOMAIN cache_map_ /\ cache_map_[b] \in Nat
  BY LenProperties, LRUAssumption
  DEF StateInv, StateTypeOK, ListMatchesMap, Elements
<1>2. /\ lru_block_list_' \in Seq(Block)
      /\ Len(lru_block_list_') = Len(lru_block_list_) - 1
      /\ NoRepeat(lru_block_list_')
      /\ Elements(lru_block_list_') = Elements(lru_block_list_) \ {b}
  BY <1>1, EraseElements, EraseNoRepeat DEF EraseNode
<1>3. /\ DOMAIN cache_map_' = DOMAIN cache_map_ \ {b}
      /\ cache_map_' \in [DOMAIN cache_map_' -> Size]
  BY <1>1 DEF EraseNode, Drop, StateInv, StateTypeOK
<1>4. /\ IsFiniteSet(Bytes(cache_map_'))
      /\ TotalSize(cache_map_') \in Nat
      /\ TotalSize(cache_map_) = TotalSize(cache_map_') + cache_map_[b]
  BY <1>1, DropBytes DEF EraseNode, StateInv
<1>5. curr_size_' = TotalSize(cache_map_') /\ curr_size_' <= curr_size_
  BY <1>1, <1>4 DEF EraseNode, Minus, StateInv, StateTypeOK, Accounting
<1>6. block_count_' = Len(lru_block_list_')
  BY <1>1, <1>2, LRUAssumption
  DEF EraseNode, Minus, StateInv, StateTypeOK, ListMatchesMap
<1>7. StateTypeOK'
  BY <1>1, <1>2, <1>3, <1>4, <1>5, <1>6, LRUAssumption
  DEF StateTypeOK, StateInv, ListMatchesMap
<1>8. ListMatchesMap'
  BY <1>2, <1>3, <1>6 DEF ListMatchesMap, StateInv
<1>9. Accounting'
  BY <1>4, <1>5, LRUAssumption DEF Accounting, StateInv, StateTypeOK
<1> QED BY <1>4, <1>7, <1>8, <1>9 DEF StateInv

\* remove_block, of any block.
LEMMA RemoveBlockInv ==
    ASSUME StateInv, NEW b, remove_block(b)
    PROVE  StateInv'
<1>1. CASE exists(b)
  <2>1. Position(b) \in 1 .. Len(lru_block_list_) /\ lru_block_list_[Position(b)] = b
    BY <1>1, PositionFinds DEF StateInv, exists
  <2>2. EraseNode(lru_block_list_[Position(b)], Position(b))
    BY <1>1, <2>1 DEF remove_block
  <2> QED BY <2>1, <2>2, EraseNodeInv
<1>2. CASE ~ exists(b)
  BY <1>2 DEF remove_block, state, StateInv, StateTypeOK, ListMatchesMap, Accounting
<1> QED BY <1>1, <1>2

\* evict_block, and that it removes a block when there is one.
LEMMA EvictBlockInv ==
    ASSUME StateInv, evict_block
    PROVE  StateInv'
<1>1. CASE lru_block_list_ # <<>>
  BY <1>1, RemoveBlockInv DEF evict_block
<1>2. CASE lru_block_list_ = <<>>
  BY <1>2 DEF evict_block, state, StateInv, StateTypeOK, ListMatchesMap, Accounting
<1> QED BY <1>1, <1>2

\* record_access only reorders the list.
LEMMA RecordAccessInv ==
    ASSUME StateInv, NEW b \in Block, record_access(b)
    PROVE  StateInv'
<1>1. CASE ~ exists(b)
  BY <1>1 DEF record_access, StateInv, StateTypeOK, ListMatchesMap, Accounting
<1>2. CASE exists(b)
  <2> DEFINE p == Position(b)
             e == Erase(lru_block_list_, p)
  <2>1. p \in 1 .. Len(lru_block_list_) /\ lru_block_list_[p] = b
    BY <1>2, PositionFinds DEF StateInv, exists
  <2>2. lru_block_list_ \in Seq(Block) /\ NoRepeat(lru_block_list_)
        /\ Len(lru_block_list_) \in Nat
    BY LenProperties DEF StateInv, StateTypeOK, ListMatchesMap
  <2>3. /\ e \in Seq(Block) /\ Len(e) = Len(lru_block_list_) - 1
        /\ NoRepeat(e) /\ Elements(e) = Elements(lru_block_list_) \ {b}
    BY <2>1, <2>2, EraseElements, EraseNoRepeat
  <2>4. lru_block_list_' = <<b>> \o e
    BY <1>2 DEF record_access
  <2> HIDE DEF e
  <2>5. /\ lru_block_list_' \in Seq(Block)
        /\ Len(lru_block_list_') = Len(lru_block_list_)
        /\ NoRepeat(lru_block_list_')
        /\ Elements(lru_block_list_') = Elements(lru_block_list_)
    <3>1. b \notin Elements(e)
      BY <2>3
    <3>2. /\ <<b>> \o e \in Seq(Block) /\ Len(<<b>> \o e) = Len(e) + 1
          /\ NoRepeat(<<b>> \o e) /\ Elements(<<b>> \o e) = Elements(e) \cup {b}
      BY <2>3, <3>1, FrontElements
    <3>3. b \in Elements(lru_block_list_)
      BY <2>1 DEF Elements
    <3>4. Elements(e) \cup {b} = Elements(lru_block_list_)
      BY <2>3, <3>3
    <3>5. Len(e) + 1 = Len(lru_block_list_)
      BY <2>2, <2>3
    <3> QED BY <2>4, <3>2, <3>4, <3>5
  <2>6. UNCHANGED <<cache_map_, curr_size_, block_count_>>
    BY DEF record_access
  <2> QED BY <2>5, <2>6 DEF StateInv, StateTypeOK, ListMatchesMap, Accounting
<1> QED BY <1>1, <1>2

\* Admitting a new block that fits.
LEMMA AdmitInv ==
    ASSUME IInv, Admit
    PROVE  StateInv'
<1>1. /\ call \in [op : {"insert"}, block : Block, size : Size]
      /\ call.block \notin DOMAIN cache_map_
  BY DEF IInv, CallInv, Call, Admit, Idle, Exited
<1> DEFINE b == call.block
           s == call.size
<1>2. b \in Block /\ s \in Nat /\ s \in Size
  BY <1>1, LRUAssumption
<1>3. /\ lru_block_list_ \in Seq(Block) /\ NoRepeat(lru_block_list_)
      /\ b \notin Elements(lru_block_list_)
  BY <1>1 DEF IInv, StateInv, StateTypeOK, ListMatchesMap
<1>4. /\ lru_block_list_' \in Seq(Block)
      /\ Len(lru_block_list_') = Len(lru_block_list_) + 1
      /\ NoRepeat(lru_block_list_')
      /\ Elements(lru_block_list_') = Elements(lru_block_list_) \cup {b}
  BY <1>2, <1>3, FrontElements DEF Admit
<1>5. Len(lru_block_list_') \in Nat /\ Len(lru_block_list_') <= Cardinality(Block)
  BY <1>4, ListBound
<1>6. /\ DOMAIN cache_map_' = DOMAIN cache_map_ \cup {b}
      /\ cache_map_' \in [DOMAIN cache_map_' -> Size]
  BY <1>2 DEF Admit, Add, IInv, StateInv, StateTypeOK
<1>7. /\ IsFiniteSet(Bytes(cache_map_'))
      /\ TotalSize(cache_map_) \in Nat
      /\ TotalSize(cache_map_') = TotalSize(cache_map_) + s
  BY <1>1, <1>2, AddBytes DEF Admit, IInv, StateInv
<1>8. curr_size_ + s <= MaxSize
  BY <1>2, <1>7, LRUAssumption DEF Admit, DoesNotFit, Minus, IInv, StateInv, Accounting
<1>9. curr_size_' = TotalSize(cache_map_') /\ curr_size_' <= MaxSize /\ curr_size_' \in Nat
  BY <1>2, <1>7, <1>8, LRUAssumption DEF Admit, Plus, IInv, StateInv, Accounting
<1>10. block_count_' = Len(lru_block_list_')
  <2>1. Len(lru_block_list_) \in Nat /\ Cardinality(Block) \in Nat
    BY <1>3, LenProperties, FS_CardinalityType, LRUAssumption
  <2> QED BY <2>1, <1>4, <1>5, LRUAssumption DEF Admit, Plus, IInv, StateInv, ListMatchesMap
<1>11. StateTypeOK'
  <2>1. Cardinality(Block) \in Nat
    BY FS_CardinalityType, LRUAssumption
  <2> QED
    BY <2>1, <1>2, <1>4, <1>5, <1>6, <1>9, <1>10, LRUAssumption
    DEF StateTypeOK, IInv, StateInv
<1>12. ListMatchesMap'
  BY <1>4, <1>6, <1>10 DEF ListMatchesMap, IInv, StateInv
<1> QED BY <1>7, <1>9, <1>11, <1>12 DEF StateInv, Accounting

(***************************************************************************)
(* The calls.                                                              *)
(***************************************************************************)
\* Every step preserves the inductive invariant, one action at a time.
LEMMA InvStep == IInv /\ [Next]_vars => IInv'
<1> SUFFICES ASSUME IInv, [Next]_vars PROVE IInv'
  OBVIOUS
<1> USE DEF IInv
<1>1. ASSUME NEW b \in Block, RecordAccess(b)
      PROVE  IInv'
  <2>1. StateInv'
    BY <1>1, RecordAccessInv DEF RecordAccess
  <2>2. CallInv'
    BY <1>1 DEF RecordAccess, CallInv, PurgedBehindIterator, Idle
  <2> QED BY <2>1, <2>2
<1>2. ASSUME NEW b \in Block, RemoveBlock(b)
      PROVE  IInv'
  <2>1. StateInv'
    BY <1>2, RemoveBlockInv DEF RemoveBlock
  <2>2. CallInv'
    BY <1>2 DEF RemoveBlock, CallInv, PurgedBehindIterator, Idle
  <2> QED BY <2>1, <2>2
<1>3. CASE EvictBlock
  <2>1. StateInv'
    BY <1>3, EvictBlockInv DEF EvictBlock
  <2>2. CallInv'
    BY <1>3 DEF EvictBlock, CallInv, PurgedBehindIterator, Idle
  <2> QED BY <2>1, <2>2
<1>4. ASSUME NEW b \in Block, NEW s \in Size, InsertTooBig(b, s)
      PROVE  IInv'
  <2>1. StateInv'
    BY <1>4 DEF InsertTooBig, state, StateInv, StateTypeOK, ListMatchesMap, Accounting
  <2>2. CallInv'
    BY <1>4 DEF InsertTooBig, CallInv, PurgedBehindIterator, Exited, Call
  <2> QED BY <2>1, <2>2
<1>5. ASSUME NEW b \in Block, NEW s \in Size, InsertResident(b, s)
      PROVE  IInv'
  <2>1. StateInv'
    BY <1>5, RecordAccessInv DEF InsertResident
  <2>2. CallInv'
    BY <1>5 DEF InsertResident, CallInv, PurgedBehindIterator, Idle
  <2> QED BY <2>1, <2>2
<1>6. ASSUME NEW b \in Block, NEW s \in Size, InsertNew(b, s)
      PROVE  IInv'
  <2>1. StateInv'
    BY <1>6 DEF InsertNew, state, StateInv, StateTypeOK, ListMatchesMap, Accounting
  <2>2. CallInv'
    BY <1>6 DEF InsertNew, CallInv, PurgedBehindIterator, Inserting, Call, state, exists
  <2> QED BY <2>1, <2>2
<1>7. ASSUME NEW f \in File, RemoveFileBlocks(f)
      PROVE  IInv'
  <2>1. StateInv'
    BY <1>7 DEF RemoveFileBlocks, state, StateInv, StateTypeOK, ListMatchesMap, Accounting
  <2>2. lru_block_list_' = lru_block_list_ /\ Len(lru_block_list_) \in Nat
    BY <1>7, LenProperties DEF RemoveFileBlocks, state, StateInv, StateTypeOK
  <2>3. call' \in [op : {"remove_file"}, file : File, it : Nat \ {0}]
        /\ call'.it = 1
    BY <1>7 DEF RemoveFileBlocks, Purging
  <2>4. CallInv'
    BY <2>2, <2>3 DEF CallInv, PurgedBehindIterator, Call
  <2> QED BY <2>1, <2>4
<1>8. CASE EvictForInsert
  <2>1. StateInv'
    BY <1>8, EvictBlockInv DEF EvictForInsert
  <2>2. DOMAIN cache_map_' \subseteq DOMAIN cache_map_
    BY <1>8 DEF EvictForInsert, evict_block, remove_block, EraseNode, Drop, state
  <2>3. CallInv'
    BY <1>8, <2>2 DEF EvictForInsert, CallInv, PurgedBehindIterator
  <2> QED BY <2>1, <2>3
<1>9. CASE Admit
  <2>1. StateInv'
    BY <1>9, AdmitInv
  <2>2. CallInv'
    BY <1>9 DEF Admit, CallInv, PurgedBehindIterator, Idle, Call
  <2> QED BY <2>1, <2>2
<1>10. CASE PassNode
  <2>1. StateInv'
    BY <1>10 DEF PassNode, state, StateInv, StateTypeOK, ListMatchesMap, Accounting
  <2>2. lru_block_list_' = lru_block_list_ /\ Len(lru_block_list_) \in Nat
    BY <1>10, LenProperties DEF PassNode, state, StateInv, StateTypeOK
  <2>3. call \in [op : {"remove_file"}, file : File, it : Nat \ {0}]
    BY <1>10 DEF PassNode, CallInv, Call, Idle, Exited
  <2>4. /\ call' \in [op : {"remove_file"}, file : File, it : Nat \ {0}]
        /\ call'.it = call.it + 1 /\ call'.file = call.file
    BY <1>10, <2>3 DEF PassNode
  <2>5. PurgedBehindIterator'
    <3>1. call'.it <= Len(lru_block_list_') + 1
      BY <1>10, <2>2, <2>3, <2>4 DEF PassNode
    <3>2. ASSUME NEW i \in 1 .. call'.it - 1
          PROVE  FileOf[lru_block_list_'[i]] # call'.file
      <4>1. CASE i = call.it
        BY <4>1, <1>10, <2>2, <2>4 DEF PassNode
      <4>2. CASE i # call.it
        <5>1. i \in 1 .. call.it - 1
          BY <4>2, <2>3, <2>4
        <5> QED BY <5>1, <1>10, <2>2, <2>4 DEF PassNode, CallInv, PurgedBehindIterator
      <4> QED BY <4>1, <4>2
    <3> QED BY <3>1, <3>2 DEF PurgedBehindIterator
  <2> QED BY <2>1, <2>4, <2>5 DEF CallInv, Call
<1>11. CASE PurgeNode
  <2>1. call \in [op : {"remove_file"}, file : File, it : Nat \ {0}]
    BY <1>11 DEF PurgeNode, CallInv, Call, Idle, Exited
  <2>2. lru_block_list_ \in Seq(Block) /\ Len(lru_block_list_) \in Nat
    BY LenProperties DEF StateInv, StateTypeOK
  <2>3. call.it \in 1 .. Len(lru_block_list_)
    BY <1>11, <2>1, <2>2 DEF PurgeNode
  <2>4. StateInv'
    BY <1>11, <2>3, EraseNodeInv DEF PurgeNode
  <2>5. /\ Len(lru_block_list_') = Len(lru_block_list_) - 1
        /\ \A j \in 1 .. Len(lru_block_list_) - 1 :
              lru_block_list_'[j] = IF j < call.it THEN lru_block_list_[j]
                                                  ELSE lru_block_list_[j + 1]
    BY <1>11, <2>2, <2>3, EraseElements DEF PurgeNode, EraseNode
  <2>6. PurgedBehindIterator'
    <3>1. call'.it <= Len(lru_block_list_') + 1
      BY <1>11, <2>2, <2>3, <2>5 DEF PurgeNode
    <3>2. ASSUME NEW i \in 1 .. call.it - 1
          PROVE  FileOf[lru_block_list_'[i]] # call.file
      <4>1. lru_block_list_'[i] = lru_block_list_[i]
        BY <2>2, <2>3, <2>5
      <4> QED BY <4>1, <2>1 DEF CallInv, PurgedBehindIterator
    <3> QED BY <1>11, <3>1, <3>2 DEF PurgedBehindIterator, PurgeNode
  <2> QED BY <1>11, <2>1, <2>4, <2>6 DEF CallInv, Call, PurgeNode
<1>12. CASE PurgeReturn
  <2>1. StateInv'
    BY <1>12 DEF PurgeReturn, state, StateInv, StateTypeOK, ListMatchesMap, Accounting
  <2>2. CallInv'
    BY <1>12 DEF PurgeReturn, CallInv, PurgedBehindIterator, Idle, Call
  <2> QED BY <2>1, <2>2
<1>13. CASE UNCHANGED vars
  BY <1>13 DEF vars, state, StateInv, StateTypeOK, ListMatchesMap, Accounting,
               CallInv, PurgedBehindIterator
<1> QED
  BY <1>1, <1>2, <1>3, <1>4, <1>5, <1>6, <1>7, <1>8, <1>9, <1>10, <1>11, <1>12, <1>13
  DEF Next, Continue

LEMMA InvInit == Init => IInv
<1> SUFFICES ASSUME Init PROVE IInv
  OBVIOUS
<1>1. /\ lru_block_list_ = <<>> /\ Len(<<>>) = 0 /\ <<>> \in Seq(Block)
      /\ cache_map_ = <<>> /\ DOMAIN cache_map_ = {}
  BY DEF Init
<1>2. IsFiniteSet(Bytes(cache_map_)) /\ TotalSize(cache_map_) = 0
  BY <1>1, NoBytes
<1>3. StateInv
  BY <1>1, <1>2, LRUAssumption
  DEF StateInv, StateTypeOK, ListMatchesMap, Accounting, Init, NoRepeat, Elements
<1>4. CallInv
  BY DEF Init, CallInv, Call, Idle, PurgedBehindIterator
<1> QED BY <1>3, <1>4 DEF IInv

\* The inductive invariant holds throughout.
THEOREM Invariant == Spec => []IInv
<1> QED BY InvInit, InvStep, PTL DEF Spec

(***************************************************************************)
(* The properties the model checker runs on small instances.               *)
(***************************************************************************)
\* Type correctness of the cache's fields and of the call in progress.
THEOREM TypeCorrect == Spec => []TypeOK
<1>1. IInv => TypeOK
  BY DEF IInv, StateInv, StateTypeOK, CallInv, TypeOK
<1> QED BY <1>1, Invariant, PTL

\* insert_block and remove_block keep the list, the map and block_count_ in step.
THEOREM ListMatchesMapAlways == Spec => []ListMatchesMap
<1>1. IInv => ListMatchesMap
  BY DEF IInv, StateInv
<1> QED BY <1>1, Invariant, PTL

\* curr_size_ is the number of bytes held and never exceeds max_size_, so
\* the unsigned subtraction in insert_block's loop condition never wraps.
THEOREM AccountingAlways == Spec => []Accounting
<1>1. IInv => Accounting
  BY DEF IInv, StateInv
<1> QED BY <1>1, Invariant, PTL

\* What is known of the arguments of insert_block while it runs.
LEMMA InsertArguments ==
    ASSUME IInv, call.op = "insert"
    PROVE  /\ call.block \in Block /\ call.size \in Nat
           /\ call.block \notin DOMAIN cache_map_ /\ call.size <= MaxSize
<1>1. call \in [op : {"insert"}, block : Block, size : Size]
  BY DEF IInv, CallInv, Call, Idle, Exited
<1>2. call.block \in Block /\ call.size \in Nat
  BY <1>1, LRUAssumption
<1> QED BY <1>2 DEF IInv, CallInv

\* With nothing left to evict, the block being inserted fits.
LEMMA VictimExists == IInv => EvictionFindsVictim
<1> SUFFICES ASSUME IInv, call.op = "insert", DoesNotFit, lru_block_list_ = <<>>
             PROVE  FALSE
  BY DEF EvictionFindsVictim
<1>1. DOMAIN cache_map_ = {}
  BY DEF IInv, StateInv, ListMatchesMap, Elements
<1>2. Bytes(cache_map_) = {}
  BY <1>1 DEF Bytes
<1>3. curr_size_ = 0
  BY <1>2, FS_EmptySet DEF TotalSize, IInv, StateInv, Accounting
<1>4. call.size <= MaxSize
  BY DEF IInv, CallInv
<1>5. Minus(Word, MaxSize, curr_size_) = MaxSize
  BY <1>3, LRUAssumption DEF Minus
<1>6. call.size \in Nat
  BY InsertArguments
<1> QED BY <1>4, <1>5, <1>6, LRUAssumption DEF DoesNotFit

\* The eviction loop of insert_block never turns on an empty cache.
THEOREM EvictionFindsVictimAlways == Spec => []EvictionFindsVictim
<1> QED BY VictimExists, Invariant, PTL

\* remove_file_blocks leaves nothing of the file behind its iterator.
THEOREM PurgedBehindIteratorAlways == Spec => []PurgedBehindIterator
<1>1. IInv => PurgedBehindIterator
  BY DEF IInv, CallInv
<1> QED BY <1>1, Invariant, PTL

(***************************************************************************)
(* Refinement.                                                             *)
(***************************************************************************)
\* What remove_block and evict_block do to the set of resident blocks.
LEMMA RemovalDrops ==
    ASSUME NEW b, remove_block(b)
    PROVE  IF exists(b) THEN cache_map_' = Drop(cache_map_, b)
                        ELSE cache_map_' = cache_map_
<1> QED BY DEF remove_block, EraseNode, state

LEMMA LastIsResident ==
    ASSUME IInv, lru_block_list_ # <<>>
    PROVE  LET b == lru_block_list_[Len(lru_block_list_)] IN b \in Block /\ exists(b)
<1>1. Len(lru_block_list_) \in 1 .. Len(lru_block_list_)
  BY LenProperties, EmptySeq DEF IInv, StateInv, StateTypeOK
<1> QED BY <1>1 DEF exists, IInv, StateInv, StateTypeOK, ListMatchesMap, Elements

\* The loop condition on curr_size_ says whether the block fits.
LEMMA FitsAsPromised ==
    ASSUME IInv, call.op = "insert"
    PROVE  DoesNotFit <=> ~ Abstract!Fits(call.size)
<1>1. call.size \in Nat
  BY InsertArguments
<1>2. /\ curr_size_ \in Nat /\ curr_size_ <= MaxSize
      /\ curr_size_ = TotalSize(cache_map_)
  BY LRUAssumption DEF IInv, StateInv, StateTypeOK, Accounting
<1>3. Abstract!TotalSize(cache_map_) = TotalSize(cache_map_)
  BY DEF Abstract!TotalSize, Abstract!Bytes, Abstract!Cardinality,
         TotalSize, Bytes, Cardinality
<1> QED BY <1>1, <1>2, <1>3, LRUAssumption DEF DoesNotFit, Minus, Abstract!Fits

\* Every step of LRUCache is a step of Cache, or changes nothing there.
LEMMA StepImplements == IInv /\ [Next]_vars => [Abstract!Next]_(Abstract!vars)
<1> SUFFICES ASSUME IInv, [Next]_vars PROVE [Abstract!Next]_(Abstract!vars)
  OBVIOUS
<1> USE DEF AbstractCall, Drop, Abstract!Drop, Add, Abstract!Add
<1>1. ASSUME NEW b \in Block, RecordAccess(b) \/ \E s \in Size : InsertResident(b, s)
      PROVE  UNCHANGED Abstract!vars
  BY <1>1 DEF RecordAccess, InsertResident, record_access, Abstract!vars
<1>2. ASSUME NEW b \in Block, RemoveBlock(b)
      PROVE  Abstract!RemoveBlock(b) \/ UNCHANGED Abstract!vars
  BY <1>2, RemovalDrops
  DEF RemoveBlock, exists, Abstract!RemoveBlock, Abstract!vars, Abstract!Idle, Idle
<1>3. CASE EvictBlock
  <2>1. CASE lru_block_list_ = <<>>
    BY <1>3, <2>1 DEF EvictBlock, evict_block, state, Abstract!vars
  <2>2. CASE lru_block_list_ # <<>>
    <3> DEFINE b == lru_block_list_[Len(lru_block_list_)]
    <3>1. b \in Block /\ exists(b)
      BY <2>2, LastIsResident
    <3>2. cache_map_' = Drop(cache_map_, b)
      BY <1>3, <2>2, <3>1, RemovalDrops DEF EvictBlock, evict_block
    <3>3. Abstract!RemoveBlock(b)
      BY <1>3, <3>1, <3>2
      DEF EvictBlock, exists, Abstract!RemoveBlock, Abstract!Idle, Idle
    <3> QED BY <3>1, <3>3 DEF Abstract!Next
  <2> QED BY <2>1, <2>2
<1>4. ASSUME NEW b \in Block, NEW s \in Size, InsertTooBig(b, s)
      PROVE  Abstract!InsertTooBig(b, s)
  BY <1>4 DEF InsertTooBig, Abstract!InsertTooBig, Abstract!Idle, Idle,
              Abstract!Exited, Exited, state
<1>5. ASSUME NEW b \in Block, NEW s \in Size, InsertNew(b, s)
      PROVE  Abstract!InsertNew(b, s)
  BY <1>5 DEF InsertNew, Abstract!InsertNew, Abstract!Idle, Idle, exists,
              Abstract!Inserting, Inserting, state
<1>6. ASSUME NEW f \in File, RemoveFileBlocks(f)
      PROVE  Abstract!RemoveFileBlocks(f)
  BY <1>6 DEF RemoveFileBlocks, Abstract!RemoveFileBlocks, Abstract!Idle, Idle,
              Abstract!Purging, Purging, state
<1>7. CASE EvictForInsert
  <2> DEFINE b == lru_block_list_[Len(lru_block_list_)]
  <2>1. lru_block_list_ # <<>>
    BY <1>7, VictimExists DEF EvictForInsert, EvictionFindsVictim
  <2>2. b \in Block /\ exists(b)
    BY <2>1, LastIsResident
  <2>3. cache_map_' = Drop(cache_map_, b)
    BY <1>7, <2>1, <2>2, RemovalDrops DEF EvictForInsert, evict_block
  <2>4. ~ Abstract!Fits(call.size)
    BY <1>7, FitsAsPromised DEF EvictForInsert
  <2>5. Abstract!Evict(b)
    BY <1>7, <2>2, <2>3, <2>4 DEF EvictForInsert, exists, Abstract!Evict
  <2> QED BY <2>2, <2>5 DEF Abstract!Next
<1>8. CASE Admit
  <2>1. Abstract!Fits(call.size)
    BY <1>8, FitsAsPromised DEF Admit
  <2>2. Abstract!Admit
    BY <1>8, <2>1 DEF Admit, Abstract!Admit, Abstract!Idle, Idle
  <2> QED BY <2>2 DEF Abstract!Next
<1>9. CASE PassNode
  BY <1>9 DEF PassNode, state, Abstract!vars
<1>10. CASE PurgeNode
  <2> DEFINE b == lru_block_list_[call.it]
  <2>1. call \in [op : {"remove_file"}, file : File, it : Nat \ {0}]
    BY <1>10 DEF PurgeNode, IInv, CallInv, Call, Idle, Exited
  <2>2. call.it \in 1 .. Len(lru_block_list_)
    BY <1>10, <2>1, LenProperties DEF PurgeNode, IInv, StateInv, StateTypeOK
  <2>3. b \in Block /\ b \in DOMAIN cache_map_
    BY <2>2 DEF IInv, StateInv, StateTypeOK, ListMatchesMap, Elements
  <2>4. Abstract!PurgeOne(b)
    BY <1>10, <2>3 DEF PurgeNode, EraseNode, Abstract!PurgeOne
  <2> QED BY <2>3, <2>4 DEF Abstract!Next
<1>11. CASE PurgeReturn
  <2>1. call \in [op : {"remove_file"}, file : File, it : Nat \ {0}]
    BY <1>11 DEF PurgeReturn, IInv, CallInv, Call, Idle, Exited
  <2>2. \A b \in DOMAIN cache_map_ : FileOf[b] # call.file
    <3> SUFFICES ASSUME NEW i \in 1 .. Len(lru_block_list_)
                 PROVE  FileOf[lru_block_list_[i]] # call.file
      BY DEF IInv, StateInv, ListMatchesMap, Elements
    <3>1. i \in 1 .. call.it - 1
      BY <1>11, <2>1, LenProperties DEF PurgeReturn, IInv, StateInv, StateTypeOK
    <3> QED BY <2>1, <3>1 DEF IInv, CallInv, PurgedBehindIterator
  <2>3. Abstract!PurgeReturn
    BY <1>11, <2>2 DEF PurgeReturn, Abstract!PurgeReturn, Abstract!Idle, Idle, state
  <2> QED BY <2>3 DEF Abstract!Next
<1>12. CASE UNCHANGED vars
  BY <1>12 DEF vars, state, Abstract!vars
<1> QED
  BY <1>1, <1>2, <1>3, <1>4, <1>5, <1>6, <1>7, <1>8, <1>9, <1>10, <1>11, <1>12
  DEF Next, Continue, Abstract!Next

\* LRUCache is a Cache: it evicts only while the new block does not fit, and
\* remove_file_blocks returns only when the file is gone.
THEOREM Refinement == Spec => ImplementsCache
<1>1. Init => Abstract!Init
  BY DEF Init, Abstract!Init, AbstractCall, Abstract!Idle, Idle
<1> QED BY <1>1, StepImplements, Invariant, PTL DEF Spec, ImplementsCache, Abstract!Spec

(***************************************************************************)
(* The list that the call in progress comes to, if it evicts nothing more. *)
(* This is what compares a cache with another or with its trace.           *)
(***************************************************************************)
OfFile(f) == {b \in Block : FileOf[b] = f}

Future ==
    CASE call.op = "insert" -> <<call.block>> \o lru_block_list_
      [] call.op = "remove_file" -> Without(lru_block_list_, OfFile(call.file))
      [] OTHER -> lru_block_list_

\* A cache for which z is the size of each block.
Sized(z) ==
    /\ \A b \in DOMAIN cache_map_ : cache_map_[b] = z[b]
    /\ call.op = "insert" => call.size = z[call.block]

LEMMA FutureTyped == IInv => lru_block_list_ \in Seq(Block) /\ Future \in Seq(Block)
<1> SUFFICES ASSUME IInv PROVE lru_block_list_ \in Seq(Block) /\ Future \in Seq(Block)
  OBVIOUS
<1>1. lru_block_list_ \in Seq(Block)
  BY DEF IInv, StateInv, StateTypeOK
<1>2. CASE call.op = "insert"
  <2>1. call.block \in Block
    BY <1>2, InsertArguments
  <2> QED BY <1>1, <1>2, <2>1 DEF Future
<1>3. CASE call.op = "remove_file"
  BY <1>1, <1>3, WithoutTyped DEF Future
<1>4. CASE call.op # "insert" /\ call.op # "remove_file"
  BY <1>1, <1>4 DEF Future
<1> QED BY <1>1, <1>2, <1>3, <1>4

\* An access moves its block to the front, or will.
LEMMA AccessFuture ==
    ASSUME IInv, NEW b \in Block, NEW s \in Size,
           (exists(b) /\ RecordAccess(b)) \/ InsertNew(b, s)
    PROVE  Future = lru_block_list_ /\ Future' = <<b>> \o Without(Future, {b})
<1>0. lru_block_list_ \in Seq(Block) /\ Future = lru_block_list_
  <2>1. call = Idle
    BY DEF RecordAccess, InsertNew
  <2>2. Future = lru_block_list_
    BY <2>1 DEF Future, Idle
  <2> QED BY <2>2, FutureTyped
<1>1. CASE exists(b) /\ RecordAccess(b)
  <2>1. Position(b) \in 1 .. Len(lru_block_list_) /\ lru_block_list_[Position(b)] = b
    BY <1>1, PositionFinds DEF IInv, StateInv, exists
  <2>2. Erase(lru_block_list_, Position(b)) = Without(lru_block_list_, {b})
    BY <1>0, <2>1, ErasedIsWithout DEF IInv, StateInv, ListMatchesMap
  <2>3. lru_block_list_' = <<b>> \o Without(lru_block_list_, {b}) /\ call' = Idle
    BY <1>1, <2>2 DEF RecordAccess, record_access
  <2>4. Future' = lru_block_list_'
    BY <2>3 DEF Future, Idle
  <2> QED BY <1>0, <2>3, <2>4
<1>2. CASE InsertNew(b, s)
  <2>1. call' = [op |-> "insert", block |-> b, size |-> s] /\ lru_block_list_' = lru_block_list_
    BY <1>2 DEF InsertNew, Inserting, state
  <2>2. \A i \in 1 .. Len(lru_block_list_) : lru_block_list_[i] \notin {b}
    BY <1>2 DEF InsertNew, exists, IInv, StateInv, ListMatchesMap, Elements
  <2>3. Without(lru_block_list_, {b}) = lru_block_list_
    BY <1>0, <2>2, WithoutNone
  <2>4. Future' = <<b>> \o lru_block_list_
    BY <2>1 DEF Future
  <2> QED BY <1>0, <2>3, <2>4
<1> QED BY <1>1, <1>2

\* A kFileDelete record takes the file's blocks out, or will.
LEMMA RemoveFileFuture ==
    ASSUME IInv, NEW f \in File, RemoveFileBlocks(f)
    PROVE  Future = lru_block_list_ /\ Future' = Without(Future, OfFile(f))
<1>1. Future = lru_block_list_
  BY DEF Future, RemoveFileBlocks, Idle
<1>2. call' = [op |-> "remove_file", file |-> f, it |-> 1] /\ lru_block_list_' = lru_block_list_
  BY DEF RemoveFileBlocks, Purging, state
<1> QED BY <1>1, <1>2 DEF Future, OfFile

\* Evicting takes the last block of the list away.
LEMMA EvictFuture ==
    ASSUME IInv, EvictForInsert
    PROVE  /\ Len(Future) = Len(lru_block_list_) + 1
           /\ Len(Future') = Len(lru_block_list_)
           /\ Begins(Future', Future)
<1>1. /\ lru_block_list_ \in Seq(Block) /\ Len(lru_block_list_) \in Nat
      /\ lru_block_list_ # <<>>
  BY FutureTyped, LenProperties, VictimExists DEF EvictForInsert, EvictionFindsVictim
<1>2. PICK b, n : b = lru_block_list_[Len(lru_block_list_)] /\ n = Len(lru_block_list_)
  OBVIOUS
<1>3. b \in Block /\ exists(b) /\ n \in 1 .. n /\ n \in Nat
  <2>1. b \in Block /\ exists(b)
    BY <1>1, <1>2, LastIsResident
  <2>2. n \in Nat /\ n # 0
    BY <1>1, <1>2, EmptySeq
  <2> QED BY <2>1, <2>2
<1>4. Position(b) \in 1 .. n /\ lru_block_list_[Position(b)] = b
  BY <1>2, <1>3, PositionFinds DEF IInv, StateInv, exists
<1>5. Position(b) = n
  BY <1>2, <1>3, <1>4 DEF IInv, StateInv, ListMatchesMap, NoRepeat
<1>6. lru_block_list_' = Erase(lru_block_list_, n)
  BY <1>1, <1>2, <1>3, <1>5 DEF EvictForInsert, evict_block, remove_block, EraseNode
<1>7. /\ lru_block_list_' \in Seq(Block) /\ Len(lru_block_list_') = n - 1
      /\ \A j \in 1 .. n - 1 : lru_block_list_'[j] = lru_block_list_[j]
  BY <1>1, <1>2, <1>3, <1>6, EraseElements
<1>8. Begins(lru_block_list_', lru_block_list_)
  BY <1>2, <1>3, <1>7 DEF Begins
<1>9. call.op = "insert" /\ call' = call /\ call.block \in Block
  BY InsertArguments DEF EvictForInsert
<1>10. Future = <<call.block>> \o lru_block_list_ /\ Future' = <<call.block>> \o lru_block_list_'
  BY <1>9 DEF Future
<1>11. Begins(Future', Future)
  BY <1>1, <1>7, <1>8, <1>9, <1>10, FrontBegins
<1> QED BY <1>1, <1>2, <1>3, <1>7, <1>9, <1>10, <1>11

\* Nothing else in a call changes what it comes to.
LEMMA ContinueFuture ==
    ASSUME IInv, Admit \/ PassNode \/ PurgeNode \/ PurgeReturn
    PROVE  Future' = Future
<1>0. lru_block_list_ \in Seq(Block) /\ Len(lru_block_list_) \in Nat
  BY FutureTyped, LenProperties
<1>1. CASE Admit
  BY <1>1 DEF Admit, Future, Idle
<1>2. CASE PassNode
  <2>1. call \in [op : {"remove_file"}, file : File, it : Nat \ {0}]
    BY <1>2 DEF PassNode, IInv, CallInv, Call, Idle, Exited
  <2>2. call'.op = "remove_file" /\ call'.file = call.file /\ lru_block_list_' = lru_block_list_
    BY <1>2, <2>1 DEF PassNode, state
  <2> QED BY <2>1, <2>2 DEF Future, OfFile
<1>3. CASE PurgeNode
  <2>1. call \in [op : {"remove_file"}, file : File, it : Nat \ {0}]
    BY <1>3 DEF PurgeNode, IInv, CallInv, Call, Idle, Exited
  <2>2. /\ call.it \in 1 .. Len(lru_block_list_) /\ call' = call
        /\ lru_block_list_' = Erase(lru_block_list_, call.it)
        /\ FileOf[lru_block_list_[call.it]] = call.file
    BY <1>0, <1>3, <2>1 DEF PurgeNode, EraseNode
  <2>3. lru_block_list_[call.it] \in OfFile(call.file)
    BY <1>0, <2>2, ElementOfSeq DEF OfFile
  <2>4. Without(lru_block_list_', OfFile(call.file)) = Without(lru_block_list_, OfFile(call.file))
    BY <1>0, <2>2, <2>3, WithoutErased
  <2> QED BY <2>1, <2>2, <2>4 DEF Future, OfFile
<1>4. CASE PurgeReturn
  <2>1. call \in [op : {"remove_file"}, file : File, it : Nat \ {0}]
    BY <1>4 DEF PurgeReturn, IInv, CallInv, Call, Idle, Exited
  <2>2. \A i \in 1 .. Len(lru_block_list_) : i \in 1 .. call.it - 1
    BY <1>0, <1>4, <2>1 DEF PurgeReturn
  <2>3. \A i \in 1 .. Len(lru_block_list_) : lru_block_list_[i] \notin OfFile(call.file)
    BY <2>1, <2>2 DEF IInv, CallInv, PurgedBehindIterator, OfFile
  <2>4. Without(lru_block_list_, OfFile(call.file)) = lru_block_list_
    BY <1>0, <2>3, WithoutNone
  <2>5. call' = Idle /\ lru_block_list_' = lru_block_list_
    BY <1>4 DEF PurgeReturn, state
  <2> QED BY <2>1, <2>4, <2>5 DEF Future, Idle
<1> QED BY <1>1, <1>2, <1>3, <1>4

\* A call keeps the sizes of the blocks.
LEMMA ContinueSized ==
    ASSUME IInv, NEW z, Sized(z), Continue
    PROVE  Sized(z)'
<1>1. CASE EvictForInsert
  BY <1>1 DEF EvictForInsert, evict_block, remove_block, EraseNode, Drop, state, Sized
<1>2. CASE Admit
  BY <1>2 DEF Admit, Add, Idle, Sized
<1>3. CASE PassNode \/ PurgeReturn
  <2>1. call.op # "insert" /\ call'.op # "insert" /\ cache_map_' = cache_map_
    BY <1>3 DEF PassNode, PurgeReturn, state, Idle, IInv, CallInv, Call, Exited
  <2> QED BY <2>1 DEF Sized
<1>4. CASE PurgeNode
  BY <1>4 DEF PurgeNode, EraseNode, Drop, Sized
<1> QED BY <1>1, <1>2, <1>3, <1>4 DEF Continue

\* What an eviction says of the sizes: the block being inserted does not fit.
LEMMA EvictMeansFull ==
    ASSUME IInv, EvictForInsert
    PROVE  /\ call.block \notin DOMAIN cache_map_ /\ call.size \in Nat
           /\ IsFiniteSet(Bytes(cache_map_)) /\ TotalSize(cache_map_) \in Nat
           /\ TotalSize(Add(cache_map_, call.block, call.size)) > MaxSize
<1>1. /\ call.op = "insert" /\ call.block \notin DOMAIN cache_map_
      /\ call.size \in Nat
  BY InsertArguments DEF EvictForInsert
<1>2. IsFiniteSet(Bytes(cache_map_)) /\ curr_size_ = TotalSize(cache_map_) /\ curr_size_ <= MaxSize
  BY DEF IInv, StateInv, Accounting
<1>3. /\ TotalSize(cache_map_) \in Nat
      /\ TotalSize(Add(cache_map_, call.block, call.size)) = TotalSize(cache_map_) + call.size
  BY <1>1, <1>2, AddBytes
<1> QED BY <1>1, <1>2, <1>3, LRUAssumption DEF EvictForInsert, DoesNotFit, Minus
=============================================================================
