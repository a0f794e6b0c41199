--------------------------- MODULE LRUStackProofs ---------------------------
(***************************************************************************)
(* LRU is a stack algorithm, for every trace, every size of every block    *)
(* and any two capacities.                                                 *)
(***************************************************************************)
EXTENDS LRUStack, ContainerTheorems

\* Each cache by itself is an LRUCache, and what is proved of that holds of it.
SmallProofs == INSTANCE LRUCacheProofs WITH
    Size <- {SizeOf[b] : b \in Block}, MaxSize <- SmallSize,
    lru_block_list_ <- s_list, cache_map_ <- s_map, curr_size_ <- s_size,
    block_count_ <- s_count, call <- s_call

BigProofs == INSTANCE LRUCacheProofs WITH
    Size <- {SizeOf[b] : b \in Block}, MaxSize <- BigSize,
    lru_block_list_ <- b_list, cache_map_ <- b_map, curr_size_ <- b_size,
    block_count_ <- b_count, call <- b_call

LEMMA Assumptions == SmallProofs!LRUAssumption /\ BigProofs!LRUAssumption
BY StackAssumption
DEF SmallProofs!LRUAssumption, SmallProofs!IsFiniteSet, SmallProofs!Cardinality,
    BigProofs!LRUAssumption, BigProofs!IsFiniteSet, BigProofs!Cardinality,
    IsFiniteSet, Cardinality

(***************************************************************************)
(* The inductive invariant: in the middle of a call a cache is compared by *)
(* the list it would come to if it evicted nothing more.                   *)
(***************************************************************************)
InOneStack ==
    /\ Begins(SmallProofs!Future, BigProofs!Future)
    /\ Begins(BigProofs!Future, recency)

IInv ==
    /\ SmallProofs!IInv /\ BigProofs!IInv
    /\ SmallProofs!Sized(SizeOf) /\ BigProofs!Sized(SizeOf)
    /\ recency \in Seq(Block)
    /\ InOneStack

(***************************************************************************)
(* The definitions that the two instances share with this module.          *)
(***************************************************************************)
LEMMA SameWithout ==
    \A s, T : SmallProofs!Without(s, T) = Without(s, T) /\ BigProofs!Without(s, T) = Without(s, T)
BY DEF SmallProofs!Without, SmallProofs!Kept, SmallProofs!Cardinality,
       BigProofs!Without, BigProofs!Kept, BigProofs!Cardinality, Without, Kept, Cardinality

LEMMA SameBegins ==
    \A s, t : (SmallProofs!Begins(s, t) <=> Begins(s, t)) /\ (BigProofs!Begins(s, t) <=> Begins(s, t))
BY DEF SmallProofs!Begins, BigProofs!Begins, Begins

LEMMA SameSmall ==
    /\ Small!Idle = SmallProofs!Idle
    /\ \A b \in Block :
          /\ Small!exists(b) <=> SmallProofs!exists(b)
          /\ Small!RecordAccess(b) <=> SmallProofs!RecordAccess(b)
          /\ Small!InsertNew(b, SizeOf[b]) <=> SmallProofs!InsertNew(b, SizeOf[b])
    /\ \A f \in File : Small!RemoveFileBlocks(f) <=> SmallProofs!RemoveFileBlocks(f)
    /\ Small!Continue <=> SmallProofs!Continue
BY DEF Small!RecordAccess, SmallProofs!RecordAccess, Small!InsertNew,
    SmallProofs!InsertNew, Small!RemoveFileBlocks,
    SmallProofs!RemoveFileBlocks, Small!EvictForInsert,
    SmallProofs!EvictForInsert, Small!Admit, SmallProofs!Admit,
    Small!PassNode, SmallProofs!PassNode, Small!PurgeNode,
    SmallProofs!PurgeNode, Small!PurgeReturn, SmallProofs!PurgeReturn,
    Small!Continue, SmallProofs!Continue, Small!record_access,
    SmallProofs!record_access, Small!exists, SmallProofs!exists,
    Small!Position, SmallProofs!Position, Small!Erase, SmallProofs!Erase,
    Small!Idle, SmallProofs!Idle, Small!Inserting, SmallProofs!Inserting,
    Small!Purging, SmallProofs!Purging, Small!state, SmallProofs!state,
    Small!DoesNotFit, SmallProofs!DoesNotFit, Small!Minus, SmallProofs!Minus,
    Small!Plus, SmallProofs!Plus, Small!Add, SmallProofs!Add, Small!Drop,
    SmallProofs!Drop, Small!evict_block, SmallProofs!evict_block,
    Small!remove_block, SmallProofs!remove_block, Small!EraseNode,
    SmallProofs!EraseNode

LEMMA SameBig ==
    /\ Big!Idle = BigProofs!Idle
    /\ \A b \in Block :
          /\ Big!exists(b) <=> BigProofs!exists(b)
          /\ Big!RecordAccess(b) <=> BigProofs!RecordAccess(b)
          /\ Big!InsertNew(b, SizeOf[b]) <=> BigProofs!InsertNew(b, SizeOf[b])
    /\ \A f \in File : Big!RemoveFileBlocks(f) <=> BigProofs!RemoveFileBlocks(f)
    /\ Big!Continue <=> BigProofs!Continue
BY DEF Big!RecordAccess, BigProofs!RecordAccess, Big!InsertNew,
    BigProofs!InsertNew, Big!RemoveFileBlocks, BigProofs!RemoveFileBlocks,
    Big!EvictForInsert, BigProofs!EvictForInsert, Big!Admit, BigProofs!Admit,
    Big!PassNode, BigProofs!PassNode, Big!PurgeNode, BigProofs!PurgeNode,
    Big!PurgeReturn, BigProofs!PurgeReturn, Big!Continue, BigProofs!Continue,
    Big!record_access, BigProofs!record_access, Big!exists, BigProofs!exists,
    Big!Position, BigProofs!Position, Big!Erase, BigProofs!Erase, Big!Idle,
    BigProofs!Idle, Big!Inserting, BigProofs!Inserting, Big!Purging,
    BigProofs!Purging, Big!state, BigProofs!state, Big!DoesNotFit,
    BigProofs!DoesNotFit, Big!Minus, BigProofs!Minus, Big!Plus,
    BigProofs!Plus, Big!Add, BigProofs!Add, Big!Drop, BigProofs!Drop,
    Big!evict_block, BigProofs!evict_block, Big!remove_block,
    BigProofs!remove_block, Big!EraseNode, BigProofs!EraseNode

(***************************************************************************)
(* What a step does to the smaller cache.                                 *)
(***************************************************************************)
LEMMA SmallAccesses ==
    ASSUME SmallProofs!IInv, SmallProofs!Sized(SizeOf), NEW b \in Block,
           IF Small!exists(b) THEN Small!RecordAccess(b) ELSE Small!InsertNew(b, SizeOf[b])
    PROVE  /\ SmallProofs!IInv' /\ SmallProofs!Sized(SizeOf)'
           /\ SmallProofs!Future \in Seq(Block)
           /\ SmallProofs!Future' = <<b>> \o Without(SmallProofs!Future, {b})
<1>0. SizeOf[b] \in {SizeOf[x] : x \in Block}
  OBVIOUS
<1>1. (SmallProofs!exists(b) /\ SmallProofs!RecordAccess(b)) \/ SmallProofs!InsertNew(b, SizeOf[b])
  BY SameSmall
<1>2. SmallProofs!Next
  BY <1>0, <1>1 DEF SmallProofs!Next
<1>3. SmallProofs!IInv'
  BY <1>2, Assumptions, SmallProofs!InvStep
<1>4. SmallProofs!Future' = <<b>> \o Without(SmallProofs!Future, {b})
  <2>1. SmallProofs!Future' = <<b>> \o SmallProofs!Without(SmallProofs!Future, {b})
    BY <1>0, <1>1, Assumptions, SmallProofs!AccessFuture
  <2> QED BY <2>1, SameWithout
<1>5. SmallProofs!Sized(SizeOf)'
  <2>1. CASE SmallProofs!RecordAccess(b)
    BY <2>1 DEF SmallProofs!RecordAccess, SmallProofs!record_access, SmallProofs!Sized
  <2>2. CASE SmallProofs!InsertNew(b, SizeOf[b])
    BY <2>2 DEF SmallProofs!InsertNew, SmallProofs!Inserting, SmallProofs!state, SmallProofs!Sized
  <2> QED BY <1>1, <2>1, <2>2
<1>6. SmallProofs!Future \in Seq(Block)
  BY Assumptions, SmallProofs!FutureTyped
<1> QED BY <1>3, <1>4, <1>5, <1>6

LEMMA SmallRemovesFile ==
    ASSUME SmallProofs!IInv, SmallProofs!Sized(SizeOf), NEW f \in File, Small!RemoveFileBlocks(f)
    PROVE  /\ SmallProofs!IInv' /\ SmallProofs!Sized(SizeOf)'
           /\ SmallProofs!Future \in Seq(Block)
           /\ SmallProofs!Future' = Without(SmallProofs!Future, {b \in Block : FileOf[b] = f})
<1>1. SmallProofs!RemoveFileBlocks(f)
  BY SameSmall
<1>2. SmallProofs!Next
  BY <1>1 DEF SmallProofs!Next
<1>3. SmallProofs!IInv'
  BY <1>2, Assumptions, SmallProofs!InvStep
<1>4. SmallProofs!Future' = Without(SmallProofs!Future, {b \in Block : FileOf[b] = f})
  <2>1. SmallProofs!Future' = SmallProofs!Without(SmallProofs!Future, SmallProofs!OfFile(f))
    BY <1>1, Assumptions, SmallProofs!RemoveFileFuture
  <2> QED BY <2>1, SameWithout DEF SmallProofs!OfFile
<1>5. SmallProofs!Sized(SizeOf)'
  BY <1>1 DEF SmallProofs!RemoveFileBlocks, SmallProofs!Purging, SmallProofs!state, SmallProofs!Sized
<1>6. SmallProofs!Future \in Seq(Block)
  BY Assumptions, SmallProofs!FutureTyped
<1> QED BY <1>3, <1>4, <1>5, <1>6

LEMMA SmallGoes ==
    ASSUME SmallProofs!IInv, SmallProofs!Sized(SizeOf), Small!Continue
    PROVE  /\ SmallProofs!IInv' /\ SmallProofs!Sized(SizeOf)'
           /\ SmallProofs!Future' = SmallProofs!Future
              \/ /\ SmallProofs!EvictForInsert
                 /\ Begins(SmallProofs!Future', SmallProofs!Future)
                 /\ Len(SmallProofs!Future) = Len(s_list) + 1
                 /\ Len(SmallProofs!Future') = Len(s_list)
<1>1. SmallProofs!Continue
  BY SameSmall
<1>2. SmallProofs!Next
  BY <1>1 DEF SmallProofs!Next
<1>3. SmallProofs!IInv'
  BY <1>2, Assumptions, SmallProofs!InvStep
<1>4. SmallProofs!Sized(SizeOf)'
  BY <1>1, Assumptions, SmallProofs!ContinueSized
<1>5. CASE SmallProofs!EvictForInsert
  BY <1>3, <1>4, <1>5, Assumptions, SmallProofs!EvictFuture, SameBegins
<1>6. CASE ~ SmallProofs!EvictForInsert
  <2>1. SmallProofs!Future' = SmallProofs!Future
    BY <1>1, <1>6, Assumptions, SmallProofs!ContinueFuture DEF SmallProofs!Continue
  <2> QED BY <1>3, <1>4, <2>1
<1> QED BY <1>5, <1>6

LEMMA SmallStays ==
    ASSUME SmallProofs!IInv, SmallProofs!Sized(SizeOf), UNCHANGED smallVars
    PROVE  /\ SmallProofs!IInv' /\ SmallProofs!Sized(SizeOf)'
           /\ SmallProofs!Future' = SmallProofs!Future
<1>1. UNCHANGED SmallProofs!vars
  BY DEF smallVars, SmallProofs!vars, SmallProofs!state
<1>2. SmallProofs!IInv'
  BY <1>1, Assumptions, SmallProofs!InvStep
<1>3. SmallProofs!Sized(SizeOf)' /\ SmallProofs!Future' = SmallProofs!Future
  BY DEF smallVars, SmallProofs!Sized, SmallProofs!Future, SmallProofs!OfFile, SmallProofs!Without, SmallProofs!Kept, SmallProofs!Cardinality
<1> QED BY <1>2, <1>3

(***************************************************************************)
(* What a step does to the bigger  cache.                                 *)
(***************************************************************************)
LEMMA BigAccesses ==
    ASSUME BigProofs!IInv, BigProofs!Sized(SizeOf), NEW b \in Block,
           IF Big!exists(b) THEN Big!RecordAccess(b) ELSE Big!InsertNew(b, SizeOf[b])
    PROVE  /\ BigProofs!IInv' /\ BigProofs!Sized(SizeOf)'
           /\ BigProofs!Future \in Seq(Block)
           /\ BigProofs!Future' = <<b>> \o Without(BigProofs!Future, {b})
<1>0. SizeOf[b] \in {SizeOf[x] : x \in Block}
  OBVIOUS
<1>1. (BigProofs!exists(b) /\ BigProofs!RecordAccess(b)) \/ BigProofs!InsertNew(b, SizeOf[b])
  BY SameBig
<1>2. BigProofs!Next
  BY <1>0, <1>1 DEF BigProofs!Next
<1>3. BigProofs!IInv'
  BY <1>2, Assumptions, BigProofs!InvStep
<1>4. BigProofs!Future' = <<b>> \o Without(BigProofs!Future, {b})
  <2>1. BigProofs!Future' = <<b>> \o BigProofs!Without(BigProofs!Future, {b})
    BY <1>0, <1>1, Assumptions, BigProofs!AccessFuture
  <2> QED BY <2>1, SameWithout
<1>5. BigProofs!Sized(SizeOf)'
  <2>1. CASE BigProofs!RecordAccess(b)
    BY <2>1 DEF BigProofs!RecordAccess, BigProofs!record_access, BigProofs!Sized
  <2>2. CASE BigProofs!InsertNew(b, SizeOf[b])
    BY <2>2 DEF BigProofs!InsertNew, BigProofs!Inserting, BigProofs!state, BigProofs!Sized
  <2> QED BY <1>1, <2>1, <2>2
<1>6. BigProofs!Future \in Seq(Block)
  BY Assumptions, BigProofs!FutureTyped
<1> QED BY <1>3, <1>4, <1>5, <1>6

LEMMA BigRemovesFile ==
    ASSUME BigProofs!IInv, BigProofs!Sized(SizeOf), NEW f \in File, Big!RemoveFileBlocks(f)
    PROVE  /\ BigProofs!IInv' /\ BigProofs!Sized(SizeOf)'
           /\ BigProofs!Future \in Seq(Block)
           /\ BigProofs!Future' = Without(BigProofs!Future, {b \in Block : FileOf[b] = f})
<1>1. BigProofs!RemoveFileBlocks(f)
  BY SameBig
<1>2. BigProofs!Next
  BY <1>1 DEF BigProofs!Next
<1>3. BigProofs!IInv'
  BY <1>2, Assumptions, BigProofs!InvStep
<1>4. BigProofs!Future' = Without(BigProofs!Future, {b \in Block : FileOf[b] = f})
  <2>1. BigProofs!Future' = BigProofs!Without(BigProofs!Future, BigProofs!OfFile(f))
    BY <1>1, Assumptions, BigProofs!RemoveFileFuture
  <2> QED BY <2>1, SameWithout DEF BigProofs!OfFile
<1>5. BigProofs!Sized(SizeOf)'
  BY <1>1 DEF BigProofs!RemoveFileBlocks, BigProofs!Purging, BigProofs!state, BigProofs!Sized
<1>6. BigProofs!Future \in Seq(Block)
  BY Assumptions, BigProofs!FutureTyped
<1> QED BY <1>3, <1>4, <1>5, <1>6

LEMMA BigGoes ==
    ASSUME BigProofs!IInv, BigProofs!Sized(SizeOf), Big!Continue
    PROVE  /\ BigProofs!IInv' /\ BigProofs!Sized(SizeOf)'
           /\ BigProofs!Future' = BigProofs!Future
              \/ /\ BigProofs!EvictForInsert
                 /\ Begins(BigProofs!Future', BigProofs!Future)
                 /\ Len(BigProofs!Future) = Len(b_list) + 1
                 /\ Len(BigProofs!Future') = Len(b_list)
<1>1. BigProofs!Continue
  BY SameBig
<1>2. BigProofs!Next
  BY <1>1 DEF BigProofs!Next
<1>3. BigProofs!IInv'
  BY <1>2, Assumptions, BigProofs!InvStep
<1>4. BigProofs!Sized(SizeOf)'
  BY <1>1, Assumptions, BigProofs!ContinueSized
<1>5. CASE BigProofs!EvictForInsert
  BY <1>3, <1>4, <1>5, Assumptions, BigProofs!EvictFuture, SameBegins
<1>6. CASE ~ BigProofs!EvictForInsert
  <2>1. BigProofs!Future' = BigProofs!Future
    BY <1>1, <1>6, Assumptions, BigProofs!ContinueFuture DEF BigProofs!Continue
  <2> QED BY <1>3, <1>4, <2>1
<1> QED BY <1>5, <1>6

LEMMA BigStays ==
    ASSUME BigProofs!IInv, BigProofs!Sized(SizeOf), UNCHANGED bigVars
    PROVE  /\ BigProofs!IInv' /\ BigProofs!Sized(SizeOf)'
           /\ BigProofs!Future' = BigProofs!Future
<1>1. UNCHANGED BigProofs!vars
  BY DEF bigVars, BigProofs!vars, BigProofs!state
<1>2. BigProofs!IInv'
  BY <1>1, Assumptions, BigProofs!InvStep
<1>3. BigProofs!Sized(SizeOf)' /\ BigProofs!Future' = BigProofs!Future
  BY DEF bigVars, BigProofs!Sized, BigProofs!Future, BigProofs!OfFile, BigProofs!Without, BigProofs!Kept, BigProofs!Cardinality
<1> QED BY <1>2, <1>3

(***************************************************************************)
(* The bigger cache evicts nothing that the smaller one holds.             *)
(***************************************************************************)
LEMMA SameSize ==
    \A m, b, s : /\ BigProofs!TotalSize(m) = TotalSize(m) /\ SmallProofs!TotalSize(m) = TotalSize(m)
                 /\ BigProofs!Add(m, b, s) = Add(m, b, s)
BY DEF SmallProofs!TotalSize, SmallProofs!Bytes, SmallProofs!Cardinality, BigProofs!TotalSize,
       BigProofs!Bytes, BigProofs!Cardinality, BigProofs!Add, TotalSize, Bytes, Cardinality, Add

\* With the block being inserted the bigger cache would hold more bytes than
\* the smaller one has room for, so the smaller does not hold all of that.
LEMMA SmallerHoldsLess ==
    ASSUME IInv, s_call = Small!Idle, BigProofs!EvictForInsert
    PROVE  Len(s_list) <= Len(b_list)
<1>1. PICK x : x = b_call.block
  OBVIOUS
<1>2. /\ b_call.op = "insert" /\ x \in Block /\ x \notin DOMAIN b_map
      /\ b_call.size = SizeOf[x]
  BY <1>1, Assumptions, BigProofs!InsertArguments
  DEF IInv, BigProofs!Sized, BigProofs!EvictForInsert
<1>3. TotalSize(Add(b_map, x, SizeOf[x])) > BigSize
  BY <1>1, <1>2, Assumptions, BigProofs!EvictMeansFull, SameSize DEF IInv
<1>4. TotalSize(s_map) = s_size /\ s_size <= SmallSize /\ s_size \in Nat
  BY SameSize, StackAssumption DEF IInv, SmallProofs!IInv, SmallProofs!StateInv, SmallProofs!Accounting,
      SmallProofs!StateTypeOK
<1>5. s_map # Add(b_map, x, SizeOf[x])
  BY <1>3, <1>4, StackAssumption
<1>6. /\ s_list \in Seq(Block) /\ Len(s_list) \in Nat
      /\ b_list \in Seq(Block) /\ Len(b_list) \in Nat
      /\ NoRepeat(b_list)
      /\ DOMAIN s_map = Elements(s_list) /\ DOMAIN b_map = Elements(b_list)
      /\ s_map = [b \in DOMAIN s_map |-> s_map[b]]
      /\ b_map = [b \in DOMAIN b_map |-> b_map[b]]
  <2>1. s_list \in Seq(Block) /\ b_list \in Seq(Block)
    BY Assumptions, SmallProofs!FutureTyped, BigProofs!FutureTyped DEF IInv
  <2>2. DOMAIN s_map = Elements(s_list) /\ DOMAIN b_map = Elements(b_list) /\ NoRepeat(b_list)
    BY DEF IInv, SmallProofs!IInv, SmallProofs!StateInv, SmallProofs!ListMatchesMap,
        SmallProofs!Elements, BigProofs!IInv, BigProofs!StateInv, BigProofs!ListMatchesMap,
        BigProofs!Elements, BigProofs!NoRepeat, Elements, NoRepeat
  <2>3. /\ s_map = [b \in DOMAIN s_map |-> s_map[b]]
        /\ b_map = [b \in DOMAIN b_map |-> b_map[b]]
    BY DEF IInv, SmallProofs!IInv, SmallProofs!StateInv, SmallProofs!StateTypeOK,
        BigProofs!IInv, BigProofs!StateInv, BigProofs!StateTypeOK
  <2> QED BY <2>1, <2>2, <2>3, LenProperties
<1>7. PICK t : t = <<x>> \o b_list
  OBVIOUS
<1>8. /\ t \in Seq(Block) /\ Len(t) = Len(b_list) + 1
      /\ Elements(t) = Elements(b_list) \cup {x}
  BY <1>2, <1>6, <1>7, FrontElements
<1>9. Begins(s_list, t)
  <2>1. SmallProofs!Future = s_list
    BY DEF SmallProofs!Future, Small!Idle
  <2>2. BigProofs!Future = t
    BY <1>1, <1>2, <1>7 DEF BigProofs!Future
  <2> QED BY <2>1, <2>2 DEF IInv, InOneStack
<1> SUFFICES ASSUME Len(s_list) > Len(b_list) PROVE FALSE
  BY <1>6
<1>10. Len(s_list) = Len(t) /\ \A i \in 1 .. Len(s_list) : s_list[i] = t[i]
  BY <1>6, <1>8, <1>9 DEF Begins
<1>11. DOMAIN s_map = DOMAIN b_map \cup {x}
  <2>1. Elements(s_list) = Elements(t)
    BY <1>10 DEF Elements
  <2> QED BY <2>1, <1>6, <1>8
<1>12. s_map = [b \in DOMAIN b_map \cup {x} |-> SizeOf[b]]
  BY <1>6, <1>11 DEF IInv, SmallProofs!Sized
<1>13. Add(b_map, x, SizeOf[x]) = [b \in DOMAIN b_map \cup {x} |-> SizeOf[b]]
  BY <1>2 DEF Add, IInv, BigProofs!Sized
<1> QED BY <1>5, <1>12, <1>13

(***************************************************************************)
(* Every step keeps the invariant.                                         *)
(***************************************************************************)
LEMMA BeginsTransitive ==
    ASSUME NEW S, NEW s \in Seq(S), NEW t \in Seq(S), NEW u \in Seq(S), Begins(s, t), Begins(t, u)
    PROVE  Begins(s, u)
<1>1. Len(s) \in Nat /\ Len(t) \in Nat /\ Len(u) \in Nat
  BY LenProperties
<1> QED BY <1>1 DEF Begins

LEMMA FuturesTyped ==
    /\ SmallProofs!IInv => SmallProofs!Future \in Seq(Block)
    /\ BigProofs!IInv => BigProofs!Future \in Seq(Block)
BY Assumptions, SmallProofs!FutureTyped, BigProofs!FutureTyped

LEMMA FuturesTypedNext ==
    /\ SmallProofs!IInv' => SmallProofs!Future' \in Seq(Block)
    /\ BigProofs!IInv' => BigProofs!Future' \in Seq(Block)
<1> DEFINE F == /\ SmallProofs!IInv => SmallProofs!Future \in Seq(Block)
                /\ BigProofs!IInv => BigProofs!Future \in Seq(Block)
<1>1. F
  BY FuturesTyped
<1> HIDE DEF F
<1>2. F'
  BY <1>1, PTL
<1> USE DEF F
<1> QED BY <1>2

LEMMA InvInit == Init => IInv
<1> SUFFICES ASSUME Init PROVE IInv
  OBVIOUS
<1>1. SmallProofs!Init /\ BigProofs!Init
  BY DEF Init, Small!Init, Small!Idle, SmallProofs!Init, SmallProofs!Idle,
         Big!Init, Big!Idle, BigProofs!Init, BigProofs!Idle
<1>2. SmallProofs!IInv /\ BigProofs!IInv
  BY <1>1, Assumptions, SmallProofs!InvInit, BigProofs!InvInit
<1>3. /\ s_map = <<>> /\ b_map = <<>> /\ s_call.op = "none" /\ b_call.op = "none"
      /\ s_list = <<>> /\ b_list = <<>> /\ recency = <<>>
  BY DEF Init, Small!Init, Small!Idle, Big!Init, Big!Idle
<1>4. SmallProofs!Sized(SizeOf) /\ BigProofs!Sized(SizeOf)
  BY <1>3 DEF SmallProofs!Sized, BigProofs!Sized
<1>5. SmallProofs!Future = <<>> /\ BigProofs!Future = <<>>
  BY <1>3 DEF SmallProofs!Future, BigProofs!Future
<1> QED BY <1>2, <1>3, <1>4, <1>5 DEF IInv, InOneStack, Begins

LEMMA InvStep == IInv /\ [Next]_vars => IInv'
<1> SUFFICES ASSUME IInv, [Next]_vars PROVE IInv'
  OBVIOUS
<1>0. /\ SmallProofs!IInv /\ BigProofs!IInv
      /\ SmallProofs!Sized(SizeOf) /\ BigProofs!Sized(SizeOf)
      /\ recency \in Seq(Block)
      /\ Begins(SmallProofs!Future, BigProofs!Future)
      /\ Begins(BigProofs!Future, recency)
      /\ SmallProofs!Future \in Seq(Block) /\ BigProofs!Future \in Seq(Block)
  BY FuturesTyped DEF IInv, InOneStack
<1>1. ASSUME NEW b \in Block, Access(b)
      PROVE  IInv'
  <2>1. /\ SmallProofs!IInv' /\ SmallProofs!Sized(SizeOf)'
        /\ SmallProofs!Future' = <<b>> \o Without(SmallProofs!Future, {b})
    BY <1>0, <1>1, SmallAccesses DEF Access
  <2>2. /\ BigProofs!IInv' /\ BigProofs!Sized(SizeOf)'
        /\ BigProofs!Future' = <<b>> \o Without(BigProofs!Future, {b})
    BY <1>0, <1>1, BigAccesses DEF Access
  <2>3. recency' = <<b>> \o Without(recency, {b})
    BY <1>1 DEF Access
  <2>4. /\ Without(SmallProofs!Future, {b}) \in Seq(Block)
        /\ Without(BigProofs!Future, {b}) \in Seq(Block)
        /\ Without(recency, {b}) \in Seq(Block)
    BY <1>0, WithoutTyped
  <2>5. /\ Begins(Without(SmallProofs!Future, {b}), Without(BigProofs!Future, {b}))
        /\ Begins(Without(BigProofs!Future, {b}), Without(recency, {b}))
    BY <1>0, WithoutBegins
  <2>6. /\ Begins(SmallProofs!Future', BigProofs!Future')
        /\ Begins(BigProofs!Future', recency')
    BY <2>1, <2>2, <2>3, <2>4, <2>5, FrontBegins
  <2>7. recency' \in Seq(Block)
    BY <2>3, <2>4
  <2> QED BY <2>1, <2>2, <2>6, <2>7 DEF IInv, InOneStack
<1>2. ASSUME NEW f \in File, Delete(f)
      PROVE  IInv'
  <2> DEFINE T == {b \in Block : FileOf[b] = f}
  <2>1. /\ SmallProofs!IInv' /\ SmallProofs!Sized(SizeOf)'
        /\ SmallProofs!Future' = Without(SmallProofs!Future, T)
    BY <1>0, <1>2, SmallRemovesFile DEF Delete
  <2>2. /\ BigProofs!IInv' /\ BigProofs!Sized(SizeOf)'
        /\ BigProofs!Future' = Without(BigProofs!Future, T)
    BY <1>0, <1>2, BigRemovesFile DEF Delete
  <2>3. recency' = Without(recency, T)
    BY <1>2 DEF Delete
  <2> HIDE DEF T
  <2>4. /\ Begins(SmallProofs!Future', BigProofs!Future')
        /\ Begins(BigProofs!Future', recency')
    BY <1>0, <2>1, <2>2, <2>3, WithoutBegins
  <2>5. recency' \in Seq(Block)
    BY <1>0, <2>3, WithoutTyped
  <2> QED BY <2>1, <2>2, <2>4, <2>5 DEF IInv, InOneStack
<1>3. CASE SmallContinues
  <2>1. /\ SmallProofs!IInv' /\ SmallProofs!Sized(SizeOf)'
        /\ \/ SmallProofs!Future' = SmallProofs!Future
           \/ Begins(SmallProofs!Future', SmallProofs!Future)
    BY <1>0, <1>3, SmallGoes DEF SmallContinues
  <2>2. BigProofs!IInv' /\ BigProofs!Sized(SizeOf)' /\ BigProofs!Future' = BigProofs!Future
    BY <1>0, <1>3, BigStays DEF SmallContinues
  <2>3. SmallProofs!Future' \in Seq(Block)
    BY <2>1, FuturesTypedNext
  <2>4. Begins(SmallProofs!Future', BigProofs!Future)
    BY <1>0, <2>1, <2>3, BeginsTransitive
  <2>5. recency' = recency
    BY <1>3 DEF SmallContinues
  <2> QED BY <1>0, <2>1, <2>2, <2>4, <2>5 DEF IInv, InOneStack
<1>4. CASE BigContinues
  <2>1. /\ BigProofs!IInv' /\ BigProofs!Sized(SizeOf)'
        /\ \/ BigProofs!Future' = BigProofs!Future
           \/ /\ BigProofs!EvictForInsert
              /\ Begins(BigProofs!Future', BigProofs!Future)
              /\ Len(BigProofs!Future') = Len(b_list)
    BY <1>0, <1>4, BigGoes DEF BigContinues
  <2>2. SmallProofs!IInv' /\ SmallProofs!Sized(SizeOf)' /\ SmallProofs!Future' = SmallProofs!Future
    BY <1>0, <1>4, SmallStays DEF BigContinues
  <2>3. BigProofs!Future' \in Seq(Block)
    BY <2>1, FuturesTypedNext
  <2>4. recency' = recency
    BY <1>4 DEF BigContinues
  <2>5. CASE BigProofs!Future' = BigProofs!Future
    BY <1>0, <2>1, <2>2, <2>4, <2>5 DEF IInv, InOneStack
  <2>6. CASE /\ BigProofs!EvictForInsert
             /\ Begins(BigProofs!Future', BigProofs!Future)
             /\ Len(BigProofs!Future') = Len(b_list)
    <3>1. s_call = Small!Idle /\ SmallProofs!Future = s_list
      BY <1>4 DEF BigContinues, Small!Idle, SmallProofs!Future
    <3>2. Len(SmallProofs!Future) <= Len(BigProofs!Future')
      BY <2>6, <3>1, SmallerHoldsLess
    <3>3. Len(SmallProofs!Future) \in Nat /\ Len(BigProofs!Future') \in Nat /\ Len(BigProofs!Future) \in Nat
      BY <1>0, <2>3, LenProperties
    <3>4. Begins(SmallProofs!Future, BigProofs!Future')
      <4>1. PICK s, t, u : s = SmallProofs!Future /\ t = BigProofs!Future /\ u = BigProofs!Future'
        OBVIOUS
      <4>2. Begins(s, t) /\ Begins(u, t) /\ Len(s) <= Len(u) /\ Len(s) \in Nat /\ Len(u) \in Nat
        BY <1>0, <2>6, <3>2, <3>3, <4>1
      <4>3. Begins(s, u)
        BY <4>2 DEF Begins
      <4> QED BY <4>1, <4>3
    <3>5. Begins(BigProofs!Future', recency)
      BY <1>0, <2>3, <2>6, BeginsTransitive
    <3> QED BY <1>0, <2>1, <2>2, <2>4, <3>4, <3>5 DEF IInv, InOneStack
  <2> QED BY <2>1, <2>5, <2>6
<1>5. CASE UNCHANGED vars
  <2>1. UNCHANGED smallVars /\ UNCHANGED bigVars /\ recency' = recency
    BY <1>5 DEF vars
  <2>2. /\ SmallProofs!IInv' /\ SmallProofs!Sized(SizeOf)' /\ SmallProofs!Future' = SmallProofs!Future
        /\ BigProofs!IInv' /\ BigProofs!Sized(SizeOf)' /\ BigProofs!Future' = BigProofs!Future
    BY <1>0, <2>1, SmallStays, BigStays
  <2> QED BY <1>0, <2>1, <2>2 DEF IInv, InOneStack
<1> QED BY <1>1, <1>2, <1>3, <1>4, <1>5 DEF Next

(***************************************************************************)
(* The property the model checker runs on a small instance.                *)
(***************************************************************************)
\* Between accesses the smaller LRU cache holds the beginning of what the
\* bigger one holds, and that is the beginning of the trace's recency stack: so
\* record_access and insert_block keep the order of use, evict_block takes the
\* least recently used block, and whatever hits at the smaller size hits at the
\* bigger one.
THEOREM InclusionAlways == Spec => []Inclusion
<1>1. IInv => Inclusion
  <2> SUFFICES ASSUME IInv, Idle
               PROVE  IsPrefixOf(s_list, b_list) /\ IsPrefixOf(b_list, recency)
    BY DEF Inclusion
  <2>1. SmallProofs!Future = s_list /\ BigProofs!Future = b_list
    BY DEF Idle, Small!Idle, Big!Idle, SmallProofs!Future, BigProofs!Future
  <2>2. /\ Begins(s_list, b_list) /\ Begins(b_list, recency)
        /\ s_list \in Seq(Block) /\ b_list \in Seq(Block) /\ recency \in Seq(Block)
    BY <2>1, FuturesTyped DEF IInv, InOneStack
  <2>3. ASSUME NEW s \in Seq(Block), NEW t \in Seq(Block), Begins(s, t)
        PROVE  IsPrefixOf(s, t)
    <3>1. Len(s) \in Nat /\ Len(t) \in Nat /\ Len(s) <= Len(t)
      BY <2>3, LenProperties DEF Begins
    <3>2. /\ SubSeq(t, 1, Len(s)) \in Seq(Block) /\ Len(SubSeq(t, 1, Len(s))) = Len(s)
          /\ \A i \in 1 .. Len(s) : SubSeq(t, 1, Len(s))[i] = t[i]
      BY <3>1, SubSeqProperties
    <3>3. s = SubSeq(t, 1, Len(s))
      BY <2>3, <3>2, SameList DEF Begins
    <3> QED BY <3>1, <3>3 DEF IsPrefixOf
  <2> QED BY <2>2, <2>3
<1> QED BY <1>1, InvInit, InvStep, PTL DEF Spec
=============================================================================
