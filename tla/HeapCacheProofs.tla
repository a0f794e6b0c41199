--------------------------- MODULE HeapCacheProofs ---------------------------
(***************************************************************************)
(* HeapLFUCache and OptimalCache keep their maps in step with their heaps, *)
(* evict the right block and do what class Cache promises: for all blocks, *)
(* sizes, capacities, counts and windows.  Most of it is proved once, for  *)
(* a heap ordered by any key, as long as a step changes the keys of no     *)
(* block that stays but the one it moves in the heap.  The last part is    *)
(* about Belady: no rival misses less often than an offline OptimalCache.  *)
(***************************************************************************)
EXTENDS HeapLFUCache, Belady, ContainerTheorems

(***************************************************************************)
(* The inductive invariant of both caches: the heap is ordered and its map *)
(* in step, and the bytes are counted.                                     *)
(***************************************************************************)
HeldBy(key) ==
    /\ Sound(Heap, DOMAIN cache_map_, key)
    /\ \A x \in DOMAIN cache_map_ : key[x] \in Int
    /\ DOMAIN cache_map_ \subseteq Block
    /\ size_ \in [DOMAIN cache_map_ -> Nat]
    /\ IsFiniteSet(Bytes(size_))
    /\ curr_size_ = TotalSize(size_) /\ curr_size_ <= MaxSize
    /\ block_count_ = Len(cache_heap_)

\* The call in progress: no other call comes in between, so the block being
\* inserted stays absent, and what is left to be removed is still listed.
InsertingNew ==
    /\ call \in [op : {"insert"}, block : Block, size : Size]
    /\ call.block \notin DOMAIN cache_map_
    /\ call.size <= MaxSize

PurgingFile ==
    /\ call \in [op : {"remove_file"}, file : File, matches : Seq(Block)]
    /\ \A i \in 1 .. Len(call.matches) : FileOf[call.matches[i]] = call.file
    /\ \A b \in DOMAIN cache_map_ : FileOf[b] = call.file => b \in Elements(call.matches)

Calling == call = Idle \/ call = Exited \/ InsertingNew \/ PurgingFile

\* The step is one of the abstract cache, or a stutter.
Promised == [Abstract!Next]_(Abstract!vars)

\* The heap and the map, as sequences and functions.
LEMMA HeldFacts ==
    ASSUME NEW key, HeldBy(key)
    PROVE  /\ MapAgrees(cache_heap_, cache_map_)
           /\ cache_heap_ \in Seq(DOMAIN cache_map_) /\ cache_heap_ \in Seq(Block)
           /\ Len(cache_heap_) \in Nat
           /\ \A i \in 1 .. Len(cache_heap_) : cache_heap_[i] \in DOMAIN cache_map_
           /\ Elements(cache_heap_) = DOMAIN cache_map_
           /\ DOMAIN size_ = DOMAIN cache_map_
           /\ Ordered(cache_heap_, key)
<1>1. PICK h : h = Heap
  OBVIOUS
<1>2. h.heap = cache_heap_ /\ h.map = cache_map_
  BY <1>1 DEF Heap
<1>3. Placed(h, DOMAIN cache_map_) /\ Ordered(h.heap, key)
  BY <1>1 DEF HeldBy, Sound
<1>4. /\ MapAgrees(h.heap, h.map) /\ Len(h.heap) \in Nat
      /\ \A i \in 1 .. Len(h.heap) : h.heap[i] \in DOMAIN cache_map_
      /\ Elements(h.heap) = DOMAIN cache_map_
  BY <1>3, PlacedAgrees
<1>5. cache_heap_ \in Seq(DOMAIN cache_map_)
  BY <1>2, <1>3 DEF Placed
<1>6. DOMAIN cache_map_ \subseteq Block /\ DOMAIN size_ = DOMAIN cache_map_
  BY DEF HeldBy
<1>7. cache_heap_ \in Seq(Block)
  <2>1. cache_heap_ \in [1 .. Len(cache_heap_) -> Block]
    BY <1>5, <1>6, LenProperties
  <2> QED BY <1>2, <1>4, <2>1, IsASeq
<1> QED BY <1>2, <1>3, <1>4, <1>5, <1>6, <1>7

\* There are no more entries than blocks.
LEMMA NoMoreThanBlocks ==
    ASSUME NEW B, B \subseteq Block, NEW h, Placed(h, B)
    PROVE  Len(h.heap) \in Nat /\ Len(h.heap) <= Cardinality(Block)
<1>1. PICK s, n : s = h.heap /\ n = Len(s)
  OBVIOUS
<1>2. n \in Nat /\ s \in [1 .. n -> Block] /\ \A i, j \in 1 .. n : s[i] = s[j] => i = j
  BY <1>1, LenProperties DEF Placed
<1>3. s \in Injection(1 .. n, Block)
  BY <1>2 DEF Injection, IsInjective
<1>4. Cardinality(1 .. n) <= Cardinality(Block)
  BY <1>3, FS_Injection, HeapCacheAssumption
<1>5. Cardinality(1 .. n) = n
  BY <1>2, FirstNumbers
<1> QED BY <1>1, <1>2, <1>4, <1>5

\* The order is that of the keys of the blocks in the heap.
LEMMA SameOrder ==
    ASSUME NEW B, NEW h, NEW key, Sound(h, B, key), NEW key2, \A x \in B : key2[x] = key[x]
    PROVE  Sound(h, B, key2)
<1>1. h.heap \in Seq(B) /\ Ordered(h.heap, key) /\ Placed(h, B)
  BY DEF Sound, Placed
<1>2. Len(h.heap) \in Nat /\ \A j \in 1 .. Len(h.heap) : h.heap[j] \in B
  BY <1>1, LenProperties, ElementOfSeq
<1>3. \A j \in 2 .. Len(h.heap) : j \in 1 .. Len(h.heap) /\ Parent(j) \in 1 .. Len(h.heap)
  BY <1>2, Family
<1> QED BY <1>1, <1>2, <1>3 DEF Sound, Ordered, InOrder

(***************************************************************************)
(* What the operations keep, whatever the heap is ordered by.              *)
(***************************************************************************)
\* remove_block, of any block.
LEMMA RemoveKeeps ==
    ASSUME NEW key, HeldBy(key), NEW b, remove_block(key, b),
           NEW key2, \A x \in DOMAIN cache_map_' : key2[x] = key[x]
    PROVE  /\ HeldBy(key2)'
           /\ DOMAIN cache_map_' = DOMAIN cache_map_ \ {b}
           /\ size_' = IF exists(b) THEN Drop(size_, b) ELSE size_
<1>1. PICK h, B : h = Heap /\ B = DOMAIN cache_map_
  OBVIOUS
<1>2. h.heap = cache_heap_ /\ h.map = cache_map_ /\ Sound(h, B, key)
      /\ \A x \in B : key[x] \in Int
  BY <1>1 DEF Heap, HeldBy
<1>3. CASE exists(b)
  <2>1. PICK s : s = DeleteBlock(h, key, b)
    OBVIOUS
  <2>2. b \in B
    BY <1>1, <1>3 DEF exists
  <2>3. Sound(s, B \ {b}, key) /\ Len(s.heap) = Len(h.heap) - 1
    BY <1>2, <2>1, <2>2, DeleteSound
  <2>4. Len(s.heap) = Len(h.heap) - 1
    BY <2>3
  <2>5. cache_heap_' = s.heap /\ cache_map_' = s.map /\ size_' = Drop(size_, b)
    BY <1>1, <1>3, <2>1 DEF remove_block, HeapBecomes
  <2>6. DOMAIN cache_map_' = B \ {b}
    BY <2>3, <2>5 DEF Sound, Placed
  <2>7. Sound(Heap', DOMAIN cache_map_', key)
    <3>1. \A x : Sound(s, x, key) <=> Sound([heap |-> s.heap, map |-> s.map], x, key)
      BY DEF Sound, Placed
    <3> QED BY <2>3, <2>5, <2>6, <3>1 DEF Heap
  <2>8. Sound(Heap', DOMAIN cache_map_', key2)
    <3>1. PICK g, C : g = Heap' /\ C = DOMAIN cache_map_'
      OBVIOUS
    <3>2. Sound(g, C, key) /\ \A x \in C : key2[x] = key[x]
      BY <2>7, <3>1
    <3> QED BY <3>1, <3>2, SameOrder
  <2>9. /\ size_ \in [B -> Nat] /\ size_[b] \in Nat /\ IsFiniteSet(Bytes(size_))
        /\ curr_size_ = TotalSize(size_) /\ curr_size_ <= MaxSize
        /\ block_count_ = Len(cache_heap_)
    BY <1>1, <2>2 DEF HeldBy
  <2>10. /\ IsFiniteSet(Bytes(size_')) /\ TotalSize(size_') \in Nat
         /\ TotalSize(size_) = TotalSize(size_') + size_[b]
    BY <2>2, <2>5, <2>9, DropBytes
  <2>11. curr_size_' = TotalSize(size_') /\ curr_size_' <= MaxSize
    BY <1>3, <2>9, <2>10, HeapCacheAssumption DEF remove_block, Minus
  <2>12. block_count_' = Len(cache_heap_')
    <3>1. Len(h.heap) \in Nat /\ Len(s.heap) \in Nat
      BY <1>2, <2>3, LenProperties DEF Sound, Placed
    <3>2. 1 <= Len(h.heap)
      BY <2>4, <3>1
    <3>3. block_count_' = Minus(Word, block_count_, 1)
      BY <1>3 DEF remove_block
    <3> QED BY <1>2, <2>4, <2>5, <2>9, <3>1, <3>2, <3>3, HeapCacheAssumption DEF Minus
  <2>13. size_' \in [DOMAIN cache_map_' -> Nat]
    BY <2>5, <2>6, <2>9 DEF Drop
  <2>14. \A x \in DOMAIN cache_map_' : key2[x] \in Int
    BY <1>2, <2>6
  <2>15. DOMAIN cache_map_' \subseteq Block
    BY <1>1, <2>6 DEF HeldBy
  <2>16. HeldBy(key2)'
    BY <2>8, <2>10, <2>11, <2>12, <2>13, <2>14, <2>15 DEF HeldBy
  <2> QED BY <1>1, <1>3, <2>5, <2>6, <2>16
<1>4. CASE ~ exists(b)
  <2>1. UNCHANGED contents
    BY <1>4 DEF remove_block
  <2>2. Sound(Heap, B, key2)
    BY <1>1, <1>2, <2>1, SameOrder DEF contents
  <2>3. HeldBy(key2)
    BY <1>1, <2>1, <2>2 DEF HeldBy, contents
  <2>4. HeldBy(key2)' <=> HeldBy(key2)
    BY <2>1 DEF HeldBy, contents, Heap
  <2> QED BY <1>4, <2>1, <2>3, <2>4 DEF exists, contents
<1> QED BY <1>3, <1>4

\* The root is a resident block.
LEMMA RootResident ==
    ASSUME NEW key, HeldBy(key), cache_heap_ # <<>>
    PROVE  cache_heap_[1] \in DOMAIN cache_map_ /\ 1 \in 1 .. Len(cache_heap_)
<1>1. /\ cache_heap_ \in Seq(Block) /\ Len(cache_heap_) \in Nat
      /\ \A i \in 1 .. Len(cache_heap_) : cache_heap_[i] \in DOMAIN cache_map_
  BY HeldFacts
<1>2. Len(cache_heap_) # 0
  BY <1>1, EmptySeq
<1> QED BY <1>1, <1>2

\* Whether a block fits is what Cache says it is, and with nothing left to
\* evict it does.
LEMMA FitsWhenEmpty ==
    ASSUME NEW key, HeldBy(key), InsertingNew
    PROVE  /\ DoesNotFit <=> ~ Abstract!Fits(call.size)
           /\ DoesNotFit => cache_heap_ # <<>>
<1>1. call.size \in Nat /\ call.size <= MaxSize
  BY HeapCacheAssumption DEF InsertingNew
<1>2. /\ IsFiniteSet(Bytes(size_)) /\ curr_size_ = TotalSize(size_) /\ curr_size_ <= MaxSize
      /\ curr_size_ \in Nat
  BY FS_CardinalityType DEF HeldBy, TotalSize
<1>3. Abstract!TotalSize(size_) = TotalSize(size_)
  BY DEF Abstract!TotalSize, Abstract!Bytes, Abstract!Cardinality,
         TotalSize, Bytes, Cardinality
<1>4. ASSUME cache_heap_ = <<>> PROVE ~ DoesNotFit
  <2>0. Elements(cache_heap_) = DOMAIN cache_map_
    BY HeldFacts
  <2>1. DOMAIN cache_map_ = {}
    BY <1>4, <2>0 DEF Elements
  <2>2. Bytes(size_) = {}
    BY <2>1 DEF Bytes, HeldBy
  <2>3. curr_size_ = 0
    BY <1>2, <2>2, FS_EmptySet DEF TotalSize
  <2> QED BY <1>1, <2>3, HeapCacheAssumption DEF DoesNotFit, Minus
<1> QED BY <1>1, <1>2, <1>3, <1>4, HeapCacheAssumption DEF DoesNotFit, Minus, Abstract!Fits

\* A step that keeps the data and the call in order, and that Cache allows.
Goes(key) == HeldBy(key)' /\ Calling' /\ Promised

\* A call that goes on after a removal.
LEMMA CallingStill ==
    ASSUME Calling, UNCHANGED call, DOMAIN cache_map_' \subseteq DOMAIN cache_map_
    PROVE  Calling'
<1>1. CASE InsertingNew
  BY <1>1 DEF InsertingNew, Calling
<1>2. CASE PurgingFile
  BY <1>2 DEF PurgingFile, Calling
<1> QED BY <1>1, <1>2 DEF Calling

\* remove_block, called by itself.
LEMMA RemoveBlockGoes ==
    ASSUME NEW key, HeldBy(key), Calling, NEW b, RemoveBlock(key, b),
           NEW key2, \A x \in DOMAIN cache_map_' : key2[x] = key[x]
    PROVE  Goes(key2)
<1>1. call = Idle /\ remove_block(key, b) /\ UNCHANGED call
  BY DEF RemoveBlock
<1>2. /\ HeldBy(key2)' /\ DOMAIN cache_map_' = DOMAIN cache_map_ \ {b}
      /\ size_' = IF exists(b) THEN Drop(size_, b) ELSE size_
  BY <1>1, RemoveKeeps
<1>3. Calling'
  BY <1>1, <1>2, CallingStill
<1>4. Promised
  <2>1. CASE exists(b)
    <3>1. b \in DOMAIN size_ /\ b \in Block
      BY <2>1 DEF exists, HeldBy
    <3>2. Abstract!RemoveBlock(b)
      BY <1>1, <1>2, <2>1, <3>1
      DEF Abstract!RemoveBlock, Abstract!Idle, Idle, AbstractCall, Drop, Abstract!Drop
    <3> QED BY <3>1, <3>2 DEF Promised, Abstract!Next
  <2>2. CASE ~ exists(b)
    BY <1>1, <1>2, <2>2 DEF Promised, Abstract!vars, AbstractCall
  <2> QED BY <2>1, <2>2
<1> QED BY <1>2, <1>3, <1>4 DEF Goes

\* evict_block, called by itself.
LEMMA EvictBlockGoes ==
    ASSUME NEW key, HeldBy(key), Calling, EvictBlock(key),
           NEW key2, \A x \in DOMAIN cache_map_' : key2[x] = key[x]
    PROVE  Goes(key2)
<1>1. PICK b : b = IF cache_heap_ # <<>> THEN cache_heap_[1]
                   ELSE CHOOSE x : x \notin DOMAIN cache_map_
  OBVIOUS
<1>2. RemoveBlock(key, b)
  <2>1. CASE cache_heap_ # <<>>
    BY <1>1, <2>1 DEF EvictBlock, evict_block, RemoveBlock
  <2>2. CASE cache_heap_ = <<>>
    <3>1. DOMAIN cache_map_ \subseteq Block /\ Elements(cache_heap_) = DOMAIN cache_map_
      BY HeldFacts DEF HeldBy
    <3>2. ~ exists(b)
      BY <2>2, <3>1 DEF exists, Elements
    <3> QED BY <2>2, <3>2 DEF EvictBlock, evict_block, RemoveBlock, remove_block
  <2> QED BY <2>1, <2>2
<1> QED BY <1>2, RemoveBlockGoes

\* What a turn of the eviction loop removes is the root.
LEMMA EvictsRoot ==
    ASSUME NEW key, HeldBy(key), Calling, EvictForInsert(key)
    PROVE  /\ InsertingNew /\ ~ Abstract!Fits(call.size) /\ UNCHANGED call
           /\ cache_heap_[1] \in DOMAIN cache_map_ /\ 1 \in 1 .. Len(cache_heap_)
           /\ remove_block(key, cache_heap_[1])
<1>1. InsertingNew
  BY DEF EvictForInsert, Calling, Idle, Exited, PurgingFile
<1>2. ~ Abstract!Fits(call.size) /\ cache_heap_ # <<>>
  BY <1>1, FitsWhenEmpty DEF EvictForInsert
<1>3. cache_heap_[1] \in DOMAIN cache_map_ /\ 1 \in 1 .. Len(cache_heap_)
  BY <1>2, RootResident
<1> QED BY <1>1, <1>2, <1>3 DEF EvictForInsert, evict_block

\* So the block evicted has the least key.
LEMMA EvictsLeast ==
    ASSUME NEW key, HeldBy(key), Calling, EvictForInsert(key),
           NEW v \in DOMAIN cache_map_ \ DOMAIN cache_map_', NEW b \in DOMAIN cache_map_
    PROVE  key[v] <= key[b]
<1>1. PICK heap, B : heap = cache_heap_ /\ B = DOMAIN cache_map_
  OBVIOUS
<1>2. remove_block(key, heap[1])
  BY <1>1, EvictsRoot
<1>3. DOMAIN cache_map_' = B \ {heap[1]}
  <2>1. \A x \in DOMAIN cache_map_' : key[x] = key[x]
    OBVIOUS
  <2> QED BY <1>1, <1>2, <2>1, RemoveKeeps
<1>4. v = heap[1]
  BY <1>1, <1>3
<1>5. /\ heap \in Seq(B) /\ Ordered(heap, key) /\ Elements(heap) = B
      /\ \A x \in B : key[x] \in Int
  BY <1>1, HeldFacts DEF HeldBy
<1>6. PICK j \in 1 .. Len(heap) : heap[j] = b
  BY <1>1, <1>5 DEF Elements
<1>7. \A i \in 1 .. Len(heap) : key[heap[1]] <= key[heap[i]]
  BY <1>5, RootIsLeast
<1> QED BY <1>4, <1>6, <1>7

\* A turn of the eviction loop of an insertion.
LEMMA EvictForInsertGoes ==
    ASSUME NEW key, HeldBy(key), Calling, EvictForInsert(key),
           NEW key2, \A x \in DOMAIN cache_map_' : key2[x] = key[x]
    PROVE  Goes(key2)
<1>1. PICK b : b = cache_heap_[1]
  OBVIOUS
<1>2. /\ InsertingNew /\ ~ Abstract!Fits(call.size) /\ UNCHANGED call
      /\ b \in DOMAIN cache_map_ /\ remove_block(key, b)
  BY <1>1, EvictsRoot
<1>3. /\ HeldBy(key2)' /\ DOMAIN cache_map_' = DOMAIN cache_map_ \ {b}
      /\ size_' = IF exists(b) THEN Drop(size_, b) ELSE size_
  BY <1>2, RemoveKeeps
<1>4. Calling'
  BY <1>2, <1>3, CallingStill
<1>5. b \in DOMAIN size_ /\ b \in Block
  BY <1>2 DEF HeldBy
<1>6. Abstract!Evict(b)
  BY <1>2, <1>3, <1>5
  DEF Abstract!Evict, AbstractCall, InsertingNew, Drop, Abstract!Drop, exists
<1>7. Promised
  BY <1>5, <1>6 DEF Promised, Abstract!Next
<1> QED BY <1>3, <1>4, <1>7 DEF Goes

\* remove_file_blocks, one block of the file.
LEMMA PurgeNextGoes ==
    ASSUME NEW key, HeldBy(key), Calling, PurgeNext(key),
           NEW key2, \A x \in DOMAIN cache_map_' : key2[x] = key[x]
    PROVE  Goes(key2)
<1>1. PurgingFile
  BY DEF PurgeNext, Calling, Idle, Exited, InsertingNew
<1>2. PICK m, b : m = call.matches /\ b = Head(m)
  OBVIOUS
<1>3. /\ m \in Seq(Block) /\ m # <<>> /\ Len(m) \in Nat /\ Len(m) >= 1
      /\ remove_block(key, b) /\ b = m[1]
      /\ Tail(m) \in Seq(Block) /\ Len(Tail(m)) = Len(m) - 1
      /\ \A i \in 1 .. Len(m) - 1 : Tail(m)[i] = m[i + 1]
  <2>1. m \in Seq(Block) /\ m # <<>>
    BY <1>1, <1>2 DEF PurgingFile, PurgeNext
  <2> QED BY <1>2, <2>1, HeadTailProperties, LenProperties, EmptySeq DEF PurgeNext
<1>4. /\ HeldBy(key2)' /\ DOMAIN cache_map_' = DOMAIN cache_map_ \ {b}
      /\ size_' = IF exists(b) THEN Drop(size_, b) ELSE size_
  BY <1>3, RemoveKeeps
<1>5. /\ call' \in [op : {"remove_file"}, file : File, matches : Seq(Block)]
      /\ call'.file = call.file /\ call'.matches = Tail(m)
      /\ call.op = "remove_file" /\ call'.op = "remove_file"
  BY <1>1, <1>2, <1>3 DEF PurgeNext, PurgingFile
<1>6. FileOf[b] = call.file
  BY <1>1, <1>2, <1>3 DEF PurgingFile
<1>7. PurgingFile'
  <2>1. \A i \in 1 .. Len(Tail(m)) : FileOf[Tail(m)[i]] = call.file
    BY <1>1, <1>2, <1>3 DEF PurgingFile
  <2>2. ASSUME NEW x \in DOMAIN cache_map_ \ {b}, FileOf[x] = call.file
        PROVE  x \in Elements(Tail(m))
    <3>1. PICK i \in 1 .. Len(m) : m[i] = x
      BY <1>1, <1>2, <2>2 DEF PurgingFile, Elements
    <3>2. i - 1 \in 1 .. Len(m) - 1
      BY <1>3, <2>2, <3>1
    <3>3. Tail(m)[i - 1] = x
      BY <1>3, <3>1, <3>2
    <3> QED BY <1>3, <3>2, <3>3 DEF Elements
  <2> QED BY <1>4, <1>5, <2>1, <2>2 DEF PurgingFile
<1>8. Promised
  <2>1. CASE exists(b)
    <3>1. b \in DOMAIN size_ /\ b \in Block
      BY <2>1 DEF exists, HeldBy
    <3>2. Abstract!PurgeOne(b)
      BY <1>4, <1>5, <1>6, <2>1, <3>1
      DEF Abstract!PurgeOne, AbstractCall, Drop, Abstract!Drop
    <3> QED BY <3>1, <3>2 DEF Promised, Abstract!Next
  <2>2. CASE ~ exists(b)
    BY <1>4, <1>5, <2>2 DEF Promised, Abstract!vars, AbstractCall
  <2> QED BY <2>1, <2>2
<1> QED BY <1>4, <1>7, <1>8 DEF Goes, Calling

\* A step that takes blocks out of the cache.
Takes(key) ==
    (\E b \in Block : RemoveBlock(key, b)) \/ EvictBlock(key)
      \/ EvictForInsert(key) \/ PurgeNext(key)

\* Such steps only take blocks away.
LEMMA TakesShrinks ==
    ASSUME NEW key, HeldBy(key), Takes(key)
    PROVE  DOMAIN cache_map_' \subseteq DOMAIN cache_map_
<1>1. ASSUME NEW b, remove_block(key, b) PROVE DOMAIN cache_map_' \subseteq DOMAIN cache_map_
  <2>1. \A x \in DOMAIN cache_map_' : key[x] = key[x]
    OBVIOUS
  <2>2. DOMAIN cache_map_' = DOMAIN cache_map_ \ {b}
    BY <1>1, <2>1, RemoveKeeps
  <2> QED BY <2>2
<1>2. (\E b : remove_block(key, b)) \/ UNCHANGED contents
  BY DEF Takes, RemoveBlock, EvictBlock, EvictForInsert, PurgeNext, evict_block
<1> QED BY <1>1, <1>2 DEF contents

\* They keep the invariant, if the blocks that stay keep their keys.
LEMMA TakesGoes ==
    ASSUME NEW key, HeldBy(key), Calling, Takes(key),
           NEW key2, \A x \in DOMAIN cache_map_' : key2[x] = key[x]
    PROVE  Goes(key2)
<1>1. ASSUME NEW b \in Block, RemoveBlock(key, b) PROVE Goes(key2)
  BY <1>1, RemoveBlockGoes
<1>2. CASE EvictBlock(key)
  BY <1>2, EvictBlockGoes
<1>3. CASE EvictForInsert(key)
  BY <1>3, EvictForInsertGoes
<1>4. CASE PurgeNext(key)
  BY <1>4, PurgeNextGoes
<1> QED BY <1>1, <1>2, <1>3, <1>4 DEF Takes

\* The end of an insertion: key2 is key with the new block.
LEMMA AdmitGoes ==
    ASSUME NEW key, HeldBy(key), Calling,
           NEW key2, Admit(key2), key2[call.block] \in Int,
           \A x \in DOMAIN cache_map_ : key2[x] = key[x]
    PROVE  Goes(key2) /\ DOMAIN cache_map_' = DOMAIN cache_map_ \cup {call.block}
<1>1. InsertingNew
  BY DEF Admit, Calling, Idle, Exited, PurgingFile
<1>2. PICK h, B, b, z : h = Heap /\ B = DOMAIN cache_map_ /\ b = call.block /\ z = call.size
  OBVIOUS
<1>3. /\ b \in Block /\ b \notin B /\ z \in Nat /\ z <= MaxSize /\ call.op = "insert"
      /\ Abstract!Fits(call.size)
  <2>1. /\ b \in Block /\ b \notin B /\ z \in Nat /\ z <= MaxSize /\ call.op = "insert"
    BY <1>1, <1>2, HeapCacheAssumption DEF InsertingNew
  <2>2. Abstract!Fits(call.size)
    BY <1>1, FitsWhenEmpty DEF Admit
  <2> QED BY <2>1, <2>2
<1>4. /\ h.heap = cache_heap_ /\ h.map = cache_map_ /\ Sound(h, B, key)
      /\ \A x \in B : key[x] \in Int
  BY <1>2 DEF Heap, HeldBy
<1>5. Sound(h, B, key2) /\ \A x \in B \cup {b} : key2[x] \in Int
  BY <1>2, <1>4, SameOrder
<1>6. Placed(h, B) /\ Ordered(h.heap, key2)
  BY <1>5 DEF Sound
<1>7. PICK s, C : s = PushBlock(h, key2, b) /\ C = B \cup {b}
  OBVIOUS
<1>8. Sound(s, B \cup {b}, key2) /\ Len(s.heap) = Len(h.heap) + 1
  <2>1. Placed(h, B)
    BY <1>6
  <2>2. Ordered(h.heap, key2)
    BY <1>6
  <2>3. b \notin B
    BY <1>3
  <2>4. \A x \in B \cup {b} : key2[x] \in Int
    BY <1>5
  <2>5. s = PushBlock(h, key2, b)
    BY <1>7
  <2> QED BY <2>1, <2>2, <2>3, <2>4, <2>5, PushSound
<1>9. cache_heap_' = s.heap /\ cache_map_' = s.map /\ size_' = Add(size_, b, z)
  BY <1>2, <1>7 DEF Admit, HeapBecomes
<1>10. DOMAIN cache_map_' = C
  BY <1>7, <1>8, <1>9 DEF Sound, Placed
<1>11. Sound(Heap', DOMAIN cache_map_', key2)
  <2>1. \A x : Sound(s, x, key2) <=> Sound([heap |-> s.heap, map |-> s.map], x, key2)
    BY DEF Sound, Placed
  <2> QED BY <1>7, <1>8, <1>9, <1>10, <2>1 DEF Heap
<1>12. /\ size_ \in [B -> Nat] /\ IsFiniteSet(Bytes(size_))
       /\ curr_size_ = TotalSize(size_) /\ curr_size_ <= MaxSize
       /\ block_count_ = Len(cache_heap_) /\ B \subseteq Block
  BY <1>2 DEF HeldBy
<1>13. /\ IsFiniteSet(Bytes(size_')) /\ TotalSize(size_) \in Nat
       /\ TotalSize(size_') = TotalSize(size_) + z
  BY <1>3, <1>9, <1>12, AddBytes
<1>14. curr_size_ + z <= MaxSize /\ curr_size_ \in Nat
  BY <1>2, <1>3, <1>12, <1>13, HeapCacheAssumption DEF Admit, DoesNotFit, Minus
<1>15. curr_size_' = TotalSize(size_') /\ curr_size_' <= MaxSize
  BY <1>2, <1>3, <1>12, <1>13, <1>14, HeapCacheAssumption DEF Admit, Plus
<1>16. block_count_' = Len(cache_heap_')
  <2>1. Placed(s, C) /\ C \subseteq Block
    BY <1>3, <1>7, <1>8, <1>12 DEF Sound
  <2>2. Len(s.heap) \in Nat /\ Len(s.heap) <= Cardinality(Block)
    BY <2>1, NoMoreThanBlocks
  <2>3. Len(h.heap) \in Nat /\ Cardinality(Block) \in Nat
    BY <1>6, LenProperties, FS_CardinalityType, HeapCacheAssumption DEF Placed
  <2>4. block_count_' = Plus(Word, block_count_, 1)
    BY DEF Admit
  <2> QED BY <1>4, <1>8, <1>9, <1>12, <2>2, <2>3, <2>4, HeapCacheAssumption DEF Plus
<1>17. size_' \in [DOMAIN cache_map_' -> Nat]
  BY <1>3, <1>7, <1>9, <1>10, <1>12 DEF Add
<1>18. HeldBy(key2)'
  BY <1>3, <1>5, <1>7, <1>10, <1>11, <1>12, <1>13, <1>15, <1>16, <1>17 DEF HeldBy
<1>19. Calling'
  BY DEF Admit, Calling
<1>20. Abstract!Admit
  BY <1>2, <1>3, <1>9
  DEF Admit, Abstract!Admit, AbstractCall, Idle, Abstract!Idle, Add, Abstract!Add
<1> QED BY <1>2, <1>7, <1>10, <1>18, <1>19, <1>20 DEF Goes, Promised, Abstract!Next

\* Steps that begin or end a call and leave the data alone.
LEMMA StartGoes ==
    ASSUME NEW key, HeldBy(key), Calling, UNCHANGED contents, call = Idle,
           NEW b \in Block, NEW s \in Size,
           \/ s > MaxSize /\ call' = Exited
           \/ s <= MaxSize /\ ~ exists(b) /\ call' = Inserting(b, s)
    PROVE  Goes(key)
<1>1. HeldBy(key)'
  BY DEF HeldBy, contents, Heap
<1>2. CASE s > MaxSize /\ call' = Exited
  <2>1. Abstract!InsertTooBig(b, s)
    BY <1>2 DEF Abstract!InsertTooBig, Abstract!Idle, Idle, Abstract!Exited, Exited,
                AbstractCall, contents
  <2> QED BY <1>1, <1>2, <2>1 DEF Goes, Calling, Promised, Abstract!Next
<1>3. CASE s <= MaxSize /\ ~ exists(b) /\ call' = Inserting(b, s)
  <2>1. Abstract!InsertNew(b, s)
    BY <1>3 DEF Abstract!InsertNew, Abstract!Idle, Idle, Abstract!Inserting, Inserting,
                AbstractCall, contents, exists, HeldBy
  <2>2. InsertingNew'
    BY <1>3 DEF InsertingNew, Inserting, exists, contents
  <2> QED BY <1>1, <2>1, <2>2 DEF Goes, Calling, Promised, Abstract!Next
<1> QED BY <1>2, <1>3

\* remove_file_blocks lists the blocks of the file ...
LEMMA RemoveFileBlocksGoes ==
    ASSUME NEW key, HeldBy(key), Calling, NEW f \in File, RemoveFileBlocks(f)
    PROVE  Goes(key)
<1>1. PICK places, m : places = {i \in 1 .. Len(cache_heap_) : FileOf[cache_heap_[i]] = f}
                       /\ m = Kept(cache_heap_, places)
  OBVIOUS
<1>2. call = Idle /\ call' = Purging(f, m) /\ UNCHANGED contents
  BY <1>1 DEF RemoveFileBlocks
<1>3. cache_heap_ \in Seq(Block) /\ places \in SUBSET (1 .. Len(cache_heap_))
  BY <1>1, HeldFacts
<1>4. m \in Seq(Block)
  BY <1>1, <1>3, KeptElements
<1>5. \A i \in 1 .. Len(m) : FileOf[m[i]] = f
  <2>1. \A i \in 1 .. Len(Kept(cache_heap_, places)) :
           \E p \in places : Kept(cache_heap_, places)[i] = cache_heap_[p]
    BY <1>3, KeptFrom
  <2> QED BY <1>1, <2>1
<1>6. ASSUME NEW b \in DOMAIN cache_map_, FileOf[b] = f PROVE b \in Elements(m)
  <2>1. PICK p \in 1 .. Len(cache_heap_) : cache_heap_[p] = b
    BY HeldFacts DEF Elements
  <2>2. p \in places
    BY <1>1, <1>6, <2>1
  <2>3. \E i \in 1 .. Len(Kept(cache_heap_, places)) :
           Kept(cache_heap_, places)[i] = cache_heap_[p]
    BY <1>3, <2>2, KeptAt
  <2> QED BY <1>1, <2>1, <2>3 DEF Elements
<1>7. PurgingFile'
  BY <1>2, <1>4, <1>5, <1>6 DEF PurgingFile, Purging, contents
<1>8. Abstract!RemoveFileBlocks(f)
  BY <1>2 DEF Abstract!RemoveFileBlocks, Abstract!Idle, Idle, Abstract!Purging, Purging,
              AbstractCall, contents
<1>9. HeldBy(key)'
  BY <1>2 DEF HeldBy, contents, Heap
<1> QED BY <1>7, <1>8, <1>9 DEF Goes, Calling, Promised, Abstract!Next

\* ... and returns with none of them left.
LEMMA PurgeReturnGoes ==
    ASSUME NEW key, HeldBy(key), Calling, PurgeReturn
    PROVE  Goes(key)
<1>1. PurgingFile
  BY DEF PurgeReturn, Calling, Idle, Exited, InsertingNew
<1>2. \A b \in DOMAIN size_ : FileOf[b] # call.file
  BY <1>1 DEF PurgingFile, PurgeReturn, Elements, HeldBy
<1>3. Abstract!PurgeReturn
  BY <1>1, <1>2
  DEF PurgeReturn, Abstract!PurgeReturn, Abstract!Idle, Idle, AbstractCall, contents
<1>4. HeldBy(key)' /\ Calling'
  BY DEF PurgeReturn, HeldBy, Calling, contents, Heap
<1> QED BY <1>3, <1>4 DEF Goes, Promised, Abstract!Next

\* Entries of the heap move, and nothing else.
LEMMA ResortKeeps ==
    ASSUME NEW key, HeldBy(key), NEW key2, \A x \in DOMAIN cache_map_ : key2[x] \in Int,
           NEW s, Sound(s, DOMAIN cache_map_, key2), Len(s.heap) = Len(cache_heap_),
           HeapBecomes(s), UNCHANGED <<size_, curr_size_, block_count_>>
    PROVE  HeldBy(key2)' /\ DOMAIN cache_map_' = DOMAIN cache_map_
<1>1. cache_heap_' = s.heap /\ cache_map_' = s.map
  BY DEF HeapBecomes
<1>2. DOMAIN cache_map_' = DOMAIN cache_map_
  BY <1>1 DEF Sound, Placed
<1>3. \A x : Sound(s, x, key2) <=> Sound([heap |-> s.heap, map |-> s.map], x, key2)
  BY DEF Sound, Placed
<1>4. Sound(Heap', DOMAIN cache_map_', key2)
  BY <1>1, <1>2, <1>3 DEF Heap
<1> QED BY <1>1, <1>2, <1>4 DEF HeldBy

(***************************************************************************)
(* HeapLFUCache.                                                           *)
(***************************************************************************)
LFUInv ==
    /\ HeldBy(Key) /\ Calling
    /\ is_absolute_ \in BOOLEAN
    /\ access_map_ \in [Block -> Nat]
    /\ access_count_ \in [DOMAIN cache_map_ -> Nat]

\* record_access of a resident block: its key grows, and it sinks.
LEMMA UseGoes ==
    ASSUME LFUInv, UNCHANGED is_absolute_, NEW b \in Block, record_access(b), UNCHANGED call
    PROVE  LFUInv' /\ Promised
<1>1. PICK k1, k2, B : k1 = Key /\ k2 = Key' /\ B = DOMAIN cache_map_
  OBVIOUS
<1>2. HeldBy(k1)
  BY <1>1 DEF LFUInv
<1>3. CASE exists(b)
  <2>1. b \in B /\ b \in Block /\ B \subseteq Block
    BY <1>1, <1>3 DEF exists, LFUInv, HeldBy
  <2>2. /\ access_count_' = [access_count_ EXCEPT ![b] = @ + 1]
        /\ access_map_' = [access_map_ EXCEPT ![b] = @ + 1]
        /\ access_map_' \in [Block -> Nat] /\ access_count_' \in [B -> Nat]
        /\ UNCHANGED <<size_, curr_size_, block_count_>>
    BY <1>1, <1>3, <2>1 DEF record_access, LFUInv
  <2>3. /\ \A x \in B : k1[x] \in Int /\ k2[x] \in Int
        /\ \A x \in B \ {b} : k2[x] = k1[x]
        /\ k1[b] <= k2[b]
    <3>1. CASE is_absolute_
      BY <1>1, <2>1, <2>2, <3>1 DEF Key, UseKey, LFUInv
    <3>2. CASE ~ is_absolute_
      BY <1>1, <2>1, <2>2, <3>2 DEF Key, UseKey, LFUInv
    <3> QED BY <3>1, <3>2
  <2>4. PICK h, s : h = Heap /\ s = Settle(PercolateDown(h, k2, h.map[b]), b)
    OBVIOUS
  <2>5. HeapBecomes(s)
    <3>1. k2 = UseKey([access_map_ EXCEPT ![b] = @ + 1], [access_count_ EXCEPT ![b] = @ + 1])
      BY <1>1, <2>2 DEF Key, UseKey
    <3>2. h.map[b] = cache_map_[b]
      BY <2>4 DEF Heap
    <3> QED BY <1>3, <2>4, <3>1, <3>2 DEF record_access
  <2>6. Sound(h, B, k1) /\ h.heap = cache_heap_
    BY <1>1, <1>2, <2>4 DEF HeldBy, Heap
  <2>7. Sound(s, B, k2) /\ Len(s.heap) = Len(h.heap)
    <3>1. Sound(h, B, k1)
      BY <2>6
    <3>2. \A x \in B : k1[x] \in Int /\ k2[x] \in Int
      BY <2>3
    <3>3. \A x \in B \ {b} : k2[x] = k1[x]
      BY <2>3
    <3>4. k1[b] <= k2[b]
      BY <2>3
    <3>5. s = Settle(PercolateDown(h, k2, h.map[b]), b)
      BY <2>4
    <3> QED BY <2>1, <3>1, <3>2, <3>3, <3>4, <3>5, SinkSound
  <2>8. HeldBy(k2)' /\ DOMAIN cache_map_' = B
    BY <1>1, <1>2, <2>2, <2>3, <2>5, <2>6, <2>7, ResortKeeps
  <2>9. HeldBy(Key)'
    BY <1>1, <2>8
  <2>10. Calling'
    BY <1>1, <2>8, CallingStill DEF LFUInv
  <2>11. LFUInv'
    BY <2>2, <2>8, <2>9, <2>10 DEF LFUInv
  <2> QED BY <2>2, <2>11 DEF Promised, Abstract!vars, AbstractCall
<1>4. CASE ~ exists(b)
  <2>1. UNCHANGED <<contents, uses, call, is_absolute_>>
    BY <1>4 DEF record_access
  <2> QED
    BY <2>1 DEF LFUInv, HeldBy, Calling, InsertingNew, PurgingFile, Heap, Key, UseKey,
                contents, uses, Promised, Abstract!vars, AbstractCall
<1> QED BY <1>3, <1>4

\* The keys of the blocks that remain do not change when blocks go.
LEMMA RemovingGoes ==
    ASSUME LFUInv, Removing, UNCHANGED is_absolute_
    PROVE  LFUInv' /\ Promised
<1>1. PICK k1, k2 : k1 = Key /\ k2 = Key'
  OBVIOUS
<1>2. HeldBy(k1) /\ Calling
  BY <1>1 DEF LFUInv
<1>3. \A x \in DOMAIN cache_map_' : k2[x] = k1[x]
  BY <1>1 DEF Removing, Remaining, Key, UseKey
<1>4. Takes(k1)
  BY <1>1 DEF Removing, Takes
<1>5. Goes(k2) /\ DOMAIN cache_map_' \subseteq DOMAIN cache_map_
  BY <1>2, <1>3, <1>4, TakesGoes, TakesShrinks
<1>6. access_count_' \in [DOMAIN cache_map_' -> Nat] /\ access_map_' \in [Block -> Nat]
  BY <1>5 DEF Removing, Remaining, LFUInv
<1> QED BY <1>1, <1>5, <1>6 DEF LFUInv, Goes

\* The end of an insertion: the new block has a count, of its own or of access_map_.
LEMMA AdmitUsedGoes ==
    ASSUME LFUInv, AdmitUsed, UNCHANGED is_absolute_
    PROVE  LFUInv' /\ Promised /\ DOMAIN cache_map_ \subseteq DOMAIN cache_map_'
<1>1. PICK k1, k2, b : k1 = Key /\ k2 = Key' /\ b = call.block
  OBVIOUS
<1>2. HeldBy(k1) /\ Calling
  BY <1>1 DEF LFUInv
<1>3. InsertingNew
  BY <1>2 DEF AdmitUsed, Calling, Idle, Exited, PurgingFile
<1>4. b \in Block /\ b \notin DOMAIN cache_map_
  BY <1>1, <1>3 DEF InsertingNew
<1>5. access_count_' = Add(access_count_, b, 1) /\ access_map_' = access_map_
  BY <1>1 DEF AdmitUsed
<1>6. access_count_' \in [DOMAIN cache_map_ \cup {b} -> Nat] /\ access_map_' \in [Block -> Nat]
  BY <1>4, <1>5 DEF Add, LFUInv
<1>7. Admit(k2)
  BY <1>1, <1>5 DEF AdmitUsed, Key, UseKey
<1>8. k2[b] \in Int /\ \A x \in DOMAIN cache_map_ : k2[x] = k1[x]
  BY <1>1, <1>4, <1>5, <1>6 DEF Key, UseKey, Add, LFUInv
<1>9. Goes(k2) /\ DOMAIN cache_map_' = DOMAIN cache_map_ \cup {b}
  BY <1>1, <1>2, <1>7, <1>8, AdmitGoes
<1> QED BY <1>1, <1>6, <1>9 DEF LFUInv, Goes

\* Every step keeps the invariant and is a step of Cache, or none.
LEMMA LFUStep == LFUInv /\ [LFUNext]_lfuVars => LFUInv' /\ Promised
<1> SUFFICES ASSUME LFUInv, [LFUNext]_lfuVars PROVE LFUInv' /\ Promised
  OBVIOUS
<1>1. PICK k : k = Key
  OBVIOUS
<1>2. HeldBy(k) /\ Calling
  BY <1>1 DEF LFUInv
<1>3. ASSUME Goes(k), UNCHANGED <<is_absolute_, cache_map_, access_count_>>,
             access_map_' \in [Block -> Nat],
             \A x \in DOMAIN cache_map_ : access_map_'[x] = access_map_[x]
      PROVE  LFUInv' /\ Promised
  <2>1. PICK k2 : k2 = Key'
    OBVIOUS
  <2>2. \A x \in DOMAIN cache_map_ : k2[x] = k[x]
    BY <1>1, <1>3, <2>1 DEF Key, UseKey
  <2>3. HeldBy(k2)'
    <3>1. HeldBy(k)'
      BY <1>3 DEF Goes
    <3>2. PICK g, B : g = Heap' /\ B = DOMAIN cache_map_'
      OBVIOUS
    <3>3. Sound(g, B, k) /\ \A x \in B : k2[x] = k[x]
      BY <1>3, <2>2, <3>1, <3>2 DEF HeldBy
    <3>4. Sound(g, B, k2)
      BY <3>3, SameOrder
    <3> QED BY <3>1, <3>2, <3>3, <3>4 DEF HeldBy
  <2> QED BY <1>3, <2>1, <2>3 DEF LFUInv, Goes
<1>4. CASE Counting /\ UNCHANGED is_absolute_
  <2>1. ASSUME NEW b \in Block,
               RecordAccess(b) \/ \E s \in Size : InsertResident(b, s)
        PROVE  LFUInv' /\ Promised
    BY <1>4, <2>1, UseGoes DEF RecordAccess, InsertResident
  <2>2. ASSUME NEW b \in Block, NEW s \in Size, InsertTooBig(b, s)
        PROVE  LFUInv' /\ Promised
    <3>1. /\ UNCHANGED contents /\ call = Idle /\ s > MaxSize /\ call' = Exited
          /\ UNCHANGED <<access_map_, access_count_>>
      BY <2>2 DEF InsertTooBig, uses
    <3>2. Goes(k)
      BY <1>2, <3>1, StartGoes
    <3> QED BY <1>3, <1>4, <3>1, <3>2 DEF LFUInv, contents
  <2>3. ASSUME NEW b \in Block, NEW s \in Size, InsertNew(b, s)
        PROVE  LFUInv' /\ Promised
    <3>1. /\ UNCHANGED contents /\ call = Idle /\ s <= MaxSize /\ ~ exists(b)
          /\ call' = Inserting(b, s)
          /\ access_map_' = [access_map_ EXCEPT ![b] = @ + 1] /\ UNCHANGED access_count_
      BY <2>3 DEF InsertNew
    <3>2. Goes(k)
      BY <1>2, <3>1, StartGoes
    <3> QED BY <1>3, <1>4, <3>1, <3>2 DEF LFUInv, contents, exists
  <2>4. CASE AdmitUsed
    BY <1>4, <2>4, AdmitUsedGoes
  <2> QED BY <1>4, <2>1, <2>2, <2>3, <2>4 DEF Counting
<1>5. CASE Removing /\ UNCHANGED is_absolute_
  BY <1>5, RemovingGoes
<1>6. CASE FileCall /\ UNCHANGED is_absolute_
  <2>1. ASSUME NEW f \in File, RemoveFileBlocks(f) PROVE Goes(k) /\ UNCHANGED cache_map_
    BY <1>2, <2>1, RemoveFileBlocksGoes DEF RemoveFileBlocks, contents
  <2>2. CASE PurgeReturn
    <3>1. Goes(k) /\ UNCHANGED cache_map_
      BY <1>2, <2>2, PurgeReturnGoes DEF PurgeReturn, contents
    <3> QED BY <1>3, <1>6, <3>1 DEF FileCall, uses, LFUInv
  <2> QED BY <1>3, <1>6, <2>1, <2>2 DEF FileCall, uses, LFUInv
<1>7. CASE UNCHANGED lfuVars
  BY <1>7 DEF lfuVars, LFUInv, HeldBy, Calling, InsertingNew, PurgingFile, Heap, Key, UseKey,
              contents, uses, Promised, Abstract!vars, AbstractCall
<1> QED BY <1>4, <1>5, <1>6, <1>7 DEF LFUNext

\* An empty cache.
LEMMA NothingHeld ==
    ASSUME HeapCacheInit, NEW key
    PROVE  HeldBy(key) /\ Calling
<1>1. DOMAIN cache_map_ = {} /\ Len(cache_heap_) = 0 /\ size_ \in [{} -> Nat]
  BY DEF HeapCacheInit
<1>2. Sound(Heap, {}, key)
  BY <1>1 DEF HeapCacheInit, Heap, Sound, Placed, Ordered
<1>3. IsFiniteSet(Bytes(size_)) /\ TotalSize(size_) = 0
  BY NoBytes DEF HeapCacheInit
<1> QED BY <1>1, <1>2, <1>3, HeapCacheAssumption DEF HeapCacheInit, HeldBy, Calling

\* The invariant holds at first, and always.
LEMMA LFUInitially == LFUInit => LFUInv
<1> SUFFICES ASSUME LFUInit PROVE LFUInv
  OBVIOUS
<1>1. PICK k : k = Key
  OBVIOUS
<1>2. HeldBy(k) /\ Calling
  BY NothingHeld DEF LFUInit
<1> QED BY <1>1, <1>2 DEF LFUInit, LFUInv, HeapCacheInit

LEMMA LFUInvariant == LFUSpec => []LFUInv
<1>1. LFUInv /\ [LFUNext]_lfuVars => LFUInv'
  BY LFUStep
<1> QED BY <1>1, LFUInitially, PTL DEF LFUSpec

\* In a HeapLFUCache cache_map_ gives every resident block its place in the heap
\* and has no other entry, whatever was swapped, pushed, popped or removed.
THEOREM LFUMapFollowsHeap == LFUSpec => []MapFollowsHeap
<1>1. LFUInv => MapFollowsHeap
  <2> SUFFICES ASSUME LFUInv PROVE MapFollowsHeap
    OBVIOUS
  <2>1. PICK k : k = Key
    OBVIOUS
  <2>2. HeldBy(k)
    BY <2>1 DEF LFUInv
  <2> QED BY <2>2, HeldFacts DEF MapFollowsHeap, HeldBy
<1> QED BY <1>1, LFUInvariant, PTL

\* Every step of a HeapLFUCache is a step of the abstract cache, or a stutter:
\* no byte is lost or counted twice, a new block always finds room, and
\* remove_file_blocks leaves no block of the file.
THEOREM LFURefinement == LFUSpec => ImplementsCache
<1>1. LFUInit => Abstract!Init
  BY DEF LFUInit, HeapCacheInit, Abstract!Init, AbstractCall, Abstract!Idle, Idle
<1>2. LFUInv /\ [LFUNext]_lfuVars => [Abstract!Next]_(Abstract!vars)
  BY LFUStep DEF Promised
<1> QED BY <1>1, <1>2, LFUInvariant, PTL DEF LFUSpec, ImplementsCache, Abstract!Spec

\* The block that goes to make room has no more accesses than any other, in the
\* count in use: since its admission, or since the beginning of the trace.
THEOREM LFUVictimLeastUsed == LFUSpec => VictimLeastUsed
<1>1. ASSUME LFUInv, [LFUNext]_lfuVars, call.op = "insert",
             NEW v \in DOMAIN cache_map_ \ DOMAIN cache_map_', NEW b \in DOMAIN cache_map_
      PROVE  Key[v] <= Key[b]
  <2>1. PICK k : k = Key
    OBVIOUS
  <2>2. HeldBy(k) /\ Calling
    BY <1>1, <2>1 DEF LFUInv
  <2>3. EvictForInsert(k)
    <3>1. InsertingNew
      BY <1>1, <2>2 DEF Calling, Idle, Exited, PurgingFile
    <3>2. call # Idle /\ call.op # "remove_file"
      BY <3>1 DEF InsertingNew, Idle
    <3>3. ~ UNCHANGED cache_map_
      BY <1>1
    <3>4. CASE Counting
      <4>1. AdmitUsed
        BY <3>2, <3>4 DEF Counting, RecordAccess, InsertTooBig, InsertResident, InsertNew
      <4>2. UNCHANGED is_absolute_
        BY <1>1, <3>3 DEF LFUNext, lfuVars, contents
      <4>3. DOMAIN cache_map_ \subseteq DOMAIN cache_map_'
        BY <1>1, <4>1, <4>2, AdmitUsedGoes
      <4> QED BY <1>1, <4>3
    <3>5. CASE Removing
      BY <2>1, <3>2, <3>5 DEF Removing, RemoveBlock, EvictBlock, PurgeNext
    <3>6. CASE FileCall
      BY <3>3, <3>6 DEF FileCall, RemoveFileBlocks, PurgeReturn, contents
    <3> QED BY <1>1, <3>3, <3>4, <3>5, <3>6 DEF LFUNext, lfuVars, contents
  <2> QED BY <2>1, <2>2, <2>3, EvictsLeast
<1>2. LFUInv /\ [LFUNext]_lfuVars =>
        [ call.op = "insert" =>
            \A v \in DOMAIN cache_map_ \ DOMAIN cache_map_' :
                \A b \in DOMAIN cache_map_ : Key[v] <= Key[b] ]_lfuVars
  BY <1>1
<1> QED BY <1>2, LFUInvariant, PTL DEF LFUSpec, VictimLeastUsed

(***************************************************************************)
(* OptimalCache.                                                           *)
(***************************************************************************)
\* Times in ascending order.
Ascending(times) ==
    /\ times \in Seq(Nat)
    /\ \A i, j \in 1 .. Len(times) : i < j => times[i] < times[j]

\* Some entries of the window, in the order of their times, which are at most now.
WindowOf(entries, now) ==
    /\ entries \in Seq([block : Block, size : Size, time : 1 .. now])
    /\ \A i, j \in 1 .. Len(entries) : i < j => entries[i].time < entries[j].time

TimesIn(entries, b) ==
    {entries[i].time : i \in {j \in 1 .. Len(entries) : entries[j].block = b}}

UsesAreTimes ==
    \A b \in Block : Ascending(UsesAhead(b)) /\ Elements(UsesAhead(b)) = TimesIn(lookahead_, b)

WindowOK ==
    /\ lookahead_counter_ \in 0 .. MaxAdded
    /\ WindowOf(lookahead_, lookahead_counter_)
    /\ UsesAreTimes

NearestOK ==
    /\ nearest_access_ \in [DOMAIN cache_map_ -> Nat]
    /\ \A b \in DOMAIN cache_map_ : nearest_access_[b] = FirstOrNever(UsesAhead(b))

\* Adding a later time.
LEMMA AscendingAppend ==
    ASSUME NEW times, Ascending(times), NEW now \in Nat, \A t \in Elements(times) : t < now
    PROVE  /\ Ascending(Append(times, now))
           /\ Elements(Append(times, now)) = Elements(times) \cup {now}
           /\ Append(times, now) # <<>>
           /\ Len(Append(times, now)) = Len(times) + 1
           /\ times # <<>> => Head(Append(times, now)) = Head(times)
           /\ times = <<>> => Head(Append(times, now)) = now
<1>1. PICK n, s : n = Len(times) /\ s = Append(times, now)
  OBVIOUS
<1>2. times \in Seq(Nat) /\ n \in Nat /\ \A i \in 1 .. n : times[i] \in Nat
  BY <1>1, LenProperties, ElementOfSeq DEF Ascending
<1>3. /\ s \in Seq(Nat) /\ Len(s) = n + 1
      /\ \A i \in 1 .. n : s[i] = times[i]
      /\ s[n + 1] = now
  BY <1>1, <1>2, AppendProperties
<1>4. \A i \in 1 .. n : times[i] < now
  BY <1>1 DEF Elements
<1>5. Ascending(s)
  <2> SUFFICES ASSUME NEW i \in 1 .. Len(s), NEW j \in 1 .. Len(s), i < j PROVE s[i] < s[j]
    BY <1>3 DEF Ascending
  <2>1. i \in 1 .. n /\ s[i] = times[i] /\ (j = n + 1 \/ j \in 1 .. n)
    BY <1>2, <1>3
  <2>2. CASE j = n + 1
    BY <1>3, <1>4, <2>1, <2>2
  <2>3. CASE j \in 1 .. n
    <3>1. times[i] < times[j]
      BY <1>1, <2>1, <2>3 DEF Ascending
    <3> QED BY <1>3, <2>1, <2>3, <3>1
  <2> QED BY <2>1, <2>2, <2>3
<1>6. Elements(s) = Elements(times) \cup {now}
  <2>1. 1 .. n + 1 = 1 .. n \cup {n + 1}
    BY <1>2
  <2> QED BY <1>1, <1>3, <2>1 DEF Elements
<1>7. s # <<>>
  BY <1>2, <1>3
<1>8. times # <<>> => n >= 1
  BY <1>1, <1>2, EmptySeq
<1>9. Head(s) = s[1] /\ (times # <<>> => Head(times) = times[1])
  BY <1>2, <1>3, <1>7, HeadTailProperties
<1>10. times # <<>> => Head(s) = Head(times)
  BY <1>2, <1>3, <1>8, <1>9
<1>11. times = <<>> => Head(s) = now
  BY <1>1, <1>3, <1>9
<1> QED BY <1>1, <1>3, <1>5, <1>6, <1>7, <1>10, <1>11

\* The first of some times is the least, and taking it away takes just it away.
LEMMA AscendingHead ==
    ASSUME NEW times, Ascending(times), times # <<>>
    PROVE  /\ Head(times) \in Elements(times) /\ Head(times) \in Nat
           /\ \A t \in Elements(times) : Head(times) <= t
           /\ Ascending(Tail(times))
           /\ Elements(Tail(times)) = Elements(times) \ {Head(times)}
<1>1. PICK n, s : n = Len(times) /\ s = Tail(times)
  OBVIOUS
<1>2. times \in Seq(Nat) /\ n \in Nat /\ n # 0 /\ \A i \in 1 .. n : times[i] \in Nat
  BY <1>1, LenProperties, ElementOfSeq, EmptySeq DEF Ascending
<1>3. /\ s \in Seq(Nat) /\ Len(s) = n - 1 /\ Head(times) = times[1]
      /\ \A i \in 1 .. n - 1 : s[i] = times[i + 1]
  BY <1>1, <1>2, HeadTailProperties
<1>4. \A i \in 1 .. n : i # 1 => times[1] < times[i]
  BY <1>1, <1>2 DEF Ascending
<1>5. Ascending(s)
  BY <1>1, <1>2, <1>3 DEF Ascending
<1>6. Elements(s) \subseteq Elements(times) \ {times[1]}
  <2> SUFFICES ASSUME NEW i \in 1 .. n - 1 PROVE s[i] \in Elements(times) \ {times[1]}
    BY <1>3 DEF Elements
  <2>1. i + 1 \in 1 .. n /\ i + 1 # 1
    BY <1>2
  <2> QED BY <1>1, <1>2, <1>3, <1>4, <2>1 DEF Elements
<1>7. Elements(times) \ {times[1]} \subseteq Elements(s)
  <2> SUFFICES ASSUME NEW i \in 1 .. n, i # 1 PROVE times[i] \in Elements(s)
    BY <1>1 DEF Elements
  <2>1. i - 1 \in 1 .. n - 1 /\ s[i - 1] = times[i]
    BY <1>2, <1>3
  <2> QED BY <1>3, <2>1 DEF Elements
<1>8. times[1] \in Elements(times) /\ \A t \in Elements(times) : times[1] <= t
  BY <1>1, <1>2, <1>4 DEF Elements
<1> QED BY <1>1, <1>2, <1>3, <1>5, <1>6, <1>7, <1>8

\* No times, no first one.
LEMMA NoTimes ==
    ASSUME NEW times, Ascending(times)
    PROVE  Elements(times) = {} <=> times = <<>>
<1>1. times \in Seq(Nat) /\ Len(times) \in Nat
  BY LenProperties DEF Ascending
<1>2. times # <<>> => times[1] \in Elements(times)
  <2>1. times # <<>> => Len(times) # 0
    BY <1>1, EmptySeq
  <2> QED BY <1>1, <2>1 DEF Elements
<1>3. Elements(<<>>) = {}
  BY DEF Elements
<1> QED BY <1>2, <1>3

\* The next use is the head of the uses ahead.
LEMMA FirstIsNextUse ==
    ASSUME WindowOK, NEW b \in Block
    PROVE  FirstOrNever(UsesAhead(b)) = NextUse(b)
<1>1. PICK u : u = UsesAhead(b)
  OBVIOUS
<1>2. Ascending(u) /\ Elements(u) = TimesInWindow(b)
  BY <1>1 DEF WindowOK, UsesAreTimes, TimesIn, TimesInWindow
<1>3. CASE u = <<>>
  BY <1>1, <1>2, <1>3, NoTimes DEF NextUse, FirstOrNever
<1>4. CASE u # <<>>
  <2>1. Head(u) \in Elements(u) /\ Head(u) \in Nat /\ \A t \in Elements(u) : Head(u) <= t
    BY <1>2, <1>4, AscendingHead
  <2>2. \A t \in Elements(u) : t \in Nat
    BY <1>2, ElementOfSeq DEF Ascending, Elements
  <2>3. PICK m : m = NextUse(b)
    OBVIOUS
  <2>4. m = CHOOSE t \in TimesInWindow(b) : \A x \in TimesInWindow(b) : t <= x
    BY <1>2, <2>1, <2>3 DEF NextUse
  <2>5. m \in Elements(u) /\ \A x \in Elements(u) : m <= x
    BY <1>2, <2>1, <2>4
  <2>6. m = Head(u)
    BY <2>1, <2>2, <2>5
  <2> QED BY <1>1, <1>4, <2>3, <2>6 DEF FirstOrNever
<1> QED BY <1>3, <1>4

\* The front of a window: its time is the first, and goes with it.
FrontOf(w, now, front) ==
    /\ front \in [block : Block, size : Size, time : 1 .. now]
    /\ WindowOf(Tail(w), now)
    /\ \A b : TimesIn(Tail(w), b) = IF b = front.block THEN TimesIn(w, b) \ {front.time}
                                    ELSE TimesIn(w, b)
    /\ front.time \in TimesIn(w, front.block)
    /\ \A t \in TimesIn(w, front.block) : front.time <= t

\* What popping the front of the window leaves.
LEMMA PopWindow ==
    ASSUME NEW now \in Nat, NEW w, WindowOf(w, now), w # <<>>,
           NEW front, front = Head(w)
    PROVE  FrontOf(w, now, front)
<1>1. PICK n, v, E : /\ n = Len(w) /\ v = Tail(w)
                     /\ E = [block : Block, size : Size, time : 1 .. now]
  OBVIOUS
<1>2. w \in Seq(E) /\ n \in Nat /\ n # 0
  BY <1>1, LenProperties, EmptySeq DEF WindowOf
<1>3. /\ v \in Seq(E) /\ Len(v) = n - 1 /\ front = w[1]
      /\ \A i \in 1 .. n - 1 : v[i] = w[i + 1]
  BY <1>1, <1>2, HeadTailProperties
<1>4. \A i \in 1 .. n : w[i] \in E /\ w[i].time \in Nat
  <2>1. \A i \in 1 .. n : w[i] \in E
    BY <1>1, <1>2, ElementOfSeq
  <2>2. \A x \in E : x.time \in 1 .. now /\ x.time \in Nat
    BY <1>1
  <2> QED BY <2>1, <2>2
<1>5. \A i, j \in 1 .. n : i < j => w[i].time < w[j].time
  BY <1>1 DEF WindowOf
<1>6. WindowOf(v, now)
  <2>1. \A i \in 1 .. n - 1 : i + 1 \in 1 .. n
    BY <1>2
  <2>2. ASSUME NEW i \in 1 .. n - 1, NEW j \in 1 .. n - 1, i < j PROVE v[i].time < v[j].time
    <3>1. i + 1 \in 1 .. n /\ j + 1 \in 1 .. n /\ i + 1 < j + 1
      BY <2>1, <2>2
    <3>2. w[i + 1].time < w[j + 1].time
      BY <1>5, <3>1
    <3> QED BY <1>3, <3>2
  <2> QED BY <1>1, <1>3, <2>2 DEF WindowOf
<1>7. ASSUME NEW b
      PROVE  TimesIn(v, b) = IF b = front.block THEN TimesIn(w, b) \ {front.time}
                             ELSE TimesIn(w, b)
  <2>1. ASSUME NEW t \in TimesIn(v, b) PROVE t \in TimesIn(w, b) /\ t # front.time
    <3>1. PICK i \in 1 .. n - 1 : v[i].block = b /\ t = v[i].time
      BY <1>3, <2>1 DEF TimesIn
    <3>2. i + 1 \in 1 .. n /\ 1 \in 1 .. n /\ 1 < i + 1
      BY <1>2, <3>1
    <3>3. w[i + 1].block = b /\ t = w[i + 1].time
      BY <1>3, <3>1
    <3>4. w[1].time < w[i + 1].time
      BY <1>5, <3>2
    <3>5. t # front.time
      BY <1>3, <1>4, <3>2, <3>3, <3>4
    <3> QED BY <1>1, <3>2, <3>3, <3>5 DEF TimesIn
  <2>2. ASSUME NEW t \in TimesIn(w, b), b # front.block \/ t # front.time
        PROVE  t \in TimesIn(v, b)
    <3>1. PICK i \in 1 .. n : w[i].block = b /\ t = w[i].time
      BY <1>1, <2>2 DEF TimesIn
    <3>2. i # 1
      BY <1>3, <2>2, <3>1
    <3>3. i - 1 \in 1 .. n - 1 /\ (i - 1) + 1 = i
      BY <1>2, <3>1, <3>2
    <3>4. v[i - 1] = w[i]
      BY <1>3, <3>3
    <3> QED BY <1>3, <3>1, <3>3, <3>4 DEF TimesIn
  <2>3. ASSUME NEW t \in TimesIn(v, b) PROVE t \in TimesIn(w, b)
    BY <2>1, <2>3
  <2>4. CASE b = front.block
    <3>1. TimesIn(v, b) \subseteq TimesIn(w, b) \ {front.time}
      BY <2>1
    <3>2. TimesIn(w, b) \ {front.time} \subseteq TimesIn(v, b)
      BY <2>2
    <3> QED BY <2>4, <3>1, <3>2
  <2>5. CASE b # front.block
    <3>1. TimesIn(v, b) \subseteq TimesIn(w, b)
      BY <2>1
    <3>2. TimesIn(w, b) \subseteq TimesIn(v, b)
      BY <2>2, <2>5
    <3> QED BY <2>5, <3>1, <3>2
  <2> QED BY <2>4, <2>5
<1>8. 1 \in 1 .. n
  BY <1>2
<1>9. front.time \in TimesIn(w, front.block)
  BY <1>1, <1>3, <1>8 DEF TimesIn
<1>10. ASSUME NEW t \in TimesIn(w, front.block) PROVE front.time <= t
  <2>1. PICK i \in 1 .. n : t = w[i].time
    BY <1>1, <1>10 DEF TimesIn
  <2>2. i = 1 \/ 1 < i
    BY <1>2
  <2>3. i = 1 \/ w[1].time < w[i].time
    BY <1>5, <1>8, <2>1, <2>2
  <2> QED BY <1>3, <1>4, <1>8, <2>1, <2>3
<1>11. front \in E
  BY <1>3, <1>4, <1>8
<1> QED BY <1>1, <1>6, <1>7, <1>9, <1>10, <1>11 DEF FrontOf

\* Adding to the window adds a time later than all others.
LEMMA PushWindow ==
    ASSUME NEW now \in Nat, NEW w, WindowOf(w, now), NEW b \in Block, NEW z \in Size,
           NEW e, e = [block |-> b, size |-> z, time |-> now + 1]
    PROVE  /\ WindowOf(Append(w, e), now + 1)
           /\ \A x : TimesIn(Append(w, e), x) = IF x = b THEN TimesIn(w, x) \cup {now + 1}
                                                ELSE TimesIn(w, x)
           /\ \A x : \A t \in TimesIn(w, x) : t < now + 1
<1>1. PICK n, v, E, F : /\ n = Len(w) /\ v = Append(w, e)
                        /\ E = [block : Block, size : Size, time : 1 .. now]
                        /\ F = [block : Block, size : Size, time : 1 .. now + 1]
  OBVIOUS
<1>2. w \in Seq(E) /\ n \in Nat /\ E \subseteq F /\ e \in F
  BY <1>1, LenProperties DEF WindowOf
<1>3. \A i \in 1 .. n : w[i] \in E /\ w[i].time \in 1 .. now
  <2>1. \A i \in 1 .. n : w[i] \in E
    BY <1>1, <1>2, ElementOfSeq
  <2>2. \A x \in E : x.time \in 1 .. now /\ x.time \in Nat
    BY <1>1
  <2> QED BY <2>1, <2>2
<1>4. w \in [1 .. n -> F]
  BY <1>1, <1>2, <1>3, LenProperties
<1>5. w \in Seq(F)
  BY <1>2, <1>4, IsASeq
<1>6. /\ v \in Seq(F) /\ Len(v) = n + 1 /\ v[n + 1] = e
      /\ \A i \in 1 .. n : v[i] = w[i]
  BY <1>1, <1>2, <1>5, AppendProperties
<1>7. \A i, j \in 1 .. n : i < j => w[i].time < w[j].time
  BY <1>1 DEF WindowOf
<1>8. \A i \in 1 .. n + 1 : i = n + 1 \/ i \in 1 .. n
  BY <1>2
<1>9. ASSUME NEW i \in 1 .. n + 1, NEW j \in 1 .. n + 1, i < j PROVE v[i].time < v[j].time
  <2>1. i \in 1 .. n
    BY <1>2, <1>9
  <2>2. CASE j = n + 1
    <3>1. v[i].time \in 1 .. now /\ v[j].time = now + 1
      BY <1>1, <1>3, <1>6, <2>1, <2>2
    <3> QED BY <3>1
  <2>3. CASE j \in 1 .. n
    BY <1>6, <1>7, <1>9, <2>1, <2>3
  <2> QED BY <1>8, <2>2, <2>3
<1>10. WindowOf(v, now + 1)
  BY <1>1, <1>6, <1>9 DEF WindowOf
<1>11. ASSUME NEW x
       PROVE  TimesIn(v, x) = IF x = b THEN TimesIn(w, x) \cup {now + 1} ELSE TimesIn(w, x)
  <2>1. TimesIn(w, x) \subseteq TimesIn(v, x)
    <3> SUFFICES ASSUME NEW i \in 1 .. n, w[i].block = x PROVE w[i].time \in TimesIn(v, x)
      BY <1>1 DEF TimesIn
    <3>1. i \in 1 .. n + 1
      BY <1>2
    <3> QED BY <1>6, <3>1 DEF TimesIn
  <2>2. x = b => now + 1 \in TimesIn(v, x)
    <3>1. n + 1 \in 1 .. n + 1 /\ v[n + 1].block = b /\ v[n + 1].time = now + 1
      BY <1>2, <1>6
    <3> QED BY <1>6, <3>1 DEF TimesIn
  <2>3. ASSUME NEW t \in TimesIn(v, x)
        PROVE  t \in TimesIn(w, x) \/ (x = b /\ t = now + 1)
    <3>1. PICK i \in 1 .. n + 1 : v[i].block = x /\ t = v[i].time
      BY <1>6, <2>3 DEF TimesIn
    <3>2. CASE i = n + 1
      BY <1>6, <3>1, <3>2
    <3>3. CASE i \in 1 .. n
      BY <1>1, <1>6, <3>1, <3>3 DEF TimesIn
    <3> QED BY <1>8, <3>2, <3>3
  <2>4. CASE x = b
    BY <2>1, <2>2, <2>3, <2>4
  <2>5. CASE x # b
    BY <2>1, <2>3, <2>5
  <2> QED BY <2>4, <2>5
<1>12. ASSUME NEW x, NEW t \in TimesIn(w, x) PROVE t < now + 1
  BY <1>1, <1>3 DEF TimesIn
<1> QED BY <1>1, <1>10, <1>11, <1>12

\* The uses ahead of the other blocks stay.
LEMMA WithUsesChanges ==
    ASSUME NEW b, NEW times, access_distance_map_' = WithUses(b, times)
    PROVE  \A x : UsesAhead(x)' = IF x = b THEN times ELSE UsesAhead(x)
<1>1. CASE times = <<>>
  BY <1>1 DEF WithUses, UsesAhead, Drop
<1>2. CASE times # <<>>
  BY <1>2 DEF WithUses, UsesAhead, Add
<1> QED BY <1>1, <1>2

\* A resident block is used next at another time.
LEMMA RepositionKeeps ==
    ASSUME HeldBy(Soonest), nearest_access_ \in [DOMAIN cache_map_ -> Nat],
           NEW b \in DOMAIN cache_map_, NEW time \in Nat, Reposition(b, time)
    PROVE  /\ HeldBy(Soonest)'
           /\ DOMAIN cache_map_' = DOMAIN cache_map_
           /\ nearest_access_' = [nearest_access_ EXCEPT ![b] = time]
           /\ size_' = size_
<1>1. PICK k1, k2, B, h, n2 : /\ k1 = Soonest /\ k2 = Soonest' /\ B = DOMAIN cache_map_
                              /\ h = Heap /\ n2 = [nearest_access_ EXCEPT ![b] = time]
  OBVIOUS
<1>2. HeldBy(k1)
  BY <1>1
<1>3. nearest_access_' = n2 /\ UNCHANGED <<size_, curr_size_, block_count_>>
  BY <1>1 DEF Reposition
<1>4. k2 = MaxKey(n2)
  BY <1>1, <1>3 DEF Soonest
<1>5. /\ \A x \in B : k1[x] \in Int /\ k2[x] \in Int
      /\ \A x \in B \ {b} : k2[x] = k1[x]
  BY <1>1, <1>4 DEF MaxKey, Soonest
<1>6. PICK d, s : /\ d = PercolateDown(h, k2, h.map[b])
                  /\ s = Settle(PercolateUp([heap |-> d.heap, map |-> d.map], k2, d.index), b)
  OBVIOUS
<1>7. HeapBecomes(s)
  <2>1. h.map[b] = cache_map_[b]
    BY <1>1 DEF Heap
  <2> QED BY <1>1, <1>4, <1>6, <2>1 DEF Reposition
<1>8. Sound(h, B, k1) /\ h.heap = cache_heap_ /\ b \in B
  BY <1>1, <1>2 DEF HeldBy, Heap
<1>9. Sound(s, B, k2) /\ Len(s.heap) = Len(h.heap)
  <2>1. Sound(h, B, k1)
    BY <1>8
  <2>2. b \in B
    BY <1>8
  <2>3. \A x \in B : k1[x] \in Int /\ k2[x] \in Int
    BY <1>5
  <2>4. \A x \in B \ {b} : k2[x] = k1[x]
    BY <1>5
  <2>5. d = PercolateDown(h, k2, h.map[b])
    BY <1>6
  <2>6. s = Settle(PercolateUp([heap |-> d.heap, map |-> d.map], k2, d.index), b)
    BY <1>6
  <2> QED BY <2>1, <2>2, <2>3, <2>4, <2>5, <2>6, RepositionSound
<1>10. HeldBy(k2)' /\ DOMAIN cache_map_' = B
  BY <1>1, <1>2, <1>3, <1>5, <1>7, <1>8, <1>9, ResortKeeps
<1> QED BY <1>1, <1>3, <1>10

AheadOK == HeldBy(Soonest) /\ WindowOK /\ NearestOK

OptimalInv == AheadOK /\ Calling

\* pop_lookahead_front renews the key of the block it takes from the window.
LEMMA PopKeeps ==
    ASSUME AheadOK, lookahead_ # <<>>, pop_lookahead_front
    PROVE  AheadOK' /\ DOMAIN cache_map_' = DOMAIN cache_map_ /\ size_' = size_
<1>1. PICK now, w, front, b : /\ now = lookahead_counter_ /\ w = lookahead_
                              /\ front = Head(w) /\ b = front.block
  OBVIOUS
<1>2. now \in Nat /\ WindowOf(w, now) /\ w # <<>>
  BY <1>1 DEF AheadOK, WindowOK
<1>3. /\ front \in [block : Block, size : Size, time : 1 .. now]
      /\ WindowOf(Tail(w), now)
      /\ \A x : TimesIn(Tail(w), x) = IF x = b THEN TimesIn(w, x) \ {front.time}
                                      ELSE TimesIn(w, x)
      /\ front.time \in TimesIn(w, b)
      /\ \A t \in TimesIn(w, b) : front.time <= t
  <2>1. now \in Nat
    BY <1>2
  <2>2. WindowOf(w, now)
    BY <1>2
  <2>3. w # <<>>
    BY <1>2
  <2>4. front = Head(w)
    BY <1>1
  <2>5. FrontOf(w, now, front)
    BY <2>1, <2>2, <2>3, <2>4, PopWindow
  <2> QED BY <1>1, <2>5 DEF FrontOf
<1>4. b \in Block /\ front.time \in Nat
  BY <1>1, <1>3
<1>5. PICK u : u = UsesAhead(b)
  OBVIOUS
<1>6. Ascending(u) /\ Elements(u) = TimesIn(w, b)
  BY <1>1, <1>4, <1>5 DEF AheadOK, WindowOK, UsesAreTimes
<1>7. u # <<>>
  BY <1>3, <1>6, NoTimes
<1>8. /\ Head(u) \in Elements(u) /\ Head(u) \in Nat /\ \A t \in Elements(u) : Head(u) <= t
      /\ Ascending(Tail(u)) /\ Elements(Tail(u)) = Elements(u) \ {Head(u)}
  BY <1>6, <1>7, AscendingHead
<1>9. Head(u) = front.time
  BY <1>3, <1>4, <1>6, <1>8
<1>10. /\ lookahead_' = Tail(w) /\ lookahead_counter_' = now
       /\ access_distance_map_' = WithUses(b, Tail(u))
       /\ IF exists(b) THEN Reposition(b, FirstOrNever(Tail(u)))
                       ELSE UNCHANGED <<contents, nearest_access_>>
  BY <1>1, <1>5, <1>7, <1>9 DEF pop_lookahead_front
<1>11. \A x : UsesAhead(x)' = IF x = b THEN Tail(u) ELSE UsesAhead(x)
  BY <1>10, WithUsesChanges
<1>12. WindowOK'
  <2>1. ASSUME NEW x \in Block
        PROVE  Ascending(UsesAhead(x)') /\ Elements(UsesAhead(x)') = TimesIn(Tail(w), x)
    <3>1. CASE x = b
      BY <1>3, <1>6, <1>8, <1>9, <1>11, <3>1
    <3>2. CASE x # b
      BY <1>1, <1>3, <1>11, <3>2 DEF AheadOK, WindowOK, UsesAreTimes
    <3> QED BY <3>1, <3>2
  <2> QED BY <1>1, <1>3, <1>10, <2>1 DEF AheadOK, WindowOK, UsesAreTimes
<1>13. FirstOrNever(Tail(u)) \in Nat
  <2>1. Tail(u) # <<>> => Head(Tail(u)) \in Nat
    BY <1>8, AscendingHead
  <2> QED BY <2>1, OptimalAssumption DEF FirstOrNever, Never
<1>14. CASE exists(b)
  <2>1. /\ HeldBy(Soonest)' /\ DOMAIN cache_map_' = DOMAIN cache_map_ /\ size_' = size_
        /\ nearest_access_' = [nearest_access_ EXCEPT ![b] = FirstOrNever(Tail(u))]
    BY <1>10, <1>13, <1>14, RepositionKeeps DEF AheadOK, NearestOK, exists
  <2>2. NearestOK'
    <3>1. nearest_access_' \in [DOMAIN cache_map_' -> Nat]
      BY <1>13, <2>1 DEF AheadOK, NearestOK
    <3>2. ASSUME NEW x \in DOMAIN cache_map_'
          PROVE  nearest_access_'[x] = FirstOrNever(UsesAhead(x)')
      BY <1>11, <2>1, <3>2 DEF AheadOK, NearestOK
    <3> QED BY <3>1, <3>2 DEF NearestOK, FirstOrNever, Never
  <2> QED BY <1>12, <2>1, <2>2 DEF AheadOK
<1>15. CASE ~ exists(b)
  <2>1. UNCHANGED <<contents, nearest_access_>>
    BY <1>10, <1>15
  <2>2. HeldBy(Soonest)' /\ DOMAIN cache_map_' = DOMAIN cache_map_ /\ size_' = size_
    BY <2>1 DEF AheadOK, HeldBy, Soonest, contents, Heap
  <2>3. NearestOK'
    <3>1. ASSUME NEW x \in DOMAIN cache_map_
          PROVE  nearest_access_[x] = FirstOrNever(UsesAhead(x)')
      BY <1>11, <1>15 DEF AheadOK, NearestOK, exists
    <3> QED BY <2>1, <3>1 DEF AheadOK, NearestOK, FirstOrNever, Never, contents
  <2> QED BY <1>12, <2>2, <2>3 DEF AheadOK
<1> QED BY <1>14, <1>15

\* add_lookahead renews it only if the block had no use ahead.
LEMMA AddLookaheadKeeps ==
    ASSUME AheadOK, NEW b \in Block, NEW z \in Size, AddLookahead(b, z)
    PROVE  AheadOK' /\ DOMAIN cache_map_' = DOMAIN cache_map_ /\ size_' = size_
<1>1. PICK now, w, u, e, v : /\ now = lookahead_counter_ /\ w = lookahead_ /\ u = UsesAhead(b)
                             /\ e = [block |-> b, size |-> z, time |-> now + 1]
                             /\ v = Append(u, now + 1)
  OBVIOUS
<1>2. now \in Nat /\ WindowOf(w, now) /\ now < MaxAdded
  BY <1>1 DEF AheadOK, WindowOK, AddLookahead
<1>3. /\ WindowOf(Append(w, e), now + 1)
      /\ \A x : TimesIn(Append(w, e), x) = IF x = b THEN TimesIn(w, x) \cup {now + 1}
                                           ELSE TimesIn(w, x)
      /\ \A x : \A t \in TimesIn(w, x) : t < now + 1
  <2>1. now \in Nat
    BY <1>2
  <2>2. WindowOf(w, now)
    BY <1>2
  <2>3. e = [block |-> b, size |-> z, time |-> now + 1]
    BY <1>1
  <2> QED BY <2>1, <2>2, <2>3, PushWindow
<1>4. Ascending(u) /\ Elements(u) = TimesIn(w, b) /\ now + 1 \in Nat
  BY <1>1, <1>2 DEF AheadOK, WindowOK, UsesAreTimes
<1>5. /\ Ascending(v) /\ Elements(v) = Elements(u) \cup {now + 1}
      /\ v # <<>> /\ Len(v) = Len(u) + 1
      /\ u # <<>> => Head(v) = Head(u)
      /\ u = <<>> => Head(v) = now + 1
  <2>1. \A t \in Elements(u) : t < now + 1
    BY <1>3, <1>4
  <2> QED BY <1>1, <1>4, <2>1, AscendingAppend
<1>6. Len(v) = 1 <=> u = <<>>
  <2>1. Len(u) \in Nat /\ (u = <<>> <=> Len(u) = 0)
    BY <1>4, LenProperties, EmptySeq DEF Ascending
  <2> QED BY <1>5, <2>1
<1>7. /\ lookahead_' = Append(w, e) /\ lookahead_counter_' = now + 1
      /\ access_distance_map_' = WithUses(b, v)
      /\ IF exists(b) /\ u = <<>> THEN Reposition(b, now + 1)
                                  ELSE UNCHANGED <<contents, nearest_access_>>
  BY <1>1, <1>6 DEF AddLookahead
<1>8. \A x : UsesAhead(x)' = IF x = b THEN v ELSE UsesAhead(x)
  BY <1>7, WithUsesChanges
<1>9. WindowOK'
  <2>1. ASSUME NEW x \in Block
        PROVE  Ascending(UsesAhead(x)') /\ Elements(UsesAhead(x)') = TimesIn(Append(w, e), x)
    <3>1. CASE x = b
      BY <1>3, <1>4, <1>5, <1>8, <3>1
    <3>2. CASE x # b
      BY <1>1, <1>3, <1>8, <3>2 DEF AheadOK, WindowOK, UsesAreTimes
    <3> QED BY <3>1, <3>2
  <2>2. now + 1 \in 0 .. MaxAdded
    BY <1>2, OptimalAssumption
  <2> QED BY <1>3, <1>7, <2>1, <2>2 DEF WindowOK, UsesAreTimes
<1>10. FirstOrNever(v) = IF u = <<>> THEN now + 1 ELSE FirstOrNever(u)
  BY <1>5 DEF FirstOrNever
<1>11. CASE exists(b) /\ u = <<>>
  <2>1. /\ HeldBy(Soonest)' /\ DOMAIN cache_map_' = DOMAIN cache_map_ /\ size_' = size_
        /\ nearest_access_' = [nearest_access_ EXCEPT ![b] = now + 1]
    BY <1>4, <1>7, <1>11, RepositionKeeps DEF AheadOK, NearestOK, exists
  <2>2. NearestOK'
    <3>1. nearest_access_' \in [DOMAIN cache_map_' -> Nat]
      BY <1>4, <2>1 DEF AheadOK, NearestOK
    <3>2. ASSUME NEW x \in DOMAIN cache_map_'
          PROVE  nearest_access_'[x] = FirstOrNever(UsesAhead(x)')
      BY <1>8, <1>10, <1>11, <2>1, <3>2 DEF AheadOK, NearestOK
    <3> QED BY <3>1, <3>2 DEF NearestOK, FirstOrNever, Never
  <2> QED BY <1>9, <2>1, <2>2 DEF AheadOK
<1>12. CASE ~ (exists(b) /\ u = <<>>)
  <2>1. UNCHANGED <<contents, nearest_access_>>
    BY <1>7, <1>12
  <2>2. HeldBy(Soonest)' /\ DOMAIN cache_map_' = DOMAIN cache_map_ /\ size_' = size_
    BY <2>1 DEF AheadOK, HeldBy, Soonest, contents, Heap
  <2>3. NearestOK'
    <3>1. ASSUME NEW x \in DOMAIN cache_map_
          PROVE  nearest_access_[x] = FirstOrNever(UsesAhead(x)')
      BY <1>1, <1>8, <1>10, <1>12 DEF AheadOK, NearestOK, exists
    <3> QED BY <2>1, <3>1 DEF AheadOK, NearestOK, FirstOrNever, Never, contents
  <2> QED BY <1>9, <2>2, <2>3 DEF AheadOK
<1> QED BY <1>11, <1>12

\* The keys of the blocks that remain do not change when blocks go.
LEMMA ForgetGoes ==
    ASSUME OptimalInv, Takes(Soonest), Forget
    PROVE  OptimalInv' /\ Promised
<1>1. PICK k1, k2, B : k1 = Soonest /\ k2 = Soonest' /\ B = DOMAIN cache_map_
  OBVIOUS
<1>2. HeldBy(k1) /\ Calling /\ Takes(k1)
  BY <1>1 DEF OptimalInv, AheadOK
<1>3. DOMAIN cache_map_' \subseteq B
  BY <1>1, <1>2, TakesShrinks
<1>4. nearest_access_' = [x \in DOMAIN cache_map_' |-> nearest_access_[x]] /\ UNCHANGED window
  BY DEF Forget, Remaining
<1>5. \A x \in DOMAIN cache_map_' : k2[x] = k1[x]
  BY <1>1, <1>3, <1>4 DEF Soonest, MaxKey, OptimalInv, AheadOK, NearestOK
<1>6. Goes(k2)
  BY <1>2, <1>5, TakesGoes
<1>7. WindowOK' /\ \A x : UsesAhead(x)' = UsesAhead(x)
  BY <1>4 DEF OptimalInv, AheadOK, WindowOK, UsesAreTimes, UsesAhead, window
<1>8. NearestOK'
  BY <1>1, <1>3, <1>4, <1>7
  DEF OptimalInv, AheadOK, NearestOK, FirstOrNever, Never
<1> QED BY <1>1, <1>6, <1>7, <1>8 DEF OptimalInv, AheadOK, Goes

\* The end of an insertion: the key of the new block is read from the window.
LEMMA AdmitAheadGoes ==
    ASSUME OptimalInv, AdmitAhead
    PROVE  OptimalInv' /\ Promised /\ DOMAIN cache_map_ \subseteq DOMAIN cache_map_'
<1>1. PICK k1, k2, b, t, B : /\ k1 = Soonest /\ k2 = Soonest' /\ b = call.block
                             /\ t = FirstOrNever(UsesAhead(b)) /\ B = DOMAIN cache_map_
  OBVIOUS
<1>2. HeldBy(k1) /\ Calling /\ WindowOK /\ NearestOK
  BY <1>1 DEF OptimalInv, AheadOK
<1>3. InsertingNew
  BY <1>2 DEF AdmitAhead, Calling, Idle, Exited, PurgingFile
<1>4. b \in Block /\ b \notin B
  BY <1>1, <1>3 DEF InsertingNew
<1>5. nearest_access_' = Add(nearest_access_, b, t) /\ UNCHANGED window
  BY <1>1 DEF AdmitAhead
<1>6. t \in Nat
  <2>1. Ascending(UsesAhead(b))
    BY <1>2, <1>4 DEF WindowOK, UsesAreTimes
  <2>2. UsesAhead(b) # <<>> => Head(UsesAhead(b)) \in Nat
    BY <2>1, AscendingHead
  <2> QED BY <1>1, <2>2, OptimalAssumption DEF FirstOrNever, Never
<1>7. nearest_access_ \in [B -> Nat]
  BY <1>1, <1>2 DEF NearestOK
<1>8. /\ nearest_access_' \in [B \cup {b} -> Nat]
      /\ nearest_access_'[b] = t
      /\ \A x \in B : nearest_access_'[x] = nearest_access_[x]
  BY <1>4, <1>5, <1>6, <1>7 DEF Add
<1>9. Admit(k2)
  BY <1>1 DEF AdmitAhead, Soonest
<1>10. k2[b] \in Int /\ \A x \in B : k2[x] = k1[x]
  BY <1>1, <1>6, <1>7, <1>8 DEF Soonest, MaxKey
<1>11. Goes(k2) /\ DOMAIN cache_map_' = B \cup {b}
  BY <1>1, <1>2, <1>9, <1>10, AdmitGoes
<1>12. WindowOK' /\ \A x : UsesAhead(x)' = UsesAhead(x)
  BY <1>2, <1>5 DEF WindowOK, UsesAreTimes, UsesAhead, window
<1>13. NearestOK'
  <2>1. \A x \in B \cup {b} : nearest_access_'[x] = FirstOrNever(UsesAhead(x)')
    BY <1>1, <1>2, <1>8, <1>12 DEF NearestOK
  <2> QED BY <1>8, <1>11, <2>1 DEF NearestOK, FirstOrNever, Never
<1> QED BY <1>1, <1>11, <1>12, <1>13 DEF OptimalInv, AheadOK, Goes

\* Steps that leave heap and window alone.
LEMMA StaysGoes ==
    ASSUME OptimalInv, UNCHANGED <<contents, nearest_access_, window>>
    PROVE  AheadOK'
<1>1. \A x : UsesAhead(x)' = UsesAhead(x)
  BY DEF UsesAhead, window
<1> QED BY <1>1 DEF OptimalInv, AheadOK, HeldBy, Soonest, Heap, contents, window, WindowOK,
                    UsesAreTimes, NearestOK, FirstOrNever, Never

\* The front of the window is a block with a size.
LEMMA FrontIsEntry ==
    ASSUME WindowOK, lookahead_ # <<>>
    PROVE  Head(lookahead_).block \in Block /\ Head(lookahead_).size \in Size
<1>1. PICK front, w, now : front = Head(w) /\ w = lookahead_ /\ now = lookahead_counter_
  OBVIOUS
<1>2. now \in Nat
  BY <1>1 DEF WindowOK
<1>3. WindowOf(w, now)
  BY <1>1 DEF WindowOK
<1>4. w # <<>>
  BY <1>1
<1>5. FrontOf(w, now, front)
  BY <1>1, <1>2, <1>3, <1>4, PopWindow
<1> QED BY <1>1, <1>5 DEF FrontOf

\* Every step keeps the invariant and is a step of Cache, or none.
LEMMA OptimalStep == OptimalInv /\ [OptimalNext]_optimalVars => OptimalInv' /\ Promised
<1> SUFFICES ASSUME OptimalInv, [OptimalNext]_optimalVars PROVE OptimalInv' /\ Promised
  OBVIOUS
<1>1. PICK k : k = Soonest
  OBVIOUS
<1>2. AheadOK /\ HeldBy(k) /\ Calling /\ WindowOK
  BY <1>1 DEF OptimalInv, AheadOK
<1>3. ASSUME AheadOK', DOMAIN cache_map_' = DOMAIN cache_map_, size_' = size_, UNCHANGED call
      PROVE  OptimalInv' /\ Promised
  <2>1. Calling'
    BY <1>2, <1>3, CallingStill
  <2> QED BY <1>3, <2>1 DEF OptimalInv, Promised, Abstract!vars, AbstractCall
<1>4. ASSUME NEW b \in Block, NEW s \in Size, AddLookahead(b, s)
      PROVE  OptimalInv' /\ Promised
  <2>1. AheadOK' /\ DOMAIN cache_map_' = DOMAIN cache_map_ /\ size_' = size_
    BY <1>2, <1>4, AddLookaheadKeeps
  <2> QED BY <1>3, <1>4, <2>1 DEF AddLookahead
<1>5. CASE AdvanceHit
  <2>1. AheadOK' /\ DOMAIN cache_map_' = DOMAIN cache_map_ /\ size_' = size_
    BY <1>2, <1>5, PopKeeps DEF AdvanceHit
  <2> QED BY <1>3, <1>5, <2>1 DEF AdvanceHit
<1>6. PICK b, s : b = Head(lookahead_).block /\ s = Head(lookahead_).size
  OBVIOUS
<1>7. CASE AdvanceTooBig
  <2>1. b \in Block /\ s \in Size
    BY <1>2, <1>6, <1>7, FrontIsEntry DEF AdvanceTooBig
  <2>2. UNCHANGED contents /\ call = Idle /\ s > MaxSize /\ call' = Exited
    BY <1>6, <1>7 DEF AdvanceTooBig
  <2>3. Goes(k)
    BY <1>2, <2>1, <2>2, StartGoes
  <2>4. AheadOK'
    BY <1>7, StaysGoes DEF AdvanceTooBig
  <2> QED BY <2>3, <2>4 DEF OptimalInv, Goes
<1>8. CASE AdvanceMiss
  <2>1. b \in Block /\ s \in Size
    BY <1>2, <1>6, <1>8, FrontIsEntry DEF AdvanceMiss
  <2>2. AheadOK'
    BY <1>2, <1>8, PopKeeps DEF AdvanceMiss
  <2>3. ~ exists(b) /\ call = Idle /\ s <= MaxSize /\ call' = Inserting(b, s)
    BY <1>6, <1>8 DEF AdvanceMiss
  <2>4. UNCHANGED contents
    BY <1>6, <1>8, <2>3 DEF AdvanceMiss, pop_lookahead_front
  <2>5. Goes(k)
    BY <1>2, <2>1, <2>3, <2>4, StartGoes
  <2> QED BY <2>2, <2>5 DEF OptimalInv, Goes
<1>9. CASE EvictAhead
  BY <1>9, ForgetGoes DEF EvictAhead, Takes
<1>10. CASE AdmitAhead
  BY <1>10, AdmitAheadGoes
<1>11. CASE Remove
  BY <1>11, ForgetGoes DEF Remove, Takes
<1>12. ASSUME NEW f \in File, PurgeBegin(f)
       PROVE  OptimalInv' /\ Promised
  <2>1. Goes(k)
    BY <1>2, <1>12, RemoveFileBlocksGoes DEF PurgeBegin
  <2>2. AheadOK'
    BY <1>12, StaysGoes DEF PurgeBegin, RemoveFileBlocks
  <2> QED BY <2>1, <2>2 DEF OptimalInv, Goes
<1>13. CASE Purge
  <2>1. CASE PurgeNext(Soonest) /\ Forget
    BY <2>1, ForgetGoes DEF Takes
  <2>2. CASE PurgeReturn /\ UNCHANGED <<nearest_access_, window>>
    <3>1. Goes(k)
      BY <1>2, <2>2, PurgeReturnGoes
    <3>2. AheadOK'
      BY <2>2, StaysGoes DEF PurgeReturn
    <3> QED BY <3>1, <3>2 DEF OptimalInv, Goes
  <2> QED BY <1>13, <2>1, <2>2 DEF Purge
<1>14. CASE UNCHANGED optimalVars
  <2>1. AheadOK'
    BY <1>14, StaysGoes DEF optimalVars
  <2> QED BY <1>3, <1>14, <2>1 DEF optimalVars, contents
<1> QED BY <1>4, <1>5, <1>7, <1>8, <1>9, <1>10, <1>11, <1>12, <1>13, <1>14 DEF OptimalNext

\* The invariant holds at first, and always.
LEMMA OptimalInitially == OptimalInit => OptimalInv
<1> SUFFICES ASSUME OptimalInit PROVE OptimalInv
  OBVIOUS
<1>1. PICK k : k = Soonest
  OBVIOUS
<1>2. HeldBy(k) /\ Calling
  BY NothingHeld DEF OptimalInit
<1>3. DOMAIN cache_map_ = {} /\ DOMAIN access_distance_map_ = {} /\ DOMAIN nearest_access_ = {}
  BY DEF OptimalInit, HeapCacheInit
<1>4. Len(lookahead_) = 0 /\ lookahead_ = <<>>
  BY DEF OptimalInit
<1>5. \A b : UsesAhead(b) = <<>> /\ TimesIn(lookahead_, b) = {}
  BY <1>3, <1>4 DEF UsesAhead, TimesIn
<1>6. Ascending(<<>>) /\ Elements(<<>>) = {}
  BY DEF Ascending, Elements
<1>7. UsesAreTimes
  BY <1>5, <1>6 DEF UsesAreTimes
<1>8. WindowOK
  BY <1>4, <1>7, OptimalAssumption DEF OptimalInit, WindowOK, WindowOf
<1>9. NearestOK
  BY <1>3 DEF OptimalInit, NearestOK
<1> QED BY <1>1, <1>2, <1>8, <1>9 DEF OptimalInv, AheadOK

LEMMA OptimalInvariant == OptimalSpec => []OptimalInv
<1>1. OptimalInv /\ [OptimalNext]_optimalVars => OptimalInv'
  BY OptimalStep
<1> QED BY <1>1, OptimalInitially, PTL DEF OptimalSpec

\* The invariant in terms of the properties.
LEMMA OptimalHolds ==
    ASSUME OptimalInv
    PROVE  MapFollowsHeap /\ NearestIsNextUse
<1>1. PICK k : k = Soonest
  OBVIOUS
<1>2. HeldBy(k) /\ WindowOK /\ NearestOK
  BY <1>1 DEF OptimalInv, AheadOK
<1>3. MapFollowsHeap
  BY <1>2, HeldFacts DEF MapFollowsHeap, HeldBy
<1>4. DOMAIN cache_map_ \subseteq Block
  BY <1>2 DEF HeldBy
<1>5. NearestIsNextUse
  BY <1>2, <1>4, FirstIsNextUse DEF NearestOK, NearestIsNextUse
<1> QED BY <1>3, <1>5

\* So it does in an OptimalCache, where keys also change as the window moves.
THEOREM OptimalMapFollowsHeap == OptimalSpec => []MapFollowsHeap
<1>1. OptimalInv => MapFollowsHeap
  BY OptimalHolds
<1> QED BY <1>1, OptimalInvariant, PTL

\* The key of a resident block is its next use in the window, or UINT64_MAX:
\* add_lookahead, advance_lookahead and insert_block renew every key they change.
THEOREM OptimalNearestIsNextUse == OptimalSpec => []NearestIsNextUse
<1>1. OptimalInv => NearestIsNextUse
  BY OptimalHolds
<1> QED BY <1>1, OptimalInvariant, PTL

\* Every step of an OptimalCache is a step of the abstract cache, or a stutter.
THEOREM OptimalRefinement == OptimalSpec => ImplementsCache
<1>1. OptimalInit => Abstract!Init
  BY DEF OptimalInit, HeapCacheInit, Abstract!Init, AbstractCall, Abstract!Idle, Idle
<1>2. OptimalInv /\ [OptimalNext]_optimalVars => [Abstract!Next]_(Abstract!vars)
  BY OptimalStep DEF Promised
<1> QED BY <1>1, <1>2, OptimalInvariant, PTL DEF OptimalSpec, ImplementsCache, Abstract!Spec

\* The block that goes to make room has no earlier next use in the window than
\* any other, or none at all.
THEOREM OptimalVictimUsedLast == OptimalSpec => VictimUsedLast
<1>1. ASSUME OptimalInv, [OptimalNext]_optimalVars, call.op = "insert",
             NEW v \in DOMAIN cache_map_ \ DOMAIN cache_map_', NEW b \in DOMAIN cache_map_
      PROVE  NextUse(b) <= NextUse(v)
  <2>1. PICK k : k = Soonest
    OBVIOUS
  <2>2. HeldBy(k) /\ Calling /\ NearestOK
    BY <1>1, <2>1 DEF OptimalInv, AheadOK
  <2>3. EvictForInsert(k)
    <3>1. InsertingNew
      BY <1>1, <2>2 DEF Calling, Idle, Exited, PurgingFile
    <3>2. call # Idle /\ call.op # "remove_file"
      BY <3>1 DEF InsertingNew, Idle
    <3>3. ~ UNCHANGED cache_map_
      BY <1>1
    <3>4. ~ AdmitAhead
      BY <1>1, AdmitAheadGoes
    <3>5. ~ AdvanceHit /\ ~ AdvanceTooBig /\ ~ AdvanceMiss
      BY <3>2 DEF AdvanceHit, AdvanceTooBig, AdvanceMiss
    <3>6. ~ Remove /\ ~ Purge
      BY <3>2 DEF Remove, RemoveBlock, EvictBlock, Purge, PurgeNext, PurgeReturn
    <3>7. \A f \in File : ~ PurgeBegin(f)
      BY <3>2 DEF PurgeBegin, RemoveFileBlocks
    <3>8. \A x \in Block, s \in Size : ~ AddLookahead(x, s)
      BY <3>2 DEF AddLookahead
    <3>9. EvictAhead
      BY <1>1, <3>3, <3>4, <3>5, <3>6, <3>7, <3>8 DEF OptimalNext, optimalVars, contents
    <3> QED BY <2>1, <3>9 DEF EvictAhead
  <2>4. k[v] <= k[b]
    BY <2>2, <2>3, EvictsLeast
  <2>5. nearest_access_[b] <= nearest_access_[v]
    BY <2>1, <2>2, <2>4 DEF Soonest, MaxKey, NearestOK
  <2>6. NearestIsNextUse
    BY <1>1, OptimalHolds
  <2> QED BY <2>5, <2>6 DEF NearestIsNextUse
<1>2. OptimalInv /\ [OptimalNext]_optimalVars =>
        [ call.op = "insert" =>
            \A v \in DOMAIN cache_map_ \ DOMAIN cache_map_' :
                \A b \in DOMAIN cache_map_ : NextUse(b) <= NextUse(v) ]_optimalVars
  BY <1>1
<1> QED BY <1>2, OptimalInvariant, PTL DEF OptimalSpec, VictimUsedLast

(***************************************************************************)
(* Belady: OptimalCache, used offline, misses no more than any rival.  For *)
(* every time t, the rival has paid, in misses, for every block it holds   *)
(* over those of the cache that is used again by t.                        *)
(***************************************************************************)
\* The blocks of S that are used again by time t, next[b] being b's next use.
UsedBy(S, next, t) == {b \in S : next[b] <= t}

\* An access to b, next uses being n1 before it and n2 after it: of two caches
\* with room for C blocks, one that held R keeps V besides b, and one that held
\* O keeps U, which is all of it but, at most, a block used last.
AccessTo(b, B, N, C, n1, n2, O, U, R, V) ==
    /\ n1 \in [B -> Nat] /\ n2 \in [B -> Nat] /\ b \in B
    /\ n1[b] \in 1 .. N /\ n1[b] < n2[b]
    /\ \A x \in B \ {b} : n2[x] = n1[x] /\ n1[b] < n1[x]
    /\ O \subseteq B /\ IsFiniteSet(O) /\ R \subseteq B /\ IsFiniteSet(R)
    /\ V \subseteq R \ {b} /\ Cardinality(V) + 1 <= C
    /\ \/ U = O \ {b}
       \/ \E v \in O : /\ U = O \ {v} /\ b \notin O /\ Cardinality(O) = C
                       /\ \A x \in O : n1[x] <= n1[v]

\* If O paid no more than R for what it has, then U does not pay more than V.
LEMMA ExchangeKeepsLead ==
    ASSUME NEW B, NEW N \in Nat, NEW C \in Nat, NEW p \in Nat, NEW q \in Nat,
           NEW p2 \in Nat, NEW q2 \in Nat,
           NEW b, NEW n1, NEW n2, NEW O, NEW U, NEW R, NEW V,
           AccessTo(b, B, N, C, n1, n2, O, U, R, V),
           \A t \in 0 .. N : Cardinality(UsedBy(R, n1, t)) + p
                                <= Cardinality(UsedBy(O, n1, t)) + q,
           p2 = IF b \in O THEN p ELSE p + 1,
           q2 = IF b \in R THEN q ELSE q + 1
    PROVE  \A t \in 0 .. N : Cardinality(UsedBy(V \cup {b}, n2, t)) + p2
                               <= Cardinality(UsedBy(U \cup {b}, n2, t)) + q2
<1> USE DEF AccessTo
<1>1. PICK now : now = n1[b]
  OBVIOUS
<1>2. now \in 1 .. N /\ \A x \in B : n1[x] >= now /\ n2[x] >= now /\ (x # b => n1[x] > now)
  BY <1>1
<1>3. \A S, n, t : UsedBy(S, n, t) \subseteq S
  BY DEF UsedBy
<1>4. ASSUME NEW t \in 0 .. N, t < now, NEW S \in SUBSET B
      PROVE  UsedBy(S, n1, t) = {} /\ UsedBy(S, n2, t) = {}
  BY <1>2, <1>4 DEF UsedBy
<1>5. Cardinality({}) = 0 /\ Cardinality({b}) = 1 /\ IsFiniteSet({b})
  BY FS_EmptySet, FS_Singleton
<1>6. p <= q
  <2>1. UsedBy(R, n1, 0) = {} /\ UsedBy(O, n1, 0) = {}
    BY <1>2, <1>4
  <2> QED BY <1>5, <2>1
<1>7. p2 <= q2
  <2>1. CASE b \in O \/ b \notin R
    BY <1>6, <2>1
  <2>2. CASE b \notin O /\ b \in R
    <3>1. UsedBy(R, n1, now) = {b} /\ UsedBy(O, n1, now) = {}
      BY <1>1, <1>2, <2>2 DEF UsedBy
    <3> QED BY <1>2, <1>5, <2>2, <3>1
  <2> QED BY <2>1, <2>2
<1>8. U \subseteq O \ {b} /\ IsFiniteSet(U) /\ IsFiniteSet(V) /\ U \subseteq B /\ V \subseteq B
  BY FS_Subset
<1>9. ASSUME NEW t \in 0 .. N
      PROVE  Cardinality(UsedBy(V \cup {b}, n2, t)) + p2
               <= Cardinality(UsedBy(U \cup {b}, n2, t)) + q2
  <2>1. CASE t < now
    <3>1. V \cup {b} \in SUBSET B /\ U \cup {b} \in SUBSET B
      BY <1>8
    <3>2. UsedBy(V \cup {b}, n2, t) = {} /\ UsedBy(U \cup {b}, n2, t) = {}
      BY <1>4, <2>1, <3>1
    <3>3. /\ Cardinality(UsedBy(V \cup {b}, n2, t)) = 0
          /\ Cardinality(UsedBy(U \cup {b}, n2, t)) = 0
      BY <1>5, <3>2
    <3> QED BY <1>7, <3>3
  <2>2. CASE now <= t
    <3>1. PICK WR, WO, WV, WU : /\ WR = UsedBy(R, n1, t) /\ WO = UsedBy(O, n1, t)
                                /\ WV = UsedBy(V, n1, t) /\ WU = UsedBy(U, n1, t)
      OBVIOUS
    <3>2. /\ IsFiniteSet(WR) /\ IsFiniteSet(WO) /\ IsFiniteSet(WV) /\ IsFiniteSet(WU)
          /\ Cardinality(WR) \in Nat /\ Cardinality(WO) \in Nat
          /\ Cardinality(WV) \in Nat /\ Cardinality(WU) \in Nat
      BY <1>3, <1>8, <3>1, FS_Subset, FS_CardinalityType
    <3>3. Cardinality(WR) + p <= Cardinality(WO) + q
      BY <3>1
    <3>4. Cardinality(WV) + (IF b \in R THEN 1 ELSE 0) <= Cardinality(WR)
      <4>1. WV \subseteq WR \ {b} /\ (b \in R => b \in WR)
        BY <1>1, <2>2, <3>1 DEF UsedBy
      <4>2. Cardinality(WR \ {b}) = IF b \in WR THEN Cardinality(WR) - 1 ELSE Cardinality(WR)
        BY <3>2, FS_RemoveElement
      <4>3. IsFiniteSet(WR \ {b}) /\ Cardinality(WV) <= Cardinality(WR \ {b})
        BY <3>2, <4>1, FS_Subset
      <4> QED BY <3>2, <4>1, <4>2, <4>3
    <3>5. Cardinality(WV) + p2 <= Cardinality(WU) + q2
      <4>1. ASSUME WU = WO \ {b}
            PROVE  Cardinality(WV) + p2 <= Cardinality(WU) + q2
        <5>1. b \in WO <=> b \in O
          BY <1>1, <2>2, <3>1 DEF UsedBy
        <5>2. Cardinality(WU) = IF b \in O THEN Cardinality(WO) - 1 ELSE Cardinality(WO)
          BY <3>2, <4>1, <5>1, FS_RemoveElement
        <5> QED BY <3>2, <3>3, <3>4, <5>2
      <4>2. CASE U = O \ {b}
        BY <3>1, <4>1, <4>2 DEF UsedBy
      <4>3. CASE U # O \ {b}
        <5>1. PICK v \in O : /\ U = O \ {v} /\ b \notin O
                             /\ \A x \in O : n1[x] <= n1[v]
                             /\ Cardinality(O) = C
          BY <4>3
        <5>2. CASE n1[v] > t
          BY <3>1, <4>1, <5>1, <5>2 DEF UsedBy
        <5>3. CASE n1[v] <= t
          <6>1. WU = U
            BY <3>1, <5>1, <5>3 DEF UsedBy
          <6>2. Cardinality(U) = C - 1
            BY <5>1, FS_RemoveElement
          <6>3. Cardinality(WV) <= Cardinality(V) /\ Cardinality(V) \in Nat
            BY <1>3, <1>8, <3>1, FS_Subset, FS_CardinalityType
          <6> QED BY <1>7, <3>2, <6>1, <6>2, <6>3
        <5> QED BY <5>1, <5>2, <5>3
      <4> QED BY <4>2, <4>3
    <3>6. ASSUME NEW S, S \subseteq B, IsFiniteSet(S), b \notin S
          PROVE  Cardinality(UsedBy(S \cup {b}, n2, t)) =
                   Cardinality(UsedBy(S, n1, t)) + (IF n2[b] <= t THEN 1 ELSE 0)
      <4>1. IsFiniteSet(UsedBy(S, n1, t)) /\ b \notin UsedBy(S, n1, t)
        BY <1>3, <3>6, FS_Subset
      <4>2. UsedBy(S \cup {b}, n2, t) =
              IF n2[b] <= t THEN UsedBy(S, n1, t) \cup {b} ELSE UsedBy(S, n1, t)
        BY <3>6 DEF UsedBy
      <4>3. Cardinality(UsedBy(S, n1, t)) \in Nat
        BY <4>1, FS_CardinalityType
      <4>4. Cardinality(UsedBy(S, n1, t) \cup {b}) = Cardinality(UsedBy(S, n1, t)) + 1
        BY <4>1, FS_AddElement
      <4> QED BY <4>2, <4>3, <4>4
    <3>7. b \notin U /\ b \notin V
      BY <1>8
    <3>8. /\ Cardinality(UsedBy(V \cup {b}, n2, t)) =
               Cardinality(WV) + (IF n2[b] <= t THEN 1 ELSE 0)
          /\ Cardinality(UsedBy(U \cup {b}, n2, t)) =
               Cardinality(WU) + (IF n2[b] <= t THEN 1 ELSE 0)
      BY <1>8, <3>1, <3>6, <3>7
    <3> QED BY <3>2, <3>5, <3>8
  <2> QED BY <1>2, <2>1, <2>2
<1> QED BY <1>9

\* The next use of b in a window, as NextUse has it.
NextIn(w, b) ==
    IF TimesIn(w, b) = {} THEN Never
    ELSE CHOOSE t \in TimesIn(w, b) : \A u \in TimesIn(w, b) : t <= u

LEMMA NextIsLeast ==
    ASSUME NEW now \in 0 .. MaxAdded, NEW w, WindowOf(w, now), NEW b
    PROVE  /\ NextIn(w, b) \in Nat
           /\ TimesIn(w, b) \subseteq 1 .. now
           /\ TimesIn(w, b) = {} => NextIn(w, b) = Never
           /\ TimesIn(w, b) # {} => /\ NextIn(w, b) \in TimesIn(w, b)
                                    /\ \A t \in TimesIn(w, b) : NextIn(w, b) <= t
<1>1. PICK T, E : T = TimesIn(w, b) /\ E = [block : Block, size : Size, time : 1 .. now]
  OBVIOUS
<1>2. T \subseteq 1 .. now
  <2>1. \A i \in 1 .. Len(w) : w[i] \in E
    BY <1>1, ElementOfSeq DEF WindowOf
  <2> QED BY <1>1, <2>1 DEF TimesIn
<1>3. now \in Nat /\ Never \in Nat
  BY OptimalAssumption DEF Never
<1>4. CASE T = {}
  BY <1>1, <1>2, <1>3, <1>4 DEF NextIn
<1>5. CASE T # {}
  <2>1. T \subseteq Nat
    BY <1>2
  <2>2. \E m \in T : \A k \in T : m <= k
    BY <1>5, <2>1, Least
  <2> QED BY <1>1, <1>2, <1>5, <2>1, <2>2 DEF NextIn
<1> QED BY <1>4, <1>5

\* What comes off the window is the soonest use of all; the block's next one is
\* later, and those of the others are what they were.
LEMMA FrontIsSoonest ==
    ASSUME AheadOK, lookahead_ # <<>>, pop_lookahead_front,
           NEW b, b = Head(lookahead_).block
    PROVE  /\ b \in Block
           /\ NextUse(b) \in 1 .. MaxAdded /\ NextUse(b) < NextUse(b)'
           /\ \A x \in Block : NextUse(x) \in Nat /\ NextUse(x)' \in Nat
           /\ \A x \in Block \ {b} : NextUse(x)' = NextUse(x) /\ NextUse(b) < NextUse(x)
<1>1. PICK now, w, front, v : /\ now = lookahead_counter_ /\ w = lookahead_
                              /\ front = Head(w) /\ v = Tail(w)
  OBVIOUS
<1>2. now \in 0 .. MaxAdded /\ WindowOf(w, now) /\ w # <<>> /\ now \in Nat /\ MaxAdded \in Nat
  BY <1>1, OptimalAssumption DEF AheadOK, WindowOK
<1>3. FrontOf(w, now, front)
  BY <1>1, <1>2, PopWindow
<1>4. lookahead_' = v
  BY <1>1 DEF pop_lookahead_front
<1>5. /\ front \in [block : Block, size : Size, time : 1 .. now] /\ WindowOf(v, now)
      /\ \A x : TimesIn(v, x) = IF x = b THEN TimesIn(w, x) \ {front.time} ELSE TimesIn(w, x)
      /\ front.time \in TimesIn(w, b) /\ b = front.block
      /\ \A t \in TimesIn(w, b) : front.time <= t
  BY <1>1, <1>3 DEF FrontOf
<1>6. b \in Block /\ front.time \in 1 .. now
  BY <1>5
<1>7. \A x : NextUse(x) = NextIn(w, x) /\ NextUse(x)' = NextIn(v, x)
  BY <1>1, <1>4 DEF NextUse, NextIn, TimesInWindow, TimesIn
<1>8. \A x : /\ NextIn(w, x) \in Nat /\ NextIn(v, x) \in Nat
             /\ TimesIn(w, x) \subseteq 1 .. now /\ TimesIn(v, x) \subseteq 1 .. now
  BY <1>2, <1>5, NextIsLeast
<1>9. NextIn(w, b) = front.time
  <2>1. NextIn(w, b) \in TimesIn(w, b) /\ \A t \in TimesIn(w, b) : NextIn(w, b) <= t
    BY <1>2, <1>5, NextIsLeast
  <2> QED BY <1>5, <1>6, <1>8, <2>1
<1>10. \A x : NextIn(v, x) = Never \/ NextIn(v, x) \in TimesIn(v, x)
  BY <1>2, <1>5, NextIsLeast
<1>11. NextIn(w, b) < NextIn(v, b)
  <2>1. NextIn(v, b) = Never \/ (NextIn(v, b) \in TimesIn(w, b) /\ NextIn(v, b) # front.time)
    BY <1>5, <1>10
  <2> QED BY <1>2, <1>5, <1>6, <1>8, <1>9, <2>1 DEF Never
<1>12. ASSUME NEW x \in Block \ {b}
       PROVE  NextIn(v, x) = NextIn(w, x) /\ NextIn(w, b) < NextIn(w, x)
  <2>1. TimesIn(v, x) = TimesIn(w, x)
    BY <1>5
  <2>2. NextIn(v, x) = NextIn(w, x)
    BY <2>1 DEF NextIn
  <2>3. CASE NextIn(v, x) = Never
    BY <1>2, <1>6, <1>9, <2>2, <2>3 DEF Never
  <2>4. CASE NextIn(v, x) # Never
    <3>1. NextIn(w, x) \in TimesIn(w, x)
      BY <1>10, <2>1, <2>2, <2>4
    <3>2. PICK i \in 1 .. Len(w) : w[i].block = x /\ NextIn(w, x) = w[i].time
      BY <3>1 DEF TimesIn
    <3>3. front = w[1] /\ Len(w) \in Nat
      BY <1>1, <1>2, HeadTailProperties, LenProperties DEF WindowOf
    <3>4. i # 1 /\ 1 \in 1 .. Len(w)
      BY <1>5, <3>2, <3>3
    <3>5. w[1].time < w[i].time
      BY <1>2, <3>2, <3>4 DEF WindowOf
    <3> QED BY <1>9, <2>2, <3>2, <3>3, <3>5
  <2> QED BY <2>2, <2>3, <2>4
<1> QED BY <1>2, <1>6, <1>7, <1>8, <1>9, <1>11, <1>12

\* Popping takes the front away and leaves what else waits, and the clock.
LEMMA PopShortens ==
    ASSUME WindowOK, lookahead_ # <<>>, pop_lookahead_front
    PROVE  /\ Len(lookahead_) \in Nat /\ Len(lookahead_') = Len(lookahead_) - 1
           /\ lookahead_counter_' = lookahead_counter_ /\ lookahead_counter_ \in Nat
           /\ \A i \in 1 .. Len(lookahead_') : lookahead_'[i] = lookahead_[i + 1]
           /\ Head(lookahead_) = lookahead_[1]
<1>1. lookahead_' = Tail(lookahead_) /\ lookahead_counter_' = lookahead_counter_
  BY DEF pop_lookahead_front
<1>2. lookahead_ \in Seq([block : Block, size : Size, time : 1 .. lookahead_counter_])
  BY DEF WindowOK, WindowOf
<1>3. lookahead_counter_ \in Nat
  BY OptimalAssumption DEF WindowOK
<1> QED BY <1>1, <1>2, <1>3, HeadTailProperties, LenProperties

NextUses == [b \in Block |-> NextUse(b)]

\* However far ahead one looks: the rival has paid, in misses, for every block
\* that it has more than S among those used until then.
NoRivalAhead(S) ==
    \A t \in 0 .. MaxAdded :
        Cardinality(UsedBy(rival, NextUses, t)) + opt_misses
            <= Cardinality(UsedBy(S, NextUses, t)) + rival_misses

\* What the cache will hold when the call in progress, if any, has returned.
Prospects ==
    LET held == DOMAIN cache_map_
        last == {v \in held : \A b \in held : NextUse(b) <= NextUse(v)}
    IN  IF call = Idle THEN {held}
        ELSE IF Cardinality(held) < MaxSize THEN {held \cup {call.block}}
        ELSE {(held \ {v}) \cup {call.block} : v \in last}

OfOneSize ==
    /\ \A b \in DOMAIN size_ : size_[b] = 1
    /\ \A i \in 1 .. Len(lookahead_) : lookahead_[i].size = 1
    /\ call = Idle \/ (InsertingNew /\ call.size = 1)

\* Nothing was taken from the window yet.
Unused ==
    /\ DOMAIN cache_map_ = {} /\ call = Idle
    /\ rival = {} /\ opt_misses = 0 /\ rival_misses = 0

OfflineOK ==
    /\ OfOneSize
    /\ Len(lookahead_) <= lookahead_counter_
    /\ Len(lookahead_) = lookahead_counter_ => Unused
    /\ rival \subseteq Block /\ Cardinality(rival) <= MaxSize
    /\ opt_misses \in Nat /\ rival_misses \in Nat /\ opt_misses <= rival_misses
    /\ \A S \in Prospects : NoRivalAhead(S)

ContestOK ==
    \/ offline = TRUE /\ OfflineOK
    \/ offline = FALSE /\ rival = {} /\ opt_misses = 0 /\ rival_misses = 0

BeladyInv == OptimalInv /\ ContestOK

\* Blocks of one size: curr_size_ is how many there are.
LEMMA OnePerBlock ==
    ASSUME NEW key, HeldBy(key), \A b \in DOMAIN size_ : size_[b] = 1
    PROVE  /\ IsFiniteSet(DOMAIN cache_map_) /\ curr_size_ = Cardinality(DOMAIN cache_map_)
           /\ curr_size_ \in Nat /\ curr_size_ <= MaxSize
<1>1. DOMAIN size_ = DOMAIN cache_map_ /\ IsFiniteSet(DOMAIN cache_map_)
  BY FS_Subset, HeapCacheAssumption DEF HeldBy
<1>2. Bytes(size_) = (DOMAIN cache_map_) \X {1}
  <2>1. \A b \in DOMAIN size_ : 1 .. size_[b] = {1}
    OBVIOUS
  <2> QED BY <1>1, <2>1 DEF Bytes
<1>3. Cardinality(DOMAIN cache_map_) \in Nat /\ IsFiniteSet({1}) /\ Cardinality({1}) = 1
  BY <1>1, FS_CardinalityType, FS_Singleton
<1>4. Cardinality((DOMAIN cache_map_) \X {1}) = Cardinality(DOMAIN cache_map_) * 1
  BY <1>1, <1>3, FS_Product
<1> QED BY <1>1, <1>2, <1>3, <1>4 DEF HeldBy, TotalSize

\* Reading the trace before anything of it is used leaves all at nothing.
LEMMA ReadKeepsContest ==
    ASSUME OptimalInv, OptimalInv', ContestOK, NEW b \in Block, NEW s \in Size, Read(b, s)
    PROVE  ContestOK'
<1>1. CASE CallOff
  BY <1>1 DEF CallOff, ContestOK
<1>2. CASE s = 1 /\ lookahead_counter_ = Len(lookahead_) /\ UNCHANGED <<offline, contest>>
  <2>1. CASE offline = FALSE
    BY <1>2, <2>1 DEF ContestOK, contest
  <2>2. CASE offline = TRUE
    <3>1. OfflineOK /\ Unused
      BY <1>2, <2>2 DEF ContestOK, OfflineOK
    <3>2. /\ lookahead_' = Append(lookahead_, [block |-> b, size |-> 1, time |-> lookahead_counter_ + 1])
          /\ lookahead_counter_' = lookahead_counter_ + 1
          /\ UNCHANGED contents /\ UNCHANGED call
      BY <1>2, <3>1 DEF Read, AddLookahead, exists, Unused
    <3>3. PICK E : E = [block : Block, size : Size, time : 1 .. lookahead_counter_]
      OBVIOUS
    <3>4. lookahead_ \in Seq(E) /\ lookahead_counter_ \in Nat
      BY <3>3, OptimalAssumption DEF OptimalInv, AheadOK, WindowOK, WindowOf
    <3>5. PICK n, w, v, e : /\ n = Len(lookahead_) /\ w = lookahead_ /\ v = lookahead_'
                            /\ e = [block |-> b, size |-> 1, time |-> lookahead_counter_ + 1]
      OBVIOUS
    <3>6. /\ n \in Nat /\ Len(v) = n + 1 /\ v[n + 1] = e
          /\ \A i \in 1 .. n : v[i] = w[i]
      <4>1. w \in Seq(E \cup {e}) /\ n \in Nat
        BY <3>4, <3>5, LenProperties, SeqMonotonic
      <4>2. e \in E \cup {e}
        OBVIOUS
      <4> QED BY <3>2, <3>5, <4>1, <4>2, AppendProperties
    <3>7. OfOneSize'
      <4>1. \A i \in 1 .. n + 1 : v[i].size = 1
        <5>1. \A i \in 1 .. n : w[i].size = 1
          BY <3>1, <3>5 DEF OfflineOK, OfOneSize
        <5>2. \A i \in 1 .. n + 1 : i = n + 1 \/ i \in 1 .. n
          BY <3>6
        <5> QED BY <3>5, <3>6, <5>1, <5>2
      <4> QED BY <3>1, <3>2, <3>5, <3>6, <4>1 DEF OfflineOK, OfOneSize, contents, Unused
    <3>8. Unused' /\ Len(lookahead_') <= lookahead_counter_'
      BY <1>2, <3>1, <3>2, <3>4, <3>5, <3>6 DEF Unused, contents, contest
    <3>9. \A S \in Prospects' : NoRivalAhead(S)'
      <4>1. Prospects' = {{}}
        BY <3>8 DEF Prospects, Unused
      <4>2. UsedBy({}, NextUses', 0) = {} /\ \A t : UsedBy({}, NextUses', t) = {}
        BY DEF UsedBy
      <4>3. NoRivalAhead({})'
        BY <3>8, <4>2, FS_EmptySet DEF NoRivalAhead, Unused
      <4> QED BY <4>1, <4>3
    <3>10. rival' \subseteq Block /\ Cardinality(rival') <= MaxSize
      BY <3>8, FS_EmptySet, HeapCacheAssumption DEF Unused
    <3> QED BY <1>2, <2>2, <3>7, <3>8, <3>9, <3>10 DEF OfflineOK, ContestOK, Unused
  <2> QED BY <2>1, <2>2 DEF ContestOK
<1> QED BY <1>1, <1>2 DEF Read

\* What the rival holds afterwards besides the block it was asked for.
LEMMA RivalKeepsOthers ==
    ASSUME NEW b \in Block, RivalServes(b), rival \subseteq Block,
           Cardinality(rival) <= MaxSize, rival_misses \in Nat
    PROVE  \E V : /\ V \subseteq rival \ {b} /\ Cardinality(V) + 1 <= MaxSize
                  /\ rival' = V \cup {b} /\ Cardinality(rival') = Cardinality(V) + 1
                  /\ rival_misses' = IF b \in rival THEN rival_misses ELSE rival_misses + 1
<1>1. PICK R : R = rival
  OBVIOUS
<1>2. IsFiniteSet(R) /\ R \subseteq Block /\ Cardinality(R) \in Nat /\ Cardinality(R) <= MaxSize
      /\ MaxSize \in Nat
  BY <1>1, HeapCacheAssumption, FS_Subset, FS_CardinalityType
<1>3. ASSUME NEW V, V \subseteq R \ {b}
      PROVE  Cardinality(V \cup {b}) = Cardinality(V) + 1 /\ Cardinality(V) \in Nat
  <2>1. IsFiniteSet(V) /\ b \notin V
    BY <1>2, <1>3, FS_Subset
  <2> QED BY <2>1, FS_AddElement, FS_CardinalityType
<1>4. CASE b \in R
  <2>1. PICK V : V = R \ {b}
    OBVIOUS
  <2>2. rival' = V \cup {b} /\ rival_misses' = rival_misses
    BY <1>1, <1>4, <2>1 DEF RivalServes
  <2>3. Cardinality(V) = Cardinality(R) - 1
    BY <1>2, <1>4, <2>1, FS_RemoveElement
  <2> QED BY <1>1, <1>2, <1>3, <1>4, <2>1, <2>2, <2>3
<1>5. CASE b \notin R
  <2>1. rival_misses' = rival_misses + 1
    BY <1>1, <1>5 DEF RivalServes
  <2>2. CASE Cardinality(R) < MaxSize
    <3>1. rival' = R \cup {b}
      BY <1>1, <1>5, <2>2 DEF RivalServes
    <3> QED BY <1>1, <1>2, <1>3, <1>5, <2>1, <2>2, <3>1
  <2>3. CASE ~ (Cardinality(R) < MaxSize)
    <3>1. PICK v \in R : rival' = (R \ {v}) \cup {b}
      BY <1>1, <1>5, <2>3 DEF RivalServes
    <3>2. PICK V : V = R \ {v}
      OBVIOUS
    <3>3. Cardinality(V) = Cardinality(R) - 1
      BY <1>2, <3>2, FS_RemoveElement
    <3>4. V \subseteq R \ {b} /\ rival' = V \cup {b}
      BY <1>5, <3>1, <3>2
    <3> QED BY <1>1, <1>2, <1>3, <1>5, <2>1, <3>3, <3>4
  <2> QED BY <2>2, <2>3
<1> QED BY <1>4, <1>5

\* After the access, whatever the eviction loop will take away, no rival is ahead.
LEMMA AccessKeepsContest ==
    ASSUME OptimalInv, OptimalInv', ContestOK, Access
    PROVE  ContestOK'
<1>1. CASE offline = FALSE
  BY <1>1 DEF Access, ContestOK
<1>2. CASE offline = TRUE
  <2>1. /\ OfflineOK /\ AheadOK /\ WindowOK /\ HeldBy(Soonest) /\ call = Idle
        /\ lookahead_ # <<>> /\ pop_lookahead_front /\ offline' = TRUE
    BY <1>2 DEF ContestOK, OptimalInv, AheadOK, Access, AdvanceHit, AdvanceMiss
  <2>2. PICK b, O, R, p, q, n1, n2 :
           /\ b = Head(lookahead_).block /\ O = DOMAIN cache_map_ /\ R = rival
           /\ p = opt_misses /\ q = rival_misses /\ n1 = NextUses /\ n2 = NextUses'
    OBVIOUS
  <2>3. DOMAIN cache_map_' = O /\ size_' = size_
    BY <2>1, <2>2, PopKeeps
  <2>4. /\ b \in Block
        /\ NextUse(b) \in 1 .. MaxAdded /\ NextUse(b) < NextUse(b)'
        /\ \A x \in Block : NextUse(x) \in Nat /\ NextUse(x)' \in Nat
        /\ \A x \in Block \ {b} : NextUse(x)' = NextUse(x) /\ NextUse(b) < NextUse(x)
    BY <2>1, <2>2, FrontIsSoonest
  <2>5. /\ n1 \in [Block -> Nat] /\ n2 \in [Block -> Nat]
        /\ \A x \in Block \ {b} : n2[x] = n1[x] /\ n1[b] < n1[x]
        /\ n1[b] \in 1 .. MaxAdded /\ n1[b] < n2[b]
        /\ \A x \in Block : n2[x] = NextUse(x)'
    BY <2>2, <2>4 DEF NextUses
  <2>6. /\ p \in Nat /\ q \in Nat /\ R \subseteq Block /\ Cardinality(R) <= MaxSize
        /\ IsFiniteSet(R) /\ O \subseteq Block /\ IsFiniteSet(O)
        /\ MaxSize \in Nat /\ MaxAdded \in Nat
    BY <2>1, <2>2, HeapCacheAssumption, OptimalAssumption, FS_Subset DEF OfflineOK, HeldBy
  <2>7. \A t \in 0 .. MaxAdded :
           Cardinality(UsedBy(R, n1, t)) + p <= Cardinality(UsedBy(O, n1, t)) + q
    <3>1. Prospects = {O}
      BY <2>1, <2>2 DEF Prospects
    <3> QED BY <2>1, <2>2, <3>1 DEF OfflineOK, NoRivalAhead
  <2>8. RivalServes(b)
    BY <1>2, <2>2 DEF Access
  <2>9. PICK V : /\ V \subseteq R \ {b} /\ Cardinality(V) + 1 <= MaxSize
                 /\ rival' = V \cup {b} /\ Cardinality(rival') = Cardinality(V) + 1
                 /\ rival_misses' = IF b \in R THEN q ELSE q + 1
    BY <2>2, <2>4, <2>6, <2>8, RivalKeepsOthers
  <2>10. opt_misses' = IF b \in O THEN p ELSE p + 1
    BY <1>2, <2>1, <2>2 DEF Access, AdvanceHit, AdvanceMiss, exists
  <2>11. opt_misses' \in Nat /\ rival_misses' \in Nat
    BY <2>6, <2>9, <2>10
  <2>12. ASSUME NEW U, U = O \ {b} \/ (\E v \in O : /\ U = O \ {v} /\ b \notin O
                                                    /\ \A x \in O : n1[x] <= n1[v]
                                                    /\ Cardinality(O) = MaxSize)
         PROVE  NoRivalAhead(U \cup {b})'
    <3>1. PICK p2, q2 : p2 = opt_misses' /\ q2 = rival_misses'
      OBVIOUS
    <3>2. p2 \in Nat /\ q2 \in Nat
      BY <2>11, <3>1
    <3>3. p2 = (IF b \in O THEN p ELSE p + 1) /\ q2 = (IF b \in R THEN q ELSE q + 1)
      BY <2>9, <2>10, <3>1
    <3>4. AccessTo(b, Block, MaxAdded, MaxSize, n1, n2, O, U, R, V)
      BY <2>4, <2>5, <2>6, <2>9, <2>12 DEF AccessTo
    <3>5. \A t \in 0 .. MaxAdded : Cardinality(UsedBy(V \cup {b}, n2, t)) + p2
                                     <= Cardinality(UsedBy(U \cup {b}, n2, t)) + q2
      BY <2>6, <2>7, <3>2, <3>3, <3>4, ExchangeKeepsLead
    <3> QED BY <2>2, <2>9, <3>1, <3>5 DEF NoRivalAhead
  <2>13. opt_misses' <= rival_misses'
    <3>1. PICK S : S = (O \ {b}) \cup {b}
      OBVIOUS
    <3>2. NoRivalAhead(S)'
      BY <2>12, <3>1
    <3>3. S \subseteq Block /\ rival' \subseteq Block
      BY <2>4, <2>6, <2>9, <3>1
    <3>4. UsedBy(rival', n2, 0) = {} /\ UsedBy(S, n2, 0) = {}
      <4>1. \A x \in Block : n2[x] > 0
        BY <2>5, <2>6
      <4> QED BY <2>5, <3>3, <4>1 DEF UsedBy
    <3>5. Cardinality(UsedBy(rival', n2, 0)) + opt_misses'
            <= Cardinality(UsedBy(S, n2, 0)) + rival_misses'
      BY <2>2, <2>6, <3>2 DEF NoRivalAhead
    <3> QED BY <2>11, <3>4, <3>5, FS_EmptySet
  <2>14. \A S \in Prospects' : NoRivalAhead(S)'
    <3>1. CASE b \in O
      <4>1. call' = Idle
        BY <2>1, <2>2, <3>1 DEF Access, AdvanceHit, AdvanceMiss, exists
      <4>2. Prospects' = {O}
        BY <2>3, <4>1 DEF Prospects
      <4>3. O = (O \ {b}) \cup {b}
        BY <3>1
      <4> QED BY <2>12, <4>2, <4>3
    <3>2. CASE b \notin O
      <4>1. call' # Idle /\ call'.block = b
        BY <2>1, <2>2, <3>2 DEF Access, AdvanceHit, AdvanceMiss, exists, Inserting, Idle
      <4>2. CASE Cardinality(O) < MaxSize
        <5>1. Prospects' = {O \cup {b}}
          BY <2>3, <4>1, <4>2 DEF Prospects
        <5>2. O = O \ {b}
          BY <3>2
        <5> QED BY <2>12, <5>1, <5>2
      <4>3. CASE ~ (Cardinality(O) < MaxSize)
        <5>1. Cardinality(O) = MaxSize
          <6>1. \A x \in DOMAIN size_ : size_[x] = 1
            BY <2>1 DEF OfflineOK, OfOneSize
          <6>2. Cardinality(O) <= MaxSize /\ Cardinality(O) \in Nat
            BY <2>1, <2>2, <6>1, OnePerBlock
          <6> QED BY <2>6, <4>3, <6>2
        <5>2. Prospects' = {(O \ {v}) \cup {b} :
                               v \in {y \in O : \A x \in O : NextUse(x)' <= NextUse(y)'}}
          BY <2>3, <4>1, <4>3 DEF Prospects
        <5>3. ASSUME NEW v \in O, \A x \in O : NextUse(x)' <= NextUse(v)'
              PROVE  NoRivalAhead((O \ {v}) \cup {b})'
          <6>1. \A x \in O : n1[x] <= n1[v]
            BY <2>5, <2>6, <3>2, <5>3
          <6> QED BY <2>12, <3>2, <5>1, <6>1
        <5> QED BY <5>2, <5>3
      <4> QED BY <4>2, <4>3
    <3> QED BY <3>1, <3>2
  <2>15. /\ Len(lookahead_) \in Nat /\ Len(lookahead_') = Len(lookahead_) - 1
         /\ lookahead_counter_' = lookahead_counter_ /\ lookahead_counter_ \in Nat
         /\ \A i \in 1 .. Len(lookahead_') : lookahead_'[i] = lookahead_[i + 1]
         /\ Head(lookahead_) = lookahead_[1]
    BY <2>1, PopShortens
  <2>16. Len(lookahead_') <= lookahead_counter_' /\ Len(lookahead_') # lookahead_counter_'
    BY <2>1, <2>15 DEF OfflineOK
  <2>17. OfOneSize'
    <3>1. \A i \in 1 .. Len(lookahead_) : lookahead_[i].size = 1
      BY <2>1 DEF OfflineOK, OfOneSize
    <3>2. \A i \in 1 .. Len(lookahead_') : lookahead_'[i].size = 1
      BY <2>15, <3>1
    <3>3. Len(lookahead_) # 0
      BY <2>1, EmptySeq DEF WindowOK, WindowOf
    <3>4. Head(lookahead_).size = 1
      BY <2>15, <3>1, <3>3
    <3>5. call' = Idle \/ call' = Inserting(b, 1)
      BY <2>1, <2>2, <3>4 DEF Access, AdvanceHit, AdvanceMiss
    <3>6. call' = Idle \/ (InsertingNew' /\ call'.size = 1)
      <4>1. Calling'
        BY DEF OptimalInv
      <4> QED BY <3>5, <4>1 DEF Calling, Inserting, Idle, Exited, PurgingFile
    <3>7. \A x \in DOMAIN size_' : size_'[x] = 1
      BY <2>1, <2>3 DEF OfflineOK, OfOneSize
    <3> QED BY <3>2, <3>6, <3>7 DEF OfOneSize
  <2>18. rival' \subseteq Block /\ Cardinality(rival') <= MaxSize
    BY <2>4, <2>6, <2>9
  <2> QED BY <2>1, <2>11, <2>13, <2>14, <2>16, <2>17, <2>18 DEF OfflineOK, ContestOK
<1> QED BY <1>1, <1>2 DEF ContestOK

\* The eviction loop takes one block, and one that may go.
LEMMA EvictKeepsContest ==
    ASSUME OptimalInv, OptimalInv', offline = TRUE, OfflineOK, EvictAhead,
           UNCHANGED <<offline, contest>>
    PROVE  OfflineOK'
<1>1. PICK k, O, b, v : /\ k = Soonest /\ O = DOMAIN cache_map_ /\ b = call.block
                        /\ v = cache_heap_[1]
  OBVIOUS
<1>2. HeldBy(k) /\ Calling /\ NearestOK /\ EvictForInsert(k) /\ UNCHANGED window
  BY <1>1 DEF OptimalInv, AheadOK, EvictAhead, Forget
<1>3. /\ InsertingNew /\ UNCHANGED call /\ v \in O /\ remove_block(k, v) /\ DoesNotFit
  BY <1>1, <1>2, EvictsRoot DEF EvictForInsert
<1>4. call # Idle /\ call.size = 1
  BY <1>3 DEF InsertingNew, Idle, OfflineOK, OfOneSize
<1>5. /\ DOMAIN cache_map_' = O \ {v} /\ size_' = Drop(size_, v)
  <2>1. \A x \in DOMAIN cache_map_' : k[x] = k[x]
    OBVIOUS
  <2> QED BY <1>1, <1>2, <1>3, <2>1, RemoveKeeps DEF exists
<1>6. IsFiniteSet(O) /\ Cardinality(O) \in Nat /\ Cardinality(O) = MaxSize /\ MaxSize \in Nat
  <2>1. \A x \in DOMAIN size_ : size_[x] = 1
    BY DEF OfflineOK, OfOneSize
  <2>2. /\ IsFiniteSet(O) /\ curr_size_ = Cardinality(O)
        /\ curr_size_ \in Nat /\ curr_size_ <= MaxSize
    BY <1>1, <1>2, <2>1, OnePerBlock
  <2>3. 1 > MaxSize - curr_size_
    BY <1>3, <1>4, <2>2 DEF DoesNotFit, Minus
  <2> QED BY <2>2, <2>3, HeapCacheAssumption
<1>7. Cardinality(O \ {v}) < MaxSize
  BY <1>3, <1>6, FS_RemoveElement
<1>8. \A x \in O : NextUse(x) <= NextUse(v)
  <2>1. NearestIsNextUse
    BY OptimalHolds
  <2>2. \A x \in O : k[v] <= k[x]
    BY <1>1, <1>2, <1>3, <1>5, EvictsLeast
  <2>3. \A x \in O : nearest_access_[x] <= nearest_access_[v]
    BY <1>1, <1>2, <1>3, <2>2 DEF Soonest, MaxKey, NearestOK
  <2> QED BY <1>1, <1>3, <2>1, <2>3 DEF NearestIsNextUse
<1>9. NextUses' = NextUses
  BY <1>2 DEF NextUses, NextUse, TimesInWindow, window
<1>10. \A S \in Prospects' : NoRivalAhead(S)'
  <2>1. (O \ {v}) \cup {b} \in Prospects
    BY <1>1, <1>3, <1>4, <1>6, <1>8 DEF Prospects
  <2>2. Prospects' = {(O \ {v}) \cup {b}}
    BY <1>1, <1>3, <1>4, <1>5, <1>7 DEF Prospects
  <2>3. NoRivalAhead((O \ {v}) \cup {b})
    BY <2>1 DEF OfflineOK
  <2> QED BY <1>9, <2>2, <2>3 DEF NoRivalAhead, contest
<1>11. Len(lookahead_) # lookahead_counter_
  BY <1>4 DEF OfflineOK, Unused
<1>12. OfOneSize'
  <2>1. Calling'
    BY DEF OptimalInv
  <2>2. InsertingNew'
    BY <1>3, <2>1 DEF Calling, InsertingNew, Idle, Exited, PurgingFile
  <2> QED BY <1>2, <1>3, <1>4, <1>5, <2>2 DEF OfflineOK, OfOneSize, Drop, window
<1> QED BY <1>2, <1>10, <1>11, <1>12 DEF OfflineOK, contest, window

\* What the cache admits is what was counted on.
LEMMA AdmitKeepsContest ==
    ASSUME OptimalInv, offline = TRUE, OfflineOK, AdmitAhead, UNCHANGED <<offline, contest>>
    PROVE  OfflineOK'
<1>1. PICK k, k2, O, b : /\ k = Soonest /\ k2 = Soonest' /\ O = DOMAIN cache_map_
                         /\ b = call.block
  OBVIOUS
<1>2. HeldBy(k) /\ Calling /\ Admit(k2) /\ UNCHANGED window
  BY <1>1 DEF OptimalInv, AheadOK, AdmitAhead, Soonest
<1>3. InsertingNew /\ call.size = 1 /\ call # Idle
  BY <1>2 DEF Admit, Calling, Idle, Exited, PurgingFile, InsertingNew, OfflineOK, OfOneSize
<1>4. call' = Idle /\ size_' = Add(size_, b, 1)
  BY <1>1, <1>2, <1>3 DEF Admit
<1>5. DOMAIN cache_map_' = O \cup {b}
  <2>1. DOMAIN size_' = DOMAIN size_ \cup {b}
    BY <1>4 DEF Add
  <2>2. OptimalInv'
    BY AdmitAheadGoes
  <2>3. DOMAIN size_ = O /\ DOMAIN size_' = DOMAIN cache_map_'
    BY <1>1, <2>2 DEF OptimalInv, AheadOK, HeldBy
  <2> QED BY <2>1, <2>3
<1>6. Cardinality(O) < MaxSize
  <2>1. \A x \in DOMAIN size_ : size_[x] = 1
    BY DEF OfflineOK, OfOneSize
  <2>2. curr_size_ = Cardinality(O) /\ curr_size_ \in Nat /\ curr_size_ <= MaxSize
    BY <1>1, <1>2, <2>1, OnePerBlock
  <2> QED BY <1>2, <1>3, <2>2, HeapCacheAssumption DEF Admit, DoesNotFit, Minus
<1>7. NextUses' = NextUses
  BY <1>2 DEF NextUses, NextUse, TimesInWindow, window
<1>8. \A S \in Prospects' : NoRivalAhead(S)'
  <2>1. Prospects = {O \cup {b}} /\ Prospects' = {O \cup {b}}
    BY <1>1, <1>3, <1>4, <1>5, <1>6 DEF Prospects
  <2> QED BY <1>7, <2>1 DEF OfflineOK, NoRivalAhead, contest
<1>9. Len(lookahead_) # lookahead_counter_
  BY <1>3 DEF OfflineOK, Unused
<1>10. OfOneSize'
  BY <1>2, <1>4 DEF OfflineOK, OfOneSize, Add, window
<1> QED BY <1>2, <1>8, <1>9, <1>10 DEF OfflineOK, contest, window

\* Every step of the contest is one of the cache.
LEMMA ContestStepIsCacheStep == [BNext]_bvars => [OptimalNext]_optimalVars
BY DEF BNext, Read, Access, Intrude, Serve, bvars, OptimalNext

LEMMA BeladyStep == BeladyInv /\ [BNext]_bvars => BeladyInv'
<1> SUFFICES ASSUME BeladyInv, [BNext]_bvars PROVE BeladyInv'
  OBVIOUS
<1>1. OptimalInv /\ OptimalInv' /\ ContestOK
  BY OptimalStep, ContestStepIsCacheStep DEF BeladyInv
<1> SUFFICES ContestOK'
  BY <1>1 DEF BeladyInv
<1>2. ASSUME NEW b \in Block, NEW s \in Size, Read(b, s) PROVE ContestOK'
  BY <1>1, <1>2, ReadKeepsContest
<1>3. CASE Access
  BY <1>1, <1>3, AccessKeepsContest
<1>4. CASE Intrude
  BY <1>4 DEF Intrude, CallOff, ContestOK
<1>5. CASE Serve
  <2>1. UNCHANGED <<offline, contest>>
    BY <1>5 DEF Serve
  <2>2. CASE offline = FALSE
    BY <1>1, <2>1, <2>2 DEF ContestOK, contest
  <2>3. CASE offline = TRUE
    <3>1. OfflineOK
      BY <1>1, <2>3 DEF ContestOK
    <3>2. ~ Purge
      BY <3>1 DEF OfflineOK, OfOneSize, InsertingNew, Idle, Purge, PurgeNext, PurgeReturn
    <3>3. OfflineOK'
      BY <1>1, <1>5, <2>1, <2>3, <3>1, <3>2, EvictKeepsContest, AdmitKeepsContest DEF Serve
    <3> QED BY <2>1, <2>3, <3>3 DEF ContestOK
  <2> QED BY <1>1, <2>2, <2>3 DEF ContestOK
<1>6. CASE UNCHANGED bvars
  <2>1. CASE offline = FALSE
    BY <1>1, <1>6, <2>1 DEF ContestOK, contest, bvars
  <2>2. CASE offline = TRUE
    <3>1. OfflineOK
      BY <1>1, <2>2 DEF ContestOK
    <3>2. NextUses' = NextUses /\ Prospects' = Prospects
      BY <1>6 DEF NextUses, NextUse, TimesInWindow, Prospects, bvars, optimalVars, window, contents
    <3>3. OfflineOK'
      BY <1>6, <3>1, <3>2 DEF OfflineOK, OfOneSize, InsertingNew, Unused, NoRivalAhead, bvars,
                              optimalVars, window, contents, contest
    <3> QED BY <1>6, <2>2, <3>3 DEF ContestOK, bvars
  <2> QED BY <1>1, <2>1, <2>2 DEF ContestOK
<1> QED BY <1>2, <1>3, <1>4, <1>5, <1>6 DEF BNext

LEMMA BeladyInitially == BInit => BeladyInv
<1> SUFFICES ASSUME BInit PROVE BeladyInv
  OBVIOUS
<1>1. OptimalInv
  BY OptimalInitially DEF BInit
<1>2. /\ DOMAIN cache_map_ = {} /\ DOMAIN size_ = {} /\ call = Idle
      /\ lookahead_ = <<>> /\ Len(lookahead_) = 0 /\ lookahead_counter_ = 0
      /\ offline = TRUE /\ rival = {} /\ opt_misses = 0 /\ rival_misses = 0
  BY DEF BInit, OptimalInit, HeapCacheInit
<1>3. OfOneSize /\ Unused
  BY <1>2 DEF OfOneSize, Unused
<1>4. \A S \in Prospects : NoRivalAhead(S)
  <2>1. Prospects = {{}} /\ \A t : UsedBy({}, NextUses, t) = {}
    BY <1>2 DEF Prospects, UsedBy
  <2>2. NoRivalAhead({})
    BY <1>2, <2>1, FS_EmptySet DEF NoRivalAhead
  <2> QED BY <2>1, <2>2
<1> QED BY <1>1, <1>2, <1>3, <1>4, FS_EmptySet, HeapCacheAssumption
        DEF BeladyInv, ContestOK, OfflineOK

\* At no point of any trace has any policy, whatever it evicts and however it
\* came to choose, missed less often than OptimalCache with the whole trace in
\* its window, in a cache of the same size and with blocks of one size.
THEOREM NoRivalMissesLess == BSpec => []Optimal
<1>1. BeladyInv => Optimal
  BY DEF BeladyInv, ContestOK, OfflineOK, Optimal
<1>2. BeladyInv /\ [BNext]_bvars => BeladyInv'
  BY BeladyStep
<1> QED BY <1>1, <1>2, BeladyInitially, PTL DEF BSpec
=============================================================================
