------------------------------ MODULE HeapCache ------------------------------
(***************************************************************************)
(* What HeapLFUCache and OptimalCache have in common: a heap of resident   *)
(* blocks, from whose root the victim is taken.  The code has these        *)
(* operations once in each class, alike up to the field the heap is        *)
(* ordered by, which is given here as `key'.  The fields of a CacheBlock   *)
(* in the heap are kept by block: size_ here, those of the policy by the   *)
(* module of the cache, in step with cache_map_.                           *)
(***************************************************************************)
EXTENDS HeapOps

CONSTANTS Block, File, FileOf, Size, MaxSize, Word

\* A counter of the blocks does not wrap either.
ASSUME HeapCacheAssumption ==
    /\ FileOf \in [Block -> File]
    /\ IsFiniteSet(Block)
    /\ Size \subseteq Nat
    /\ MaxSize \in Nat
    /\ Word \in Nat /\ Word > MaxSize /\ Word > Cardinality(Block)

VARIABLES cache_heap_, cache_map_, size_, curr_size_, block_count_,
          call        \* the call in progress and its local state

contents == <<cache_heap_, cache_map_, size_, curr_size_, block_count_>>

Idle == [op |-> "none"]
Exited == [op |-> "exit"]
Inserting(b, s) == [op |-> "insert", block |-> b, size |-> s]
Purging(f, m) == [op |-> "remove_file", file |-> f, matches |-> m]

HeapCacheInit ==
    /\ cache_heap_ = <<>> /\ cache_map_ = <<>> /\ size_ = <<>>
    /\ curr_size_ = 0 /\ block_count_ = 0
    /\ call = Idle

exists(b) == b \in DOMAIN cache_map_

Heap == [heap |-> cache_heap_, map |-> cache_map_]
HeapBecomes(h) == cache_heap_' = h.heap /\ cache_map_' = h.map

\* The field m of the blocks that stay resident.
Remaining(m) == [b \in DOMAIN cache_map_' |-> m[b]]

remove_block(key, b) ==
    IF exists(b)
    THEN /\ HeapBecomes(DeleteBlock(Heap, key, b))
         /\ size_' = Drop(size_, b)
         /\ curr_size_' = Minus(Word, curr_size_, size_[b])
         /\ block_count_' = Minus(Word, block_count_, 1)
    ELSE UNCHANGED contents

evict_block(key) ==
    IF cache_heap_ # <<>> THEN remove_block(key, cache_heap_[1]) ELSE UNCHANGED contents

(***************************************************************************)
(* The calls, one at a time.                                               *)
(***************************************************************************)
RemoveBlock(key, b) == call = Idle /\ remove_block(key, b) /\ UNCHANGED call

EvictBlock(key) == call = Idle /\ evict_block(key) /\ UNCHANGED call

\* Fault: a block that exactly fits does not.
DoesNotFitExactly == call.size >= Minus(Word, MaxSize, curr_size_)

DoesNotFit == call.size > Minus(Word, MaxSize, curr_size_)

EvictForInsert(key) ==
    /\ call.op = "insert"
    /\ DoesNotFit
    /\ evict_block(key)
    /\ UNCHANGED call

\* The end of an insertion; key is that with the new block.
Admit(key) ==
    /\ call.op = "insert"
    /\ ~ DoesNotFit
    /\ HeapBecomes(PushBlock(Heap, key, call.block))
    /\ size_' = Add(size_, call.block, call.size)
    /\ curr_size_' = Plus(Word, curr_size_, call.size)
    /\ block_count_' = Plus(Word, block_count_, 1)
    /\ call' = Idle

\* remove_file_blocks collects the file's blocks in heap order, then removes each.
RemoveFileBlocks(f) ==
    /\ call = Idle
    /\ LET ofFile == {i \in 1 .. Len(cache_heap_) : FileOf[cache_heap_[i]] = f}
       IN  call' = Purging(f, Kept(cache_heap_, ofFile))
    /\ UNCHANGED contents

PurgeNext(key) ==
    /\ call.op = "remove_file"
    /\ call.matches # <<>>
    /\ remove_block(key, Head(call.matches))
    /\ call' = [call EXCEPT !.matches = Tail(@)]

PurgeReturn ==
    /\ call.op = "remove_file"
    /\ call.matches = <<>>
    /\ call' = Idle
    /\ UNCHANGED contents

(***************************************************************************)
(* Properties.                                                             *)
(***************************************************************************)
\* cache_map_ gives every resident block its place in the heap and knows no
\* other block, through every swap of push, pop and percolation.
MapFollowsHeap ==
    /\ MapAgrees(cache_heap_, cache_map_)
    /\ block_count_ = Len(cache_heap_)

\* The call as the abstract cache has it: without the matches.
AbstractCall ==
    IF call.op = "remove_file" THEN [op |-> "remove_file", file |-> call.file]
    ELSE call

Abstract == INSTANCE Cache WITH resident <- size_, call <- AbstractCall

\* The cache does what class Cache promises.
ImplementsCache == Abstract!Spec
=============================================================================
