------------------------------ MODULE LRUCache ------------------------------
(***************************************************************************)
(* LRUCache (lru_cache.h, lru_cache.cc): a list of blocks, most recently   *)
(* used first, and a map from a block's hash to its list node.  Of a node  *)
(* only size_ is kept, in cache_map_; its place is that of its block in    *)
(* lru_block_list_.  The two loops, evicting in insert_block and erasing   *)
(* in remove_file_blocks, take one step per iteration.                     *)
(***************************************************************************)
EXTENDS ResidentBytes, ListOps

CONSTANTS Block, File, FileOf, Size, MaxSize,
          Word        \* values of a uint64_t

ASSUME LRUAssumption ==
    /\ FileOf \in [Block -> File]
    /\ Size \subseteq Nat
    /\ MaxSize \in Nat
    /\ IsFiniteSet(Block)
    /\ Word \in Nat /\ Word > MaxSize /\ Word > Cardinality(Block)

VARIABLES lru_block_list_, cache_map_, curr_size_, block_count_,
          call        \* the call in progress and its local state

state == <<lru_block_list_, cache_map_, curr_size_, block_count_>>
vars == <<state, call>>

Idle == [op |-> "none"]
Exited == [op |-> "exit"]
Inserting(b, s) == [op |-> "insert", block |-> b, size |-> s]
Purging(f, it) == [op |-> "remove_file", file |-> f, it |-> it]

Call == {Idle, Exited}
           \cup [op : {"insert"}, block : Block, size : Size]
           \cup [op : {"remove_file"}, file : File, it : Nat \ {0}]

Init ==
    /\ lru_block_list_ = <<>>
    /\ cache_map_ = <<>>
    /\ curr_size_ = 0
    /\ block_count_ = 0
    /\ call = Idle

(***************************************************************************)
(* The operations.                                                         *)
(***************************************************************************)
exists(b) == b \in DOMAIN cache_map_

\* The node that the iterator cache_map_[b] points to, as a place in the list.
Position(b) == CHOOSE i \in 1 .. Len(lru_block_list_) : lru_block_list_[i] = b

\* Faults for EraseNode: the map entry stays; curr_size_ is not brought down.
EraseNodeKeepingEntry(b, i) ==
    /\ curr_size_' = Minus(Word, curr_size_, cache_map_[b])
    /\ block_count_' = Minus(Word, block_count_, 1)
    /\ lru_block_list_' = Erase(lru_block_list_, i)
    /\ UNCHANGED cache_map_

EraseNodeKeepingSize(b, i) ==
    /\ block_count_' = Minus(Word, block_count_, 1)
    /\ lru_block_list_' = Erase(lru_block_list_, i)
    /\ cache_map_' = Drop(cache_map_, b)
    /\ UNCHANGED curr_size_

EraseNode(b, i) ==
    /\ curr_size_' = Minus(Word, curr_size_, cache_map_[b])
    /\ block_count_' = Minus(Word, block_count_, 1)
    /\ lru_block_list_' = Erase(lru_block_list_, i)
    /\ cache_map_' = Drop(cache_map_, b)

record_access(b) ==
    /\ lru_block_list_' = IF exists(b)
                          THEN <<b>> \o Erase(lru_block_list_, Position(b))
                          ELSE lru_block_list_
    /\ UNCHANGED <<cache_map_, curr_size_, block_count_>>

remove_block(b) ==
    IF exists(b) THEN EraseNode(b, Position(b)) ELSE UNCHANGED state

\* Fault: the most recently used block goes.
evict_most_recent ==
    IF lru_block_list_ # <<>> THEN remove_block(Head(lru_block_list_)) ELSE UNCHANGED state

evict_block ==
    IF lru_block_list_ # <<>>
    THEN remove_block(lru_block_list_[Len(lru_block_list_)])
    ELSE UNCHANGED state

(***************************************************************************)
(* The calls, as the simulators make them: one at a time, each to its end. *)
(***************************************************************************)
RecordAccess(b) == call = Idle /\ record_access(b) /\ UNCHANGED call

RemoveBlock(b) == call = Idle /\ remove_block(b) /\ UNCHANGED call

EvictBlock == call = Idle /\ evict_block /\ UNCHANGED call

\* insert_block up to its loop: too big, resident, or new.
InsertTooBig(b, s) ==
    /\ call = Idle
    /\ s > MaxSize
    /\ call' = Exited
    /\ UNCHANGED state

InsertResident(b, s) ==
    /\ call = Idle
    /\ s <= MaxSize
    /\ exists(b)
    /\ record_access(b)
    /\ UNCHANGED call

InsertNew(b, s) ==
    /\ call = Idle
    /\ s <= MaxSize
    /\ ~ exists(b)
    /\ call' = Inserting(b, s)
    /\ UNCHANGED state

\* Fault: a block that exactly fits does not.
DoesNotFitExactly == call.size >= Minus(Word, MaxSize, curr_size_)

\* The loop's condition, and its body.
DoesNotFit == call.size > Minus(Word, MaxSize, curr_size_)

EvictForInsert ==
    /\ call.op = "insert"
    /\ DoesNotFit
    /\ evict_block
    /\ UNCHANGED call

Admit ==
    /\ call.op = "insert"
    /\ ~ DoesNotFit
    /\ lru_block_list_' = <<call.block>> \o lru_block_list_
    /\ cache_map_' = Add(cache_map_, call.block, call.size)
    /\ curr_size_' = Plus(Word, curr_size_, call.size)
    /\ block_count_' = Plus(Word, block_count_, 1)
    /\ call' = Idle

\* remove_file_blocks: the iterator passes a node or erases it.
RemoveFileBlocks(f) ==
    /\ call = Idle
    /\ call' = Purging(f, 1)
    /\ UNCHANGED state

PassNode ==
    /\ call.op = "remove_file"
    /\ call.it <= Len(lru_block_list_)
    /\ FileOf[lru_block_list_[call.it]] # call.file
    /\ call' = [call EXCEPT !.it = @ + 1]
    /\ UNCHANGED state

\* Faults for PurgeNode: the iterator is advanced, or set back, after the erase.
PurgeNodeSteppingOn ==
    /\ call.op = "remove_file"
    /\ call.it <= Len(lru_block_list_)
    /\ FileOf[lru_block_list_[call.it]] = call.file
    /\ EraseNode(lru_block_list_[call.it], call.it)
    /\ call' = [call EXCEPT !.it = @ + 1]

PurgeNodeSteppingBack ==
    /\ call.op = "remove_file"
    /\ call.it <= Len(lru_block_list_)
    /\ FileOf[lru_block_list_[call.it]] = call.file
    /\ EraseNode(lru_block_list_[call.it], call.it)
    /\ call' = [call EXCEPT !.it = @ - 1]

PurgeNode ==
    /\ call.op = "remove_file"
    /\ call.it <= Len(lru_block_list_)
    /\ FileOf[lru_block_list_[call.it]] = call.file
    /\ EraseNode(lru_block_list_[call.it], call.it)
    /\ UNCHANGED call

PurgeReturn ==
    /\ call.op = "remove_file"
    /\ call.it > Len(lru_block_list_)
    /\ call' = Idle
    /\ UNCHANGED state

\* The steps of a call that has begun.
Continue == EvictForInsert \/ Admit \/ PassNode \/ PurgeNode \/ PurgeReturn

Next ==
    \/ \E b \in Block : RecordAccess(b) \/ RemoveBlock(b)
    \/ EvictBlock
    \/ \E b \in Block, s \in Size :
          InsertTooBig(b, s) \/ InsertResident(b, s) \/ InsertNew(b, s)
    \/ \E f \in File : RemoveFileBlocks(f)
    \/ Continue

Spec == Init /\ [][Next]_vars

\* A call in progress has the thread: it goes on until it returns.
FairSpec == Spec /\ WF_vars(Continue)

(***************************************************************************)
(* Properties.                                                             *)
(***************************************************************************)
\* Types: counters are uint64_t values, the list is over blocks.
TypeOK ==
    /\ lru_block_list_ \in Seq(Block)
    /\ DOMAIN cache_map_ \subseteq Block
    /\ cache_map_ \in [DOMAIN cache_map_ -> Size]
    /\ curr_size_ \in 0 .. Word - 1
    /\ block_count_ \in 0 .. Word - 1
    /\ call \in Call

\* The list and the map hold the same blocks, each once, and block_count_
\* counts them (insert_block and remove_block each update all three).
ListMatchesMap ==
    /\ Elements(lru_block_list_) = DOMAIN cache_map_
    /\ NoRepeat(lru_block_list_)
    /\ block_count_ = Len(lru_block_list_)

\* curr_size_ is the bytes held, and never above max_size_, so that the
\* unsigned max_size_ - curr_size_ of insert_block does not wrap.
Accounting ==
    /\ curr_size_ = TotalSize(cache_map_)
    /\ curr_size_ <= MaxSize

\* insert_block does not loop on an empty list: a block that is not bigger
\* than the cache fits once everything is evicted.
EvictionFindsVictim ==
    call.op = "insert" /\ DoesNotFit => lru_block_list_ # <<>>

\* While remove_file_blocks runs, nothing of the file is left behind its
\* iterator, though erasing shifts the list under it.
PurgedBehindIterator ==
    call.op = "remove_file" =>
        /\ call.it <= Len(lru_block_list_) + 1
        /\ \A i \in 1 .. call.it - 1 : FileOf[lru_block_list_[i]] # call.file

\* The call as the abstract cache has it: without the iterator.
AbstractCall ==
    IF call.op = "remove_file" THEN [op |-> "remove_file", file |-> call.file]
    ELSE call

Abstract == INSTANCE Cache WITH resident <- cache_map_, call <- AbstractCall

\* The cache does what class Cache promises.
ImplementsCache == Abstract!Spec

\* Every call returns (or the program has exited): both loops end.
CallsReturn == call.op \in {"insert", "remove_file"} ~> call = Idle
=============================================================================
