------------------------------ MODULE LRUStack ------------------------------
(***************************************************************************)
(* Two runs of the simulator over one trace, with LRU caches of different  *)
(* sizes, side by side with the recency stack of the trace: every block    *)
(* seen so far, last use first, less those of deleted files.  A simulation *)
(* sweeps cache sizes and compares the results; that a bigger LRU cache    *)
(* never misses where a smaller one hits is what makes them comparable.    *)
(* A block has one size here (as in a trace without failed reads).         *)
(***************************************************************************)
EXTENDS ResidentBytes, ListOps

CONSTANTS Block, File, FileOf,
          SizeOf,             \* the size of each block
          SmallSize, BigSize, \* the two values of max_size_
          Word

ASSUME StackAssumption ==
    /\ FileOf \in [Block -> File]
    /\ IsFiniteSet(Block)
    /\ SizeOf \in [Block -> Nat]
    /\ SmallSize \in Nat /\ BigSize \in Nat /\ SmallSize <= BigSize
    /\ \A b \in Block : SizeOf[b] <= SmallSize
    /\ Word \in Nat /\ Word > BigSize /\ Word > Cardinality(Block)

VARIABLES recency,    \* the recency stack
          s_list, s_map, s_size, s_count, s_call,    \* the smaller cache
          b_list, b_map, b_size, b_count, b_call     \* the bigger cache

Small == INSTANCE LRUCache WITH
    Size <- {SizeOf[b] : b \in Block}, MaxSize <- SmallSize,
    lru_block_list_ <- s_list, cache_map_ <- s_map, curr_size_ <- s_size,
    block_count_ <- s_count, call <- s_call

Big == INSTANCE LRUCache WITH
    Size <- {SizeOf[b] : b \in Block}, MaxSize <- BigSize,
    lru_block_list_ <- b_list, cache_map_ <- b_map, curr_size_ <- b_size,
    block_count_ <- b_count, call <- b_call

smallVars == <<s_list, s_map, s_size, s_count, s_call>>
bigVars == <<b_list, b_map, b_size, b_count, b_call>>
vars == <<recency, smallVars, bigVars>>

Init ==
    /\ recency = <<>>
    /\ Small!Init
    /\ Big!Init

Idle == s_call = Small!Idle /\ b_call = Big!Idle

\* One block of a probe, as simulate_normal looks it up in its cache.
Access(b) ==
    /\ Idle
    /\ recency' = <<b>> \o Without(recency, {b})
    /\ IF Small!exists(b) THEN Small!RecordAccess(b)
                          ELSE Small!InsertNew(b, SizeOf[b])
    /\ IF Big!exists(b) THEN Big!RecordAccess(b)
                        ELSE Big!InsertNew(b, SizeOf[b])

\* A kFileDelete record.
Delete(f) ==
    /\ Idle
    /\ recency' = Without(recency, {b \in Block : FileOf[b] = f})
    /\ Small!RemoveFileBlocks(f)
    /\ Big!RemoveFileBlocks(f)

SmallContinues == Small!Continue /\ UNCHANGED <<recency, bigVars>>

BigContinues ==
    /\ s_call = Small!Idle
    /\ Big!Continue
    /\ UNCHANGED <<recency, smallVars>>

Next ==
    \/ \E b \in Block : Access(b)
    \/ \E f \in File : Delete(f)
    \/ SmallContinues
    \/ BigContinues

Spec == Init /\ [][Next]_vars

IsPrefixOf(s, t) == Len(s) <= Len(t) /\ s = SubSeq(t, 1, Len(s))

(***************************************************************************)
(* LRU is a stack algorithm: between accesses both caches hold the top of  *)
(* one recency stack, in its order, and the bigger holds no less.  So      *)
(* every eviction took the least recently used block, every access moved   *)
(* its block to the front, and every hit of the smaller is one of the      *)
(* bigger.                                                                 *)
(***************************************************************************)
Inclusion == Idle => IsPrefixOf(s_list, b_list) /\ IsPrefixOf(b_list, recency)
=============================================================================
