---------------------------- MODULE ResidentBytes ----------------------------
(***************************************************************************)
(* What a cache of this simulator holds, as data: a function from the      *)
(* resident blocks (by hash()) to the size_ each was admitted with.  Its   *)
(* total size is counted byte by byte: byte i of block b is <<b, i>>.      *)
(***************************************************************************)
EXTENDS Integers, FiniteSets

(***************************************************************************)
(* CacheBlock::hash (cache.h): the three fields that name a block, packed  *)
(* in a word.  The caches know a block by its hash alone, the other        *)
(* modules by the block itself; HashTellsBlocks says when that is the same.*)
(***************************************************************************)
\* (type << 61) | (file << 32) | block.  The file shift is FileShift = 2^32 and
\* FileIds = 2^29 file ids lie below the type; fields that do not overlap are
\* added by |.
hash(type, file, block, FileIds, FileShift) ==
    (type * FileIds + file) * FileShift + block

\* The bytes held, and how many they are: what curr_size_ should amount to.
Bytes(m) == UNION {{b} \X (1 .. m[b]) : b \in DOMAIN m}
TotalSize(m) == Cardinality(Bytes(m))

\* cache_map_[b] = <node of size s>, and cache_map_.erase(b).
Add(m, b, s) == [x \in DOMAIN m \cup {b} |-> IF x = b THEN s ELSE m[x]]
Drop(m, b) == [x \in DOMAIN m \ {b} |-> m[x]]

\* Arithmetic of an unsigned integer type with Word values (uint64_t: 2^64).
Plus(Word, a, b) == IF a + b < Word THEN a + b ELSE a + b - Word
Minus(Word, a, b) == IF b <= a THEN a - b ELSE a + Word - b
=============================================================================
