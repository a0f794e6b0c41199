------------------------- MODULE ContainerTheorems -------------------------
(***************************************************************************)
(* The facts about maps of blocks and about lists on which every proof     *)
(* here rests: how the total size of what a cache holds changes, what      *)
(* erasing, exchanging, adding and picking elements does to a list, when a *)
(* hash tells blocks apart, and that inserting a block into a heap,        *)
(* removing one and giving one another key keep the heap ordered and its   *)
(* map in step.                                                            *)
(***************************************************************************)
EXTENDS HeapOps, Functions, FiniteSetTheorems, SequenceTheorems, TLAPS

(***************************************************************************)
(* Numbers.  The library's theorems on induction take an operator; these   *)
(* are what induction is used for here, from well-foundedness itself.      *)
(***************************************************************************)
\* A set of numbers has a least one.
LEMMA Least ==
    ASSUME NEW T, T \subseteq Nat, T # {}
    PROVE  \E m \in T : \A k \in T : m <= k
<1>1. \A k, m \in Nat : k < m => <<k, m>> \in OpToRel(<, Nat)
  BY DEF OpToRel
<1>2. \E m \in T : \A k \in T : ~ (<<k, m>> \in OpToRel(<, Nat))
  BY NatLessThanWellFounded, WFMin
<1>3. PICK m \in T : \A k \in T : ~ (k < m)
  BY <1>1, <1>2, Zenon
<1>4. \A k \in T : m <= k
  BY <1>3
<1> QED BY <1>4

\* One with a bound has a greatest one.
LEMMA Greatest ==
    ASSUME NEW N \in Nat, NEW T, T \subseteq 0 .. N, T # {}
    PROVE  \E m \in T : \A k \in T : k <= m
<1> DEFINE D == {N - k : k \in T}
<1>1. D \subseteq Nat /\ D # {}
  <2>1. ASSUME NEW k \in T PROVE N - k \in Nat
    OBVIOUS
  <2> QED BY <2>1
<1> HIDE DEF D
<1>2. PICK d \in D : \A e \in D : d <= e
  BY <1>1, Least
<1> USE DEF D
<1>3. PICK m \in T : d = N - m
  BY <1>2
<1>4. ASSUME NEW k \in T PROVE k <= m
  <2>1. N - k \in D
    OBVIOUS
  <2>2. N - m <= N - k
    BY <2>1, <1>2, <1>3
  <2>3. m \in Nat /\ k \in Nat
    OBVIOUS
  <2> QED BY <2>2, <2>3
<1> QED BY <1>4

LEMMA FirstNumbers ==
    ASSUME NEW N \in Nat
    PROVE  IsFiniteSet(1 .. N) /\ Cardinality(1 .. N) = N
<1>1. IsFiniteSet(1 .. N) /\ Cardinality(1 .. N) = IF 1 > N THEN 0 ELSE N - 1 + 1
  BY FS_Interval
<1> QED BY <1>1

\* A set of the first N numbers that has every number below one of its own is
\* the set of the first ones.
LEMMA PrefixSet ==
    ASSUME NEW N \in Nat, NEW P, P \subseteq 1 .. N,
           \A i \in P : \A j \in 1 .. i : j \in P
    PROVE  P = 1 .. Cardinality(P) /\ Cardinality(P) \in 0 .. N
<1> DEFINE T == {k \in 1 .. N + 1 : k \notin P}
<1>1. N + 1 \in T /\ T \subseteq Nat
  OBVIOUS
<1> HIDE DEF T
<1>2. PICK m \in T : \A k \in T : m <= k
  BY <1>1, Least
<1> USE DEF T
<1>3. m - 1 \in 0 .. N
  BY <1>2
<1>4. P \subseteq 1 .. m - 1
  <2> SUFFICES ASSUME NEW i \in P PROVE i <= m - 1
    BY <1>3
  <2>1. i \in Nat /\ m \in Nat /\ (m <= i => m \in 1 .. i)
    BY <1>3
  <2>2. ~ (m <= i)
    BY <2>1
  <2> QED BY <2>1, <2>2
<1>5. 1 .. m - 1 \subseteq P
  <2> SUFFICES ASSUME NEW i \in 1 .. m - 1, i \notin P PROVE FALSE
    OBVIOUS
  <2>1. i \in T
    BY <1>3
  <2> QED BY <2>1, <1>2, <1>3
<1>6. P = 1 .. m - 1
  BY <1>4, <1>5
<1>7. Cardinality(1 .. m - 1) = m - 1
  BY <1>3, FS_Interval
<1> QED BY <1>3, <1>6, <1>7

(***************************************************************************)
(* Sizes.  No induction is needed: bytes are counted, not summed.          *)
(***************************************************************************)
\* The bytes of one block.
BytesOf(b, s) == {b} \X (1 .. s)

\* A block of size s has s bytes.
LEMMA BytesOfCount ==
    ASSUME NEW b, NEW s \in Nat
    PROVE  IsFiniteSet(BytesOf(b, s)) /\ Cardinality(BytesOf(b, s)) = s
<1> DEFINE f == [i \in 1 .. s |-> <<b, i>>]
<1>1. f \in Bijection(1 .. s, BytesOf(b, s))
  <2>1. f \in [1 .. s -> BytesOf(b, s)]
    BY DEF BytesOf
  <2>2. IsInjective(f)
    BY DEF IsInjective
  <2>3. ASSUME NEW t \in BytesOf(b, s)
        PROVE  \E i \in 1 .. s : f[i] = t
    <3>1. PICK i \in 1 .. s : t = <<b, i>>
      BY DEF BytesOf
    <3> QED BY <3>1
  <2> QED BY <2>1, <2>2, <2>3 DEF Bijection, Injection, Surjection
<1>2. IsFiniteSet(1 .. s) /\ Cardinality(1 .. s) = s
  BY FS_Interval
<1>3. ExistsBijection(1 .. s, BytesOf(b, s))
  BY <1>1 DEF ExistsBijection
<1> QED BY <1>2, <1>3, FS_Bijection

\* Nothing held, no bytes.
LEMMA NoBytes == IsFiniteSet(Bytes(<<>>)) /\ TotalSize(<<>>) = 0
<1>1. Bytes(<<>>) = {}
  BY DEF Bytes
<1> QED BY <1>1, FS_EmptySet DEF TotalSize

\* Admitting a block that is not resident adds its size.
LEMMA AddBytes ==
    ASSUME NEW m, NEW b, NEW s \in Nat, b \notin DOMAIN m, IsFiniteSet(Bytes(m))
    PROVE  /\ IsFiniteSet(Bytes(Add(m, b, s)))
           /\ TotalSize(m) \in Nat
           /\ TotalSize(Add(m, b, s)) = TotalSize(m) + s
<1>1. Bytes(Add(m, b, s)) = Bytes(m) \cup BytesOf(b, s)
  BY DEF Bytes, Add, BytesOf
<1>2. Bytes(m) \cap BytesOf(b, s) = {}
  BY DEF Bytes, BytesOf
<1>3. IsFiniteSet(BytesOf(b, s)) /\ Cardinality(BytesOf(b, s)) = s
  BY BytesOfCount
<1>4. Cardinality(Bytes(m)) \in Nat
  BY FS_CardinalityType
<1>5. /\ IsFiniteSet(Bytes(m) \cup BytesOf(b, s))
      /\ Cardinality(Bytes(m) \cup BytesOf(b, s)) =
           Cardinality(Bytes(m)) + Cardinality(BytesOf(b, s))
             - Cardinality(Bytes(m) \cap BytesOf(b, s))
  BY <1>3, FS_Union
<1>6. Cardinality(Bytes(m) \cap BytesOf(b, s)) = 0
  BY <1>2, FS_EmptySet
<1> QED BY <1>1, <1>3, <1>4, <1>5, <1>6 DEF TotalSize

\* Dropping a resident block takes its size away.
LEMMA DropBytes ==
    ASSUME NEW m, NEW b \in DOMAIN m, m[b] \in Nat, IsFiniteSet(Bytes(m))
    PROVE  /\ IsFiniteSet(Bytes(Drop(m, b)))
           /\ TotalSize(Drop(m, b)) \in Nat
           /\ TotalSize(m) = TotalSize(Drop(m, b)) + m[b]
<1> DEFINE d == Drop(m, b)
<1>1. Bytes(m) = Bytes(d) \cup BytesOf(b, m[b])
  BY DEF Bytes, Drop, BytesOf
<1>2. Bytes(d) \cap BytesOf(b, m[b]) = {}
  BY DEF Bytes, Drop, BytesOf
<1>3. IsFiniteSet(BytesOf(b, m[b])) /\ Cardinality(BytesOf(b, m[b])) = m[b]
  BY BytesOfCount
<1>4. IsFiniteSet(Bytes(d))
  BY <1>1, FS_Subset
<1>5. Cardinality(Bytes(d)) \in Nat
  BY <1>4, FS_CardinalityType
<1>6. Cardinality(Bytes(d) \cup BytesOf(b, m[b])) =
        Cardinality(Bytes(d)) + Cardinality(BytesOf(b, m[b]))
          - Cardinality(Bytes(d) \cap BytesOf(b, m[b]))
  BY <1>3, <1>4, FS_Union
<1>7. Cardinality(Bytes(d) \cap BytesOf(b, m[b])) = 0
  BY <1>2, FS_EmptySet
<1> QED BY <1>1, <1>3, <1>4, <1>5, <1>6, <1>7 DEF TotalSize

(***************************************************************************)
(* Lists.                                                                  *)
(***************************************************************************)
\* Erasing keeps the elements before the place and moves up those behind it.
LEMMA EraseElements ==
    ASSUME NEW S, NEW s \in Seq(S), NEW i \in 1 .. Len(s)
    PROVE  /\ Erase(s, i) \in Seq(S)
           /\ Len(Erase(s, i)) = Len(s) - 1
           /\ \A j \in 1 .. Len(s) - 1 :
                 Erase(s, i)[j] = IF j < i THEN s[j] ELSE s[j + 1]
<1> DEFINE front == SubSeq(s, 1, i - 1)
           back == SubSeq(s, i + 1, Len(s))
<1>0. Len(s) \in Nat
  BY LenProperties
<1>1. /\ front \in Seq(S) /\ Len(front) = i - 1
      /\ \A j \in 1 .. i - 1 : front[j] = s[j]
  BY <1>0, SubSeqProperties
<1>2. /\ back \in Seq(S) /\ Len(back) = Len(s) - i
      /\ \A j \in 1 .. Len(s) - i : back[j] = s[i + j]
  BY <1>0, SubSeqProperties
<1>3. Erase(s, i) = front \o back
  BY DEF Erase
<1> HIDE DEF front, back
<1>4. /\ front \o back \in Seq(S)
      /\ Len(front \o back) = Len(front) + Len(back)
      /\ \A j \in 1 .. Len(front) + Len(back) :
            (front \o back)[j] = IF j <= Len(front) THEN front[j] ELSE back[j - Len(front)]
  BY <1>1, <1>2, ConcatProperties
<1>5. Len(front) + Len(back) = Len(s) - 1
  BY <1>0, <1>1, <1>2
<1>6. ASSUME NEW j \in 1 .. Len(s) - 1
      PROVE  (front \o back)[j] = IF j < i THEN s[j] ELSE s[j + 1]
  <2>1. CASE j < i
    BY <2>1, <1>0, <1>1, <1>4, <1>5
  <2>2. CASE ~ (j < i)
    <3>1. j - (i - 1) \in 1 .. Len(s) - i /\ i + (j - (i - 1)) = j + 1
      BY <2>2, <1>0
    <3>2. back[j - (i - 1)] = s[j + 1]
      BY <3>1, <1>2
    <3>3. (front \o back)[j] = back[j - (i - 1)]
      BY <2>2, <1>0, <1>1, <1>4, <1>5
    <3> QED BY <3>2, <3>3, <2>2
  <2> QED BY <2>1, <2>2
<1> QED BY <1>3, <1>4, <1>5, <1>6

\* Erasing from a list without repetitions takes exactly one element away.
LEMMA EraseNoRepeat ==
    ASSUME NEW S, NEW s \in Seq(S), NEW i \in 1 .. Len(s), NoRepeat(s)
    PROVE  /\ NoRepeat(Erase(s, i))
           /\ Elements(Erase(s, i)) = Elements(s) \ {s[i]}
<1> DEFINE e == Erase(s, i)
<1>1. /\ Len(e) = Len(s) - 1 /\ Len(s) \in Nat
      /\ \A j \in 1 .. Len(s) - 1 : e[j] = IF j < i THEN s[j] ELSE s[j + 1]
  BY EraseElements, LenProperties
<1> HIDE DEF e
<1>2. NoRepeat(e)
  <2> SUFFICES ASSUME NEW j \in 1 .. Len(e), NEW k \in 1 .. Len(e), e[j] = e[k]
               PROVE  j = k
    BY DEF NoRepeat
  <2> DEFINE old(x) == IF x < i THEN x ELSE x + 1
  <2>1. old(j) \in 1 .. Len(s) /\ old(k) \in 1 .. Len(s)
    BY <1>1
  <2>2. e[j] = s[old(j)] /\ e[k] = s[old(k)]
    BY <1>1
  <2>3. old(j) = old(k)
    BY <2>1, <2>2 DEF NoRepeat
  <2> QED BY <2>3, <1>1
<1>3. Elements(e) \subseteq Elements(s) \ {s[i]}
  BY <1>1 DEF NoRepeat, Elements
<1>4. ASSUME NEW k \in 1 .. Len(s), s[k] # s[i]
      PROVE  s[k] \in Elements(e)
  <2>1. CASE k < i
    BY <2>1, <1>1 DEF Elements
  <2>2. CASE k > i
    <3>1. k - 1 \in 1 .. Len(e) /\ e[k - 1] = s[k]
      BY <2>2, <1>1
    <3> QED BY <3>1 DEF Elements
  <2> QED BY <2>1, <2>2, <1>4
<1> QED BY <1>2, <1>3, <1>4 DEF Elements, e

\* Adding a new element in front of a list without repetitions.
LEMMA FrontElements ==
    ASSUME NEW S, NEW s \in Seq(S), NEW b \in S, NoRepeat(s), b \notin Elements(s)
    PROVE  /\ <<b>> \o s \in Seq(S)
           /\ Len(<<b>> \o s) = Len(s) + 1
           /\ NoRepeat(<<b>> \o s)
           /\ Elements(<<b>> \o s) = Elements(s) \cup {b}
<1> DEFINE t == <<b>> \o s
<1>0. Len(s) \in Nat /\ <<b>> \in Seq(S) /\ Len(<<b>>) = 1
  BY LenProperties
<1>1. /\ t \in Seq(S) /\ Len(t) = Len(s) + 1
      /\ \A j \in 1 .. Len(s) + 1 : t[j] = IF j <= 1 THEN <<b>>[j] ELSE s[j - 1]
  BY <1>0, ConcatProperties
<1>2. /\ t[1] = b
      /\ \A j \in 2 .. Len(t) : t[j] = s[j - 1] /\ j - 1 \in 1 .. Len(s)
  BY <1>0, <1>1
<1> HIDE DEF t
<1>3. NoRepeat(t)
  <2> SUFFICES ASSUME NEW j \in 1 .. Len(t), NEW k \in 1 .. Len(t), t[j] = t[k]
               PROVE  j = k
    BY DEF NoRepeat
  <2>1. CASE j = 1 /\ k # 1
    BY <2>1, <1>0, <1>1, <1>2 DEF Elements
  <2>2. CASE k = 1 /\ j # 1
    BY <2>2, <1>0, <1>1, <1>2 DEF Elements
  <2>3. CASE j # 1 /\ k # 1
    BY <2>3, <1>0, <1>1, <1>2 DEF NoRepeat
  <2> QED BY <2>1, <2>2, <2>3
<1>4. Elements(t) \subseteq Elements(s) \cup {b}
  BY <1>0, <1>1, <1>2 DEF Elements
<1>5. ASSUME NEW k \in 1 .. Len(s)
      PROVE  s[k] \in Elements(t)
  <2>1. k + 1 \in 1 .. Len(t) /\ t[k + 1] = s[k]
    BY <1>0, <1>1, <1>2
  <2> QED BY <2>1 DEF Elements
<1>6. b \in Elements(t)
  BY <1>0, <1>1, <1>2 DEF Elements
<1> QED BY <1>1, <1>3, <1>4, <1>5, <1>6 DEF Elements, t

\* Of some places the k-th is the one up to which there are k.
LEMMA KthPlace ==
    ASSUME NEW N \in Nat, NEW places \in SUBSET (1 .. N), NEW k \in 1 .. Cardinality(places)
    PROVE  \E i \in places : Cardinality(places \cap (1 .. i)) = k
<1> DEFINE upto(i) == places \cap (1 .. i)
<1>a. IsFiniteSet(1 .. N) /\ Cardinality(1 .. N) = N
  BY FirstNumbers
<1>b. /\ IsFiniteSet(places) /\ Cardinality(places) \in Nat
      /\ Cardinality(places) <= N
  BY <1>a, FS_Subset, FS_CardinalityType
<1>c. ASSUME NEW i PROVE IsFiniteSet(upto(i)) /\ Cardinality(upto(i)) \in Nat
  BY <1>b, FS_Subset, FS_CardinalityType
<1> DEFINE T == {i \in 1 .. N : Cardinality(upto(i)) >= k}
<1>1. upto(N) = places
  OBVIOUS
<1>2. upto(0) = {}
  OBVIOUS
<1>3. k \in Nat /\ Cardinality(places) >= k /\ k > 0
  BY <1>b
<1>4. N \in 1 .. N
  BY <1>a, <1>b
<1>5. N \in T /\ T \subseteq Nat
  <2>1. Cardinality(upto(N)) >= k
    BY <1>1, <1>3
  <2> HIDE DEF upto
  <2> QED BY <1>4, <2>1
<1> HIDE DEF T
<1>6. PICK i \in T : \A j \in T : i <= j
  BY <1>5, Least
<1>7. i \in 1 .. N /\ Cardinality(upto(i)) >= k
  BY DEF T
<1>8. Cardinality(upto(i - 1)) < k
  <2>1. CASE i = 1
    <3>1. Cardinality(upto(0)) = 0
      BY <1>2, FS_EmptySet
    <3>2. i - 1 = 0
      BY <2>1
    <3> QED BY <1>3, <3>1, <3>2
  <2>2. CASE i # 1
    <3>1. i - 1 \in 1 .. N /\ ~ (i <= i - 1)
      BY <2>2, <1>7, <1>a
    <3>2. i - 1 \notin T
      BY <3>1, <1>6
    <3>3. ~ (Cardinality(upto(i - 1)) >= k)
      BY <3>1, <3>2 DEF T
    <3>4. Cardinality(upto(i - 1)) \in Nat
      BY <1>c
    <3> HIDE DEF upto
    <3> QED BY <3>3, <3>4, <1>3
  <2> QED BY <2>1, <2>2
<1>9. i \in places
  <2> SUFFICES ASSUME i \notin places PROVE FALSE
    OBVIOUS
  <2>1. upto(i) = upto(i - 1)
    BY <1>7, <1>a
  <2>2. Cardinality(upto(i - 1)) \in Nat
    BY <1>c
  <2> HIDE DEF upto
  <2> QED BY <2>1, <2>2, <1>3, <1>7, <1>8
<1>10. upto(i) = upto(i - 1) \cup {i} /\ i \notin upto(i - 1)
  BY <1>7, <1>9, <1>a
<1>11. IsFiniteSet(upto(i - 1)) /\ Cardinality(upto(i - 1)) \in Nat
  BY <1>c
<1> HIDE DEF upto
<1>12. Cardinality(upto(i)) = Cardinality(upto(i - 1)) + 1
  BY <1>10, <1>11, FS_AddElement
<1>13. Cardinality(upto(i)) = k
  BY <1>3, <1>7, <1>8, <1>11, <1>12
<1> QED BY <1>9, <1>13 DEF upto

\* The elements kept are as many as the places.
LEMMA KeptElements ==
    ASSUME NEW S, NEW s \in Seq(S), NEW places \in SUBSET (1 .. Len(s))
    PROVE  /\ Cardinality(places) \in 0 .. Len(s)
           /\ Kept(s, places) \in Seq(S)
           /\ Len(Kept(s, places)) = Cardinality(places)
<1> DEFINE at(k) == CHOOSE i \in places : Cardinality(places \cap (1 .. i)) = k
<1>1. Len(s) \in Nat
  BY LenProperties
<1>2. Cardinality(places) \in Nat /\ Cardinality(places) <= Len(s)
  <2> HIDE DEF at
  <2>1. IsFiniteSet(1 .. Len(s)) /\ Cardinality(1 .. Len(s)) = Len(s)
    BY <1>1, FirstNumbers
  <2> QED BY <2>1, FS_Subset, FS_CardinalityType
<1>3. \A k \in 1 .. Cardinality(places) : at(k) \in places
  BY <1>1, KthPlace
<1>4. Kept(s, places) = [k \in 1 .. Cardinality(places) |-> s[at(k)]]
  BY DEF Kept
<1> HIDE DEF at
<1>5. \A i \in places : s[i] \in S
  BY ElementOfSeq
<1>6. Kept(s, places) \in [1 .. Cardinality(places) -> S]
  BY <1>3, <1>4, <1>5
<1> QED BY <1>1, <1>2, <1>6, IsASeq

\* Each of them is at one of the places.
LEMMA KeptFrom ==
    ASSUME NEW S, NEW s \in Seq(S), NEW places \in SUBSET (1 .. Len(s))
    PROVE  \A k \in 1 .. Len(Kept(s, places)) : \E i \in places : Kept(s, places)[k] = s[i]
<1> DEFINE at(k) == CHOOSE i \in places : Cardinality(places \cap (1 .. i)) = k
<1>1. Len(s) \in Nat
  BY LenProperties
<1>2. \A k \in 1 .. Cardinality(places) : at(k) \in places
  BY <1>1, KthPlace
<1>3. Kept(s, places) = [k \in 1 .. Cardinality(places) |-> s[at(k)]]
  BY DEF Kept
<1> HIDE DEF at
<1> QED BY <1>2, <1>3, KeptElements

\* The places of s before place i and at it.
LEMMA PlacesUpTo ==
    ASSUME NEW N \in Nat, NEW places \in SUBSET (1 .. N)
    PROVE  /\ IsFiniteSet(places) /\ Cardinality(places) \in 0 .. N
           /\ \A i : IsFiniteSet(places \cap (1 .. i)) /\ Cardinality(places \cap (1 .. i)) \in Nat
           /\ \A i \in places : Cardinality(places \cap (1 .. i)) \in 1 .. Cardinality(places)
<1>1. IsFiniteSet(1 .. N) /\ Cardinality(1 .. N) = N
  BY FirstNumbers
<1>2. IsFiniteSet(places) /\ Cardinality(places) \in Nat /\ Cardinality(places) <= N
  BY <1>1, FS_Subset, FS_CardinalityType
<1>3. ASSUME NEW i
      PROVE  /\ IsFiniteSet(places \cap (1 .. i)) /\ Cardinality(places \cap (1 .. i)) \in Nat
             /\ Cardinality(places \cap (1 .. i)) <= Cardinality(places)
  BY <1>2, FS_Subset, FS_CardinalityType
<1>4. ASSUME NEW i \in places
      PROVE  Cardinality(places \cap (1 .. i)) # 0
  <2>1. i \in places \cap (1 .. i)
    OBVIOUS
  <2>2. places \cap (1 .. i) # {}
    BY <2>1
  <2> QED BY <1>3, <2>2, FS_EmptySet
<1>5. ASSUME NEW i \in places
      PROVE  Cardinality(places \cap (1 .. i)) \in 1 .. Cardinality(places)
  BY <1>2, <1>3, <1>4
<1> QED BY <1>2, <1>3, <1>5

\* No two places are as far on.
LEMMA PlaceIsKth ==
    ASSUME NEW N \in Nat, NEW places \in SUBSET (1 .. N), NEW i \in places, NEW j \in places,
           Cardinality(places \cap (1 .. i)) = Cardinality(places \cap (1 .. j))
    PROVE  i = j
<1>1. ASSUME NEW k \in places, NEW m \in places, k < m
      PROVE  Cardinality(places \cap (1 .. k)) # Cardinality(places \cap (1 .. m))
  <2> DEFINE before == places \cap (1 .. k)
             upto == places \cap (1 .. m)
  <2>1. before \subseteq upto /\ m \in upto /\ m \notin before
    BY <1>1
  <2>2. IsFiniteSet(upto)
    BY PlacesUpTo
  <2> HIDE DEF before, upto
  <2>3. before # upto
    BY <2>1
  <2>4. Cardinality(before) # Cardinality(upto)
    BY <2>1, <2>2, <2>3, FS_Subset
  <2> QED BY <2>4 DEF before, upto
<1>2. i \in Int /\ j \in Int
  OBVIOUS
<1> QED BY <1>1, <1>2

\* Where the element at a place comes to be, when those at some places are kept.
LEMMA KeptAt ==
    ASSUME NEW S, NEW s \in Seq(S), NEW places \in SUBSET (1 .. Len(s)), NEW i \in places
    PROVE  /\ Cardinality(places \cap (1 .. i)) \in 1 .. Len(Kept(s, places))
           /\ Kept(s, places)[Cardinality(places \cap (1 .. i))] = s[i]
<1>1. Len(s) \in Nat
  BY LenProperties
<1> DEFINE rank(j) == Cardinality(places \cap (1 .. j))
           at(k) == CHOOSE j \in places : rank(j) = k
<1>2. rank(i) \in 1 .. Cardinality(places)
  BY <1>1, PlacesUpTo
<1>3. at(rank(i)) \in places /\ rank(at(rank(i))) = rank(i)
  <2> HIDE DEF rank
  <2> QED OBVIOUS
<1>4. at(rank(i)) = i
  <2> HIDE DEF at
  <2>1. PICK j \in places : j = at(rank(i)) /\ rank(j) = rank(i)
    BY <1>3
  <2>2. j = i
    BY <1>1, <2>1, PlaceIsKth
  <2> QED BY <2>1, <2>2
<1>5. Kept(s, places) = [k \in 1 .. Cardinality(places) |-> s[at(k)]]
  BY DEF Kept
<1> HIDE DEF at, rank
<1>6. Kept(s, places)[rank(i)] = s[i]
  BY <1>2, <1>4, <1>5
<1>7. Len(Kept(s, places)) = Cardinality(places)
  BY KeptElements
<1> QED BY <1>2, <1>6, <1>7 DEF rank

\* Two lists of which the same is kept: f gives each place kept of s the place of t
\* that is as far on and has the same element.
Follows(s, P, t, Q, f) ==
    /\ f \in [P -> Q]
    /\ \A i \in P : t[f[i]] = s[i]
    /\ \A i \in P : Cardinality(Q \cap (1 .. f[i])) = Cardinality(P \cap (1 .. i))

LEMMA SameKept ==
    ASSUME NEW S, NEW s \in Seq(S), NEW P \in SUBSET (1 .. Len(s)),
           NEW t \in Seq(S), NEW Q \in SUBSET (1 .. Len(t)),
           NEW f, Follows(s, P, t, Q, f)
    PROVE  /\ Cardinality(P) <= Cardinality(Q)
           /\ \A k \in 1 .. Cardinality(P) : Kept(t, Q)[k] = Kept(s, P)[k]
<1>0. Len(s) \in Nat /\ Len(t) \in Nat
  BY LenProperties
<1>1. Cardinality(P) \in 0 .. Len(s) /\ Cardinality(Q) \in 0 .. Len(t)
  BY <1>0, PlacesUpTo
<1>2. ASSUME NEW k \in 1 .. Cardinality(P)
      PROVE  k <= Cardinality(Q) /\ Kept(t, Q)[k] = Kept(s, P)[k]
  <2>1. PICK i \in P : Cardinality(P \cap (1 .. i)) = k
    BY <1>0, KthPlace
  <2>2. Kept(s, P)[k] = s[i]
    BY <2>1, KeptAt
  <2>3. PICK j \in Q : j = f[i]
    BY DEF Follows
  <2>4. Cardinality(Q \cap (1 .. j)) = k /\ t[j] = s[i]
    BY <2>1, <2>3 DEF Follows
  <2>5. Kept(t, Q)[k] = t[j] /\ k \in 1 .. Len(Kept(t, Q))
    BY <2>4, KeptAt
  <2>6. Len(Kept(t, Q)) = Cardinality(Q)
    BY KeptElements
  <2> QED BY <1>1, <2>2, <2>4, <2>5, <2>6
<1>3. Cardinality(P) <= Cardinality(Q)
  <2>1. CASE Cardinality(P) = 0
    BY <1>1, <2>1
  <2>2. CASE Cardinality(P) # 0
    <3>1. Cardinality(P) \in 1 .. Cardinality(P)
      BY <1>1, <2>2
    <3> QED BY <1>2, <3>1
  <2> QED BY <2>1, <2>2
<1> QED BY <1>2, <1>3

(***************************************************************************)
(* Lists that begin alike, and removal.                                    *)
(***************************************************************************)
Begins(s, t) == Len(s) <= Len(t) /\ \A i \in 1 .. Len(s) : s[i] = t[i]

PlacesWithout(s, T) == {i \in 1 .. Len(s) : s[i] \notin T}

LEMMA WithoutTyped ==
    ASSUME NEW S, NEW s \in Seq(S), NEW T
    PROVE  /\ Without(s, T) \in Seq(S)
           /\ Without(s, T) = Kept(s, PlacesWithout(s, T))
           /\ Len(Without(s, T)) = Cardinality(PlacesWithout(s, T))
<1>1. PlacesWithout(s, T) \in SUBSET (1 .. Len(s))
  BY DEF PlacesWithout
<1>2. Without(s, T) = Kept(s, PlacesWithout(s, T))
  BY DEF Without, PlacesWithout
<1> QED BY <1>1, <1>2, KeptElements

\* What is removed from a list and from its beginning leaves a beginning.
LEMMA WithoutBegins ==
    ASSUME NEW S, NEW s \in Seq(S), NEW t \in Seq(S), Begins(s, t), NEW T
    PROVE  Begins(Without(s, T), Without(t, T))
<1>0. Len(s) \in Nat /\ Len(t) \in Nat /\ Len(s) <= Len(t)
  BY LenProperties DEF Begins
<1>1. PICK P, Q : P = PlacesWithout(s, T) /\ Q = PlacesWithout(t, T)
  OBVIOUS
<1>2. P \in SUBSET (1 .. Len(s)) /\ Q \in SUBSET (1 .. Len(t)) /\ P = Q \cap (1 .. Len(s))
  BY <1>0, <1>1 DEF PlacesWithout, Begins
<1>3. PICK f : f = [i \in P |-> i]
  OBVIOUS
<1>4. /\ f \in [P -> Q]
      /\ \A i \in P : f[i] = i
      /\ \A i \in P : t[f[i]] = s[i]
  BY <1>2, <1>3 DEF Begins
<1>5. ASSUME NEW i \in P
      PROVE  Cardinality(Q \cap (1 .. f[i])) = Cardinality(P \cap (1 .. i))
  <2>1. Q \cap (1 .. i) = P \cap (1 .. i)
    BY <1>0, <1>2
  <2> QED BY <1>4, <2>1
<1>5a. Follows(s, P, t, Q, f)
  BY <1>4, <1>5 DEF Follows
<1>6. /\ Cardinality(P) <= Cardinality(Q)
      /\ \A k \in 1 .. Cardinality(P) : Kept(t, Q)[k] = Kept(s, P)[k]
  <2>1. P \in SUBSET (1 .. Len(s)) /\ Q \in SUBSET (1 .. Len(t))
    BY <1>2
  <2> QED BY <2>1, <1>5a, SameKept
<1> QED BY <1>1, <1>6, WithoutTyped DEF Begins

LEMMA SameList ==
    ASSUME NEW S, NEW s \in Seq(S), NEW t \in Seq(S), Len(s) = Len(t),
           \A i \in 1 .. Len(s) : s[i] = t[i]
    PROVE  s = t
<1>1. s \in [1 .. Len(s) -> S] /\ t \in [1 .. Len(s) -> S]
  BY LenProperties
<1> QED BY <1>1

\* Nothing to remove.
LEMMA WithoutNone ==
    ASSUME NEW S, NEW s \in Seq(S), NEW T, \A i \in 1 .. Len(s) : s[i] \notin T
    PROVE  Without(s, T) = s
<1>0. PICK n \in Nat : n = Len(s)
  BY LenProperties
<1>1. PlacesWithout(s, T) = 1 .. n
  BY <1>0 DEF PlacesWithout
<1>2. /\ Without(s, T) \in Seq(S) /\ Without(s, T) = Kept(s, 1 .. n)
      /\ Len(Without(s, T)) = n
  BY <1>0, <1>1, WithoutTyped, FirstNumbers
<1>3. ASSUME NEW i \in 1 .. n PROVE Without(s, T)[i] = s[i]
  <2>1. (1 .. n) \cap (1 .. i) = 1 .. i
    BY <1>0
  <2>2. Cardinality((1 .. n) \cap (1 .. i)) = i
    <3>1. i \in Nat
      BY <1>0
    <3> QED BY <2>1, <3>1, FirstNumbers
  <2>3. Kept(s, 1 .. n)[Cardinality((1 .. n) \cap (1 .. i))] = s[i]
    BY <1>0, KeptAt
  <2> QED BY <1>2, <2>2, <2>3
<1> QED BY <1>0, <1>2, <1>3, SameList

\* One of those to remove may be erased before.
LEMMA WithoutErased ==
    ASSUME NEW S, NEW s \in Seq(S), NEW i \in 1 .. Len(s), NEW T, s[i] \in T
    PROVE  Without(Erase(s, i), T) = Without(s, T)
<1>1. PICK e, n : e = Erase(s, i) /\ n = Len(s)
  OBVIOUS
<1>2. /\ e \in Seq(S) /\ n \in Nat /\ Len(e) = n - 1
      /\ \A j \in 1 .. n - 1 : e[j] = IF j < i THEN s[j] ELSE s[j + 1]
  BY <1>1, EraseElements, LenProperties
<1>3. PICK P, Q : P = PlacesWithout(e, T) /\ Q = PlacesWithout(s, T)
  OBVIOUS
<1>4. /\ P \in SUBSET (1 .. Len(e)) /\ Q \in SUBSET (1 .. Len(s))
      /\ \A j \in P : j \in 1 .. n - 1 /\ e[j] \notin T
      /\ \A j \in Q : j \in 1 .. n /\ j # i
  BY <1>1, <1>2, <1>3 DEF PlacesWithout
<1>5. PICK f, g : /\ f = [j \in P |-> IF j < i THEN j ELSE j + 1]
                  /\ g = [j \in Q |-> IF j < i THEN j ELSE j - 1]
  OBVIOUS
<1>6. ASSUME NEW j \in P PROVE f[j] \in Q /\ s[f[j]] = e[j] /\ g[f[j]] = j
  <2>1. j \in 1 .. n - 1 /\ e[j] \notin T /\ f[j] = IF j < i THEN j ELSE j + 1
    BY <1>4, <1>5
  <2>2. f[j] \in 1 .. n /\ s[f[j]] = e[j]
    BY <1>2, <2>1
  <2>3. f[j] \in Q
    BY <1>1, <1>3, <2>1, <2>2 DEF PlacesWithout
  <2>4. g[f[j]] = IF f[j] < i THEN f[j] ELSE f[j] - 1
    BY <1>5, <2>3
  <2>5. i \in Nat
    BY <1>2
  <2> QED BY <2>1, <2>2, <2>3, <2>4, <2>5
<1>7. ASSUME NEW j \in Q PROVE g[j] \in P /\ f[g[j]] = j
  <2>1. j \in 1 .. n /\ j # i /\ i \in 1 .. n /\ s[j] \notin T /\ g[j] = IF j < i THEN j ELSE j - 1
    BY <1>1, <1>3, <1>4, <1>5 DEF PlacesWithout
  <2>2. g[j] \in 1 .. n - 1 /\ e[g[j]] = s[j]
    BY <1>2, <2>1
  <2>3. g[j] \in P
    BY <1>2, <1>3, <2>1, <2>2 DEF PlacesWithout
  <2>4. f[g[j]] = IF g[j] < i THEN g[j] ELSE g[j] + 1
    BY <1>5, <2>3
  <2> QED BY <1>2, <2>1, <2>3, <2>4
<1>8. f \in [P -> Q] /\ g \in [Q -> P]
  BY <1>5, <1>6, <1>7
<1>9. \A j, k \in P : (k <= j) <=> (f[k] <= f[j])
  BY <1>2, <1>4, <1>5
<1>10. ASSUME NEW j \in P
       PROVE  Cardinality(Q \cap (1 .. f[j])) = Cardinality(P \cap (1 .. j))
  <2>1. PICK A, B : A = P \cap (1 .. j) /\ B = Q \cap (1 .. f[j])
    OBVIOUS
  <2>2. PICK h : h = [k \in A |-> f[k]]
    OBVIOUS
  <2>3. ASSUME NEW k \in A PROVE h[k] \in B /\ g[h[k]] = k
    <3>1. k \in P /\ k <= j /\ h[k] = f[k]
      BY <2>1, <2>2, <1>4
    <3>2. f[k] \in Q /\ f[k] <= f[j] /\ f[k] \in 1 .. n /\ f[j] \in 1 .. n
      BY <1>4, <1>6, <1>9, <3>1
    <3> QED BY <2>1, <1>6, <3>1, <3>2
  <2>4. ASSUME NEW m \in B PROVE \E k \in A : h[k] = m
    <3>1. m \in Q /\ m <= f[j] /\ m \in 1 .. n
      BY <2>1, <1>4
    <3>2. g[m] \in P /\ f[g[m]] = m
      BY <1>7, <3>1
    <3>3. g[m] <= j /\ g[m] \in 1 .. n - 1
      BY <1>4, <1>9, <3>1, <3>2
    <3>4. g[m] \in A
      BY <2>1, <3>2, <3>3, <1>4
    <3> QED BY <2>2, <3>2, <3>4
  <2>5. h \in [A -> B]
    BY <2>2, <2>3
  <2>6. h \in Bijection(A, B)
    BY <2>3, <2>4, <2>5 DEF Bijection, Injection, Surjection, IsInjective
  <2>7. IsFiniteSet(A)
    BY <1>2, <1>4, <2>1, PlacesUpTo
  <2>8. ExistsBijection(A, B)
    BY <2>6 DEF ExistsBijection
  <2> QED BY <2>1, <2>7, <2>8, FS_Bijection
<1>11. ASSUME NEW j \in Q
       PROVE  Cardinality(P \cap (1 .. g[j])) = Cardinality(Q \cap (1 .. j))
  <2>1. PICK m \in P : m = g[j]
    BY <1>7
  <2>2. f[m] = j
    BY <1>7, <2>1
  <2> QED BY <1>10, <2>1, <2>2
<1>12. ASSUME NEW j \in Q PROVE e[g[j]] = s[j]
  BY <1>6, <1>7
<1>12a. Follows(e, P, s, Q, f) /\ Follows(s, Q, e, P, g)
  BY <1>6, <1>8, <1>10, <1>11, <1>12 DEF Follows
<1>13. /\ Cardinality(P) <= Cardinality(Q)
       /\ \A k \in 1 .. Cardinality(P) : Kept(s, Q)[k] = Kept(e, P)[k]
  BY <1>2, <1>4, <1>12a, SameKept
<1>14. Cardinality(Q) <= Cardinality(P)
  BY <1>2, <1>4, <1>12a, SameKept
<1>15. Cardinality(P) \in Nat /\ Cardinality(Q) \in Nat
  BY <1>2, <1>4, PlacesUpTo
<1>16. Cardinality(P) = Cardinality(Q)
  BY <1>13, <1>14, <1>15
<1>17. /\ Without(e, T) \in Seq(S) /\ Without(e, T) = Kept(e, P)
       /\ Len(Without(e, T)) = Cardinality(P)
  BY <1>2, <1>3, WithoutTyped
<1>18. /\ Without(s, T) \in Seq(S) /\ Without(s, T) = Kept(s, Q)
       /\ Len(Without(s, T)) = Cardinality(Q)
  BY <1>3, WithoutTyped
<1>19. Without(e, T) = Without(s, T)
  BY <1>13, <1>16, <1>17, <1>18, SameList
<1> QED BY <1>1, <1>19

\* A list that has each element once is left without it when it is erased.
LEMMA ErasedIsWithout ==
    ASSUME NEW S, NEW s \in Seq(S), NoRepeat(s), NEW i \in 1 .. Len(s)
    PROVE  Erase(s, i) = Without(s, {s[i]})
<1>1. Erase(s, i) \in Seq(S) /\ s[i] \notin Elements(Erase(s, i))
  BY EraseElements, EraseNoRepeat
<1>2. PICK e, x : e = Erase(s, i) /\ x = s[i]
  OBVIOUS
<1>3. \A j \in 1 .. Len(e) : e[j] \notin {x}
  BY <1>1, <1>2 DEF Elements
<1>4. Without(e, {x}) = e
  BY <1>1, <1>2, <1>3, WithoutNone
<1>5. Without(e, {x}) = Without(s, {x})
  BY <1>2, WithoutErased
<1> QED BY <1>2, <1>4, <1>5

LEMMA FrontBegins ==
    ASSUME NEW S, NEW b \in S, NEW s \in Seq(S), NEW t \in Seq(S), Begins(s, t)
    PROVE  Begins(<<b>> \o s, <<b>> \o t)
<1>1. Len(s) \in Nat /\ Len(t) \in Nat
  BY LenProperties
<1>2. \A u \in Seq(S) : /\ Len(<<b>> \o u) = Len(u) + 1
                        /\ \A i \in 1 .. Len(u) + 1 :
                              (<<b>> \o u)[i] = IF i = 1 THEN b ELSE u[i - 1]
  <2>1. <<b>> \in Seq(S) /\ Len(<<b>>) = 1 /\ <<b>>[1] = b
    OBVIOUS
  <2> TAKE u \in Seq(S)
  <2>2. Len(u) \in Nat
    BY LenProperties
  <2>3. /\ Len(<<b>> \o u) = 1 + Len(u)
        /\ \A i \in 1 .. 1 + Len(u) :
              (<<b>> \o u)[i] = IF i <= 1 THEN <<b>>[i] ELSE u[i - 1]
    BY <2>1, ConcatProperties
  <2> QED BY <2>1, <2>2, <2>3
<1>3. PICK p, q : p = <<b>> \o s /\ q = <<b>> \o t
  OBVIOUS
<1>4. /\ Len(p) = Len(s) + 1 /\ Len(q) = Len(t) + 1
      /\ \A i \in 1 .. Len(s) + 1 : p[i] = IF i = 1 THEN b ELSE s[i - 1]
      /\ \A i \in 1 .. Len(t) + 1 : q[i] = IF i = 1 THEN b ELSE t[i - 1]
  BY <1>2, <1>3
<1>5. \A i \in 1 .. Len(p) : p[i] = q[i]
  BY <1>1, <1>4 DEF Begins
<1> QED BY <1>1, <1>3, <1>4, <1>5 DEF Begins

(***************************************************************************)
(* The hash of a block.                                                    *)
(***************************************************************************)
\* Two fields packed in a number are told apart if the lower one is in range.
LEMMA Unpacked ==
    ASSUME NEW Shift \in Nat,
           NEW x \in Nat, NEW low \in 0 .. Shift - 1,
           NEW y \in Nat, NEW other \in 0 .. Shift - 1,
           x * Shift + low = y * Shift + other
    PROVE  x = y /\ low = other
<1>1. CASE x < y
  <2>1. PICK k \in Nat : y = x + 1 + k
    BY <1>1, y = x + 1 + (y - x - 1)
  <2>2. y * Shift = x * Shift + Shift + k * Shift
    BY <2>1
  <2>3. k * Shift >= 0
    BY <2>1
  <2> QED
    BY <2>2, <2>3
<1>2. CASE y < x
  <2>1. PICK k \in Nat : x = y + 1 + k
    BY <1>2, x = y + 1 + (x - y - 1)
  <2>2. x * Shift = y * Shift + Shift + k * Shift
    BY <2>1
  <2>3. k * Shift >= 0
    BY <2>1
  <2> QED
    BY <2>2, <2>3
<1>3. CASE x = y
  BY <1>3
<1> QED
  BY <1>1, <1>2, <1>3

(***************************************************************************)
(* block_exists(b) looks up b.hash(): of blocks with file ids below        *)
(* FileIds and block ids below FileShift, equal hashes are of one block.   *)
(***************************************************************************)
THEOREM HashTellsBlocks ==
    ASSUME NEW FileIds \in Nat, NEW FileShift \in Nat,
           NEW t \in Nat, NEW f \in 0 .. FileIds - 1, NEW b \in 0 .. FileShift - 1,
           NEW u \in Nat, NEW g \in 0 .. FileIds - 1, NEW c \in 0 .. FileShift - 1,
           hash(t, f, b, FileIds, FileShift) = hash(u, g, c, FileIds, FileShift)
    PROVE  t = u /\ f = g /\ b = c
<1>1. t * FileIds + f \in Nat /\ u * FileIds + g \in Nat
  OBVIOUS
<1>2. t * FileIds + f = u * FileIds + g /\ b = c
  BY <1>1, Unpacked DEF hash
<1>3. t = u /\ f = g
  BY <1>2, Unpacked
<1> QED
  BY <1>2, <1>3

(***************************************************************************)
(* Heaps.  The places of a heap form a tree.                               *)
(***************************************************************************)
\* Everything in a tree but the root is a child of something above it.
LEMMA Family ==
    /\ \A j \in Nat : j > 1 => /\ Parent(j) \in Nat /\ 1 <= Parent(j) /\ Parent(j) < j
                               /\ (j = Left(Parent(j)) \/ j = Right(Parent(j)))
    /\ \A i, j \in Nat : (j = Left(i) \/ j = Right(i)) => Parent(j) = i
BY DEF Parent, Left, Right

(***************************************************************************)
(* What a map that agrees with its heap is: each is the inverse of the     *)
(* other.                                                                  *)
(***************************************************************************)
Placed(h, B) ==
    /\ h.heap \in Seq(B)
    /\ h.map \in [B -> 1 .. Len(h.heap)]
    /\ \A i \in 1 .. Len(h.heap) : h.map[h.heap[i]] = i
    /\ \A b \in B : h.heap[h.map[b]] = b

LEMMA AgreesPlaced ==
    ASSUME NEW S, NEW h, h.heap \in Seq(S), h.map = [b \in DOMAIN h.map |-> h.map[b]]
    PROVE  MapAgrees(h.heap, h.map) => Placed(h, DOMAIN h.map)
<1> SUFFICES ASSUME MapAgrees(h.heap, h.map) PROVE Placed(h, DOMAIN h.map)
  OBVIOUS
<1>1. PICK heap, map, n : heap = h.heap /\ map = h.map /\ n = Len(heap)
  OBVIOUS
<1>2. /\ n \in Nat /\ heap \in [1 .. n -> S]
      /\ DOMAIN map = {heap[i] : i \in 1 .. n}
      /\ \A i \in 1 .. n : map[heap[i]] = i
  BY <1>1, LenProperties DEF MapAgrees, Elements
<1>3. heap \in [1 .. n -> DOMAIN map]
  BY <1>2
<1>4. heap \in Seq(DOMAIN map)
  BY <1>2, <1>3, IsASeq
<1>5. \A b \in DOMAIN map : map[b] \in 1 .. n /\ heap[map[b]] = b
  BY <1>2
<1>6. map \in [DOMAIN map -> 1 .. n]
  BY <1>1, <1>5
<1> QED BY <1>1, <1>2, <1>4, <1>5, <1>6 DEF Placed

LEMMA PlacedAgrees ==
    ASSUME NEW B, NEW h, Placed(h, B)
    PROVE  /\ MapAgrees(h.heap, h.map) /\ DOMAIN h.map = B /\ Elements(h.heap) = B
           /\ Len(h.heap) \in Nat
           /\ \A i \in 1 .. Len(h.heap) : h.heap[i] \in B
           /\ NoRepeat(h.heap)
<1>1. PICK heap, map, n : heap = h.heap /\ map = h.map /\ n = Len(heap)
  OBVIOUS
<1>2. /\ n \in Nat /\ heap \in [1 .. n -> B] /\ map \in [B -> 1 .. n]
      /\ \A i \in 1 .. n : map[heap[i]] = i
      /\ \A b \in B : heap[map[b]] = b
  BY <1>1, LenProperties DEF Placed
<1>3. {heap[i] : i \in 1 .. n} = B
  BY <1>2
<1> QED BY <1>1, <1>2, <1>3 DEF MapAgrees, Elements, NoRepeat

\* Swapping two entries, in the heap and in the map, keeps them inverse.
LEMMA SwapPlaced ==
    ASSUME NEW B, NEW h, Placed(h, B), NEW i \in 1 .. Len(h.heap), NEW j \in 1 .. Len(h.heap)
    PROVE  /\ Placed(SwapEntries(h, i, j), B)
           /\ Len(SwapEntries(h, i, j).heap) = Len(h.heap)
           /\ \A k \in 1 .. Len(h.heap) :
                 SwapEntries(h, i, j).heap[k] =
                    IF k = i THEN h.heap[j] ELSE IF k = j THEN h.heap[i] ELSE h.heap[k]
<1>1. PICK heap, map, n : heap = h.heap /\ map = h.map /\ n = Len(heap)
  OBVIOUS
<1>2. /\ n \in Nat /\ heap \in [1 .. n -> B] /\ map \in [B -> 1 .. n]
      /\ \A k \in 1 .. n : map[heap[k]] = k
      /\ \A b \in B : heap[map[b]] = b
      /\ i \in 1 .. n /\ j \in 1 .. n
  BY <1>1, LenProperties DEF Placed
<1>3. PICK s, m : s = SwapEntries(h, i, j).heap /\ m = SwapEntries(h, i, j).map
  OBVIOUS
<1>4. s = Swap(heap, i, j) /\ m = SwapMapped(map, heap[i], heap[j])
  BY <1>1, <1>3 DEF SwapEntries
<1>5. /\ s \in [1 .. n -> B]
      /\ \A k \in 1 .. n : s[k] = IF k = i THEN heap[j] ELSE IF k = j THEN heap[i] ELSE heap[k]
  BY <1>2, <1>4 DEF Swap
<1>6. /\ heap[i] \in B /\ heap[j] \in B /\ DOMAIN map = B
      /\ B \cup {heap[i], heap[j]} = B
      /\ map[heap[i]] = i /\ map[heap[j]] = j
  BY <1>2
<1>7. m = [x \in B |-> IF x = heap[i] THEN j ELSE IF x = heap[j] THEN i ELSE map[x]]
  BY <1>4, <1>6 DEF SwapMapped, At
<1>8. m \in [B -> 1 .. n]
  BY <1>2, <1>7
<1>9. ASSUME NEW k \in 1 .. n PROVE m[s[k]] = k
  <2>1. CASE k = i
    BY <2>1, <1>2, <1>5, <1>6, <1>7
  <2>2. CASE k = j
    BY <2>2, <1>2, <1>5, <1>6, <1>7
  <2>3. CASE k # i /\ k # j
    <3>1. s[k] = heap[k] /\ heap[k] \in B /\ heap[k] # heap[i] /\ heap[k] # heap[j]
      BY <2>3, <1>2, <1>5
    <3> QED BY <3>1, <1>2, <1>7
  <2> QED BY <2>1, <2>2, <2>3
<1>10. ASSUME NEW b \in B PROVE s[m[b]] = b
  <2>1. PICK k \in 1 .. n : k = map[b] /\ b = heap[k]
    BY <1>2
  <2>2. CASE k = i
    BY <2>1, <2>2, <1>2, <1>5, <1>6, <1>7
  <2>3. CASE k = j
    BY <2>1, <2>3, <1>2, <1>5, <1>6, <1>7
  <2>4. CASE k # i /\ k # j
    <3>1. b # heap[i] /\ b # heap[j]
      BY <2>1, <2>4, <1>6
    <3>2. m[b] = k
      BY <2>1, <3>1, <1>7
    <3> QED BY <2>1, <2>4, <3>2, <1>5
  <2> QED BY <2>2, <2>3, <2>4
<1>11. s \in Seq(B) /\ Len(s) = n
  BY <1>2, <1>5, IsASeq
<1>12. Placed(SwapEntries(h, i, j), B)
  BY <1>3, <1>8, <1>9, <1>10, <1>11 DEF Placed
<1> QED BY <1>1, <1>3, <1>5, <1>11, <1>12

(***************************************************************************)
(* Loops.  A percolate loop is a function of the number of iterations; it  *)
(* exists and takes its values where an iteration does, and what each      *)
(* iteration brings closer is reached.                                     *)
(***************************************************************************)
\* What holds of 0 and of the successor of each number it holds of.
LEMMA Upwards ==
    ASSUME NEW N \in Nat, NEW T, 0 \in T, \A n \in 0 .. N - 1 : n \in T => n + 1 \in T
    PROVE  0 .. N \subseteq T
<1> DEFINE U == {n \in 0 .. N : n \notin T}
<1> SUFFICES ASSUME U # {} PROVE FALSE
  OBVIOUS
<1>1. U \subseteq Nat
  OBVIOUS
<1> HIDE DEF U
<1>2. PICK m \in U : \A k \in U : m <= k
  BY <1>1, Least
<1>3. m \in 0 .. N /\ m \notin T
  BY DEF U
<1>4. m # 0
  BY <1>3
<1>5. m - 1 \in 0 .. N - 1 /\ m - 1 + 1 = m
  BY <1>3, <1>4
<1>6. m - 1 \in T
  <2>1. m - 1 \notin U
    BY <1>1, <1>2, <1>3
  <2> QED BY <1>5, <2>1 DEF U
<1> QED BY <1>3, <1>5, <1>6

Iterates(S, s0, g, N, f) ==
    /\ f \in [0 .. N -> S]
    /\ f[0] = s0
    /\ \A n \in 1 .. N : f[n] = g[f[n - 1]]

LEMMA IteratesExist ==
    ASSUME NEW S, NEW s0 \in S, NEW g \in [S -> S], NEW N \in Nat
    PROVE  \E f : Iterates(S, s0, g, N, f)
<1> DEFINE T == {n \in Nat : \E f : Iterates(S, s0, g, n, f)}
<1>1. 0 \in T
  <2>1. Iterates(S, s0, g, 0, [n \in 0 .. 0 |-> s0])
    BY DEF Iterates
  <2> QED BY <2>1
<1>2. ASSUME NEW n \in 0 .. N - 1, n \in T PROVE n + 1 \in T
  <2>1. PICK f : Iterates(S, s0, g, n, f)
    BY <1>2
  <2>2. PICK e : e = [k \in 0 .. n + 1 |-> IF k = n + 1 THEN g[f[n]] ELSE f[k]]
    OBVIOUS
  <2>3. /\ \A k \in 0 .. n : e[k] = f[k] /\ f[k] \in S
        /\ e[n + 1] = g[f[n]] /\ g[f[n]] \in S
    BY <2>1, <2>2 DEF Iterates
  <2>4. e \in [0 .. n + 1 -> S]
    BY <2>2, <2>3
  <2>5. \A k \in 1 .. n + 1 : e[k] = g[e[k - 1]]
    <3> TAKE k \in 1 .. n + 1
    <3>1. CASE k = n + 1
      BY <3>1, <2>3
    <3>2. CASE k # n + 1
      <4>1. k \in 1 .. n /\ k \in 0 .. n /\ k - 1 \in 0 .. n
        BY <3>2
      <4> QED BY <4>1, <2>1, <2>3 DEF Iterates
    <3> QED BY <3>1, <3>2
  <2>6. Iterates(S, s0, g, n + 1, e)
    BY <2>1, <2>3, <2>4, <2>5 DEF Iterates
  <2>7. n + 1 \in Nat
    OBVIOUS
  <2> QED BY <2>6, <2>7
<1> HIDE DEF T
<1>3. N \in T
  <2>1. 0 .. N \subseteq T
    BY <1>1, <1>2, Upwards
  <2>2. N \in 0 .. N
    OBVIOUS
  <2> QED BY <2>1, <2>2
<1> QED BY <1>3 DEF T

(***************************************************************************)
(* Order.  A heap is ordered when no entry is smaller than its parent.     *)
(* While a loop moves the entry at i, only that entry can be out of order: *)
(* its children are not smaller than its parent.                           *)
(***************************************************************************)
InOrder(heap, key, j) == key[heap[Parent(j)]] <= key[heap[j]]

Ordered(heap, key) == \A j \in 2 .. Len(heap) : InOrder(heap, key, j)

Nearly(heap, key, i) ==
    \A j \in 2 .. Len(heap) :
        /\ j # i /\ Parent(j) # i => InOrder(heap, key, j)
        /\ Parent(j) = i /\ i > 1 => key[heap[Parent(i)]] <= key[heap[j]]

AboveChildren(heap, key, i) ==
    \A j \in 2 .. Len(heap) : Parent(j) = i => InOrder(heap, key, j)

LEMMA OrderedWhenBoth ==
    ASSUME NEW heap, NEW key, NEW i,
           Nearly(heap, key, i), AboveChildren(heap, key, i), i > 1 => InOrder(heap, key, i),
           i \in Nat
    PROVE  Ordered(heap, key)
BY DEF Nearly, AboveChildren, Ordered

\* Where an entry does not sink, its children are not smaller.
LEMMA SinksNot ==
    ASSUME NEW B, NEW heap \in Seq(B), NEW key, \A b \in B : key[b] \in Int,
           NEW i \in 1 .. Len(heap), ~ Sinks(heap, key, i)
    PROVE  AboveChildren(heap, key, i)
<1>1. Len(heap) \in Nat /\ \A j \in 1 .. Len(heap) : key[heap[j]] \in Int
  BY LenProperties, ElementOfSeq
<1> SUFFICES ASSUME NEW j \in 2 .. Len(heap), Parent(j) = i
             PROVE  InOrder(heap, key, j)
  BY DEF AboveChildren
<1>2. j = Left(i) \/ j = Right(i)
  BY <1>1, Family
<1>3. Left(i) \in 1 .. Len(heap)
  BY <1>1, <1>2 DEF Left, Right
<1>4. PICK c : c = SmallerChild(heap, key, i)
  OBVIOUS
<1>5. c \in 1 .. Len(heap) /\ key[heap[c]] <= key[heap[j]]
  BY <1>1, <1>2, <1>3, <1>4 DEF SmallerChild, Left, Right
<1>6. ~ (key[heap[c]] < key[heap[i]])
  BY <1>1, <1>3, <1>4 DEF Sinks
<1> QED BY <1>1, <1>5, <1>6 DEF InOrder

\* Where it sinks, it changes places with a child that is not bigger than another.
LEMMA SinksTo ==
    ASSUME NEW B, NEW heap \in Seq(B), NEW key, \A b \in B : key[b] \in Int,
           NEW i \in 1 .. Len(heap), Sinks(heap, key, i),
           NEW c, c = SmallerChild(heap, key, i)
    PROVE  /\ c \in 2 .. Len(heap) /\ Parent(c) = i /\ i < c
           /\ key[heap[c]] < key[heap[i]]
           /\ \A j \in 2 .. Len(heap) : Parent(j) = i => key[heap[c]] <= key[heap[j]]
<1>1. Len(heap) \in Nat /\ \A j \in 1 .. Len(heap) : key[heap[j]] \in Int
  BY LenProperties, ElementOfSeq
<1>2. Left(i) <= Len(heap) /\ Left(i) \in Nat
  BY DEF Sinks, Left
<1>3. c \in 2 .. Len(heap) /\ (c = Left(i) \/ c = Right(i)) /\ i < c
  BY <1>1, <1>2 DEF SmallerChild, Left, Right
<1>4. Parent(c) = i
  BY <1>3, Family
<1>5. key[heap[c]] < key[heap[i]]
  BY DEF Sinks
<1>6. ASSUME NEW j \in 2 .. Len(heap), Parent(j) = i
      PROVE  key[heap[c]] <= key[heap[j]]
  <2>1. j = Left(i) \/ j = Right(i)
    BY <1>1, <1>6, Family
  <2>2. Left(i) \in 1 .. Len(heap)
    BY <1>1, <1>2 DEF Left
  <2> QED BY <1>1, <2>1, <2>2 DEF SmallerChild, Left, Right
<1> QED BY <1>3, <1>4, <1>5, <1>6

\* The heap after two of its entries have been swapped.
Swapped(heap, i, c, heap2) ==
    /\ Len(heap2) = Len(heap)
    /\ \A k \in 1 .. Len(heap) :
          heap2[k] = IF k = i THEN heap[c] ELSE IF k = c THEN heap[i] ELSE heap[k]

LEMMA SinkOrder ==
    ASSUME NEW B, NEW heap \in Seq(B), NEW key, \A b \in B : key[b] \in Int,
           NEW i \in 1 .. Len(heap), Nearly(heap, key, i),
           NEW c \in 2 .. Len(heap), Parent(c) = i, key[heap[c]] < key[heap[i]],
           \A j \in 2 .. Len(heap) : Parent(j) = i => key[heap[c]] <= key[heap[j]],
           NEW heap2, Swapped(heap, i, c, heap2)
    PROVE  Nearly(heap2, key, c) /\ InOrder(heap2, key, c)
<1>0. PICK N \in Nat : N = Len(heap)
  BY LenProperties
<1> DEFINE K(j) == key[heap[j]]
           M(j) == key[heap2[j]]
<1>1. /\ \A j \in 1 .. N : K(j) \in Int
      /\ i \in 1 .. N /\ c \in 2 .. N /\ i < c /\ Len(heap2) = N
      /\ \A j \in 1 .. N : M(j) = IF j = i THEN K(c) ELSE IF j = c THEN K(i) ELSE K(j)
      /\ K(c) < K(i)
      /\ \A j \in 2 .. N : Parent(j) = i => K(c) <= K(j)
  BY <1>0, Family, ElementOfSeq DEF Swapped
<1>2. \A j \in 2 .. N : Parent(j) \in 1 .. N /\ Parent(j) < j
  BY <1>0, Family
<1>3. /\ \A j \in 2 .. N : j # i /\ Parent(j) # i => K(Parent(j)) <= K(j)
      /\ i > 1 => K(Parent(i)) <= K(c)
  BY <1>0, <1>1 DEF Nearly, InOrder
<1> HIDE DEF K, M
<1>4. M(Parent(c)) <= M(c)
  BY <1>1, <1>2
<1>5. ASSUME NEW j \in 2 .. N, j # c, Parent(j) # c
      PROVE  M(Parent(j)) <= M(j)
  <2>1. CASE j = i
    <3>1. Parent(i) \in 1 .. N /\ Parent(i) # i /\ Parent(i) # c /\ i > 1
      BY <2>1, <1>1, <1>2, <1>5
    <3> QED BY <2>1, <3>1, <1>1, <1>3
  <2>2. CASE j # i /\ Parent(j) = i
    <3>1. M(i) = K(c) /\ M(j) = K(j) /\ K(c) <= K(j)
      BY <2>2, <1>1, <1>5
    <3> QED BY <2>2, <3>1
  <2>3. CASE j # i /\ Parent(j) # i
    <3>1. j \in 1 .. N /\ Parent(j) \in 1 .. N
      BY <1>2
    <3>2. M(j) = K(j)
      BY <2>3, <3>1, <1>1, <1>5
    <3>3. M(Parent(j)) = K(Parent(j))
      BY <2>3, <3>1, <1>1, <1>5
    <3>4. K(Parent(j)) <= K(j)
      BY <2>3, <1>3
    <3> QED BY <3>2, <3>3, <3>4
  <2> QED BY <2>1, <2>2, <2>3
<1>6. ASSUME NEW j \in 2 .. N, Parent(j) = c
      PROVE  M(Parent(c)) <= M(j)
  <2>1. j # i /\ Parent(j) # i /\ j # c /\ c < j
    BY <1>1, <1>2, <1>6
  <2>2. M(j) = K(j) /\ K(c) <= K(j)
    BY <2>1, <1>1, <1>3, <1>6
  <2>3. M(Parent(c)) = K(c)
    BY <1>1
  <2> QED BY <2>2, <2>3
<1> USE DEF K, M
<1> QED BY <1>0, <1>1, <1>4, <1>5, <1>6 DEF Nearly, InOrder

LEMMA RiseOrder ==
    ASSUME NEW B, NEW heap \in Seq(B), NEW key, \A b \in B : key[b] \in Int,
           NEW i \in 2 .. Len(heap), Nearly(heap, key, i), AboveChildren(heap, key, i),
           NEW q, q = Parent(i), key[heap[i]] < key[heap[q]],
           NEW heap2, Swapped(heap, i, q, heap2)
    PROVE  Nearly(heap2, key, q) /\ AboveChildren(heap2, key, q)
<1>0. PICK N \in Nat : N = Len(heap)
  BY LenProperties
<1> DEFINE K(j) == key[heap[j]]
           M(j) == key[heap2[j]]
<1>1. \A j \in 2 .. N : Parent(j) \in 1 .. N /\ Parent(j) < j
  BY <1>0, Family
<1>2. /\ \A j \in 1 .. N : K(j) \in Int
      /\ i \in 2 .. N /\ q \in 1 .. N /\ q < i /\ Len(heap2) = N
      /\ \A j \in 1 .. N : M(j) = IF j = i THEN K(q) ELSE IF j = q THEN K(i) ELSE K(j)
      /\ K(i) < K(q)
  BY <1>0, <1>1, ElementOfSeq DEF Swapped
<1>3. /\ \A j \in 2 .. N : j # i /\ Parent(j) # i => K(Parent(j)) <= K(j)
      /\ \A j \in 2 .. N : Parent(j) = i => K(q) <= K(j)
  BY <1>0, <1>2 DEF Nearly, InOrder
<1> HIDE DEF K, M
<1>4. ASSUME NEW j \in 2 .. N, j # q, Parent(j) # q
      PROVE  M(Parent(j)) <= M(j)
  <2>1. j # i
    BY <1>4
  <2>2. CASE Parent(j) = i
    BY <2>1, <2>2, <1>2, <1>3, <1>4
  <2>3. CASE Parent(j) # i
    BY <2>1, <2>3, <1>1, <1>2, <1>3, <1>4
  <2> QED BY <2>2, <2>3
<1>5. ASSUME q > 1
      PROVE  /\ Parent(q) \in 1 .. N /\ Parent(q) # i /\ Parent(q) # q
             /\ M(Parent(q)) = K(Parent(q))
             /\ K(Parent(q)) <= K(q)
  <2>1. q \in 2 .. N
    BY <1>2, <1>5
  <2>2. Parent(q) \in 1 .. N /\ Parent(q) < q
    BY <1>1, <2>1
  <2> QED BY <1>2, <1>3, <2>1, <2>2
<1>6. ASSUME NEW j \in 2 .. N, Parent(j) = q, j # i
      PROVE  M(j) = K(j) /\ K(q) <= K(j)
  <2>1. j # q /\ Parent(j) # i
    BY <1>1, <1>2, <1>6
  <2> QED BY <2>1, <1>2, <1>3, <1>6
<1>7. M(i) = K(q) /\ M(q) = K(i)
  BY <1>2
<1>8. ASSUME NEW j \in 2 .. N, Parent(j) = q
      PROVE  /\ q > 1 => M(Parent(q)) <= M(j)
             /\ M(q) <= M(j)
  <2>0. K(j) \in Int /\ K(q) \in Int /\ K(i) \in Int /\ K(i) < K(q)
    BY <1>2
  <2>1. CASE j = i
    BY <2>0, <2>1, <1>5, <1>7
  <2>2. CASE j # i
    <3>1. M(j) = K(j) /\ K(q) <= K(j)
      BY <1>6, <1>8, <2>2
    <3>2. q > 1 => M(Parent(q)) = K(Parent(q)) /\ K(Parent(q)) <= K(q) /\ K(Parent(q)) \in Int
      BY <1>2, <1>5
    <3> QED BY <2>0, <3>1, <3>2, <1>7
  <2> QED BY <2>1, <2>2
<1> USE DEF K, M
<1> QED BY <1>0, <1>2, <1>4, <1>8 DEF Nearly, AboveChildren, InOrder

\* The root of an ordered heap has no entry smaller than it.
LEMMA RootIsLeast ==
    ASSUME NEW B, NEW heap \in Seq(B), NEW key, \A b \in B : key[b] \in Int,
           Ordered(heap, key)
    PROVE  \A j \in 1 .. Len(heap) : key[heap[1]] <= key[heap[j]]
<1>0. Len(heap) \in Nat /\ \A j \in 1 .. Len(heap) : key[heap[j]] \in Int
  BY LenProperties, ElementOfSeq
<1> DEFINE T == {j \in 1 .. Len(heap) : key[heap[j]] < key[heap[1]]}
<1> SUFFICES ASSUME T # {} PROVE FALSE
  BY <1>0
<1>1. T \subseteq Nat
  OBVIOUS
<1> HIDE DEF T
<1>2. PICK m \in T : \A k \in T : m <= k
  BY <1>1, Least
<1>3. m \in 1 .. Len(heap) /\ key[heap[m]] < key[heap[1]]
  BY DEF T
<1>4. m \in 2 .. Len(heap)
  BY <1>0, <1>3
<1>5. Parent(m) \in 1 .. Len(heap) /\ Parent(m) < m
  BY <1>0, <1>4, Family
<1>6. key[heap[Parent(m)]] <= key[heap[m]]
  BY <1>4 DEF Ordered, InOrder
<1>7. Parent(m) \in T
  BY <1>0, <1>3, <1>5, <1>6 DEF T
<1> QED BY <1>1, <1>2, <1>5, <1>7

(***************************************************************************)
(* The loops.  PercolateDown puts everything in order behind it, and       *)
(* stops at its entry's place if that was in order below; PercolateUp puts *)
(* the heap in order.                                                      *)
(***************************************************************************)
PercolateOK(h, B, i, p) ==
    /\ p \in [heap : Seq(B), map : [B -> 1 .. Len(h.heap)], index : 1 .. Len(h.heap)]
    /\ Len(p.heap) = Len(h.heap)
    /\ Placed(p, B)
    /\ p.heap[p.index] = h.heap[i]

LEMMA LoopStarts ==
    ASSUME NEW B, NEW h, Placed(h, B), NEW i \in 1 .. Len(h.heap)
    PROVE  PercolateOK(h, B, i, LoopAt(h, i))
BY DEF PercolateOK, LoopAt, Placed

LEMMA LoopSwaps ==
    ASSUME NEW B, NEW h, Len(h.heap) \in Nat, NEW i, NEW p, PercolateOK(h, B, i, p),
           NEW c, c \in 1 .. Len(h.heap),
           NEW q, q = LoopAt(SwapEntries(p, p.index, c), c)
    PROVE  PercolateOK(h, B, i, q) /\ Swapped(p.heap, p.index, c, q.heap) /\ q.index = c
<1>1. Placed(p, B) /\ p.index \in 1 .. Len(p.heap) /\ c \in 1 .. Len(p.heap)
  BY DEF PercolateOK
<1>2. PICK s : s = SwapEntries(p, p.index, c)
  OBVIOUS
<1>3. /\ Placed(s, B) /\ Len(s.heap) = Len(p.heap)
      /\ \A k \in 1 .. Len(p.heap) :
            s.heap[k] = IF k = p.index THEN p.heap[c]
                        ELSE IF k = c THEN p.heap[p.index] ELSE p.heap[k]
  BY <1>1, <1>2, SwapPlaced
<1>4. q.heap = s.heap /\ q.map = s.map /\ q.index = c
  BY <1>2 DEF LoopAt
<1>5. Placed(q, B)
  BY <1>3, <1>4 DEF Placed
<1>6. q.heap[c] = p.heap[p.index]
  BY <1>1, <1>3, <1>4
<1>7. q \in [heap : Seq(B), map : [B -> 1 .. Len(h.heap)], index : 1 .. Len(h.heap)]
  BY <1>2, <1>3 DEF LoopAt, PercolateOK, Placed
<1> QED BY <1>3, <1>4, <1>5, <1>6, <1>7 DEF PercolateOK, Swapped

\* Where the loop of PercolateDown from i is after some iterations.
SinkState(h, B, key, i, p) ==
    /\ PercolateOK(h, B, i, p)
    /\ Nearly(p.heap, key, p.index)
    /\ p = LoopAt(h, i) \/ (i < p.index /\ InOrder(p.heap, key, p.index))

LEMMA SinkKeeps ==
    ASSUME NEW B, NEW h, Len(h.heap) \in Nat, NEW i \in 1 .. Len(h.heap),
           NEW key, \A b \in B : key[b] \in Int,
           NEW p, SinkState(h, B, key, i, p)
    PROVE  /\ SinkState(h, B, key, i, SinkOnce(p, key))
           /\ Sinks(p.heap, key, p.index) => SinkOnce(p, key).index > p.index
           /\ ~ Sinks(p.heap, key, p.index) => SinkOnce(p, key) = p
<1>1. CASE ~ Sinks(p.heap, key, p.index)
  BY <1>1 DEF SinkOnce
<1>2. CASE Sinks(p.heap, key, p.index)
  <2>1. PICK c : c = SmallerChild(p.heap, key, p.index)
    OBVIOUS
  <2>2. PICK q : q = LoopAt(SwapEntries(p, p.index, c), c)
    OBVIOUS
  <2>3. SinkOnce(p, key) = q
    BY <1>2, <2>1, <2>2 DEF SinkOnce
  <2>4. /\ p.heap \in Seq(B) /\ p.index \in 1 .. Len(p.heap) /\ Len(p.heap) = Len(h.heap)
        /\ Nearly(p.heap, key, p.index) /\ PercolateOK(h, B, i, p)
    BY DEF SinkState, PercolateOK
  <2>5. /\ c \in 2 .. Len(p.heap) /\ Parent(c) = p.index /\ p.index < c
        /\ key[p.heap[c]] < key[p.heap[p.index]]
        /\ \A j \in 2 .. Len(p.heap) : Parent(j) = p.index => key[p.heap[c]] <= key[p.heap[j]]
    BY <1>2, <2>1, <2>4, SinksTo
  <2>6. c \in 1 .. Len(h.heap)
    BY <2>4, <2>5
  <2>7. PercolateOK(h, B, i, q) /\ Swapped(p.heap, p.index, c, q.heap) /\ q.index = c
    <3>1. PercolateOK(h, B, i, p)
      BY <2>4
    <3>2. PercolateOK(h, B, i, q)
      BY <2>2, <2>6, <3>1, LoopSwaps, Zenon
    <3>3. Swapped(p.heap, p.index, c, q.heap)
      BY <2>2, <2>6, <3>1, LoopSwaps, Zenon
    <3>4. q.index = c
      BY <2>2 DEF LoopAt
    <3> QED BY <3>2, <3>3, <3>4
  <2>8. Nearly(q.heap, key, c) /\ InOrder(q.heap, key, c)
    <3>1. PICK heap, heap2, k : heap = p.heap /\ heap2 = q.heap /\ k = p.index
      OBVIOUS
    <3>2. Nearly(heap2, key, c) /\ InOrder(heap2, key, c)
      BY <2>4, <2>5, <2>7, <3>1, SinkOrder
    <3> QED BY <3>1, <3>2
  <2>9. i <= p.index
    <3>1. p = LoopAt(h, i) \/ i < p.index
      BY DEF SinkState
    <3>2. LoopAt(h, i).index = i
      BY DEF LoopAt
    <3> QED BY <3>1, <3>2, <2>4
  <2>10. i < c
    BY <2>4, <2>5, <2>9
  <2>11. SinkState(h, B, key, i, q)
    BY <2>7, <2>8, <2>10 DEF SinkState
  <2> QED BY <1>2, <2>3, <2>5, <2>7, <2>11
<1> QED BY <1>1, <1>2

LEMMA PercolateDownOrders ==
    ASSUME NEW B, NEW h, Placed(h, B), NEW i \in 1 .. Len(h.heap),
           NEW key, \A b \in B : key[b] \in Int,
           Nearly(h.heap, key, i),
           NEW p, p = PercolateDown(h, key, i)
    PROVE  /\ PercolateOK(h, B, i, p)
           /\ Nearly(p.heap, key, p.index)
           /\ AboveChildren(p.heap, key, p.index)
           /\ p = LoopAt(h, i) \/ (p.index # i /\ Ordered(p.heap, key))
<1>0. PICK N \in Nat : N = Len(h.heap)
  BY LenProperties DEF Placed
<1> DEFINE S == {q \in [heap : Seq(B), map : [B -> 1 .. N], index : 1 .. N] :
                    SinkState(h, B, key, i, q)}
<1>1. \A q : q \in S <=> SinkState(h, B, key, i, q)
  BY <1>0 DEF SinkState, PercolateOK
<1>2. LoopAt(h, i) \in S
  <2>1. LoopAt(h, i).heap = h.heap /\ LoopAt(h, i).index = i
    BY DEF LoopAt
  <2>2. SinkState(h, B, key, i, LoopAt(h, i))
    BY <2>1, LoopStarts DEF SinkState
  <2> QED BY <2>2, <1>1
<1> HIDE DEF S
<1>3. PICK g : g = [q \in S |-> SinkOnce(q, key)]
  OBVIOUS
<1>4. g \in [S -> S]
  BY <1>0, <1>1, <1>3, SinkKeeps
<1>5. PICK e : Iterates(S, LoopAt(h, i), g, N, e)
  BY <1>2, <1>4, IteratesExist
<1>6. e = [n \in 0 .. N |-> IF n = 0 THEN LoopAt(h, i) ELSE SinkOnce(e[n - 1], key)]
  <2>1. \A n \in 1 .. N : e[n] = SinkOnce(e[n - 1], key)
    <3> TAKE n \in 1 .. N
    <3>1. n - 1 \in 0 .. N
      BY <1>0
    <3> QED BY <3>1, <1>3, <1>5 DEF Iterates
  <2> QED BY <2>1, <1>5 DEF Iterates
<1>7. PICK f : f = CHOOSE d : d = [n \in 0 .. N |-> IF n = 0 THEN LoopAt(h, i)
                                                   ELSE SinkOnce(d[n - 1], key)]
  OBVIOUS
<1>8. f = [n \in 0 .. N |-> IF n = 0 THEN LoopAt(h, i) ELSE SinkOnce(f[n - 1], key)]
  BY <1>6, <1>7
<1>9. p = f[N]
  BY <1>0, <1>7 DEF PercolateDown
<1>10. SinkState(h, B, key, i, f[N]) /\ ~ Sinks(f[N].heap, key, f[N].index)
  <2> HIDE <1>7
  <2> DEFINE T == {n \in 0 .. N : /\ SinkState(h, B, key, i, f[n])
                                  /\ Sinks(f[n].heap, key, f[n].index) => f[n].index > n}
  <2>1. \A n \in 0 .. N : f[n] = IF n = 0 THEN LoopAt(h, i) ELSE SinkOnce(f[n - 1], key)
    BY <1>8
  <2>2. 0 \in T
    <3>1. f[0] = LoopAt(h, i)
      BY <2>1
    <3>2. LoopAt(h, i).index = i
      BY DEF LoopAt
    <3>3. SinkState(h, B, key, i, f[0]) /\ f[0].index > 0
      BY <1>0, <1>1, <1>2, <3>1, <3>2
    <3> QED BY <3>3
  <2>3. ASSUME NEW n \in 0 .. N - 1, n \in T PROVE n + 1 \in T
    <3>1. n + 1 \in 0 .. N /\ n + 1 # 0 /\ n + 1 - 1 = n /\ n \in Nat
      BY <1>0
    <3>2. f[n + 1] = SinkOnce(f[n], key)
      BY <2>1, <3>1
    <3>3. PICK q, r : q = f[n] /\ r = f[n + 1]
      OBVIOUS
    <3>4. SinkState(h, B, key, i, q) /\ (Sinks(q.heap, key, q.index) => q.index > n)
      BY <2>3, <3>3
    <3>5. /\ SinkState(h, B, key, i, r)
          /\ Sinks(q.heap, key, q.index) => r.index > q.index
          /\ ~ Sinks(q.heap, key, q.index) => r = q
      <4>1. Len(h.heap) \in Nat
        BY <1>0
      <4>2. /\ SinkState(h, B, key, i, SinkOnce(q, key))
            /\ Sinks(q.heap, key, q.index) => SinkOnce(q, key).index > q.index
            /\ ~ Sinks(q.heap, key, q.index) => SinkOnce(q, key) = q
        BY <3>4, <4>1, SinkKeeps
      <4> QED BY <3>2, <3>3, <4>2, Zenon
    <3>6. q.index \in Nat /\ r.index \in Nat
      <4>1. q.index \in 1 .. Len(h.heap) /\ r.index \in 1 .. Len(h.heap)
        BY <3>4, <3>5 DEF SinkState, PercolateOK
      <4> QED BY <4>1
    <3>7. Sinks(r.heap, key, r.index) => r.index > n + 1
      BY <3>1, <3>4, <3>5, <3>6
    <3> QED BY <3>1, <3>3, <3>5, <3>7
  <2>4. N \in T
    <3> HIDE DEF T
    <3>1. 0 .. N \subseteq T
      BY <2>2, <2>3, Upwards
    <3> QED BY <3>1, <1>0
  <2>5. f[N].index \in 1 .. N
    BY <1>0, <2>4 DEF SinkState, PercolateOK
  <2> QED BY <2>4, <2>5, <1>0
<1>11. /\ PercolateOK(h, B, i, p) /\ Nearly(p.heap, key, p.index)
       /\ p = LoopAt(h, i) \/ (i < p.index /\ InOrder(p.heap, key, p.index))
       /\ ~ Sinks(p.heap, key, p.index)
  BY <1>9, <1>10 DEF SinkState
<1>12. p.heap \in Seq(B) /\ p.index \in 1 .. Len(p.heap) /\ i \in Nat /\ p.index \in Nat
  BY <1>0, <1>11 DEF PercolateOK
<1>13. AboveChildren(p.heap, key, p.index)
  <2>1. PICK heap, k : heap = p.heap /\ k = p.index
    OBVIOUS
  <2>2. AboveChildren(heap, key, k)
    BY <1>11, <1>12, <2>1, SinksNot
  <2> QED BY <2>1, <2>2
<1>14. p = LoopAt(h, i) \/ (p.index # i /\ Ordered(p.heap, key))
  <2>1. CASE i < p.index /\ InOrder(p.heap, key, p.index)
    BY <2>1, <1>11, <1>12, <1>13, OrderedWhenBoth
  <2> QED BY <2>1, <1>11
<1> QED BY <1>11, <1>13, <1>14

\* Where the loop of PercolateUp from i is.
RiseState(h, B, key, i, p) ==
    PercolateOK(h, B, i, p) /\ Nearly(p.heap, key, p.index) /\ AboveChildren(p.heap, key, p.index)

LEMMA RiseKeeps ==
    ASSUME NEW B, NEW h, Len(h.heap) \in Nat, NEW i \in 1 .. Len(h.heap),
           NEW key, \A b \in B : key[b] \in Int,
           NEW p, RiseState(h, B, key, i, p)
    PROVE  /\ RiseState(h, B, key, i, RiseOnce(p, key))
           /\ Rises(p.heap, key, p.index) => RiseOnce(p, key).index < p.index
           /\ ~ Rises(p.heap, key, p.index) => RiseOnce(p, key) = p
<1>1. CASE ~ Rises(p.heap, key, p.index)
  BY <1>1 DEF RiseOnce
<1>2. CASE Rises(p.heap, key, p.index)
  <2>1. PICK c : c = Parent(p.index)
    OBVIOUS
  <2>2. PICK q : q = LoopAt(SwapEntries(p, p.index, c), c)
    OBVIOUS
  <2>3. RiseOnce(p, key) = q
    BY <1>2, <2>1, <2>2 DEF RiseOnce
  <2>4. /\ p.heap \in Seq(B) /\ p.index \in 1 .. Len(p.heap) /\ Len(p.heap) = Len(h.heap)
        /\ Nearly(p.heap, key, p.index) /\ AboveChildren(p.heap, key, p.index)
        /\ PercolateOK(h, B, i, p)
    BY DEF RiseState, PercolateOK
  <2>5. p.index \in 2 .. Len(p.heap) /\ key[p.heap[p.index]] < key[p.heap[c]]
    BY <1>2, <2>1, <2>4 DEF Rises
  <2>6. c \in 1 .. Len(h.heap) /\ c < p.index
    BY <2>1, <2>4, <2>5, Family
  <2>7. PercolateOK(h, B, i, q) /\ Swapped(p.heap, p.index, c, q.heap) /\ q.index = c
    <3>1. PercolateOK(h, B, i, p) /\ c \in 1 .. Len(h.heap)
      BY <2>4, <2>6
    <3>2. PercolateOK(h, B, i, q)
      BY <2>2, <3>1, LoopSwaps, Zenon
    <3>3. Swapped(p.heap, p.index, c, q.heap)
      BY <2>2, <3>1, LoopSwaps, Zenon
    <3>4. q.index = c
      BY <2>2 DEF LoopAt
    <3> QED BY <3>2, <3>3, <3>4
  <2>8. Nearly(q.heap, key, c) /\ AboveChildren(q.heap, key, c)
    <3>1. PICK heap, heap2, k : heap = p.heap /\ heap2 = q.heap /\ k = p.index
      OBVIOUS
    <3>2. Nearly(heap2, key, c) /\ AboveChildren(heap2, key, c)
      BY <2>1, <2>4, <2>5, <2>7, <3>1, RiseOrder
    <3> QED BY <3>1, <3>2
  <2>9. RiseState(h, B, key, i, q)
    BY <2>7, <2>8 DEF RiseState
  <2> QED BY <1>2, <2>3, <2>6, <2>7, <2>9
<1> QED BY <1>1, <1>2

LEMMA PercolateUpOrders ==
    ASSUME NEW B, NEW h, Placed(h, B), NEW i \in 1 .. Len(h.heap),
           NEW key, \A b \in B : key[b] \in Int,
           Nearly(h.heap, key, i), AboveChildren(h.heap, key, i),
           NEW p, p = PercolateUp(h, key, i)
    PROVE  PercolateOK(h, B, i, p) /\ Ordered(p.heap, key)
<1>0. PICK N \in Nat : N = Len(h.heap)
  BY LenProperties DEF Placed
<1> DEFINE S == {q \in [heap : Seq(B), map : [B -> 1 .. N], index : 1 .. N] :
                    RiseState(h, B, key, i, q)}
<1>1. \A q : q \in S <=> RiseState(h, B, key, i, q)
  BY <1>0 DEF RiseState, PercolateOK
<1>2. LoopAt(h, i) \in S
  <2>1. LoopAt(h, i).heap = h.heap /\ LoopAt(h, i).index = i
    BY DEF LoopAt
  <2>2. RiseState(h, B, key, i, LoopAt(h, i))
    BY <2>1, LoopStarts DEF RiseState
  <2> QED BY <2>2, <1>1
<1> HIDE DEF S
<1>3. PICK g : g = [q \in S |-> RiseOnce(q, key)]
  OBVIOUS
<1>4. g \in [S -> S]
  BY <1>0, <1>1, <1>3, RiseKeeps
<1>5. PICK e : Iterates(S, LoopAt(h, i), g, N, e)
  BY <1>2, <1>4, IteratesExist
<1>6. e = [n \in 0 .. N |-> IF n = 0 THEN LoopAt(h, i) ELSE RiseOnce(e[n - 1], key)]
  <2>1. \A n \in 1 .. N : e[n] = RiseOnce(e[n - 1], key)
    <3> TAKE n \in 1 .. N
    <3>1. n - 1 \in 0 .. N
      BY <1>0
    <3> QED BY <3>1, <1>3, <1>5 DEF Iterates
  <2> QED BY <2>1, <1>5 DEF Iterates
<1>7. PICK f : f = CHOOSE d : d = [n \in 0 .. N |-> IF n = 0 THEN LoopAt(h, i)
                                                   ELSE RiseOnce(d[n - 1], key)]
  OBVIOUS
<1>8. f = [n \in 0 .. N |-> IF n = 0 THEN LoopAt(h, i) ELSE RiseOnce(f[n - 1], key)]
  BY <1>6, <1>7
<1>9. p = f[N]
  BY <1>0, <1>7 DEF PercolateUp
<1>10. RiseState(h, B, key, i, f[N]) /\ ~ Rises(f[N].heap, key, f[N].index)
  <2> HIDE <1>7
  <2> DEFINE T == {n \in 0 .. N : /\ RiseState(h, B, key, i, f[n])
                                  /\ Rises(f[n].heap, key, f[n].index) => f[n].index <= N - n}
  <2>1. \A n \in 0 .. N : f[n] = IF n = 0 THEN LoopAt(h, i) ELSE RiseOnce(f[n - 1], key)
    BY <1>8
  <2>2. 0 \in T
    <3>1. f[0] = LoopAt(h, i)
      BY <2>1
    <3>2. LoopAt(h, i).index = i
      BY DEF LoopAt
    <3>3. RiseState(h, B, key, i, f[0]) /\ f[0].index <= N - 0
      BY <1>0, <1>1, <1>2, <3>1, <3>2
    <3> QED BY <3>3
  <2>3. ASSUME NEW n \in 0 .. N - 1, n \in T PROVE n + 1 \in T
    <3>1. n + 1 \in 0 .. N /\ n + 1 # 0 /\ n + 1 - 1 = n /\ n \in Nat
      BY <1>0
    <3>2. f[n + 1] = RiseOnce(f[n], key)
      BY <2>1, <3>1
    <3>3. PICK q, r : q = f[n] /\ r = f[n + 1]
      OBVIOUS
    <3>4. RiseState(h, B, key, i, q) /\ (Rises(q.heap, key, q.index) => q.index <= N - n)
      BY <2>3, <3>3
    <3>5. /\ RiseState(h, B, key, i, r)
          /\ Rises(q.heap, key, q.index) => r.index < q.index
          /\ ~ Rises(q.heap, key, q.index) => r = q
      <4>1. Len(h.heap) \in Nat
        BY <1>0
      <4>2. /\ RiseState(h, B, key, i, RiseOnce(q, key))
            /\ Rises(q.heap, key, q.index) => RiseOnce(q, key).index < q.index
            /\ ~ Rises(q.heap, key, q.index) => RiseOnce(q, key) = q
        BY <3>4, <4>1, RiseKeeps
      <4> QED BY <3>2, <3>3, <4>2, Zenon
    <3>6. q.index \in Nat /\ r.index \in Nat
      <4>1. q.index \in 1 .. Len(h.heap) /\ r.index \in 1 .. Len(h.heap)
        BY <3>4, <3>5 DEF RiseState, PercolateOK
      <4> QED BY <4>1
    <3>7. Rises(r.heap, key, r.index) => r.index <= N - (n + 1)
      BY <3>1, <3>4, <3>5, <3>6
    <3> QED BY <3>1, <3>3, <3>5, <3>7
  <2>4. N \in T
    <3> HIDE DEF T
    <3>1. 0 .. N \subseteq T
      BY <2>2, <2>3, Upwards
    <3> QED BY <3>1, <1>0
  <2>5. f[N].index \in 1 .. N
    BY <1>0, <2>4 DEF RiseState, PercolateOK
  <2> QED BY <2>4, <2>5, <1>0
<1>11. /\ PercolateOK(h, B, i, p) /\ Nearly(p.heap, key, p.index)
       /\ AboveChildren(p.heap, key, p.index) /\ ~ Rises(p.heap, key, p.index)
  BY <1>9, <1>10 DEF RiseState
<1>12. p.heap \in Seq(B) /\ p.index \in 1 .. Len(p.heap) /\ p.index \in Nat
  BY <1>0, <1>11 DEF PercolateOK
<1>13. p.index > 1 => InOrder(p.heap, key, p.index)
  <2> SUFFICES ASSUME p.index > 1 PROVE InOrder(p.heap, key, p.index)
    OBVIOUS
  <2>1. Parent(p.index) \in 1 .. Len(p.heap)
    BY <1>12, Family
  <2>2. key[p.heap[Parent(p.index)]] \in Int /\ key[p.heap[p.index]] \in Int
    BY <1>12, <2>1, ElementOfSeq
  <2> QED BY <1>11, <2>2 DEF Rises, InOrder
<1>14. Ordered(p.heap, key)
  BY <1>11, <1>12, <1>13, OrderedWhenBoth
<1> QED BY <1>11, <1>14

\* The map entry written after a loop is the one that is there.
LEMMA SettleNothing ==
    ASSUME NEW B, NEW h, Placed(h, B), NEW i \in 1 .. Len(h.heap),
           NEW p, PercolateOK(h, B, i, p), NEW b, b = h.heap[i], NEW s, s = Settle(p, b)
    PROVE  /\ s = [heap |-> p.heap, map |-> p.map]
           /\ s.heap = p.heap
           /\ Placed(s, B)
           /\ Len(s.heap) = Len(h.heap)
<1>1. p.heap[p.index] = b /\ p.index \in 1 .. Len(p.heap) /\ p.map \in [B -> 1 .. Len(h.heap)]
  BY DEF PercolateOK
<1>2. b \in B /\ p.map[b] = p.index
  <2>1. Placed(p, B)
    BY DEF PercolateOK
  <2>2. b \in B
    BY PlacedAgrees
  <2>3. p.map[p.heap[p.index]] = p.index
    BY <1>1, <2>1 DEF Placed
  <2> QED BY <1>1, <2>2, <2>3
<1>3. Add(p.map, b, p.index) = p.map
  BY <1>1, <1>2 DEF Add
<1>4. s = [heap |-> p.heap, map |-> p.map]
  BY <1>3 DEF Settle
<1>5. s.heap = p.heap /\ s.map = p.map
  BY <1>4
<1>6. Placed(s, B)
  BY <1>5 DEF PercolateOK, Placed
<1>7. Len(s.heap) = Len(h.heap)
  BY <1>5 DEF PercolateOK
<1> QED BY <1>4, <1>5, <1>6, <1>7

(***************************************************************************)
(* The operations on an ordered heap.                                      *)
(***************************************************************************)
Sound(h, B, key) == Placed(h, B) /\ Ordered(h.heap, key)

\* A block whose key changed is the only one that may be out of order.
LEMMA RekeyNearly ==
    ASSUME NEW B, NEW h, NEW key, Sound(h, B, key), NEW b \in B,
           NEW key2, \A x \in B \ {b} : key2[x] = key[x],
           \A x \in B : key[x] \in Int
    PROVE  h.map[b] \in 1 .. Len(h.heap) /\ Nearly(h.heap, key2, h.map[b])
<1>1. PICK heap, n, i : heap = h.heap /\ n = Len(heap) /\ i = h.map[b]
  OBVIOUS
<1>2. /\ n \in Nat /\ heap \in [1 .. n -> B] /\ i \in 1 .. n /\ heap[i] = b
      /\ \A j \in 1 .. n : heap[j] = b => j = i
  BY <1>1, LenProperties DEF Sound, Placed
<1>3. \A j \in 2 .. n : /\ key[heap[Parent(j)]] <= key[heap[j]]
                        /\ Parent(j) \in 1 .. n /\ Parent(j) < j
  BY <1>1, <1>2, Family DEF Sound, Ordered, InOrder
<1>4. \A j \in 1 .. n : j # i => key2[heap[j]] = key[heap[j]]
  BY <1>2
<1>5. ASSUME NEW j \in 2 .. n, j # i, Parent(j) # i
      PROVE  key2[heap[Parent(j)]] <= key2[heap[j]]
  BY <1>3, <1>4, <1>5
<1>6. ASSUME NEW j \in 2 .. n, Parent(j) = i, i > 1
      PROVE  key2[heap[Parent(i)]] <= key2[heap[j]]
  <2>1. i \in 2 .. n /\ j # i /\ Parent(i) # i /\ Parent(i) \in 1 .. n
    BY <1>2, <1>3, <1>6
  <2>2. key[heap[Parent(i)]] <= key[heap[i]] /\ key[heap[i]] <= key[heap[j]]
    BY <2>1, <1>3, <1>6
  <2>3. key[heap[Parent(i)]] \in Int /\ key[heap[i]] \in Int /\ key[heap[j]] \in Int
    BY <2>1, <1>2
  <2>4. key2[heap[Parent(i)]] = key[heap[Parent(i)]] /\ key2[heap[j]] = key[heap[j]]
    BY <2>1, <1>4
  <2> QED BY <2>2, <2>3, <2>4
<1> QED BY <1>1, <1>2, <1>5, <1>6 DEF Nearly, InOrder

\* A use, which only makes the key bigger: the block sinks.
LEMMA SinkSound ==
    ASSUME NEW B, NEW h, NEW key, Sound(h, B, key), NEW b \in B,
           NEW key2, \A x \in B \ {b} : key2[x] = key[x],
           \A x \in B : key[x] \in Int /\ key2[x] \in Int,
           key[b] <= key2[b],
           NEW s, s = Settle(PercolateDown(h, key2, h.map[b]), b)
    PROVE  Sound(s, B, key2) /\ Len(s.heap) = Len(h.heap)
<1>1. PICK i : i = h.map[b]
  OBVIOUS
<1>2. i \in 1 .. Len(h.heap) /\ Nearly(h.heap, key2, i) /\ Placed(h, B) /\ b = h.heap[i]
      /\ Len(h.heap) \in Nat
  <2>1. i \in 1 .. Len(h.heap) /\ Nearly(h.heap, key2, i)
    BY <1>1, RekeyNearly
  <2> QED BY <1>1, <2>1, LenProperties DEF Sound, Placed
<1>3. PICK p : p = PercolateDown(h, key2, i)
  OBVIOUS
<1>4. /\ PercolateOK(h, B, i, p) /\ Nearly(p.heap, key2, p.index)
      /\ AboveChildren(p.heap, key2, p.index)
      /\ p = LoopAt(h, i) \/ (p.index # i /\ Ordered(p.heap, key2))
  BY <1>2, <1>3, PercolateDownOrders
<1>5. Ordered(p.heap, key2)
  <2>1. CASE p = LoopAt(h, i)
    <3>1. p.heap = h.heap /\ p.index = i
      BY <2>1 DEF LoopAt
    <3>2. i > 1 => InOrder(h.heap, key2, i)
      <4> SUFFICES ASSUME i > 1 PROVE InOrder(h.heap, key2, i)
        OBVIOUS
      <4>1. i \in 2 .. Len(h.heap) /\ Parent(i) \in 1 .. Len(h.heap) /\ Parent(i) # i
        BY <1>2, Family
      <4>2. key[h.heap[Parent(i)]] <= key[h.heap[i]]
        BY <4>1 DEF Sound, Ordered, InOrder
      <4>3. h.heap[Parent(i)] \in B \ {b}
        BY <4>1, <1>2, PlacedAgrees DEF NoRepeat
      <4>4. key2[h.heap[Parent(i)]] = key[h.heap[Parent(i)]] /\ h.heap[Parent(i)] \in B
        BY <4>3
      <4>5. key[h.heap[Parent(i)]] \in Int /\ key[b] \in Int /\ key2[b] \in Int
        BY <4>4
      <4> QED BY <4>2, <4>4, <4>5, <1>2 DEF InOrder
    <3> QED BY <1>2, <1>4, <3>1, <3>2, OrderedWhenBoth
  <2> QED BY <2>1, <1>4
<1>6. s.heap = p.heap /\ Placed(s, B) /\ Len(s.heap) = Len(h.heap)
  <2>1. s = Settle(p, b)
    BY <1>1, <1>3
  <2>2. PercolateOK(h, B, i, p) /\ Placed(h, B) /\ b = h.heap[i] /\ i \in 1 .. Len(h.heap)
    BY <1>2, <1>4
  <2> QED BY <2>1, <2>2, SettleNothing
<1> QED BY <1>5, <1>6 DEF Sound

\* A use that comes nearer or goes further: the block sinks, then rises.
LEMMA RepositionSound ==
    ASSUME NEW B, NEW h, NEW key, Sound(h, B, key), NEW b \in B,
           NEW key2, \A x \in B \ {b} : key2[x] = key[x],
           \A x \in B : key[x] \in Int /\ key2[x] \in Int,
           NEW d, d = PercolateDown(h, key2, h.map[b]),
           NEW s, s = Settle(PercolateUp([heap |-> d.heap, map |-> d.map], key2, d.index), b)
    PROVE  Sound(s, B, key2) /\ Len(s.heap) = Len(h.heap)
<1>1. PICK i : i = h.map[b]
  OBVIOUS
<1>2. i \in 1 .. Len(h.heap) /\ Nearly(h.heap, key2, i) /\ Placed(h, B) /\ b = h.heap[i]
  BY <1>1, RekeyNearly DEF Sound, Placed
<1>3. /\ PercolateOK(h, B, i, d) /\ Nearly(d.heap, key2, d.index)
      /\ AboveChildren(d.heap, key2, d.index)
  BY <1>1, <1>2, PercolateDownOrders
<1>4. PICK g : g = [heap |-> d.heap, map |-> d.map]
  OBVIOUS
<1>5. PICK j : j = d.index
  OBVIOUS
<1>6. /\ Placed(g, B) /\ j \in 1 .. Len(g.heap) /\ g.heap[j] = b /\ Len(g.heap) = Len(h.heap)
      /\ Nearly(g.heap, key2, j) /\ AboveChildren(g.heap, key2, j)
  BY <1>2, <1>3, <1>4, <1>5 DEF PercolateOK, Placed
<1>7. PICK p : p = PercolateUp(g, key2, j)
  OBVIOUS
<1>8. PercolateOK(g, B, j, p) /\ Ordered(p.heap, key2)
  BY <1>6, <1>7, PercolateUpOrders
<1>9. s = Settle(p, b)
  BY <1>4, <1>5, <1>7
<1>10. s.heap = p.heap /\ Placed(s, B) /\ Len(s.heap) = Len(g.heap)
  BY <1>6, <1>8, <1>9, SettleNothing
<1> QED BY <1>6, <1>8, <1>10 DEF Sound

\* A new block.
LEMMA PushSound ==
    ASSUME NEW B, NEW h, NEW key, Placed(h, B), NEW b, b \notin B,
           \A x \in B \cup {b} : key[x] \in Int,
           Ordered(h.heap, key),
           NEW s, s = PushBlock(h, key, b)
    PROVE  Sound(s, B \cup {b}, key) /\ Len(s.heap) = Len(h.heap) + 1
<1>1. PICK heap, map, N, C : heap = h.heap /\ map = h.map /\ N = Len(heap) /\ C = B \cup {b}
  OBVIOUS
<1>2. /\ N \in Nat /\ heap \in Seq(B) /\ heap \in [1 .. N -> B] /\ map \in [B -> 1 .. N]
      /\ \A i \in 1 .. N : map[heap[i]] = i
      /\ \A x \in B : heap[map[x]] = x
  BY <1>1, LenProperties DEF Placed
<1>3. PICK g : g = [heap |-> Append(heap, b), map |-> Add(map, b, N + 1)]
  OBVIOUS
<1>4. g.heap = Append(heap, b) /\ g.map = Add(map, b, N + 1)
  BY <1>3
<1>5. /\ g.heap \in Seq(C) /\ Len(g.heap) = N + 1
      /\ \A i \in 1 .. N : g.heap[i] = heap[i]
      /\ g.heap[N + 1] = b
  <2>1. heap \in Seq(C) /\ b \in C /\ Len(heap) = N
    BY <1>1, <1>2
  <2>2. /\ Append(heap, b) \in Seq(C) /\ Len(Append(heap, b)) = N + 1
        /\ \A i \in 1 .. N : Append(heap, b)[i] = heap[i]
        /\ Append(heap, b)[N + 1] = b
    BY <2>1, AppendProperties
  <2> QED BY <2>2, <1>4
<1>6. /\ g.map \in [C -> 1 .. N + 1]
      /\ g.map[b] = N + 1
      /\ \A x \in B : g.map[x] = map[x]
  BY <1>1, <1>2, <1>4 DEF Add
<1>7. Placed(g, C)
  <2>1. ASSUME NEW i \in 1 .. N + 1 PROVE g.map[g.heap[i]] = i
    <3>1. CASE i = N + 1
      BY <3>1, <1>5, <1>6
    <3>2. CASE i # N + 1
      <4>1. i \in 1 .. N /\ heap[i] \in B
        BY <3>2, <1>2
      <4> QED BY <4>1, <1>2, <1>5, <1>6
    <3> QED BY <3>1, <3>2
  <2>2. ASSUME NEW x \in C PROVE g.heap[g.map[x]] = x
    <3>1. CASE x = b
      BY <3>1, <1>5, <1>6
    <3>2. CASE x # b
      <4>1. x \in B /\ map[x] \in 1 .. N
        BY <3>2, <1>1, <1>2
      <4> QED BY <4>1, <1>2, <1>5, <1>6
    <3> QED BY <3>1, <3>2
  <2> QED BY <2>1, <2>2, <1>5, <1>6 DEF Placed
<1>8. Nearly(g.heap, key, N + 1) /\ AboveChildren(g.heap, key, N + 1)
  <2>1. \A j \in 2 .. N + 1 : Parent(j) \in 1 .. N /\ Parent(j) # N + 1
    BY <1>2, Family
  <2>2. \A j \in 2 .. N : InOrder(heap, key, j)
    BY <1>1 DEF Ordered
  <2>3. ASSUME NEW j \in 2 .. N + 1, j # N + 1
        PROVE  InOrder(g.heap, key, j)
    <3>1. j \in 2 .. N /\ j \in 1 .. N
      BY <2>3, <1>2
    <3>2. g.heap[j] = heap[j] /\ g.heap[Parent(j)] = heap[Parent(j)]
      BY <2>1, <3>1, <1>5
    <3> QED BY <3>1, <3>2, <2>2 DEF InOrder
  <2> QED BY <2>1, <2>3, <1>5 DEF Nearly, AboveChildren
<1>9. PICK p : p = PercolateUp(g, key, N + 1)
  OBVIOUS
<1>10. PercolateOK(g, C, N + 1, p) /\ Ordered(p.heap, key) /\ N + 1 \in 1 .. Len(g.heap)
  <2>1. N + 1 \in 1 .. Len(g.heap) /\ \A x \in C : key[x] \in Int
    BY <1>1, <1>2, <1>5
  <2> QED BY <2>1, <1>7, <1>8, <1>9, PercolateUpOrders
<1>11. s = Settle(p, b)
  BY <1>1, <1>3, <1>9 DEF PushBlock
<1>12. s.heap = p.heap /\ Placed(s, C) /\ Len(s.heap) = Len(g.heap)
  BY <1>5, <1>7, <1>10, <1>11, SettleNothing
<1> QED BY <1>1, <1>5, <1>10, <1>12 DEF Sound

\* A block that goes: the last entry takes its place.
Taken(h, B, b, g) ==
    /\ Len(h.heap) \in Nat \ {0}
    /\ Placed(g, B \ {b})
    /\ Len(g.heap) = Len(h.heap) - 1
    /\ h.map[b] \in 1 .. Len(h.heap)
    /\ \A k \in 1 .. Len(h.heap) - 1 :
          g.heap[k] = IF k = h.map[b] THEN h.heap[Len(h.heap)] ELSE h.heap[k]
    /\ h.heap[Len(h.heap)] = b <=> h.map[b] = Len(h.heap)

LEMMA PoppedPlaced ==
    ASSUME NEW B, NEW h, Placed(h, B), NEW b \in B, NEW g, g = Popped(h, b)
    PROVE  Taken(h, B, b, g)
<1>1. PICK N, i : N = Len(h.heap) /\ i = h.map[b]
  OBVIOUS
<1>2. /\ N \in Nat \ {0} /\ i \in 1 .. N /\ h.heap[i] = b /\ N \in 1 .. N
      /\ \A j \in 1 .. N : h.heap[j] = b => j = i
  <2>1. /\ N \in Nat /\ i \in 1 .. N /\ h.heap[i] = b
        /\ \A j \in 1 .. N : h.map[h.heap[j]] = j
    BY <1>1, LenProperties DEF Placed
  <2> QED BY <1>1, <2>1
<1>3. PICK s : s = SwapEntries(h, i, N)
  OBVIOUS
<1>4. /\ Placed(s, B) /\ Len(s.heap) = N
      /\ \A k \in 1 .. N : s.heap[k] = IF k = i THEN h.heap[N]
                                       ELSE IF k = N THEN h.heap[i] ELSE h.heap[k]
  BY <1>1, <1>2, <1>3, SwapPlaced
<1>5. g = [heap |-> SubSeq(s.heap, 1, N - 1), map |-> Drop(s.map, b)]
  BY <1>1, <1>3 DEF Popped
<1>6. s.heap[N] = b
  BY <1>2, <1>4
<1>7. /\ s.heap \in Seq(B) /\ s.heap \in [1 .. N -> B] /\ s.map \in [B -> 1 .. N]
      /\ \A k \in 1 .. N : s.map[s.heap[k]] = k
      /\ \A x \in B : s.heap[s.map[x]] = x
  BY <1>2, <1>4, LenProperties DEF Placed
<1>8. PICK front : front = SubSeq(s.heap, 1, N - 1)
  OBVIOUS
<1>9. front \in Seq(B) /\ Len(front) = N - 1 /\ \A k \in 1 .. N - 1 : front[k] = s.heap[k]
  BY <1>2, <1>4, <1>7, <1>8, SubSeqProperties
<1>10. g.heap = front /\ g.map = [x \in B \ {b} |-> s.map[x]]
  <2>1. g.heap = SubSeq(s.heap, 1, N - 1) /\ g.map = Drop(s.map, b)
    BY <1>2, <1>5
  <2>2. DOMAIN s.map = B
    BY <1>7
  <2>3. g.heap = front
    BY <2>1, <1>8, Zenon
  <2> QED BY <2>1, <2>2, <2>3 DEF Drop
<1>11. \A k \in 1 .. N - 1 : s.heap[k] \in B \ {b}
  <2>1. TAKE k \in 1 .. N - 1
  <2>2. k \in 1 .. N /\ k # N
    BY <1>2
  <2>3. s.heap[k] \in B
    BY <1>7, <2>2
  <2>4. s.map[s.heap[k]] = k /\ s.map[s.heap[N]] = N
    BY <1>2, <1>7, <2>2
  <2> QED BY <1>6, <2>2, <2>3, <2>4
<1>12. front \in Seq(B \ {b})
  <2>1. front \in [1 .. N - 1 -> B \ {b}]
    BY <1>9, <1>11, LenProperties
  <2>2. N - 1 \in Nat
    BY <1>2
  <2> QED BY <2>1, <2>2, IsASeq
<1>13. \A x \in B \ {b} : s.map[x] \in 1 .. N - 1
  <2> TAKE x \in B \ {b}
  <2>1. s.map[x] \in 1 .. N /\ s.heap[s.map[x]] = x
    BY <1>7
  <2>2. s.map[x] # N
    BY <2>1, <1>6
  <2> QED BY <2>1, <2>2, <1>2
<1>14. Placed(g, B \ {b})
  <2>1. g.map \in [B \ {b} -> 1 .. Len(g.heap)]
    BY <1>9, <1>10, <1>13
  <2>2. \A k \in 1 .. Len(g.heap) : g.map[g.heap[k]] = k
    <3> TAKE k \in 1 .. Len(g.heap)
    <3>1. k \in 1 .. N - 1 /\ k \in 1 .. N
      BY <1>2, <1>9, <1>10
    <3>2. g.heap[k] = s.heap[k] /\ s.heap[k] \in B \ {b}
      BY <1>9, <1>10, <1>11, <3>1
    <3>3. g.map[s.heap[k]] = s.map[s.heap[k]]
      BY <1>10, <3>2
    <3> QED BY <1>7, <3>1, <3>2, <3>3
  <2>3. \A x \in B \ {b} : g.heap[g.map[x]] = x
    BY <1>7, <1>9, <1>10, <1>13
  <2> QED BY <2>1, <2>2, <2>3, <1>10, <1>12 DEF Placed
<1>15. \A k \in 1 .. N - 1 : g.heap[k] = IF k = i THEN h.heap[N] ELSE h.heap[k]
  BY <1>2, <1>4, <1>9, <1>10
<1>16. h.heap[N] = b <=> i = N
  BY <1>2
<1> QED BY <1>1, <1>2, <1>9, <1>10, <1>14, <1>15, <1>16 DEF Taken

LEMMA DeleteSound ==
    ASSUME NEW B, NEW h, NEW key, Sound(h, B, key), NEW b \in B,
           \A x \in B : key[x] \in Int,
           NEW s, s = DeleteBlock(h, key, b)
    PROVE  Sound(s, B \ {b}, key) /\ Len(s.heap) = Len(h.heap) - 1
<1>1. PICK N, i, g, moved : /\ N = Len(h.heap) /\ i = h.map[b] /\ g = Popped(h, b)
                            /\ moved = h.heap[N]
  OBVIOUS
<1>2. /\ Placed(h, B)
      /\ N \in Nat \ {0} /\ Placed(g, B \ {b}) /\ Len(g.heap) = N - 1 /\ i \in 1 .. N
      /\ \A k \in 1 .. N - 1 : g.heap[k] = IF k = i THEN moved ELSE h.heap[k]
      /\ moved = b <=> i = N
  <2>1. Placed(h, B)
    BY DEF Sound
  <2>2. g = Popped(h, b)
    BY <1>1
  <2>3. Taken(h, B, b, g)
    BY <2>1, <2>2, PoppedPlaced, Zenon
  <2> QED BY <1>1, <2>1, <2>3 DEF Taken
<1>3. \A j \in 2 .. N : /\ Parent(j) \in 1 .. N - 1 /\ Parent(j) < j
                        /\ key[h.heap[Parent(j)]] <= key[h.heap[j]]
  BY <1>1, <1>2, Family DEF Sound, Ordered, InOrder
<1>4. \A j \in 1 .. N : key[h.heap[j]] \in Int
  BY <1>1, <1>2, PlacedAgrees
<1>5. CASE moved = b
  <2>1. s = g
    BY <1>1, <1>5 DEF DeleteBlock
  <2>2. ASSUME NEW j \in 2 .. N - 1 PROVE InOrder(g.heap, key, j)
    <3>1. /\ j \in 2 .. N /\ j \in 1 .. N - 1 /\ j # i
          /\ Parent(j) \in 1 .. N - 1 /\ Parent(j) # i
      BY <1>2, <1>3, <1>5
    <3>2. g.heap[j] = h.heap[j] /\ g.heap[Parent(j)] = h.heap[Parent(j)]
      BY <1>2, <3>1
    <3> QED BY <1>3, <3>1, <3>2 DEF InOrder
  <2>3. Ordered(g.heap, key)
    BY <1>2, <2>2 DEF Ordered
  <2> QED BY <1>1, <1>2, <2>1, <2>3 DEF Sound
<1>6. CASE moved # b
  <2>1. i \in 1 .. N - 1 /\ i \in 1 .. Len(g.heap) /\ g.heap[i] = moved
    BY <1>2, <1>6
  <2>2. ASSUME NEW j \in 2 .. N - 1, j # i, Parent(j) # i
        PROVE  key[g.heap[Parent(j)]] <= key[g.heap[j]]
    <3>1. j \in 2 .. N /\ j \in 1 .. N - 1 /\ Parent(j) \in 1 .. N - 1
      BY <1>2, <1>3, <2>2
    <3>2. g.heap[j] = h.heap[j] /\ g.heap[Parent(j)] = h.heap[Parent(j)]
      BY <1>2, <2>2, <3>1
    <3> QED BY <1>3, <3>1, <3>2
  <2>3. ASSUME NEW j \in 2 .. N - 1, Parent(j) = i, i > 1
        PROVE  key[g.heap[Parent(i)]] <= key[g.heap[j]]
    <3>1. /\ i \in 2 .. N /\ j \in 2 .. N /\ j \in 1 .. N - 1 /\ j # i /\ Parent(i) # i
          /\ Parent(i) \in 1 .. N - 1 /\ Parent(i) \in 1 .. N /\ i \in 1 .. N /\ j \in 1 .. N
      BY <1>2, <1>3, <2>1, <2>3
    <3>2. g.heap[j] = h.heap[j] /\ g.heap[Parent(i)] = h.heap[Parent(i)]
      BY <1>2, <3>1
    <3>3. key[h.heap[Parent(i)]] <= key[h.heap[i]] /\ key[h.heap[i]] <= key[h.heap[j]]
      BY <1>3, <2>3, <3>1
    <3>4. key[h.heap[Parent(i)]] \in Int /\ key[h.heap[i]] \in Int /\ key[h.heap[j]] \in Int
      BY <1>4, <3>1
    <3> QED BY <3>2, <3>3, <3>4
  <2>4. Nearly(g.heap, key, i)
    BY <1>2, <2>2, <2>3 DEF Nearly, InOrder
  <2>5. PICK C, p : C = B \ {b} /\ p = PercolateDown(g, key, i)
    OBVIOUS
  <2>6. Placed(g, C) /\ \A x \in C : key[x] \in Int
    BY <1>2, <2>5
  <2>7. /\ PercolateOK(g, C, i, p) /\ Nearly(p.heap, key, p.index)
        /\ AboveChildren(p.heap, key, p.index)
        /\ p = LoopAt(g, i) \/ (p.index # i /\ Ordered(p.heap, key))
    BY <2>1, <2>4, <2>5, <2>6, PercolateDownOrders
  <2>8. PICK t : t = Settle(p, moved)
    OBVIOUS
  <2>9. t = [heap |-> p.heap, map |-> p.map] /\ Placed(t, C) /\ Len(t.heap) = N - 1
    BY <1>2, <2>1, <2>6, <2>7, <2>8, SettleNothing
  <2>10. CASE p.index # i
    <3>1. s = t
      BY <1>1, <1>6, <2>5, <2>8, <2>10 DEF DeleteBlock
    <3>2. Ordered(t.heap, key)
      <4>1. LoopAt(g, i).index = i
        BY DEF LoopAt
      <4>2. t.heap = p.heap
        BY <2>9
      <4> QED BY <2>7, <2>10, <4>1, <4>2
    <3> QED BY <1>1, <2>5, <2>9, <3>1, <3>2 DEF Sound
  <2>11. CASE p.index = i
    <3>1. PICK q : q = PercolateUp(t, key, i)
      OBVIOUS
    <3>2. s = Settle(q, moved)
      BY <1>1, <1>6, <2>5, <2>8, <2>11, <3>1 DEF DeleteBlock
    <3>3. t.heap = p.heap /\ i \in 1 .. Len(t.heap)
      BY <1>2, <2>1, <2>9
    <3>4. Nearly(t.heap, key, i) /\ AboveChildren(t.heap, key, i) /\ t.heap[i] = moved
      BY <2>1, <2>7, <2>11, <3>3 DEF PercolateOK
    <3>5. PercolateOK(t, C, i, q) /\ Ordered(q.heap, key)
      BY <2>6, <2>9, <3>1, <3>3, <3>4, PercolateUpOrders
    <3>6. s.heap = q.heap /\ Placed(s, C) /\ Len(s.heap) = Len(t.heap)
      BY <2>9, <3>2, <3>3, <3>4, <3>5, SettleNothing
    <3> QED BY <1>1, <2>5, <2>9, <3>5, <3>6 DEF Sound
  <2> QED BY <2>10, <2>11
<1> QED BY <1>5, <1>6

(***************************************************************************)
(* Slices of a sequence.                                                   *)
(***************************************************************************)
\* A slice from behind place a to place b, place by place.
LEMMA SliceAt ==
    ASSUME NEW S, NEW s \in Seq(S), NEW a \in 0 .. Len(s), NEW b \in a .. Len(s)
    PROVE  /\ SubSeq(s, a + 1, b) \in Seq(S)
           /\ Len(SubSeq(s, a + 1, b)) = b - a
           /\ \A i \in 1 .. b - a : SubSeq(s, a + 1, b)[i] = s[a + i]
<1>1. Len(s) \in Nat /\ a \in Nat /\ b \in Nat /\ a <= b /\ b <= Len(s)
  BY LenProperties
<1>2. \A i \in a + 1 .. b : s[i] \in S
  BY <1>1, ElementOfSeq
<1>3. a + 1 \in Int /\ b \in Int
  BY <1>1
<1>4. /\ SubSeq(s, a + 1, b) \in Seq(S)
      /\ Len(SubSeq(s, a + 1, b)) = IF a + 1 <= b THEN b - (a + 1) + 1 ELSE 0
      /\ \A i \in 1 .. b - (a + 1) + 1 : SubSeq(s, a + 1, b)[i] = s[a + 1 + i - 1]
  BY <1>2, <1>3, SubSeqProperties
<1>5. Len(SubSeq(s, a + 1, b)) = b - a
  BY <1>1, <1>4
<1>6. ASSUME NEW i \in 1 .. b - a PROVE SubSeq(s, a + 1, b)[i] = s[a + i]
  <2>1. i \in 1 .. b - (a + 1) + 1 /\ a + 1 + i - 1 = a + i
    BY <1>1
  <2> QED BY <1>4, <2>1
<1> QED BY <1>4, <1>5, <1>6

\* A slice of a slice is one.
LEMMA SliceOfSlice ==
    ASSUME NEW S, NEW s \in Seq(S), NEW a \in 0 .. Len(s), NEW b \in a .. Len(s),
           NEW c \in 0 .. b - a, NEW d \in c .. b - a
    PROVE  SubSeq(SubSeq(s, a + 1, b), c + 1, d) = SubSeq(s, a + c + 1, a + d)
<1>1. /\ Len(s) \in Nat /\ a \in Nat /\ b \in Nat /\ a <= b /\ b <= Len(s)
      /\ c \in Nat /\ d \in Nat /\ c <= d /\ d <= b - a
  BY LenProperties
<1>2. PICK t : t = SubSeq(s, a + 1, b)
  OBVIOUS
<1>3. t \in Seq(S) /\ Len(t) = b - a /\ \A i \in 1 .. b - a : t[i] = s[a + i]
  BY <1>2, SliceAt
<1>4. c \in 0 .. Len(t) /\ d \in c .. Len(t)
  BY <1>3
<1>5. /\ SubSeq(t, c + 1, d) \in Seq(S) /\ Len(SubSeq(t, c + 1, d)) = d - c
      /\ \A i \in 1 .. d - c : SubSeq(t, c + 1, d)[i] = t[c + i]
  BY <1>3, <1>4, SliceAt
<1>6. a + c \in 0 .. Len(s) /\ a + d \in a + c .. Len(s) /\ (a + d) - (a + c) = d - c
  BY <1>1
<1>7. /\ SubSeq(s, a + c + 1, a + d) \in Seq(S) /\ Len(SubSeq(s, a + c + 1, a + d)) = d - c
      /\ \A i \in 1 .. d - c : SubSeq(s, a + c + 1, a + d)[i] = s[a + c + i]
  BY <1>6, SliceAt
<1>8. ASSUME NEW i \in 1 .. d - c
      PROVE  SubSeq(t, c + 1, d)[i] = SubSeq(s, a + c + 1, a + d)[i]
  <2>1. c + i \in 1 .. b - a /\ a + (c + i) = a + c + i
    BY <1>1
  <2> QED BY <1>3, <1>5, <1>7, <2>1
<1>9. SubSeq(t, c + 1, d) = SubSeq(s, a + c + 1, a + d)
  BY <1>5, <1>7, <1>8, SeqEqual
<1> QED BY <1>2, <1>9

\* Adjacent slices.
LEMMA SlicesJoined ==
    ASSUME NEW S, NEW s \in Seq(S), NEW a \in 0 .. Len(s), NEW b \in a .. Len(s),
           NEW c \in b .. Len(s)
    PROVE  SubSeq(s, a + 1, b) \o SubSeq(s, b + 1, c) = SubSeq(s, a + 1, c)
<1>1. Len(s) \in Nat /\ a \in Nat /\ b \in Nat /\ c \in Nat /\ a <= b /\ b <= c /\ c <= Len(s)
  BY LenProperties
<1>2. a + 1 \in 1 .. Len(s) + 1 /\ b \in (a + 1) - 1 .. Len(s) /\ c \in b .. Len(s)
  BY <1>1
<1> QED BY <1>2, ConcatAdjacentSubSeq
=============================================================================
