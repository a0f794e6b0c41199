-------------------------- MODULE SimulatorTheorems --------------------------
(***************************************************************************)
(* The facts that the proofs about the simulators share: what the updates  *)
(* of simulate_modular and simulate_optimal_modular do to an access list,  *)
(* its index, and the counts in it; and what one access does to the        *)
(* result.                                                                 *)
(***************************************************************************)
EXTENDS AccessCounts, FileCounts, ContainerTheorems

(***************************************************************************)
(* Access lists.  Listed is the inductive form of WellPlaced: the index of     *)
(* every entry's file is the place of that entry, and of any other file    *)
(* that has one, the first place.                                          *)
(***************************************************************************)
Entry == [file : File, count : Nat]

Listed(l, S) ==
    /\ l.list \in Seq(Entry)
    /\ S \subseteq DOMAIN l.index
    /\ \A f \in DOMAIN l.index \ S : l.index[f] = 1
    /\ \A f \in S : l.index[f] \in 1 .. Len(l.list) /\ l.list[l.index[f]].file = f
    /\ \A i \in 1 .. Len(l.list) : l.list[i].file \in S /\ l.index[l.list[i].file] = i

\* Such a list has the files of S, each once.
LEMMA ListedAgrees ==
    ASSUME NEW l, NEW S, Listed(l, S)
    PROVE  /\ Len(l.list) \in Nat
           /\ \A i \in 1 .. Len(l.list) : l.list[i] \in Entry
           /\ Files(l) = S
           /\ IsFiniteSet(S)
           /\ Cardinality(S) = Len(l.list)
           /\ WellPlaced(l)
           /\ DOMAIN l.index = S => IndexAgrees(l)
<1>1. Len(l.list) \in Nat /\ \A i \in 1 .. Len(l.list) : l.list[i] \in Entry
  <2>1. l.list \in Seq(Entry)
    BY DEF Listed
  <2> QED BY <2>1, LenProperties, ElementOfSeq
<1>2. Files(l) = S
  BY DEF Files, Listed
<1> DEFINE f == [i \in 1 .. Len(l.list) |-> l.list[i].file]
<1>3. f \in Bijection(1 .. Len(l.list), S)
  <2>1. f \in [1 .. Len(l.list) -> S]
    BY DEF Listed
  <2>2. \A i, j \in 1 .. Len(l.list) : f[i] = f[j] => i = j
    BY DEF Listed
  <2>3. \A g \in S : \E i \in 1 .. Len(l.list) : f[i] = g
    BY DEF Listed
  <2> QED BY <2>1, <2>2, <2>3 DEF Bijection, Injection, Surjection, IsInjective
<1>4. IsFiniteSet(1 .. Len(l.list)) /\ Cardinality(1 .. Len(l.list)) = Len(l.list)
  BY <1>1, FS_Interval
<1>5. IsFiniteSet(S) /\ Cardinality(S) = Len(l.list)
  <2>1. ExistsBijection(1 .. Len(l.list), S)
    BY <1>3 DEF ExistsBijection
  <2> QED BY <2>1, <1>4, FS_Bijection
<1>6. WellPlaced(l)
  BY <1>2, <1>5 DEF WellPlaced, Listed
<1> QED BY <1>1, <1>2, <1>5, <1>6 DEF IndexAgrees

\* An empty list has no files.
LEMMA NothingListed == Listed(NoAccesses, {}) /\ Descending(NoAccesses)
BY DEF Listed, NoAccesses, Descending

\* push_back: the new file is listed, with no access.
LEMMA PushBackListed ==
    ASSUME NEW l, NEW S, Listed(l, S), Descending(l), NEW f \in File \ S
    PROVE  /\ Listed(PushBack(l, f), S \cup {f})
           /\ Descending(PushBack(l, f))
           /\ CountOf(PushBack(l, f), f) = 0
           /\ \A g \in S : CountOf(PushBack(l, f), g) = CountOf(l, g)
<1> DEFINE e == [file |-> f, count |-> 0]
           m == PushBack(l, f)
<1>1. Len(l.list) \in Nat /\ \A i \in 1 .. Len(l.list) : l.list[i] \in Entry
  BY ListedAgrees
<1>2. /\ m.list \in Seq(Entry)
      /\ Len(m.list) = Len(l.list) + 1
      /\ \A i \in 1 .. Len(l.list) : m.list[i] = l.list[i]
      /\ m.list[Len(l.list) + 1] = e
  <2>1. l.list \in Seq(Entry) /\ e \in Entry /\ m.list = Append(l.list, e)
    BY DEF Listed, PushBack, Entry
  <2> QED BY <2>1, AppendProperties
<1>3. /\ DOMAIN m.index = DOMAIN l.index \cup {f}
      /\ m.index[f] = Len(l.list) + 1
      /\ \A g \in DOMAIN l.index \ {f} : m.index[g] = l.index[g]
      /\ S \subseteq DOMAIN l.index \ {f}
  BY DEF PushBack, Add, Listed
<1> HIDE DEF m
<1>4. Listed(m, S \cup {f})
  <2>1. \A g \in S \cup {f} : m.index[g] \in 1 .. Len(m.list) /\ m.list[m.index[g]].file = g
    BY <1>1, <1>2, <1>3 DEF Listed
  <2>2. ASSUME NEW i \in 1 .. Len(m.list)
        PROVE  m.list[i].file \in S \cup {f} /\ m.index[m.list[i].file] = i
    <3>1. CASE i \in 1 .. Len(l.list)
      <4>1. l.list[i].file \in S /\ l.index[l.list[i].file] = i
        BY <3>1 DEF Listed
      <4>2. m.list[i] = l.list[i]
        BY <3>1, <1>2
      <4> QED BY <4>1, <4>2, <1>3
    <3>2. CASE i = Len(l.list) + 1
      BY <3>2, <1>2, <1>3
    <3> QED BY <3>1, <3>2, <1>1, <1>2
  <2>3. S \cup {f} \subseteq DOMAIN m.index
        /\ \A g \in DOMAIN m.index \ (S \cup {f}) : m.index[g] = 1
    BY <1>3 DEF Listed
  <2> QED BY <1>2, <2>1, <2>2, <2>3 DEF Listed
<1>5. Descending(m)
  <2> SUFFICES ASSUME NEW i \in 1 .. Len(m.list), NEW j \in 1 .. Len(m.list), i <= j
               PROVE  m.list[i].count >= m.list[j].count
    BY DEF Descending
  <2>1. CASE j \in 1 .. Len(l.list)
    <3>1. i \in 1 .. Len(l.list)
      BY <2>1, <1>1, <1>2
    <3>2. l.list[i].count >= l.list[j].count
      BY <2>1, <3>1 DEF Descending
    <3> QED BY <2>1, <3>1, <3>2, <1>2
  <2>2. CASE j = Len(l.list) + 1
    <3>1. m.list[j].count = 0
      BY <2>2, <1>2
    <3>2. m.list[i] \in Entry
      BY <1>2, ElementOfSeq
    <3>3. m.list[i].count \in Nat
      BY <3>2 DEF Entry
    <3> QED BY <3>1, <3>3
  <2> QED BY <2>1, <2>2, <1>1, <1>2
<1>6. CountOf(m, f) = 0 /\ \A g \in S : CountOf(m, g) = CountOf(l, g)
  BY <1>1, <1>2, <1>3 DEF CountOf, IndexOf, Listed
<1> QED BY <1>3, <1>4, <1>5, <1>6 DEF m

\* Counts that change leave the entries where the index has them.
LEMMA RecountListed ==
    ASSUME NEW l, NEW S, Listed(l, S), NEW list \in Seq(Entry), Len(list) = Len(l.list),
           \A j \in 1 .. Len(l.list) : list[j].file = l.list[j].file
    PROVE  Listed([list |-> list, index |-> l.index], S)
BY DEF Listed

\* Entries that change places keep their counts, and the index follows them.
LEMMA ExchangeListed ==
    ASSUME NEW list, NEW index, NEW S, Listed([list |-> list, index |-> index], S),
           NEW i \in 1 .. Len(list), NEW n \in 1 .. Len(list),
           NEW m, m = Exchange(list, index, i, n)
    PROVE  /\ Listed(m, S)
           /\ Len(m.list) = Len(list)
           /\ \A j \in 1 .. Len(list) :
                 m.list[j] = list[IF j = i THEN n ELSE IF j = n THEN i ELSE j]
           /\ \A f \in S : m.list[m.index[f]] = list[index[f]]
           /\ DOMAIN m.index = DOMAIN index
<1>1. Len(list) \in Nat /\ list \in Seq(Entry) /\ \A j \in 1 .. Len(list) : list[j] \in Entry
  BY ListedAgrees DEF Listed
<1>2. CASE n = i
  BY <1>2 DEF Exchange, Listed
<1>3. CASE n # i
  <2> DEFINE moved == Swap(list, i, n)
  <2>1. /\ moved \in Seq(Entry)
        /\ Len(moved) = Len(list)
        /\ \A j \in 1 .. Len(list) :
              moved[j] = list[IF j = i THEN n ELSE IF j = n THEN i ELSE j]
    <3> DEFINE first == [list EXCEPT ![i] = list[n]]
    <3>1. /\ first \in Seq(Entry) /\ Len(first) = Len(list)
          /\ \A j \in 1 .. Len(list) : first[j] = IF j = i THEN list[n] ELSE list[j]
      BY <1>1, ExceptSeq
    <3>2. moved = [first EXCEPT ![n] = list[i]]
      BY DEF Swap
    <3> HIDE DEF first, moved
    <3>3. /\ moved \in Seq(Entry) /\ Len(moved) = Len(first)
          /\ \A j \in 1 .. Len(list) : moved[j] = IF j = n THEN list[i] ELSE first[j]
      BY <1>1, <3>1, <3>2, ExceptSeq
    <3> QED BY <1>3, <3>1, <3>3
  <2>2. /\ m.list = moved
        /\ m.index = Add(Add(index, moved[i].file, i), moved[n].file, n)
    BY <1>3 DEF Exchange
  <2> HIDE DEF moved
  <2>3. moved[i] = list[n] /\ moved[n] = list[i]
    BY <1>3, <2>1
  <2>4. /\ list[i].file \in S /\ list[n].file \in S
        /\ index[list[i].file] = i /\ index[list[n].file] = n
        /\ S \subseteq DOMAIN index /\ \A f \in DOMAIN index \ S : index[f] = 1
    BY DEF Listed
  <2>5. /\ DOMAIN m.index = DOMAIN index
        /\ \A f \in DOMAIN index :
              m.index[f] = IF f = list[i].file THEN n ELSE IF f = list[n].file THEN i ELSE index[f]
    <3> DEFINE a == list[n].file
               b == list[i].file
               once == Add(index, a, i)
    <3>1. a \in DOMAIN index /\ b \in DOMAIN index
      BY <2>4
    <3>2. DOMAIN index \cup {a} = DOMAIN index /\ DOMAIN index \cup {b} = DOMAIN index
      BY <3>1
    <3>3. DOMAIN once = DOMAIN index
          /\ \A f \in DOMAIN index : once[f] = IF f = a THEN i ELSE index[f]
      BY <3>2 DEF Add
    <3>4. m.index = Add(once, b, n)
      BY <2>2, <2>3
    <3> HIDE DEF once
    <3>5. m.index = [f \in DOMAIN index |-> IF f = b THEN n ELSE once[f]]
      BY <3>2, <3>3, <3>4 DEF Add
    <3> QED BY <3>3, <3>5
  <2>6. \A f \in S : index[f] \in 1 .. Len(list) /\ list[index[f]].file = f
    BY DEF Listed
  <2>7. \A j \in 1 .. Len(list) : list[j].file \in S /\ index[list[j].file] = j
    BY DEF Listed
  <2>8. ASSUME NEW f \in S
        PROVE  m.index[f] \in 1 .. Len(list) /\ m.list[m.index[f]] = list[index[f]]
    <3>0. f \in DOMAIN index
      BY <2>4
    <3>1. CASE f = list[i].file
      <4>1. m.index[f] = n /\ index[f] = i
        BY <3>0, <3>1, <2>4, <2>5
      <4> QED BY <4>1, <1>3, <2>2, <2>3
    <3>2. CASE f = list[n].file /\ f # list[i].file
      <4>1. m.index[f] = i /\ index[f] = n
        BY <3>0, <3>2, <2>4, <2>5
      <4> QED BY <4>1, <1>3, <2>2, <2>3
    <3>3. CASE f # list[n].file /\ f # list[i].file
      <4>1. index[f] # i /\ index[f] # n
        BY <3>3, <2>6
      <4>2. m.index[f] = index[f]
        BY <3>0, <3>3, <2>5
      <4> QED BY <4>1, <4>2, <2>1, <2>2, <2>6
    <3> QED BY <3>1, <3>2, <3>3
  <2>9. ASSUME NEW j \in 1 .. Len(list)
        PROVE  m.list[j].file \in S /\ m.index[m.list[j].file] = j
    <3>1. CASE j = i
      <4>1. m.list[j] = list[n] /\ list[n].file \in DOMAIN index /\ list[n].file # list[i].file
        BY <3>1, <1>3, <2>2, <2>3, <2>4
      <4> QED BY <3>1, <4>1, <2>4, <2>5
    <3>2. CASE j = n
      <4>1. m.list[j] = list[i] /\ list[i].file \in DOMAIN index
        BY <3>2, <1>3, <2>2, <2>3, <2>4
      <4> QED BY <3>2, <4>1, <2>4, <2>5
    <3>3. CASE j # i /\ j # n
      <4>1. m.list[j] = list[j]
        BY <3>3, <2>1, <2>2
      <4>2. list[j].file # list[i].file /\ list[j].file # list[n].file
        BY <3>3, <2>4, <2>7
      <4>3. list[j].file \in DOMAIN index
        BY <2>4, <2>7
      <4> QED BY <4>1, <4>2, <4>3, <2>5, <2>7
    <3> QED BY <3>1, <3>2, <3>3
  <2>10. Listed(m, S)
    BY <2>1, <2>2, <2>4, <2>5, <2>6, <2>8, <2>9 DEF Listed
  <2> QED BY <2>1, <2>2, <2>5, <2>8, <2>10
<1> QED BY <1>2, <1>3

\* The searches for the place of a changed count end, at such a place.
LEMMA FirstBelowFinds ==
    ASSUME NEW list \in Seq(Entry), NEW i \in 1 .. Len(list)
    PROVE  /\ FirstBelow(list, i) \in 1 .. i
           /\ \A k \in FirstBelow(list, i) .. i - 1 : list[k].count < list[i].count
           /\ FirstBelow(list, i) > 1 =>
                 list[FirstBelow(list, i) - 1].count >= list[i].count
<1> DEFINE below(n) == \A k \in n .. i - 1 : list[k].count < list[i].count
           T == {n \in 1 .. i : below(n)}
<1>1. Len(list) \in Nat /\ i \in Nat
  BY LenProperties
<1>2. \A j \in 1 .. Len(list) : list[j].count \in Nat
  <2>1. \A j \in 1 .. Len(list) : list[j] \in Entry
    BY ElementOfSeq
  <2> QED BY <2>1 DEF Entry
<1>3. i \in T /\ T \subseteq Nat
  BY <1>1
<1> HIDE DEF T
<1>4. PICK n \in T : \A k \in T : n <= k
  BY <1>3, Least
<1>5. n \in 1 .. i /\ below(n)
  BY <1>4 DEF T
<1>6. ASSUME n > 1 PROVE list[n - 1].count >= list[i].count
  <2>1. n - 1 \in 1 .. i /\ n - 1 \notin T
    BY <1>1, <1>4, <1>5, <1>6
  <2>2. PICK k \in n - 1 .. i - 1 : ~ (list[k].count < list[i].count)
    BY <2>1 DEF T
  <2>3. k = n - 1
    BY <1>1, <1>5, <1>6, <2>2
  <2>4. list[k].count \in Nat /\ list[i].count \in Nat
    BY <1>1, <1>2, <1>5, <2>1, <2>3
  <2> QED BY <2>2, <2>3, <2>4
<1> QED BY <1>5, <1>6 DEF FirstBelow

LEMMA LastAboveFinds ==
    ASSUME NEW list \in Seq(Entry), NEW i \in 1 .. Len(list)
    PROVE  /\ LastAbove(list, i) \in i .. Len(list)
           /\ \A k \in i + 1 .. LastAbove(list, i) : list[k].count > list[i].count
           /\ LastAbove(list, i) < Len(list) =>
                 list[LastAbove(list, i) + 1].count <= list[i].count
<1> DEFINE above(n) == \A k \in i + 1 .. n : list[k].count > list[i].count
           T == {n \in i .. Len(list) : above(n)}
<1>1. Len(list) \in Nat /\ i \in Nat
  BY LenProperties
<1>2. \A j \in 1 .. Len(list) : list[j].count \in Nat
  <2>1. \A j \in 1 .. Len(list) : list[j] \in Entry
    BY ElementOfSeq
  <2> QED BY <2>1 DEF Entry
<1>3. i \in T /\ T \subseteq 0 .. Len(list)
  BY <1>1
<1> HIDE DEF T
<1>4. PICK n \in T : \A k \in T : k <= n
  BY <1>1, <1>3, Greatest
<1>5. n \in i .. Len(list) /\ above(n)
  BY <1>4 DEF T
<1>6. ASSUME n < Len(list) PROVE list[n + 1].count <= list[i].count
  <2>1. n + 1 \in i .. Len(list) /\ n + 1 \notin T
    BY <1>1, <1>4, <1>5, <1>6
  <2>2. PICK k \in i + 1 .. n + 1 : ~ (list[k].count > list[i].count)
    BY <2>1 DEF T
  <2>3. k = n + 1
    BY <1>1, <1>5, <1>6, <2>2
  <2>4. list[k].count \in Nat /\ list[i].count \in Nat
    BY <1>1, <1>2, <1>5, <2>1, <2>3
  <2> QED BY <2>2, <2>3, <2>4
<1> QED BY <1>5, <1>6 DEF LastAbove

\* The counts stay in order when one is raised and changes places with the first
\* that is now less.
LEMMA RaiseKeepsOrder ==
    ASSUME NEW N \in Nat, NEW old \in [1 .. N -> Nat], NEW i \in 1 .. N, NEW n \in 1 .. i,
           \A j, k \in 1 .. N : j <= k => old[j] >= old[k],
           \A k \in n .. i - 1 : old[k] < old[i] + 1,
           n > 1 => old[n - 1] >= old[i] + 1,
           NEW new \in [1 .. N -> Nat],
           \A j \in 1 .. N : new[j] = IF j = n THEN old[i] + 1
                                      ELSE IF j = i THEN old[n] ELSE old[j]
    PROVE  \A j, k \in 1 .. N : j <= k => new[j] >= new[k]
<1>1. n \in 1 .. N /\ \A k \in n .. i : k \in 1 .. N
  OBVIOUS
<1>2. \A k \in n .. i : old[k] = old[i]
  <2> SUFFICES ASSUME NEW k \in n .. i, k # i PROVE old[k] = old[i]
    OBVIOUS
  <2>1. k \in 1 .. N /\ k <= i /\ k \in n .. i - 1
    OBVIOUS
  <2>2. old[k] >= old[i] /\ old[k] < old[i] + 1
    BY <2>1
  <2>3. old[k] \in Nat /\ old[i] \in Nat
    BY <2>1
  <2> QED BY <2>2, <2>3
<1>3. \A j \in 1 .. n - 1 : old[j] >= old[i] + 1
  <2> SUFFICES ASSUME NEW j \in 1 .. n - 1 PROVE old[j] >= old[i] + 1
    OBVIOUS
  <2>1. j \in 1 .. N /\ n - 1 \in 1 .. N /\ j <= n - 1 /\ n > 1
    OBVIOUS
  <2>2. old[j] >= old[n - 1] /\ old[n - 1] >= old[i] + 1
    BY <2>1
  <2>3. old[j] \in Nat /\ old[n - 1] \in Nat /\ old[i] \in Nat
    BY <2>1
  <2> QED BY <2>2, <2>3
<1>4. \A j \in 1 .. N : new[j] = IF j = n THEN old[i] + 1 ELSE old[j]
  <2>1. n \in n .. i
    OBVIOUS
  <2>2. old[n] = old[i]
    BY <2>1, <1>2
  <2> QED BY <2>2
<1> SUFFICES ASSUME NEW j \in 1 .. N, NEW k \in 1 .. N, j <= k PROVE new[j] >= new[k]
  OBVIOUS
<1>5. old[j] \in Nat /\ old[k] \in Nat /\ old[i] \in Nat /\ old[j] >= old[k]
  OBVIOUS
<1>6. CASE j = n /\ k # n
  <2>1. k \in n .. i \/ i <= k
    BY <1>6
  <2>2. old[i] >= old[k]
    BY <2>1, <1>2, <1>5
  <2> QED BY <2>2, <1>4, <1>5, <1>6
<1>7. CASE k = n /\ j # n
  <2>1. j \in 1 .. n - 1
    BY <1>7
  <2> QED BY <2>1, <1>3, <1>4, <1>5, <1>7
<1>8. CASE j # n /\ k # n
  BY <1>4, <1>5, <1>8
<1>9. CASE j = n /\ k = n
  BY <1>4, <1>5, <1>9
<1> QED BY <1>6, <1>7, <1>8, <1>9

\* And when one is lowered and changes places with the last that is now more.
LEMMA LowerKeepsOrder ==
    ASSUME NEW N \in Nat, NEW old \in [1 .. N -> Nat], NEW i \in 1 .. N, NEW n \in i .. N,
           old[i] > 0,
           \A j, k \in 1 .. N : j <= k => old[j] >= old[k],
           \A k \in i + 1 .. n : old[k] > old[i] - 1,
           n < N => old[n + 1] <= old[i] - 1,
           NEW new \in [1 .. N -> Nat],
           \A j \in 1 .. N : new[j] = IF j = n THEN old[i] - 1
                                      ELSE IF j = i THEN old[n] ELSE old[j]
    PROVE  \A j, k \in 1 .. N : j <= k => new[j] >= new[k]
<1>1. n \in 1 .. N /\ \A k \in i .. n : k \in 1 .. N
  OBVIOUS
<1>2. \A k \in i .. n : old[k] = old[i]
  <2> SUFFICES ASSUME NEW k \in i .. n, k # i PROVE old[k] = old[i]
    OBVIOUS
  <2>1. k \in 1 .. N /\ i <= k /\ k \in i + 1 .. n
    OBVIOUS
  <2>2. old[i] >= old[k] /\ old[k] > old[i] - 1
    BY <2>1
  <2>3. old[k] \in Nat /\ old[i] \in Nat
    BY <2>1
  <2> QED BY <2>2, <2>3
<1>3. \A j \in n + 1 .. N : old[j] <= old[i] - 1
  <2> SUFFICES ASSUME NEW j \in n + 1 .. N PROVE old[j] <= old[i] - 1
    OBVIOUS
  <2>1. j \in 1 .. N /\ n + 1 \in 1 .. N /\ n + 1 <= j /\ n < N
    OBVIOUS
  <2>2. old[n + 1] >= old[j] /\ old[n + 1] <= old[i] - 1
    BY <2>1
  <2>3. old[j] \in Nat /\ old[n + 1] \in Nat /\ old[i] \in Nat
    BY <2>1
  <2> QED BY <2>2, <2>3
<1>4. \A j \in 1 .. N : new[j] = IF j = n THEN old[i] - 1 ELSE old[j]
  <2>1. n \in i .. n
    OBVIOUS
  <2>2. old[n] = old[i]
    BY <2>1, <1>2
  <2> QED BY <2>2
<1> SUFFICES ASSUME NEW j \in 1 .. N, NEW k \in 1 .. N, j <= k PROVE new[j] >= new[k]
  OBVIOUS
<1>5. old[j] \in Nat /\ old[k] \in Nat /\ old[i] \in Nat /\ old[j] >= old[k]
  OBVIOUS
<1>6. CASE k = n /\ j # n
  <2>1. j \in i .. n \/ j <= i
    BY <1>6
  <2>2. old[j] >= old[i]
    BY <2>1, <1>2, <1>5
  <2> QED BY <2>2, <1>4, <1>5, <1>6
<1>7. CASE j = n /\ k # n
  <2>1. k \in n + 1 .. N
    BY <1>7
  <2> QED BY <2>1, <1>3, <1>4, <1>5, <1>7
<1>8. CASE j # n /\ k # n
  BY <1>4, <1>5, <1>8
<1>9. CASE j = n /\ k = n
  BY <1>4, <1>5, <1>9
<1> QED BY <1>6, <1>7, <1>8, <1>9

\* A list one of whose counts has changed.
LEMMA RecountedList ==
    ASSUME NEW l, NEW S, Listed(l, S), NEW i \in 1 .. Len(l.list), NEW c \in Nat
    PROVE  LET list == [l.list EXCEPT ![i] = [file |-> l.list[i].file, count |-> c]] IN
           /\ list \in Seq(Entry)
           /\ Len(list) = Len(l.list)
           /\ list[i] = [file |-> l.list[i].file, count |-> c]
           /\ \A j \in 1 .. Len(l.list) : j # i => list[j] = l.list[j]
<1>1. l.list \in Seq(Entry) /\ l.list[i] \in Entry
  BY ListedAgrees DEF Listed
<1>2. [file |-> l.list[i].file, count |-> c] \in Entry
  BY <1>1 DEF Entry
<1> QED BY <1>1, <1>2, ExceptSeq

\* list is that of l but for the count at i, which is c.
Recount(list, l, i, c) ==
    /\ list \in Seq(Entry) /\ Len(list) = Len(l.list)
    /\ list[i] = [file |-> l.list[i].file, count |-> c]
    /\ \A j \in 1 .. Len(l.list) : j # i => list[j] = l.list[j]

\* m is l with the count c for the entry at i, which is now at n, and that at i.
Moved(m, l, S, i, c, n) ==
    /\ Listed(m, S)
    /\ Len(m.list) = Len(l.list)
    /\ \A j \in 1 .. Len(l.list) :
          m.list[j].count = IF j = n THEN c
                            ELSE IF j = i THEN l.list[n].count ELSE l.list[j].count
    /\ \A g \in S : CountOf(m, g) = IF g = l.list[i].file THEN c ELSE CountOf(l, g)
    /\ DOMAIN m.index = DOMAIN l.index

\* The list after its entry i has changed its count to c and its place with n.
LEMMA MovedListed ==
    ASSUME NEW l, NEW S, Listed(l, S), NEW i \in 1 .. Len(l.list), NEW c \in Nat,
           NEW list, Recount(list, l, i, c), NEW n \in 1 .. Len(l.list)
    PROVE  Moved(Exchange(list, l.index, i, n), l, S, i, c, n)
<1>0. /\ list \in Seq(Entry) /\ Len(list) = Len(l.list)
      /\ list[i] = [file |-> l.list[i].file, count |-> c]
      /\ \A j \in 1 .. Len(l.list) : j # i => list[j] = l.list[j]
  BY DEF Recount
<1> PICK m : m = Exchange(list, l.index, i, n)
  OBVIOUS
<1>1. list[i].file = l.list[i].file /\ list[i].count = c
  BY <1>0
<1>2. Listed([list |-> list, index |-> l.index], S)
  <2>1. \A j \in 1 .. Len(l.list) : list[j].file = l.list[j].file
    BY <1>0, <1>1
  <2> QED BY <1>0, <2>1, RecountListed
<1>3. /\ Listed(m, S)
      /\ Len(m.list) = Len(list)
      /\ \A j \in 1 .. Len(list) :
            m.list[j] = list[IF j = i THEN n ELSE IF j = n THEN i ELSE j]
      /\ \A g \in S : m.list[m.index[g]] = list[l.index[g]]
      /\ DOMAIN m.index = DOMAIN l.index
  <2>1. i \in 1 .. Len(list) /\ n \in 1 .. Len(list)
    BY <1>0
  <2> QED BY <1>0, <2>1, <1>2, ExchangeListed, SMTT(60)
<1>4. ASSUME NEW j \in 1 .. Len(l.list)
      PROVE  m.list[j].count = IF j = n THEN c
                               ELSE IF j = i THEN l.list[n].count ELSE l.list[j].count
  <2>1. CASE j = n
    <3>1. m.list[j] = list[i]
      BY <1>0, <2>1, <1>3
    <3> QED BY <2>1, <3>1, <1>1
  <2>2. CASE j = i /\ j # n
    <3>1. m.list[j] = list[n] /\ list[n] = l.list[n]
      BY <1>0, <2>2, <1>3
    <3> QED BY <2>2, <3>1
  <2>3. CASE j # i /\ j # n
    <3>1. m.list[j] = list[j] /\ list[j] = l.list[j]
      BY <1>0, <2>3, <1>3
    <3> QED BY <2>3, <3>1
  <2> QED BY <2>1, <2>2, <2>3
<1>5. ASSUME NEW g \in S
      PROVE  CountOf(m, g) = IF g = l.list[i].file THEN c ELSE CountOf(l, g)
  <2>1. /\ l.index[g] \in 1 .. Len(l.list) /\ l.list[l.index[g]].file = g
        /\ l.index[l.list[i].file] = i
        /\ g \in DOMAIN l.index /\ g \in DOMAIN m.index
    BY <1>3 DEF Listed
  <2>2. CountOf(m, g) = list[l.index[g]].count /\ CountOf(l, g) = l.list[l.index[g]].count
    BY <2>1, <1>3 DEF CountOf, IndexOf
  <2>3. CASE g = l.list[i].file
    BY <2>1, <2>2, <2>3, <1>1
  <2>4. CASE g # l.list[i].file
    <3>1. l.index[g] # i
      BY <2>1, <2>4
    <3>2. list[l.index[g]] = l.list[l.index[g]]
      BY <1>0, <2>1, <3>1
    <3> QED BY <2>2, <2>4, <3>2
  <2> QED BY <2>3, <2>4
<1> QED BY <1>0, <1>3, <1>4, <1>5 DEF Moved

\* Looking a file up changes no place, and so no count.
LEMMA LookedUpListed ==
    ASSUME NEW l, NEW S, Listed(l, S), NEW f
    PROVE  LET k == LookedUp(l, f) IN
           /\ k.list = l.list
           /\ \A g : IndexOf(k, g) = IndexOf(l, g) /\ CountOf(k, g) = CountOf(l, g)
           /\ Listed(k, S)
           /\ Descending(l) => Descending(k)
           /\ DOMAIN k.index = DOMAIN l.index \cup {f}
<1> DEFINE k == LookedUp(l, f)
<1>1. /\ k.list = l.list
      /\ DOMAIN k.index = DOMAIN l.index \cup {f}
      /\ k.index[f] = IndexOf(l, f)
      /\ \A g \in DOMAIN l.index : k.index[g] = l.index[g]
  BY DEF LookedUp, Add, IndexOf
<1> HIDE DEF k
<1>2. \A g : IndexOf(k, g) = IndexOf(l, g)
  BY <1>1 DEF IndexOf
<1>3. Listed(k, S)
  <2>1. \A g \in DOMAIN k.index \ S : k.index[g] = 1
    BY <1>1 DEF Listed, IndexOf
  <2> QED BY <1>1, <2>1 DEF Listed
<1> QED BY <1>1, <1>2, <1>3 DEF CountOf, Descending, k

\* One access more: of the entry at the place the index gives for f.
LEMMA IncrementListed ==
    ASSUME NEW l, NEW S, Listed(l, S), Descending(l), NEW f, IndexOf(l, f) \in 1 .. Len(l.list)
    PROVE  /\ Listed(Increment(l, f), S)
           /\ Descending(Increment(l, f))
           /\ \A g \in S : CountOf(Increment(l, f), g) =
                 IF g = l.list[IndexOf(l, f)].file THEN CountOf(l, g) + 1 ELSE CountOf(l, g)
           /\ DOMAIN Increment(l, f).index = DOMAIN l.index \cup {f}
<1>1. PICK i \in 1 .. Len(l.list) : i = IndexOf(l, f)
  OBVIOUS
<1>2. /\ Len(l.list) \in Nat /\ \A j \in 1 .. Len(l.list) : l.list[j] \in Entry
      /\ \A j \in 1 .. Len(l.list) : l.list[j].count \in Nat
  <2>1. Len(l.list) \in Nat /\ \A j \in 1 .. Len(l.list) : l.list[j] \in Entry
    BY ListedAgrees
  <2> QED BY <2>1 DEF Entry
<1>3. PICK c \in Nat : c = l.list[i].count + 1
  BY <1>2
<1>4. PICK list : list = [l.list EXCEPT ![i] = [file |-> l.list[i].file, count |-> c]]
  OBVIOUS
<1>5. [l.list EXCEPT ![i].count = @ + 1] = list
  <2>1. [l.list[i] EXCEPT !.count = @ + 1] = [file |-> l.list[i].file, count |-> c]
    BY <1>2, <1>3 DEF Entry
  <2> QED BY <2>1, <1>4
<1>6. /\ list \in Seq(Entry) /\ Len(list) = Len(l.list)
      /\ list[i] = [file |-> l.list[i].file, count |-> c]
      /\ \A j \in 1 .. Len(l.list) : j # i => list[j] = l.list[j]
  BY <1>4, RecountedList
<1>7. PICK n : n = FirstBelow(list, i)
  OBVIOUS
<1>8. /\ n \in 1 .. i
      /\ \A k \in n .. i - 1 : list[k].count < list[i].count
      /\ n > 1 => list[n - 1].count >= list[i].count
  BY <1>6, <1>7, FirstBelowFinds
<1>9. n \in 1 .. Len(l.list)
  BY <1>2, <1>8
<1> DEFINE k0 == LookedUp(l, f)
<1>10. PICK m : m = Exchange(list, k0.index, i, n)
  OBVIOUS
<1>11. Increment(l, f) = m
  BY <1>1, <1>5, <1>7, <1>10 DEF Increment
<1>12. /\ Listed(m, S)
       /\ Len(m.list) = Len(l.list)
       /\ \A j \in 1 .. Len(l.list) :
             m.list[j].count = IF j = n THEN c
                               ELSE IF j = i THEN l.list[n].count ELSE l.list[j].count
       /\ \A g \in S : CountOf(m, g) = IF g = l.list[i].file THEN c ELSE CountOf(l, g)
       /\ DOMAIN m.index = DOMAIN l.index \cup {f}
  <2>1. /\ k0.list = l.list /\ Listed(k0, S) /\ DOMAIN k0.index = DOMAIN l.index \cup {f}
        /\ \A g : CountOf(k0, g) = CountOf(l, g)
    BY LookedUpListed
  <2> HIDE DEF k0
  <2>2. /\ i \in 1 .. Len(k0.list) /\ n \in 1 .. Len(k0.list)
        /\ Recount(list, k0, i, c)
    BY <2>1, <1>6, <1>9 DEF Recount
  <2>3. Moved(m, k0, S, i, c, n)
    BY <2>1, <2>2, <1>10, MovedListed
  <2> QED BY <2>1, <2>3 DEF Moved
<1>13. Descending(m)
  <2> DEFINE N == Len(l.list)
             old == [j \in 1 .. N |-> l.list[j].count]
             new == [j \in 1 .. N |-> m.list[j].count]
  <2>1. N \in Nat /\ old \in [1 .. N -> Nat]
    BY <1>2
  <2>2. \A j, k \in 1 .. N : j <= k => old[j] >= old[k]
    BY DEF Descending
  <2>3. \A j \in 1 .. N : new[j] = IF j = n THEN old[i] + 1
                                   ELSE IF j = i THEN old[n] ELSE old[j]
    BY <1>3, <1>9, <1>12
  <2>4. new \in [1 .. N -> Nat]
    <3>1. \A j \in 1 .. N : m.list[j].count \in Nat
      BY <1>2, <1>9, <1>12
    <3> QED BY <3>1
  <2>5. \A k \in n .. i - 1 : old[k] < old[i] + 1
    <3> SUFFICES ASSUME NEW k \in n .. i - 1 PROVE old[k] < old[i] + 1
      OBVIOUS
    <3>1. k \in 1 .. N /\ k # i
      BY <1>2, <1>8
    <3> QED BY <3>1, <1>3, <1>6, <1>8
  <2>6. n > 1 => old[n - 1] >= old[i] + 1
    <3> SUFFICES ASSUME n > 1 PROVE old[n - 1] >= old[i] + 1
      OBVIOUS
    <3>1. n - 1 \in 1 .. N /\ n - 1 # i
      BY <1>2, <1>8
    <3> QED BY <3>1, <1>3, <1>6, <1>8
  <2>7. i \in 1 .. N /\ n \in 1 .. i
    BY <1>8
  <2> HIDE DEF N, old, new
  <2>8. \A j, k \in 1 .. N : j <= k => new[j] >= new[k]
    BY <2>1, <2>2, <2>3, <2>4, <2>5, <2>6, <2>7, RaiseKeepsOrder, SMTT(60)
  <2> QED BY <2>8, <1>12 DEF Descending, N, new
<1>14. ASSUME NEW g \in S, g = l.list[i].file
       PROVE  CountOf(l, g) + 1 = c
  BY <1>3, <1>14 DEF CountOf, IndexOf, Listed
<1> QED BY <1>1, <1>11, <1>12, <1>13, <1>14

\* One access fewer: of such an entry that has one.
LEMMA DecrementListed ==
    ASSUME NEW l, NEW S, Listed(l, S), Descending(l),
           NEW f, IndexOf(l, f) \in 1 .. Len(l.list), l.list[IndexOf(l, f)].count > 0
    PROVE  /\ Listed(Decrement(l, f), S)
           /\ Descending(Decrement(l, f))
           /\ \A g \in S : CountOf(Decrement(l, f), g) =
                 IF g = l.list[IndexOf(l, f)].file THEN CountOf(l, g) - 1 ELSE CountOf(l, g)
           /\ DOMAIN Decrement(l, f).index = DOMAIN l.index \cup {f}
<1>1. PICK i \in 1 .. Len(l.list) : i = IndexOf(l, f)
  OBVIOUS
<1>2. /\ Len(l.list) \in Nat /\ \A j \in 1 .. Len(l.list) : l.list[j] \in Entry
      /\ \A j \in 1 .. Len(l.list) : l.list[j].count \in Nat
  <2>1. Len(l.list) \in Nat /\ \A j \in 1 .. Len(l.list) : l.list[j] \in Entry
    BY ListedAgrees
  <2> QED BY <2>1 DEF Entry
<1>3. PICK c \in Nat : c = l.list[i].count - 1
  <2>1. l.list[i].count \in Nat /\ l.list[i].count > 0
    BY <1>1, <1>2
  <2> QED BY <2>1
<1>4. PICK list : list = [l.list EXCEPT ![i] = [file |-> l.list[i].file, count |-> c]]
  OBVIOUS
<1>5. [l.list EXCEPT ![i].count = @ - 1] = list
  <2>1. [l.list[i] EXCEPT !.count = @ - 1] = [file |-> l.list[i].file, count |-> c]
    BY <1>2, <1>3 DEF Entry
  <2> QED BY <2>1, <1>4
<1>6. /\ list \in Seq(Entry) /\ Len(list) = Len(l.list)
      /\ list[i] = [file |-> l.list[i].file, count |-> c]
      /\ \A j \in 1 .. Len(l.list) : j # i => list[j] = l.list[j]
  BY <1>4, RecountedList
<1>7. PICK n : n = LastAbove(list, i)
  OBVIOUS
<1>8. /\ n \in i .. Len(l.list)
      /\ \A k \in i + 1 .. n : list[k].count > list[i].count
      /\ n < Len(l.list) => list[n + 1].count <= list[i].count
  BY <1>6, <1>7, LastAboveFinds
<1>9. n \in 1 .. Len(l.list)
  BY <1>2, <1>8
<1> DEFINE k0 == LookedUp(l, f)
<1>10. PICK m : m = Exchange(list, k0.index, i, n)
  OBVIOUS
<1>11. Decrement(l, f) = m
  BY <1>1, <1>5, <1>7, <1>10 DEF Decrement
<1>12. /\ Listed(m, S)
       /\ Len(m.list) = Len(l.list)
       /\ \A j \in 1 .. Len(l.list) :
             m.list[j].count = IF j = n THEN c
                               ELSE IF j = i THEN l.list[n].count ELSE l.list[j].count
       /\ \A g \in S : CountOf(m, g) = IF g = l.list[i].file THEN c ELSE CountOf(l, g)
       /\ DOMAIN m.index = DOMAIN l.index \cup {f}
  <2>1. /\ k0.list = l.list /\ Listed(k0, S) /\ DOMAIN k0.index = DOMAIN l.index \cup {f}
        /\ \A g : CountOf(k0, g) = CountOf(l, g)
    BY LookedUpListed
  <2> HIDE DEF k0
  <2>2. /\ i \in 1 .. Len(k0.list) /\ n \in 1 .. Len(k0.list)
        /\ Recount(list, k0, i, c)
    BY <2>1, <1>6, <1>9 DEF Recount
  <2>3. Moved(m, k0, S, i, c, n)
    BY <2>1, <2>2, <1>10, MovedListed
  <2> QED BY <2>1, <2>3 DEF Moved
<1>13. Descending(m)
  <2> DEFINE N == Len(l.list)
             old == [j \in 1 .. N |-> l.list[j].count]
             new == [j \in 1 .. N |-> m.list[j].count]
  <2>1. N \in Nat /\ old \in [1 .. N -> Nat] /\ old[i] > 0
    BY <1>1, <1>2
  <2>2. \A j, k \in 1 .. N : j <= k => old[j] >= old[k]
    BY DEF Descending
  <2>3. \A j \in 1 .. N : new[j] = IF j = n THEN old[i] - 1
                                   ELSE IF j = i THEN old[n] ELSE old[j]
    BY <1>3, <1>9, <1>12
  <2>4. new \in [1 .. N -> Nat]
    <3>1. \A j \in 1 .. N : m.list[j].count \in Nat
      BY <1>2, <1>9, <1>12
    <3> QED BY <3>1
  <2>5. \A k \in i + 1 .. n : old[k] > old[i] - 1
    <3> SUFFICES ASSUME NEW k \in i + 1 .. n PROVE old[k] > old[i] - 1
      OBVIOUS
    <3>1. k \in 1 .. N /\ k # i
      BY <1>2, <1>8
    <3> QED BY <3>1, <1>3, <1>6, <1>8
  <2>6. n < N => old[n + 1] <= old[i] - 1
    <3> SUFFICES ASSUME n < N PROVE old[n + 1] <= old[i] - 1
      OBVIOUS
    <3>1. n + 1 \in 1 .. N /\ n + 1 # i
      BY <1>2, <1>8
    <3> QED BY <3>1, <1>3, <1>6, <1>8
  <2>7. i \in 1 .. N /\ n \in i .. N
    BY <1>8
  <2> HIDE DEF N, old, new
  <2>8. \A j, k \in 1 .. N : j <= k => new[j] >= new[k]
    BY <2>1, <2>2, <2>3, <2>4, <2>5, <2>6, <2>7, LowerKeepsOrder, SMTT(60)
  <2> QED BY <2>8, <1>12 DEF Descending, N, new
<1>14. ASSUME NEW g \in S, g = l.list[i].file
       PROVE  CountOf(l, g) - 1 = c
  BY <1>3, <1>14 DEF CountOf, IndexOf, Listed
<1> QED BY <1>1, <1>11, <1>12, <1>13, <1>14

\* erase of the entry of f: those behind it move up, and the index with them.
LEMMA RemoveListed ==
    ASSUME NEW l, NEW S, Listed(l, S), Descending(l), NEW f \in S
    PROVE  /\ Listed(Remove(l, f), S \ {f})
           /\ Descending(Remove(l, f))
           /\ \A g \in S \ {f} : CountOf(Remove(l, f), g) = CountOf(l, g)
<1>1. /\ l.list \in Seq(Entry) /\ Len(l.list) \in Nat
      /\ S \subseteq DOMAIN l.index /\ \A g \in DOMAIN l.index \ S : l.index[g] = 1
      /\ \A g \in S : l.index[g] \in 1 .. Len(l.list) /\ l.list[l.index[g]].file = g
      /\ \A j \in 1 .. Len(l.list) : l.list[j].file \in S /\ l.index[l.list[j].file] = j
  BY ListedAgrees DEF Listed
<1>2. PICK i \in 1 .. Len(l.list) : i = l.index[f] /\ i = IndexOf(l, f)
  BY <1>1 DEF IndexOf
<1>3. PICK list : list = Erase(l.list, i)
  OBVIOUS
<1>4. /\ list \in Seq(Entry)
      /\ Len(list) = Len(l.list) - 1
      /\ \A j \in 1 .. Len(l.list) - 1 : list[j] = IF j < i THEN l.list[j] ELSE l.list[j + 1]
  BY <1>1, <1>3, EraseElements
<1> DEFINE Shifted(g) == {k \in i .. Len(list) : list[k].file = g}
<1>5. PICK m : m = Remove(l, f)
  OBVIOUS
<1>6. /\ m.list = list
      /\ m.index = [g \in DOMAIN l.index \ {f} |->
                       IF Shifted(g) = {} THEN l.index[g] ELSE CHOOSE k \in Shifted(g) : TRUE]
  BY <1>2, <1>3, <1>5 DEF Remove
<1>7. ASSUME NEW g \in S \ {f}
      PROVE  m.index[g] = IF l.index[g] < i THEN l.index[g] ELSE l.index[g] - 1
  <2>1. l.index[g] \in 1 .. Len(l.list) /\ l.index[g] # i /\ l.list[l.index[g]].file = g
    BY <1>1, <1>2
  <2>2. CASE l.index[g] < i
    <3>1. Shifted(g) = {}
      <4> SUFFICES ASSUME NEW k \in i .. Len(list), list[k].file = g PROVE FALSE
        OBVIOUS
      <4>1. k \in 1 .. Len(l.list) - 1 /\ ~ (k < i) /\ k + 1 \in 1 .. Len(l.list)
        BY <1>1, <1>4
      <4>2. list[k] = l.list[k + 1]
        BY <4>1, <1>4
      <4>3. l.index[g] = k + 1
        BY <4>1, <4>2, <1>1
      <4> QED BY <4>1, <4>3, <2>2, <1>1
    <3> QED BY <3>1, <2>2, <1>1, <1>6
  <2>3. CASE l.index[g] > i
    <3>1. l.index[g] - 1 \in i .. Len(list)
      BY <2>1, <2>3, <1>1, <1>4
    <3>2. list[l.index[g] - 1] = l.list[l.index[g]]
      BY <2>1, <2>3, <3>1, <1>1, <1>4
    <3>3. l.index[g] - 1 \in Shifted(g)
      BY <2>1, <3>1, <3>2
    <3>4. ASSUME NEW k \in Shifted(g) PROVE k = l.index[g] - 1
      <4>1. k + 1 \in 1 .. Len(l.list) /\ list[k] = l.list[k + 1] /\ k \in Int
        BY <1>1, <1>4
      <4>2. l.list[k + 1].file = g
        BY <4>1
      <4>3. l.index[g] = k + 1
        BY <4>1, <4>2, <1>1
      <4> QED BY <4>1, <4>3
    <3> HIDE DEF Shifted
    <3>5. m.index[g] \in Shifted(g)
      BY <3>3, <1>1, <1>6
    <3> QED BY <3>4, <3>5, <2>1, <2>3
  <2> QED BY <2>1, <2>2, <2>3
<1> HIDE DEF Shifted
<1>8. ASSUME NEW g \in S \ {f}
      PROVE  m.index[g] \in 1 .. Len(m.list) /\ m.list[m.index[g]] = l.list[l.index[g]]
  <2>1. l.index[g] \in 1 .. Len(l.list) /\ l.index[g] # i
    BY <1>1, <1>2
  <2>2. CASE l.index[g] < i
    <3>1. m.index[g] = l.index[g] /\ l.index[g] \in 1 .. Len(l.list) - 1
      BY <2>1, <2>2, <1>1, <1>7
    <3> QED BY <3>1, <2>2, <1>4, <1>6
  <2>3. CASE l.index[g] > i
    <3>1. m.index[g] = l.index[g] - 1 /\ l.index[g] - 1 \in 1 .. Len(l.list) - 1
      BY <2>1, <2>3, <1>1, <1>7
    <3>2. ~ (l.index[g] - 1 < i) /\ l.index[g] - 1 + 1 = l.index[g]
      BY <2>1, <2>3, <1>1
    <3> QED BY <3>1, <3>2, <1>4, <1>6
  <2> QED BY <2>1, <2>2, <2>3
<1>9. ASSUME NEW j \in 1 .. Len(m.list)
      PROVE  m.list[j].file \in S \ {f} /\ m.index[m.list[j].file] = j
  <2>1. j \in 1 .. Len(l.list) - 1
    BY <1>4, <1>6
  <2>2. CASE j < i
    <3>1. m.list[j] = l.list[j] /\ j \in 1 .. Len(l.list)
      BY <2>1, <2>2, <1>1, <1>4, <1>6
    <3>2. l.list[j].file \in S /\ l.index[l.list[j].file] = j
      BY <3>1, <1>1
    <3>3. j # i
      BY <2>1, <2>2, <1>1
    <3>4. l.index[f] = i
      BY <1>2
    <3>5. l.list[j].file # f
      BY <3>2, <3>3, <3>4
    <3> QED BY <3>1, <3>2, <3>5, <2>2, <1>7
  <2>3. CASE ~ (j < i)
    <3>1. m.list[j] = l.list[j + 1] /\ j + 1 \in 1 .. Len(l.list) /\ j + 1 # i
      BY <2>1, <2>3, <1>1, <1>4, <1>6
    <3>2. /\ l.list[j + 1].file \in S /\ l.index[l.list[j + 1].file] = j + 1
          /\ l.list[j + 1].file # f
      BY <3>1, <1>1, <1>2
    <3>3. ~ (j + 1 < i) /\ j + 1 - 1 = j
      BY <2>1, <2>3, <1>1
    <3> QED BY <3>1, <3>2, <3>3, <1>7
  <2> QED BY <2>2, <2>3
<1>10. Listed(m, S \ {f})
  <2>1. DOMAIN m.index = DOMAIN l.index \ {f} /\ S \ {f} \subseteq DOMAIN m.index
    BY <1>1, <1>6
  <2>2. ASSUME NEW g \in S \ {f} PROVE m.list[m.index[g]].file = g
    BY <1>1, <1>8
  <2>3. ASSUME NEW g \in DOMAIN m.index \ (S \ {f}) PROVE m.index[g] = 1
    <3>1. g \in DOMAIN l.index \ S /\ l.index[g] = 1
      BY <2>1, <2>3, <1>1
    <3>2. Shifted(g) = {}
      <4> SUFFICES ASSUME NEW k \in i .. Len(list), list[k].file = g PROVE FALSE
        BY DEF Shifted
      <4>1. k \in 1 .. Len(m.list) /\ m.list[k].file = g
        BY <1>1, <1>2, <1>4, <1>6
      <4> QED BY <4>1, <3>1, <1>9
    <3> QED BY <3>1, <3>2, <2>1, <1>6
  <2> QED BY <2>1, <2>2, <2>3, <1>4, <1>6, <1>8, <1>9 DEF Listed
<1>11. Descending(m)
  <2> SUFFICES ASSUME NEW j \in 1 .. Len(m.list), NEW k \in 1 .. Len(m.list), j <= k
               PROVE  m.list[j].count >= m.list[k].count
    BY DEF Descending
  <2> DEFINE old(x) == IF x < i THEN x ELSE x + 1
  <2>1. j \in 1 .. Len(l.list) - 1 /\ k \in 1 .. Len(l.list) - 1
    BY <1>4, <1>6
  <2>2. m.list[j] = l.list[old(j)] /\ m.list[k] = l.list[old(k)]
    BY <2>1, <1>4, <1>6
  <2>3. old(j) \in 1 .. Len(l.list) /\ old(k) \in 1 .. Len(l.list) /\ old(j) <= old(k)
    BY <2>1, <1>1
  <2> QED BY <2>2, <2>3 DEF Descending
<1>12. ASSUME NEW g \in S \ {f} PROVE CountOf(m, g) = CountOf(l, g)
  <2>1. g \in DOMAIN l.index /\ g \in DOMAIN m.index
    BY <1>1, <1>6
  <2> QED BY <2>1, <1>1, <1>8 DEF CountOf, IndexOf
<1> QED BY <1>5, <1>6, <1>10, <1>11, <1>12

(***************************************************************************)
(* The counts of the files, and how many of them are not zero.             *)
(***************************************************************************)
\* A listed file's count is in the entry at its place.
LEMMA CountOfListed ==
    ASSUME NEW l, NEW S, Listed(l, S), NEW f \in S
    PROVE  /\ IndexOf(l, f) \in 1 .. Len(l.list)
           /\ l.list[IndexOf(l, f)].file = f
           /\ CountOf(l, f) \in Nat
           /\ CountOf(l, f) = l.list[IndexOf(l, f)].count
<1>1. IndexOf(l, f) \in 1 .. Len(l.list) /\ l.list[IndexOf(l, f)].file = f
  BY DEF Listed, IndexOf
<1>2. l.list[IndexOf(l, f)] \in Entry
  BY <1>1, ListedAgrees
<1>3. l.list[IndexOf(l, f)].count \in Nat
  BY <1>2 DEF Entry
<1> QED BY <1>1, <1>3 DEF CountOf

\* The count read for any file is that of the file at the place it is given.
LEMMA CountOfAny ==
    ASSUME NEW l, NEW S, Listed(l, S), NEW f, IndexOf(l, f) \in 1 .. Len(l.list),
           NEW g, g = l.list[IndexOf(l, f)].file
    PROVE  g \in S /\ IndexOf(l, g) = IndexOf(l, f) /\ CountOf(l, g) = CountOf(l, f)
<1>1. g \in S /\ l.index[g] = IndexOf(l, f)
  BY DEF Listed
<1>2. IndexOf(l, g) = IndexOf(l, f)
  BY <1>1 DEF IndexOf, Listed
<1> QED BY <1>1, <1>2 DEF CountOf

\* The files of S with a count.
NonZero(l, S) == {f \in S : CountOf(l, f) > 0}

LEMMA FiniteNonZero ==
    ASSUME NEW l, NEW S, Listed(l, S)
    PROVE  IsFiniteSet(NonZero(l, S)) /\ Cardinality(NonZero(l, S)) \in Nat
<1>1. IsFiniteSet(S) /\ NonZero(l, S) \subseteq S
  BY ListedAgrees DEF NonZero
<1> QED BY <1>1, FS_Subset, FS_CardinalityType

\* In order of count, the entries with a count come first.
LEMMA NonZeroFirst ==
    ASSUME NEW l, NEW S, Listed(l, S), Descending(l)
    PROVE  \A i \in 1 .. Len(l.list) :
              (l.list[i].count > 0) <=> (i <= Cardinality(NonZero(l, S)))
<1> DEFINE P == {i \in 1 .. Len(l.list) : l.list[i].count > 0}
           place == [f \in NonZero(l, S) |-> l.index[f]]
<1>1. Len(l.list) \in Nat /\ \A i \in 1 .. Len(l.list) : l.list[i].count \in Nat
  <2>1. Len(l.list) \in Nat /\ \A i \in 1 .. Len(l.list) : l.list[i] \in Entry
    BY ListedAgrees
  <2> QED BY <2>1 DEF Entry
<1>2. \A f \in S : /\ l.index[f] \in 1 .. Len(l.list) /\ l.list[l.index[f]].file = f
                   /\ CountOf(l, f) = l.list[l.index[f]].count
  BY DEF Listed, CountOf, IndexOf
<1>3. \A i \in 1 .. Len(l.list) : l.list[i].file \in S /\ l.index[l.list[i].file] = i
  BY DEF Listed
<1>4. place \in Bijection(NonZero(l, S), P)
  <2>1. place \in [NonZero(l, S) -> P]
    BY <1>2 DEF NonZero
  <2>2. \A f, g \in NonZero(l, S) : place[f] = place[g] => f = g
    BY <1>2 DEF NonZero
  <2>3. ASSUME NEW i \in P PROVE \E f \in NonZero(l, S) : place[f] = i
    <3>1. l.list[i].file \in NonZero(l, S)
      BY <1>2, <1>3 DEF NonZero
    <3> QED BY <3>1, <1>3
  <2> QED BY <2>1, <2>2, <2>3 DEF Bijection, Injection, Surjection, IsInjective
<1>5. Cardinality(P) = Cardinality(NonZero(l, S))
  <2>1. ExistsBijection(NonZero(l, S), P)
    BY <1>4 DEF ExistsBijection
  <2> QED BY <2>1, FiniteNonZero, FS_Bijection
<1>6. ASSUME NEW i \in P, NEW j \in 1 .. i PROVE j \in P
  <2>1. i \in 1 .. Len(l.list) /\ j \in 1 .. Len(l.list) /\ j <= i
    BY <1>1
  <2>2. l.list[j].count >= l.list[i].count /\ l.list[i].count > 0
    BY <2>1 DEF Descending
  <2>3. l.list[j].count \in Nat /\ l.list[i].count \in Nat
    BY <1>1, <2>1
  <2> QED BY <2>1, <2>2, <2>3
<1>7. P \subseteq 1 .. Len(l.list)
  OBVIOUS
<1>8. \A i \in 1 .. Len(l.list) : (i \in P) <=> (l.list[i].count > 0)
  OBVIOUS
<1> HIDE DEF P
<1>9. P = 1 .. Cardinality(P) /\ Cardinality(P) \in 0 .. Len(l.list)
  BY <1>1, <1>6, <1>7, PrefixSet
<1> QED BY <1>1, <1>5, <1>8, <1>9

\* How the updates of a list change that number.
LEMMA NonZeroPushBack ==
    ASSUME NEW l, NEW S, Listed(l, S), Descending(l), NEW f \in File \ S
    PROVE  NonZero(PushBack(l, f), S \cup {f}) = NonZero(l, S)
<1>1. CountOf(PushBack(l, f), f) = 0
  <2> DEFINE e == [file |-> f, count |-> 0]
             m == PushBack(l, f)
  <2>1. m.list = Append(l.list, e) /\ IndexOf(m, f) = Len(l.list) + 1
    BY DEF PushBack, IndexOf, Add
  <2>2. l.list \in Seq(Entry) /\ e \in Entry
    BY DEF Listed, Entry
  <2>3. Append(l.list, e)[Len(l.list) + 1] = e
    BY <2>2, AppendProperties
  <2> QED BY <2>1, <2>3 DEF CountOf
<1>2. \A g \in S : CountOf(PushBack(l, f), g) = CountOf(l, g)
  BY PushBackListed
<1> QED BY <1>1, <1>2 DEF NonZero

LEMMA NonZeroRemove ==
    ASSUME NEW l, NEW S, Listed(l, S), Descending(l), NEW f \in S
    PROVE  Cardinality(NonZero(Remove(l, f), S \ {f})) =
              IF CountOf(l, f) > 0 THEN Cardinality(NonZero(l, S)) - 1
              ELSE Cardinality(NonZero(l, S))
<1>1. \A g \in S \ {f} : CountOf(Remove(l, f), g) = CountOf(l, g)
  BY RemoveListed
<1>2. NonZero(Remove(l, f), S \ {f}) = NonZero(l, S) \ {f}
  BY <1>1 DEF NonZero
<1>3. (CountOf(l, f) > 0) <=> f \in NonZero(l, S)
  BY DEF NonZero
<1> QED BY <1>2, <1>3, FiniteNonZero, FS_RemoveElement

LEMMA NonZeroIncrement ==
    ASSUME NEW l, NEW S, Listed(l, S), Descending(l), NEW f, IndexOf(l, f) \in 1 .. Len(l.list)
    PROVE  Cardinality(NonZero(Increment(l, f), S)) =
              IF CountOf(l, f) = 0 THEN Cardinality(NonZero(l, S)) + 1
              ELSE Cardinality(NonZero(l, S))
<1>1. PICK g : g = l.list[IndexOf(l, f)].file
  OBVIOUS
<1>2. g \in S /\ CountOf(l, g) = CountOf(l, f)
  BY <1>1, CountOfAny
<1>3. PICK m : m = Increment(l, f)
  OBVIOUS
<1>4. \A h \in S : CountOf(m, h) = IF h = g THEN CountOf(l, h) + 1 ELSE CountOf(l, h)
  BY <1>1, <1>3, IncrementListed
<1>5. \A h \in S : CountOf(l, h) \in Nat
  BY CountOfListed
<1>6. NonZero(m, S) = NonZero(l, S) \cup {g}
  BY <1>2, <1>4, <1>5 DEF NonZero
<1>7. (CountOf(l, f) = 0) <=> g \notin NonZero(l, S)
  BY <1>2, <1>5 DEF NonZero
<1> QED BY <1>3, <1>6, <1>7, FiniteNonZero, FS_AddElement

LEMMA NonZeroDecrement ==
    ASSUME NEW l, NEW S, Listed(l, S), Descending(l), NEW f \in S, CountOf(l, f) > 0
    PROVE  Cardinality(NonZero(Decrement(l, f), S)) =
              IF CountOf(l, f) = 1 THEN Cardinality(NonZero(l, S)) - 1
              ELSE Cardinality(NonZero(l, S))
<1>1. IndexOf(l, f) \in 1 .. Len(l.list) /\ l.list[IndexOf(l, f)].file = f
      /\ l.list[IndexOf(l, f)].count > 0
  BY CountOfListed
<1>2. PICK m : m = Decrement(l, f)
  OBVIOUS
<1>3. \A h \in S : CountOf(m, h) = IF h = f THEN CountOf(l, h) - 1 ELSE CountOf(l, h)
  BY <1>1, <1>2, DecrementListed
<1>4. \A h \in S : CountOf(l, h) \in Nat
  BY CountOfListed
<1>5. CASE CountOf(l, f) = 1
  <2>1. NonZero(m, S) = NonZero(l, S) \ {f} /\ f \in NonZero(l, S)
    BY <1>3, <1>4, <1>5 DEF NonZero
  <2> QED BY <1>2, <1>5, <2>1, FiniteNonZero, FS_RemoveElement
<1>6. CASE CountOf(l, f) # 1
  <2>1. NonZero(m, S) = NonZero(l, S)
    BY <1>3, <1>4, <1>6 DEF NonZero
  <2> QED BY <1>2, <1>6, <2>1
<1> QED BY <1>5, <1>6

(***************************************************************************)
(* The ratio tree.                                                         *)
(***************************************************************************)
\* The keys of the files with a count, under their present ratios.
Keys(tot, emp, S) == {RatioKey(tot, emp, f) : f \in NonZero(tot, S)}

\* Two pairs of lists with the same counts of the files of R.
Agree(tot, emp, newtot, newemp, R) ==
    \A g \in R : CountOf(newtot, g) = CountOf(tot, g) /\ CountOf(newemp, g) = CountOf(emp, g)

\* Counts of f that change leave the keys of the other files; the key of f is
\* erased under its old ratio.
LEMMA KeysErased ==
    ASSUME NEW tot, NEW emp, NEW newtot, NEW newemp, NEW S, NEW f,
           Agree(tot, emp, newtot, newemp, S \ {f})
    PROVE  /\ EraseKey(Keys(tot, emp, S), RatioKey(tot, emp, f)) = Keys(newtot, newemp, S \ {f})
           /\ f \notin NonZero(tot, S) => Keys(tot, emp, S) = Keys(newtot, newemp, S \ {f})
<1>1. NonZero(newtot, S \ {f}) = NonZero(tot, S) \ {f}
  BY DEF NonZero, Agree
<1>2. \A g \in S \ {f} : RatioKey(newtot, newemp, g) = RatioKey(tot, emp, g)
  BY DEF RatioKey, Agree
<1>3. NonZero(tot, S) \ {f} \subseteq S \ {f}
  BY DEF NonZero
<1> DEFINE others == {RatioKey(tot, emp, g) : g \in NonZero(tot, S) \ {f}}
<1>4. Keys(newtot, newemp, S \ {f}) = others
  <2>1. Keys(newtot, newemp, S \ {f})
           = {RatioKey(newtot, newemp, g) : g \in NonZero(tot, S) \ {f}}
    BY <1>1 DEF Keys
  <2> HIDE DEF Keys
  <2> QED BY <2>1, <1>2, <1>3
<1>5. EraseKey(Keys(tot, emp, S), RatioKey(tot, emp, f)) = others
  <2>1. \A g : SameKey(RatioKey(tot, emp, g), RatioKey(tot, emp, f)) <=> g = f
    BY DEF SameKey, RatioKey
  <2> QED BY <2>1 DEF EraseKey, Keys
<1>6. f \notin NonZero(tot, S) => Keys(tot, emp, S) = others
  BY DEF Keys
<1> QED BY <1>4, <1>5, <1>6

\* The key of a file with a count is inserted beside those of the others.
LEMMA KeysInserted ==
    ASSUME NEW tot, NEW emp, NEW S, NEW f
    PROVE  /\ f \in NonZero(tot, S) =>
                 InsertKey(Keys(tot, emp, S \ {f}), RatioKey(tot, emp, f)) = Keys(tot, emp, S)
           /\ f \notin NonZero(tot, S) => Keys(tot, emp, S \ {f}) = Keys(tot, emp, S)
<1>1. NonZero(tot, S \ {f}) = NonZero(tot, S) \ {f}
  BY DEF NonZero
<1>2. ASSUME f \in NonZero(tot, S)
      PROVE  InsertKey(Keys(tot, emp, S \ {f}), RatioKey(tot, emp, f)) = Keys(tot, emp, S)
  <2>1. \A k \in Keys(tot, emp, S \ {f}) : ~ SameKey(k, RatioKey(tot, emp, f))
    BY <1>1 DEF Keys, SameKey, RatioKey
  <2>2. InsertKey(Keys(tot, emp, S \ {f}), RatioKey(tot, emp, f))
           = Keys(tot, emp, S \ {f}) \cup {RatioKey(tot, emp, f)}
    BY <2>1 DEF InsertKey
  <2> QED BY <2>2, <1>1, <1>2 DEF Keys
<1>3. f \notin NonZero(tot, S) => Keys(tot, emp, S \ {f}) = Keys(tot, emp, S)
  BY <1>1 DEF Keys
<1> QED BY <1>2, <1>3

\* The tree of keys is finite, and has a key for every file with a count.
LEMMA KeysCounted ==
    ASSUME NEW tot, NEW emp, NEW S, Listed(tot, S), NEW tree, tree = Keys(tot, emp, S)
    PROVE  /\ IsFiniteSet(tree)
           /\ Cardinality(tree) = Cardinality(NonZero(tot, S))
           /\ \A f \in NonZero(tot, S) : RatioKey(tot, emp, f) \in tree
<1> DEFINE key == [f \in NonZero(tot, S) |-> RatioKey(tot, emp, f)]
<1>1. key \in Bijection(NonZero(tot, S), tree)
  <2>1. key \in [NonZero(tot, S) -> tree]
    BY DEF Keys
  <2>2. \A f, g \in NonZero(tot, S) : key[f] = key[g] => f = g
    BY DEF RatioKey
  <2>3. \A k \in tree : \E f \in NonZero(tot, S) : key[f] = k
    BY DEF Keys
  <2> QED BY <2>1, <2>2, <2>3 DEF Bijection, Injection, Surjection, IsInjective
<1>2. ExistsBijection(NonZero(tot, S), tree)
  BY <1>1 DEF ExistsBijection
<1>3. IsFiniteSet(tree) /\ Cardinality(tree) = Cardinality(NonZero(tot, S))
  BY <1>2, FiniteNonZero, FS_Bijection
<1> QED BY <1>3 DEF Keys

(***************************************************************************)
(* The counts of simulate_modular and simulate_optimal_modular, when S is  *)
(* the set of files they are of.                                           *)
(***************************************************************************)
ListsCounted(S) ==
    /\ Listed(total, S) /\ Descending(total)
    /\ Listed(empty, S) /\ Descending(empty)
    /\ empty_nonzero_count = Cardinality(NonZero(empty, S))

\* No file but those of S is in an index.
OnlyIndexed(S) == DOMAIN total.index \subseteq S /\ DOMAIN empty.index \subseteq S

TreeCounted(S) == ratio_tree = IF policy = "ratio" THEN Keys(total, empty, S) ELSE {}

EmptyWithin(S) == \A f \in S : EmptyCount(f) <= TotalCount(f)

\* At first no file is counted.
LEMMA NothingCounted ==
    FileCountsInit => ListsCounted({}) /\ TreeCounted({}) /\ EmptyWithin({})
<1> SUFFICES ASSUME FileCountsInit PROVE ListsCounted({}) /\ TreeCounted({}) /\ EmptyWithin({})
  OBVIOUS
<1>1. NonZero(NoAccesses, {}) = {}
  BY DEF NonZero
<1>2. ListsCounted({})
  BY <1>1, NothingListed, FS_EmptySet DEF ListsCounted, FileCountsInit
<1>3. TreeCounted({})
  BY <1>1 DEF TreeCounted, Keys, FileCountsInit
<1> QED BY <1>2, <1>3 DEF EmptyWithin

\* A file enters the counts, with no probe.
LEMMA CountFileKeeps ==
    ASSUME NEW S, ListsCounted(S), NEW f \in File \ S, CountFile(f)
    PROVE  /\ ListsCounted(S \cup {f})'
           /\ TreeCounted(S) => TreeCounted(S \cup {f})'
           /\ TotalCount(f)' = 0 /\ EmptyCount(f)' = 0
           /\ \A g \in S : TotalCount(g)' = TotalCount(g) /\ EmptyCount(g)' = EmptyCount(g)
<1> USE DEF TotalCount, EmptyCount
<1>1. /\ Listed(total', S \cup {f}) /\ Descending(total') /\ CountOf(total', f) = 0
      /\ \A g \in S : CountOf(total', g) = CountOf(total, g)
      /\ NonZero(total', S \cup {f}) = NonZero(total, S)
  BY PushBackListed, NonZeroPushBack DEF ListsCounted, CountFile
<1>2. /\ Listed(empty', S \cup {f}) /\ Descending(empty') /\ CountOf(empty', f) = 0
      /\ \A g \in S : CountOf(empty', g) = CountOf(empty, g)
      /\ NonZero(empty', S \cup {f}) = NonZero(empty, S)
  BY PushBackListed, NonZeroPushBack DEF ListsCounted, CountFile
<1>3. ListsCounted(S \cup {f})'
  BY <1>1, <1>2 DEF ListsCounted, CountFile
<1>4. Keys(total', empty', S \cup {f}) = Keys(total, empty, S)
  <2>1. \A g \in NonZero(total, S) : RatioKey(total', empty', g) = RatioKey(total, empty, g)
    BY <1>1, <1>2 DEF RatioKey, NonZero
  <2> QED BY <2>1, <1>1 DEF Keys
<1>5. TreeCounted(S) => TreeCounted(S \cup {f})'
  BY <1>4 DEF TreeCounted, CountFile
<1> QED BY <1>1, <1>2, <1>3, <1>5

\* A file leaves the counts, with its probes.
LEMMA UncountFileKeeps ==
    ASSUME NEW S, ListsCounted(S), NEW f \in S, UncountFile(f)
    PROVE  /\ ListsCounted(S \ {f})'
           /\ TreeCounted(S) => TreeCounted(S \ {f})'
           /\ \A g \in S \ {f} :
                 TotalCount(g)' = TotalCount(g) /\ EmptyCount(g)' = EmptyCount(g)
<1> USE DEF TotalCount, EmptyCount
<1>1. /\ Listed(total', S \ {f}) /\ Descending(total')
      /\ \A g \in S \ {f} : CountOf(total', g) = CountOf(total, g)
  BY RemoveListed DEF ListsCounted, UncountFile
<1>2. /\ Listed(empty', S \ {f}) /\ Descending(empty')
      /\ \A g \in S \ {f} : CountOf(empty', g) = CountOf(empty, g)
      /\ Cardinality(NonZero(empty', S \ {f})) =
            IF CountOf(empty, f) > 0 THEN Cardinality(NonZero(empty, S)) - 1
            ELSE Cardinality(NonZero(empty, S))
  BY RemoveListed, NonZeroRemove DEF ListsCounted, UncountFile
<1>3. ListsCounted(S \ {f})'
  BY <1>1, <1>2 DEF ListsCounted, UncountFile, NonZeroWithout
<1>4. ASSUME TreeCounted(S) PROVE TreeCounted(S \ {f})'
  <2>1. CASE policy = "ratio"
    <3>1. Agree(total, empty, total', empty', S \ {f})
      BY <1>1, <1>2 DEF Agree
    <3>2. /\ EraseKey(Keys(total, empty, S), RatioKey(total, empty, f))
                = Keys(total', empty', S \ {f})
          /\ f \notin NonZero(total, S) => Keys(total, empty, S) = Keys(total', empty', S \ {f})
      BY <3>1, KeysErased
    <3>3. (CountOf(total, f) > 0) <=> f \in NonZero(total, S)
      BY DEF NonZero
    <3>4. ratio_tree' = Keys(total', empty', S \ {f})
      BY <2>1, <3>2, <3>3, <1>4 DEF TreeCounted, UncountFile, ErasedIfCounted, Erased
    <3> QED BY <2>1, <3>4 DEF TreeCounted, UncountFile
  <2>2. CASE policy # "ratio"
    BY <2>2, <1>4 DEF TreeCounted, UncountFile, ErasedIfCounted, Erased
  <2> QED BY <2>1, <2>2
<1> QED BY <1>1, <1>2, <1>3, <1>4

\* A list of files gives every file a place.
LEMMA PlaceGiven ==
    ASSUME NEW k, NEW S, Listed(k, S), S # {}, NEW f
    PROVE  IndexOf(k, f) \in 1 .. Len(k.list) /\ (f \in S => k.list[IndexOf(k, f)].file = f)
<1>1. Len(k.list) \in Nat /\ Cardinality(S) = Len(k.list) /\ IsFiniteSet(S)
  BY ListedAgrees
<1>2. Len(k.list) # 0
  BY <1>1, FS_EmptySet
<1> QED BY <1>1, <1>2 DEF Listed, IndexOf

\* A probe is counted for the entries at the places given for its file, which
\* are those of the file if it is one of S.
LEMMA CountProbeLists ==
    ASSUME NEW S, ListsCounted(S), NEW f, NEW l, NEW not_found \in BOOLEAN,
           S # {}, CountProbe(f, l, not_found)
    PROVE  /\ ListsCounted(S)'
           /\ \A g \in S : /\ TotalCount(g)' \in {TotalCount(g), TotalCount(g) + 1}
                           /\ EmptyCount(g)' \in {EmptyCount(g), EmptyCount(g) + 1}
           /\ f \in S =>
                 \A g \in S :
                    /\ TotalCount(g)' = IF g = f THEN TotalCount(g) + 1 ELSE TotalCount(g)
                    /\ EmptyCount(g)' = IF g = f /\ not_found THEN EmptyCount(g) + 1
                                        ELSE EmptyCount(g)
<1> USE DEF TotalCount, EmptyCount
<1>1. ASSUME NEW k, Listed(k, S)
      PROVE  IndexOf(k, f) \in 1 .. Len(k.list) /\ (f \in S => k.list[IndexOf(k, f)].file = f)
  BY <1>1, PlaceGiven
<1>2. /\ Listed(total', S) /\ Descending(total')
      /\ \A g \in S : CountOf(total', g) =
            IF g = total.list[IndexOf(total, f)].file THEN CountOf(total, g) + 1
            ELSE CountOf(total, g)
  BY <1>1, IncrementListed DEF ListsCounted, CountProbe
<1>3. CASE not_found
  <2>1. /\ Listed(empty', S) /\ Descending(empty')
        /\ \A g \in S : CountOf(empty', g) =
              IF g = empty.list[IndexOf(empty, f)].file THEN CountOf(empty, g) + 1
              ELSE CountOf(empty, g)
        /\ Cardinality(NonZero(empty', S)) =
              IF CountOf(empty, f) = 0 THEN Cardinality(NonZero(empty, S)) + 1
              ELSE Cardinality(NonZero(empty, S))
    BY <1>1, <1>3, IncrementListed, NonZeroIncrement DEF ListsCounted, CountProbe
  <2>2. ListsCounted(S)'
    BY <1>2, <1>3, <2>1 DEF ListsCounted, CountProbe
  <2> QED BY <1>1, <1>2, <1>3, <2>1, <2>2 DEF ListsCounted
<1>4. CASE ~ not_found
  <2>1. empty' \in {empty, LookedUp(empty, f)} /\ empty_nonzero_count' = empty_nonzero_count
    BY <1>4 DEF CountProbe
  <2>2. /\ Listed(empty', S) /\ Descending(empty')
        /\ \A g \in S : CountOf(empty', g) = CountOf(empty, g)
    BY <2>1, LookedUpListed DEF ListsCounted
  <2>3. NonZero(empty', S) = NonZero(empty, S)
    BY <2>2 DEF NonZero
  <2>4. ListsCounted(S)'
    BY <1>2, <2>1, <2>2, <2>3 DEF ListsCounted
  <2> QED BY <1>1, <1>2, <1>4, <2>2, <2>4 DEF ListsCounted
<1> QED BY <1>3, <1>4

\* A probe leaves the counts of its file.
LEMMA UncountProbeLists ==
    ASSUME NEW S, ListsCounted(S), NEW f \in S, NEW l, NEW not_found \in BOOLEAN,
           TotalCount(f) > 0, not_found => EmptyCount(f) > 0, UncountProbe(f, l, not_found)
    PROVE  /\ ListsCounted(S)'
           /\ \A g \in S :
                 /\ TotalCount(g)' = IF g = f THEN TotalCount(g) - 1 ELSE TotalCount(g)
                 /\ EmptyCount(g)' = IF g = f /\ not_found THEN EmptyCount(g) - 1
                                     ELSE EmptyCount(g)
<1> USE DEF TotalCount, EmptyCount
<1>1. ASSUME NEW k, Listed(k, S), CountOf(k, f) > 0
      PROVE  /\ IndexOf(k, f) \in 1 .. Len(k.list) /\ k.list[IndexOf(k, f)].file = f
             /\ k.list[IndexOf(k, f)].count > 0
  BY <1>1, CountOfListed
<1>2. /\ Listed(total', S) /\ Descending(total')
      /\ \A g \in S : CountOf(total', g) = IF g = f THEN CountOf(total, g) - 1
                                           ELSE CountOf(total, g)
  <2>1. /\ IndexOf(total, f) \in 1 .. Len(total.list) /\ total.list[IndexOf(total, f)].file = f
        /\ total.list[IndexOf(total, f)].count > 0
    BY <1>1 DEF ListsCounted
  <2> QED BY <2>1, DecrementListed DEF ListsCounted, UncountProbe
<1>3. CASE not_found
  <2>1. /\ IndexOf(empty, f) \in 1 .. Len(empty.list) /\ empty.list[IndexOf(empty, f)].file = f
        /\ empty.list[IndexOf(empty, f)].count > 0 /\ CountOf(empty, f) > 0
    BY <1>1, <1>3 DEF ListsCounted
  <2>2. /\ Listed(empty', S) /\ Descending(empty')
        /\ \A g \in S : CountOf(empty', g) = IF g = f THEN CountOf(empty, g) - 1
                                             ELSE CountOf(empty, g)
        /\ Cardinality(NonZero(empty', S)) =
              IF CountOf(empty, f) = 1 THEN Cardinality(NonZero(empty, S)) - 1
              ELSE Cardinality(NonZero(empty, S))
    BY <2>1, <1>3, DecrementListed, NonZeroDecrement DEF ListsCounted, UncountProbe
  <2>3. ListsCounted(S)'
    BY <1>2, <1>3, <2>2 DEF ListsCounted, UncountProbe
  <2> QED BY <1>2, <1>3, <2>2, <2>3
<1>4. CASE ~ not_found
  <2>1. empty' \in {empty, LookedUp(empty, f)} /\ empty_nonzero_count' = empty_nonzero_count
    BY <1>4 DEF UncountProbe
  <2>2. /\ Listed(empty', S) /\ Descending(empty')
        /\ \A g \in S : CountOf(empty', g) = CountOf(empty, g)
    BY <2>1, LookedUpListed DEF ListsCounted
  <2>3. NonZero(empty', S) = NonZero(empty, S)
    BY <2>2 DEF NonZero
  <2>4. ListsCounted(S)'
    BY <1>2, <2>1, <2>2, <2>3 DEF ListsCounted
  <2> QED BY <1>2, <1>4, <2>2, <2>4
<1> QED BY <1>3, <1>4

\* What each update adds to the indexes: its file, but UncountFile takes it away.
LEMMA IndexesKept ==
    ASSUME NEW S, ListsCounted(S), S # {}, NEW T, OnlyIndexed(T), NEW f, NEW l,
           NEW not_found \in BOOLEAN
    PROVE  /\ CountProbe(f, l, not_found) => OnlyIndexed(T \cup {f})'
           /\ f \in S /\ TotalCount(f) > 0 /\ (not_found => EmptyCount(f) > 0)
                 /\ UncountProbe(f, l, not_found) => OnlyIndexed(T \cup {f})'
<1>1. DOMAIN LookedUp(empty, f).index \subseteq T \cup {f}
  <2>1. DOMAIN LookedUp(empty, f).index = DOMAIN empty.index \cup {f}
    BY LookedUpListed DEF ListsCounted
  <2> QED BY <2>1 DEF OnlyIndexed
<1>2. ASSUME CountProbe(f, l, not_found) PROVE OnlyIndexed(T \cup {f})'
  <2>1. ASSUME NEW k \in {total, empty}
        PROVE  DOMAIN Increment(k, f).index \subseteq T \cup {f}
    <3>1. Listed(k, S) /\ Descending(k) /\ DOMAIN k.index \subseteq T
      BY <2>1 DEF ListsCounted, OnlyIndexed
    <3>2. IndexOf(k, f) \in 1 .. Len(k.list)
      BY <3>1, PlaceGiven
    <3>3. DOMAIN Increment(k, f).index = DOMAIN k.index \cup {f}
      BY <3>1, <3>2, IncrementListed
    <3> QED BY <3>1, <3>3
  <2>2. total' = Increment(total, f) /\ empty' \in {Increment(empty, f), LookedUp(empty, f), empty}
    BY <1>2 DEF CountProbe
  <2>3. DOMAIN total'.index \subseteq T \cup {f}
    BY <2>1, <2>2
  <2>4. DOMAIN empty'.index \subseteq T \cup {f}
    BY <1>1, <2>1, <2>2 DEF OnlyIndexed
  <2> QED BY <2>3, <2>4 DEF OnlyIndexed
<1>3. ASSUME f \in S, TotalCount(f) > 0, not_found => EmptyCount(f) > 0,
             UncountProbe(f, l, not_found)
      PROVE  OnlyIndexed(T \cup {f})'
  <2>1. ASSUME NEW k \in {total, empty}, CountOf(k, f) > 0
        PROVE  DOMAIN Decrement(k, f).index \subseteq T \cup {f}
    <3>1. Listed(k, S) /\ Descending(k) /\ DOMAIN k.index \subseteq T
      BY <2>1 DEF ListsCounted, OnlyIndexed
    <3>2. IndexOf(k, f) \in 1 .. Len(k.list) /\ k.list[IndexOf(k, f)].count > 0
      BY <1>3, <2>1, <3>1, CountOfListed
    <3>3. DOMAIN Decrement(k, f).index = DOMAIN k.index \cup {f}
      BY <3>1, <3>2, DecrementListed
    <3> QED BY <3>1, <3>3
  <2>2. /\ total' = Decrement(total, f)
        /\ not_found => empty' = Decrement(empty, f)
        /\ ~ not_found => empty' \in {LookedUp(empty, f), empty}
    BY <1>3 DEF UncountProbe
  <2>3. DOMAIN total'.index \subseteq T \cup {f}
    BY <1>3, <2>1, <2>2 DEF TotalCount
  <2>4. DOMAIN empty'.index \subseteq T \cup {f}
    BY <1>1, <1>3, <2>1, <2>2 DEF OnlyIndexed, EmptyCount
  <2> QED BY <2>3, <2>4 DEF OnlyIndexed
<1> QED BY <1>2, <1>3

LEMMA FileIndexes ==
    ASSUME NEW T, OnlyIndexed(T), NEW f
    PROVE  /\ CountFile(f) => OnlyIndexed(T \cup {f})'
           /\ UncountFile(f) => OnlyIndexed(T \ {f})'
<1>1. \A l : /\ DOMAIN PushBack(l, f).index = DOMAIN l.index \cup {f}
             /\ DOMAIN Remove(l, f).index = DOMAIN l.index \ {f}
  BY DEF PushBack, Remove, Add
<1>2. ASSUME CountFile(f) PROVE OnlyIndexed(T \cup {f})'
  <2>1. total' = PushBack(total, f) /\ empty' = PushBack(empty, f)
    BY <1>2 DEF CountFile
  <2> QED BY <1>1, <2>1 DEF OnlyIndexed
<1>3. ASSUME UncountFile(f) PROVE OnlyIndexed(T \ {f})'
  <2>1. total' = Remove(total, f) /\ empty' = Remove(empty, f)
    BY <1>3 DEF UncountFile
  <2> QED BY <1>1, <2>1 DEF OnlyIndexed
<1> QED BY <1>2, <1>3

\* The tree around a probe of a file that is counted: its key under the old
\* ratio gives way to one under the new ratio, if it still has a probe.
LEMMA CountProbeTree ==
    ASSUME NEW S, ListsCounted(S), TreeCounted(S), NEW f \in S, NEW l,
           NEW not_found \in BOOLEAN, CountProbe(f, l, not_found)
    PROVE  TreeCounted(S)'
<1> USE DEF TotalCount, EmptyCount
<1>1. \A g \in S :
         /\ CountOf(total', g) = IF g = f THEN CountOf(total, g) + 1 ELSE CountOf(total, g)
         /\ CountOf(empty', g) = IF g = f /\ not_found THEN CountOf(empty, g) + 1
                                 ELSE CountOf(empty, g)
  BY CountProbeLists
<1>2. CountOf(total, f) \in Nat
  BY CountOfListed DEF ListsCounted
<1>3. Agree(total, empty, total', empty', S \ {f})
  BY <1>1 DEF Agree
<1>4. f \in NonZero(total', S)
  BY <1>1, <1>2 DEF NonZero
<1>5. (CountOf(total, f) > 0) <=> f \in NonZero(total, S)
  BY DEF NonZero
<1>6. policy' = policy /\ ratio_tree' = Inserted(ErasedIfCounted(f), f)
  BY DEF CountProbe
<1>7. CASE policy = "ratio"
  <2>0. /\ EraseKey(ratio_tree, RatioKey(total, empty, f)) = Keys(total', empty', S \ {f})
        /\ f \notin NonZero(total, S) => ratio_tree = Keys(total', empty', S \ {f})
    BY <1>3, <1>7, KeysErased DEF TreeCounted
  <2>1. ErasedIfCounted(f) = Keys(total', empty', S \ {f})
    BY <1>5, <1>7, <2>0 DEF ErasedIfCounted, Erased
  <2>2. ratio_tree' = Keys(total', empty', S)
    BY <1>4, <1>6, <1>7, <2>1, KeysInserted DEF Inserted
  <2> QED BY <1>6, <1>7, <2>2 DEF TreeCounted
<1>8. CASE policy # "ratio"
  BY <1>6, <1>8 DEF TreeCounted, ErasedIfCounted, Erased, Inserted
<1> QED BY <1>7, <1>8

LEMMA UncountProbeTree ==
    ASSUME NEW S, ListsCounted(S), TreeCounted(S), NEW f \in S, NEW l,
           NEW not_found \in BOOLEAN, TotalCount(f) > 0, not_found => EmptyCount(f) > 0,
           UncountProbe(f, l, not_found)
    PROVE  TreeCounted(S)'
<1> USE DEF TotalCount, EmptyCount
<1>1. \A g \in S :
         /\ CountOf(total', g) = IF g = f THEN CountOf(total, g) - 1 ELSE CountOf(total, g)
         /\ CountOf(empty', g) = IF g = f /\ not_found THEN CountOf(empty, g) - 1
                                 ELSE CountOf(empty, g)
  BY UncountProbeLists
<1>2. CountOf(total, f) \in Nat
  BY CountOfListed DEF ListsCounted
<1>3. Agree(total, empty, total', empty', S \ {f})
  BY <1>1 DEF Agree
<1>4. (CountOf(total, f) > 1) <=> f \in NonZero(total', S)
  BY <1>1, <1>2 DEF NonZero
<1>5. /\ policy' = policy
      /\ ratio_tree' = IF CountOf(total, f) > 1 THEN Inserted(Erased(f), f) ELSE Erased(f)
  BY DEF UncountProbe
<1>6. CASE policy = "ratio"
  <2>1. Erased(f) = Keys(total', empty', S \ {f})
    BY <1>3, <1>6, KeysErased DEF Erased, TreeCounted
  <2>2. CASE CountOf(total, f) > 1
    <3>1. InsertKey(Keys(total', empty', S \ {f}), RatioKey(total', empty', f))
             = Keys(total', empty', S)
      BY <1>4, <2>2, KeysInserted
    <3>2. ratio_tree' = Keys(total', empty', S)
      BY <1>5, <1>6, <2>1, <2>2, <3>1 DEF Inserted
    <3> QED BY <1>5, <1>6, <3>2 DEF TreeCounted
  <2>3. CASE ~ (CountOf(total, f) > 1)
    <3>0. f \notin NonZero(total', S)
      BY <1>4, <2>3
    <3>1. Keys(total', empty', S \ {f}) = Keys(total', empty', S)
      BY <3>0, KeysInserted
    <3>2. ratio_tree' = Keys(total', empty', S)
      BY <1>5, <2>1, <2>3, <3>1
    <3> QED BY <1>5, <1>6, <3>2 DEF TreeCounted
  <2> QED BY <2>2, <2>3
<1>7. CASE policy # "ratio"
  BY <1>5, <1>7 DEF TreeCounted, Erased, Inserted
<1> QED BY <1>6, <1>7

\* What the comments on the declarations say follows.
LEMMA PlacedWhenCounted ==
    ASSUME NEW S, ListsCounted(S), NEW l \in {total, empty}
    PROVE  Descending(l) /\ WellPlaced(l) /\ Files(l) = S /\ (DOMAIN l.index = S => IndexAgrees(l))
<1>1. Listed(l, S) /\ Descending(l)
  BY DEF ListsCounted
<1> QED BY <1>1, ListedAgrees

LEMMA IndexedWhenCounted ==
    ASSUME NEW S, ListsCounted(S), OnlyIndexed(S)
    PROVE  Indexed /\ Files(total) = S /\ Files(empty) = S
<1>1. DOMAIN total.index = S /\ DOMAIN empty.index = S
  BY DEF OnlyIndexed, ListsCounted, Listed
<1> QED BY <1>1, PlacedWhenCounted DEF Indexed

LEMMA PrefixWhenCounted ==
    ASSUME NEW S, ListsCounted(S)
    PROVE  PrefixNonZero
BY NonZeroFirst DEF ListsCounted, PrefixNonZero

LEMMA TreeWhenCounted ==
    ASSUME NEW S, ListsCounted(S), TreeCounted(S)
    PROVE  TreeMatches
<1>1. Listed(total, S) /\ Files(total) = S
  BY ListedAgrees DEF ListsCounted
<1>2. {f \in Files(total) : TotalCount(f) > 0} = NonZero(total, S)
  BY <1>1 DEF NonZero, TotalCount
<1>3. ASSUME policy = "ratio"
      PROVE  /\ Cardinality(ratio_tree) = Cardinality(NonZero(total, S))
             /\ \A f \in NonZero(total, S) : RatioKey(total, empty, f) \in ratio_tree
  BY <1>1, <1>3, KeysCounted DEF TreeCounted
<1>4. \A f : SameKey(RatioKey(total, empty, f), RatioKey(total, empty, f))
  BY DEF SameKey
<1> QED BY <1>2, <1>3, <1>4 DEF TreeMatches

\* A file with an empty probe finds a key in the tree: its own.
LEMMA TreeNotEmpty ==
    ASSUME NEW S, ListsCounted(S), TreeCounted(S), EmptyWithin(S)
    PROVE  /\ IsFiniteSet(ratio_tree)
           /\ \A f \in S : policy = "ratio" /\ EmptyCount(f) > 0 => ratio_tree # {}
<1>1. Listed(total, S) /\ Listed(empty, S)
  BY DEF ListsCounted
<1>2. IsFiniteSet(ratio_tree)
  <2>1. IsFiniteSet(Keys(total, empty, S))
    BY <1>1, KeysCounted
  <2> QED BY <2>1, FS_EmptySet DEF TreeCounted
<1>3. ASSUME NEW f \in S, policy = "ratio", EmptyCount(f) > 0 PROVE ratio_tree # {}
  <2>1. TotalCount(f) \in Nat /\ EmptyCount(f) \in Nat /\ EmptyCount(f) <= TotalCount(f)
    BY <1>1, CountOfListed DEF TotalCount, EmptyCount, EmptyWithin
  <2>2. f \in NonZero(total, S)
    BY <2>1, <1>3 DEF NonZero, TotalCount
  <2>3. RatioKey(total, empty, f) \in Keys(total, empty, S)
    BY <2>2 DEF Keys
  <2> QED BY <2>3, <1>3 DEF TreeCounted
<1> QED BY <1>2, <1>3

(***************************************************************************)
(* The modules a probe may use are a number of modules, by every policy.   *)
(***************************************************************************)
LEMMA Quotient ==
    ASSUME NEW a \in Nat, NEW d \in Nat \ {0}
    PROVE  a \div d \in Nat
OBVIOUS

LEMMA ShareIsCount ==
    ASSUME NEW f \in File, NEW lower \in Nat, NEW higher \in Nat, higher + lower > 0
    PROVE  Share(f, lower, higher) \in 0 .. TotalModules[f]
<1>1. TotalModules[f] \in Nat
  BY FileCountsAssumption
<1>2. PICK d \in Nat \ {0} : d = higher + lower
  OBVIOUS
<1>3. PICK t \in Nat : t = 2 * TotalModules[f] * lower
  <2>1. \A a, b \in Nat : 2 * a * b \in Nat
    OBVIOUS
  <2> QED BY <1>1, <2>1
<1>4. (t + d) \div (2 * d) \in Nat
  <2>1. t + d \in Nat /\ 2 * d \in Nat \ {0}
    BY <1>2, <1>3
  <2> QED BY <2>1, Quotient
<1> QED BY <1>1, <1>2, <1>3, <1>4 DEF Share

LEMMA LimitsWithin ==
    ASSUME NEW S, ListsCounted(S), NEW f \in S, NEW lookups
    PROVE  /\ f \in File
           /\ CostModelLimit(f, lookups) \in 0 .. TotalModules[f]
           /\ PercentileLimit(f) \in 0 .. TotalModules[f]
<1>1. f \in File
  <2>1. total.list[IndexOf(total, f)] \in Entry /\ total.list[IndexOf(total, f)].file = f
    BY CountOfListed, ListedAgrees DEF ListsCounted
  <2> QED BY <2>1 DEF Entry
<1>2. TotalModules[f] \in Nat
  BY <1>1, FileCountsAssumption
<1>3. CostModelLimit(f, lookups) \in 0 .. TotalModules[f]
  <2> DEFINE U == {n \in 1 .. TotalModules[f] : \A i \in 1 .. n : Useful(f, lookups, i)}
  <2>1. IsFiniteSet(1 .. TotalModules[f]) /\ U \subseteq 1 .. TotalModules[f]
    BY <1>2, FS_Interval
  <2>2. Cardinality(U) \in 0 .. TotalModules[f]
    <3>1. Cardinality(1 .. TotalModules[f]) = TotalModules[f]
      BY <1>2, FirstNumbers
    <3>2. Cardinality(U) \in Nat /\ Cardinality(U) <= Cardinality(1 .. TotalModules[f])
      BY <2>1, FS_Subset, FS_CardinalityType
    <3> QED BY <1>2, <3>1, <3>2
  <2> QED BY <1>2, <2>2 DEF CostModelLimit
<1>4. PercentileLimit(f) \in 0 .. TotalModules[f]
  <2>1. CASE EmptyCount(f) = 0
    BY <1>2, <2>1 DEF PercentileLimit
  <2>2. CASE EmptyCount(f) # 0
    <3> DEFINE i == IndexOf(empty, f)
    <3>1. i \in 1 .. Len(empty.list) /\ empty.list[i].count > 0 /\ Len(empty.list) \in Nat
      BY <2>2, CountOfListed, ListedAgrees DEF ListsCounted, EmptyCount
    <3>2. empty_nonzero_count \in Nat
      BY FiniteNonZero DEF ListsCounted
    <3>3. i <= empty_nonzero_count
      BY <3>1, PrefixWhenCounted DEF PrefixNonZero
    <3> HIDE DEF i
    <3>4. empty_nonzero_count - (i - 1) \in Nat /\ i - 1 \in Nat
          /\ (i - 1) + (empty_nonzero_count - (i - 1)) > 0
      BY <3>1, <3>2, <3>3
    <3>5. Share(f, empty_nonzero_count - (i - 1), i - 1) \in 0 .. TotalModules[f]
      BY <1>1, <3>4, ShareIsCount
    <3> QED BY <1>2, <2>2, <3>5 DEF PercentileLimit, i
  <2> QED BY <2>1, <2>2
<1> QED BY <1>1, <1>3, <1>4

LEMMA LimitIsCount ==
    ASSUME NEW S, ListsCounted(S), NEW f \in S, NEW lookups,
           IsFiniteSet(ratio_tree),
           policy = "ratio" /\ EmptyCount(f) > 0 => ratio_tree # {},
           NEW fraction \in Fraction, NEW workload \in Fraction
    PROVE  f \in File /\ Limit(f, lookups, fraction, workload) \in Nat
<1>1. f \in File /\ CostModelLimit(f, lookups) \in 0 .. TotalModules[f]
      /\ PercentileLimit(f) \in 0 .. TotalModules[f]
  BY LimitsWithin
<1>2. TotalModules[f] \in Nat
  BY <1>1, FileCountsAssumption
<1>3. CostModelLimit(f, lookups) \in Nat
  BY <1>1, <1>2
<1>4. PercentileLimit(f) \in Nat
  BY <1>1, <1>2
<1>5. policy = "ratio" => RatioLimit(f, fraction) \in Nat
  <2>1. CASE EmptyCount(f) = 0
    BY <2>1 DEF RatioLimit
  <2>2. CASE EmptyCount(f) # 0 /\ policy = "ratio"
    <3> DEFINE lower == OrderOfRatio(ratio_tree, RatioKey(total, empty, f))
               all == Cardinality(ratio_tree)
    <3>1. EmptyCount(f) > 0
      BY <2>2, CountOfListed DEF ListsCounted, EmptyCount
    <3>2. all \in Nat /\ all > 0
      BY <2>2, <3>1, FS_CardinalityType, FS_EmptySet
    <3>3. lower \in Nat /\ lower <= all
      <4>1. {k \in ratio_tree : LessOrEqual(k, RatioKey(total, empty, f))} \subseteq ratio_tree
        OBVIOUS
      <4> QED BY <4>1, FS_Subset, FS_CardinalityType DEF OrderOfRatio
    <3> HIDE DEF lower, all
    <3>4. all - lower \in Nat /\ (all - lower) + lower > 0
      BY <3>2, <3>3
    <3>5. PICK n \in Nat : n = Share(f, lower, all - lower)
      BY <1>1, <1>2, <3>3, <3>4, ShareIsCount
    <3>6. fraction.num \in Nat /\ fraction.den \in Nat \ {0}
      BY DEF Fraction
    <3>7. fraction.num * n \in Nat
      <4>1. \A a, b \in Nat : a * b \in Nat
        OBVIOUS
      <4> QED BY <3>5, <3>6, <4>1
    <3>8. (fraction.num * n) \div fraction.den \in Nat
      BY <3>6, <3>7, Quotient
    <3> QED BY <2>2, <3>5, <3>8 DEF RatioLimit, lower, all
  <2> QED BY <2>1, <2>2
<1>6. WorkloadLimit(f, workload) \in Nat
  <2>1. workload.num \in Nat /\ workload.den \in Nat \ {0}
    BY DEF Fraction
  <2>2. workload.num * TotalModules[f] \in Nat
    <3>1. \A a, b \in Nat : a * b \in Nat
      OBVIOUS
    <3> QED BY <1>2, <2>1, <3>1
  <2>3. workload.num * TotalModules[f] + workload.den - 1 \in Nat
    BY <2>1, <2>2
  <2>4. (workload.num * TotalModules[f] + workload.den - 1) \div workload.den \in Nat
    BY <2>1, <2>3, Quotient
  <2> QED BY <1>2, <2>4 DEF WorkloadLimit
<1> QED BY <1>1, <1>2, <1>3, <1>4, <1>5, <1>6 DEF Limit

(***************************************************************************)
(* A file with more empty probes gets no fewer modules.                    *)
(***************************************************************************)
LEMMA ProductRises ==
    ASSUME NEW a \in Nat, NEW b \in Nat, NEW c \in Nat, a <= b
    PROVE  a * c \in Nat /\ b * c \in Nat /\ a * c <= b * c /\ c * a <= c * b
<1>1. PICK k \in Nat : b = a + k
  <2>1. b - a \in Nat /\ b = a + (b - a)
    OBVIOUS
  <2> QED BY <2>1
<1>2. k * c \in Nat /\ a * c \in Nat /\ b * c = a * c + k * c /\ c * a = a * c /\ c * b = b * c
  BY <1>1
<1> QED BY <1>2

LEMMA QuotientRises ==
    ASSUME NEW a \in Nat, NEW b \in Nat, NEW c \in Nat \ {0}, a <= b
    PROVE  a \div c \in Nat /\ a \div c <= b \div c
OBVIOUS

LEMMA QuotientWithin ==
    ASSUME NEW a \in Nat, NEW c \in Nat \ {0}, NEW m \in Nat, a <= m * c
    PROVE  a \div c <= m
<1>1. PICK q, r : q = a \div c /\ r = a % c
  OBVIOUS
<1>2. q \in Nat /\ r \in 0 .. c - 1 /\ a = c * q + r
  BY <1>1
<1>3. ASSUME m < q PROVE FALSE
  <2>1. (m + 1) * c <= q * c
    BY <1>2, <1>3, ProductRises
  <2>2. (m + 1) * c = m * c + c /\ q * c = c * q /\ m * c \in Nat /\ c * q \in Nat
    BY <1>2
  <2> QED BY <1>2, <2>1, <2>2
<1> QED BY <1>1, <1>2, <1>3

LEMMA PowerIsNat ==
    ASSUME NEW x \in Nat, NEW n \in Nat
    PROVE  Power(x, n) \in Nat
<1>1. PICK g : g = [v \in Nat |-> x * v]
  OBVIOUS
<1>2. g \in [Nat -> Nat]
  BY <1>1
<1>3. 1 \in Nat
  OBVIOUS
<1>4. PICK e : Iterates(Nat, 1, g, n, e)
  BY <1>2, <1>3, IteratesExist
<1>5. e = [i \in 0 .. n |-> IF i = 0 THEN 1 ELSE x * e[i - 1]]
  <2>1. e \in [0 .. n -> Nat] /\ e[0] = 1 /\ \A i \in 1 .. n : e[i] = g[e[i - 1]]
    BY <1>4 DEF Iterates
  <2>2. \A i \in 1 .. n : i - 1 \in 0 .. n
    OBVIOUS
  <2>3. \A i \in 1 .. n : e[i] = x * e[i - 1]
    BY <1>1, <2>1, <2>2
  <2>4. \A i \in 0 .. n : e[i] = IF i = 0 THEN 1 ELSE x * e[i - 1]
    BY <2>1, <2>3
  <2> QED BY <2>1, <2>4
<1>6. PICK p : p = CHOOSE d : d = [i \in 0 .. n |-> IF i = 0 THEN 1 ELSE x * d[i - 1]]
  OBVIOUS
<1>7. p = [i \in 0 .. n |-> IF i = 0 THEN 1 ELSE x * p[i - 1]]
  BY <1>5, <1>6
<1>8. Power(x, n) = p[n]
  BY <1>6 DEF Power
<1> DEFINE T == {i \in 0 .. n : p[i] \in Nat}
<1>9. \A i \in 0 .. n : p[i] = IF i = 0 THEN 1 ELSE x * p[i - 1]
  BY <1>7
<1>10. 0 \in T
  BY <1>9
<1>11. ASSUME NEW i \in 0 .. n - 1, i \in T PROVE i + 1 \in T
  <2>1. i + 1 \in 0 .. n /\ i + 1 # 0 /\ i + 1 - 1 = i
    OBVIOUS
  <2>2. p[i + 1] = x * p[i] /\ p[i] \in Nat
    BY <1>9, <1>11, <2>1
  <2>3. x * p[i] \in Nat
    BY <2>2
  <2> QED BY <2>1, <2>2, <2>3
<1>12. n \in T
  <2> HIDE DEF T
  <2>1. 0 .. n \subseteq T
    BY <1>10, <1>11, Upwards
  <2> QED BY <2>1
<1> QED BY <1>8, <1>12

\* Of n files, the more rank no higher the greater the share.
LEMMA ShareRises ==
    ASSUME NEW f \in File, NEW g \in File, TotalModules[f] = TotalModules[g],
           NEW n \in Nat \ {0}, NEW lo \in 0 .. n, NEW hi \in 0 .. n, lo <= hi
    PROVE  /\ Share(f, hi, n - hi) \in 0 .. TotalModules[f]
           /\ Share(g, lo, n - lo) \in 0 .. TotalModules[f]
           /\ Share(g, lo, n - lo) <= Share(f, hi, n - hi)
<1>1. PICK m \in Nat : m = TotalModules[f] /\ m = TotalModules[g]
  BY FileCountsAssumption
<1>2. PICK a, b : a = 2 * m * lo /\ b = 2 * m * hi
  OBVIOUS
<1>3. a \in Nat /\ b \in Nat /\ a <= b
  <2>1. 2 * m \in Nat /\ lo \in Nat /\ hi \in Nat
    OBVIOUS
  <2>2. lo * (2 * m) \in Nat /\ hi * (2 * m) \in Nat /\ (2 * m) * lo <= (2 * m) * hi
    BY <2>1, ProductRises
  <2>3. (2 * m) * lo = lo * (2 * m) /\ (2 * m) * hi = hi * (2 * m)
    OBVIOUS
  <2> QED BY <1>2, <2>2, <2>3
<1>4. (n - lo) + lo = n /\ (n - hi) + hi = n /\ 2 * n \in Nat \ {0}
  OBVIOUS
<1>5. PICK q, r : q = (a + n) \div (2 * n) /\ r = (b + n) \div (2 * n)
  OBVIOUS
<1>6. q \in Nat /\ r \in Nat /\ q <= r
  <2>1. a + n \in Nat /\ b + n \in Nat /\ a + n <= b + n
    BY <1>3
  <2> QED BY <1>4, <1>5, <2>1, QuotientRises, Quotient
<1>7. /\ Share(g, lo, n - lo) = IF q < m THEN q ELSE m
      /\ Share(f, hi, n - hi) = IF r < m THEN r ELSE m
  BY <1>1, <1>2, <1>4, <1>5 DEF Share
<1> QED BY <1>1, <1>6, <1>7

\* The more empty probes, the further to the front of the list.
LEMMA PercentileRises ==
    ASSUME NEW S, ListsCounted(S), NEW f \in S, NEW g \in S, f \in File, g \in File,
           TotalModules[f] = TotalModules[g], EmptyCount(f) > EmptyCount(g)
    PROVE  PercentileLimit(f) >= PercentileLimit(g)
<1>1. PICK i, j, n : i = IndexOf(empty, f) /\ j = IndexOf(empty, g) /\ n = empty_nonzero_count
  OBVIOUS
<1>2. /\ i \in 1 .. Len(empty.list) /\ EmptyCount(f) = empty.list[i].count /\ EmptyCount(f) \in Nat
      /\ j \in 1 .. Len(empty.list) /\ EmptyCount(g) = empty.list[j].count /\ EmptyCount(g) \in Nat
      /\ Len(empty.list) \in Nat /\ n \in Nat
  BY <1>1, CountOfListed, ListedAgrees, FiniteNonZero DEF ListsCounted, EmptyCount
<1>3. i < j
  <2>1. \A a, b \in 1 .. Len(empty.list) : a <= b => empty.list[a].count >= empty.list[b].count
    BY DEF ListsCounted, Descending
  <2> QED BY <1>2, <2>1
<1>4. /\ i <= n
      /\ EmptyCount(g) # 0 => j <= n
  <2>1. \A a \in 1 .. Len(empty.list) : (empty.list[a].count > 0) <=> (a <= n)
    BY <1>1, PrefixWhenCounted DEF PrefixNonZero
  <2>2. empty.list[i].count > 0
    BY <1>2
  <2>3. EmptyCount(g) # 0 => empty.list[j].count > 0
    BY <1>2
  <2> QED BY <1>2, <2>1, <2>2, <2>3
<1>5. n - (i - 1) \in 0 .. n /\ i - 1 = n - (n - (i - 1)) /\ n \in Nat \ {0}
  BY <1>2, <1>4
<1>6. PercentileLimit(f) = Share(f, n - (i - 1), i - 1)
  BY <1>1, <1>2 DEF PercentileLimit
<1>7. CASE EmptyCount(g) = 0
  <2>1. PercentileLimit(g) = 0
    BY <1>7 DEF PercentileLimit
  <2>2. PICK hi : hi = n - (i - 1)
    OBVIOUS
  <2>3. Share(f, hi, n - hi) \in 0 .. TotalModules[f] /\ TotalModules[f] \in Nat
    <3>1. hi \in 0 .. n /\ hi <= hi /\ n \in Nat \ {0}
      BY <1>5, <2>2
    <3>2. Share(f, hi, n - hi) \in 0 .. TotalModules[f]
      BY <3>1, ShareRises
    <3> QED BY <3>2, FileCountsAssumption
  <2>4. PercentileLimit(f) = Share(f, hi, n - hi)
    BY <1>5, <1>6, <2>2
  <2> QED BY <2>1, <2>3, <2>4
<1>8. CASE EmptyCount(g) # 0
  <2>1. j <= n
    BY <1>4, <1>8
  <2>2. n - (j - 1) \in 0 .. n /\ j - 1 = n - (n - (j - 1)) /\ n - (j - 1) <= n - (i - 1)
    BY <1>2, <1>3, <2>1
  <2>3. PercentileLimit(g) = Share(g, n - (j - 1), j - 1)
    BY <1>1, <1>8 DEF PercentileLimit
  <2>4. PICK lo, hi : lo = n - (j - 1) /\ hi = n - (i - 1)
    OBVIOUS
  <2>5. /\ Share(f, hi, n - hi) \in 0 .. TotalModules[f] /\ TotalModules[f] \in Nat
        /\ Share(g, lo, n - lo) \in 0 .. TotalModules[f]
        /\ Share(g, lo, n - lo) <= Share(f, hi, n - hi)
    BY <1>5, <2>2, <2>4, ShareRises, FileCountsAssumption
  <2> QED BY <1>5, <1>6, <2>2, <2>3, <2>4, <2>5
<1> QED BY <1>7, <1>8

\* Each module that saves enough for g does so for f.
LEMMA CostModelRises ==
    ASSUME NEW f \in File, NEW g \in File, TotalModules[f] = TotalModules[g],
           EmptyCount(f) \in Nat, EmptyCount(g) \in Nat, EmptyCount(f) >= EmptyCount(g),
           TotalCount(f) # 0, TotalCount(g) # 0, NEW lookups \in Nat
    PROVE  CostModelLimit(f, lookups) >= CostModelLimit(g, lookups)
<1>1. PICK m \in Nat : m = TotalModules[f] /\ m = TotalModules[g]
  BY FileCountsAssumption
<1>2. CASE lookups = 0
  BY <1>1, <1>2 DEF CostModelLimit
<1>3. CASE lookups # 0
  <2>1. PICK q : q = ErrorRate[f] /\ q = ErrorRate[g] /\ q \in Fraction /\ q.num <= q.den
    BY FileCountsAssumption
  <2>2. q.num \in Nat /\ q.den \in Nat /\ q.den - q.num \in Nat
    BY <2>1 DEF Fraction
  <2>3. ASSUME NEW i \in Nat \ {0}, NEW threshold \in Fraction, Saves(g, lookups, i, threshold)
        PROVE  Saves(f, lookups, i, threshold)
    <3>1. PICK k, need : /\ k = Power(q.num, i - 1) * (q.den - q.num) * threshold.den
                         /\ need = threshold.num * lookups * Power(q.den, i)
      OBVIOUS
    <3>2. i - 1 \in Nat /\ i \in Nat /\ threshold.den \in Nat /\ threshold.num \in Nat
      BY DEF Fraction
    <3>3. Power(q.num, i - 1) \in Nat /\ Power(q.den, i) \in Nat
      BY <2>2, <3>2, PowerIsNat
    <3>4. \A a, b, c \in Nat : a * b * c \in Nat
      <4>1. \A a, b \in Nat : a * b \in Nat
        OBVIOUS
      <4> QED BY <4>1
    <3>5. k \in Nat /\ need \in Nat
      BY <2>2, <3>1, <3>2, <3>3, <3>4
    <3>6. EmptyCount(g) * k >= need
      BY <2>1, <2>3, <3>1 DEF Saves
    <3>7. EmptyCount(g) * k \in Nat /\ EmptyCount(f) * k \in Nat
          /\ EmptyCount(g) * k <= EmptyCount(f) * k
      BY <3>5, ProductRises
    <3>8. EmptyCount(f) * k >= need
      BY <3>5, <3>6, <3>7
    <3> QED BY <2>1, <3>1, <3>8 DEF Saves
  <2>4. \A i \in Nat \ {0} : Useful(g, lookups, i) => Useful(f, lookups, i)
    BY <2>3, FileCountsAssumption DEF Useful
  <2>5. PICK U, V : /\ U = {n \in 1 .. m : \A i \in 1 .. n : Useful(f, lookups, i)}
                    /\ V = {n \in 1 .. m : \A i \in 1 .. n : Useful(g, lookups, i)}
    OBVIOUS
  <2>6. V \subseteq U /\ U \subseteq 1 .. m
    <3>1. \A n \in 1 .. m : \A i \in 1 .. n : i \in Nat \ {0}
      OBVIOUS
    <3> QED BY <2>4, <2>5, <3>1
  <2>7. Cardinality(V) <= Cardinality(U) /\ Cardinality(V) \in Nat /\ Cardinality(U) \in Nat
    <3>1. IsFiniteSet(U)
      BY <1>1, <2>6, FirstNumbers, FS_Subset
    <3> QED BY <2>6, <3>1, FS_Subset, FS_CardinalityType
  <2>8. CostModelLimit(f, lookups) = Cardinality(U) /\ CostModelLimit(g, lookups) = Cardinality(V)
    BY <1>1, <1>3, <2>5 DEF CostModelLimit
  <2> QED BY <2>7, <2>8
<1> QED BY <1>2, <1>3

LEMMA Cancelled ==
    ASSUME NEW u \in Nat, NEW v \in Nat, NEW d \in Nat \ {0}, u * d <= v * d
    PROVE  u <= v
<1>1. ASSUME v < u PROVE FALSE
  <2>1. v + 1 \in Nat /\ v + 1 <= u
    BY <1>1
  <2>2. (v + 1) * d <= u * d
    BY <2>1, ProductRises
  <2>3. (v + 1) * d = v * d + d /\ v * d \in Nat /\ u * d \in Nat
    OBVIOUS
  <2> QED BY <2>2, <2>3
<1> QED BY <1>1

\* Keys of the tree are in order of their ratio: LessOrEqual chains.
LEMMA RatiosChain ==
    ASSUME NEW a \in Nat, NEW b \in Nat \ {0}, NEW c \in Nat, NEW d \in Nat \ {0},
           NEW e \in Nat, NEW h \in Nat \ {0}, a * d <= c * b, c * h <= e * d
    PROVE  a * h <= e * b
<1>1. \A x, y \in Nat : x * y \in Nat
  OBVIOUS
<1>2. (a * d) * h <= (c * b) * h
  <2>1. a * d \in Nat /\ c * b \in Nat
    BY <1>1
  <2> QED BY <2>1, ProductRises
<1>3. (c * h) * b <= (e * d) * b
  <2>1. c * h \in Nat /\ e * d \in Nat
    BY <1>1
  <2> QED BY <2>1, ProductRises
<1>4. /\ (a * d) * h = (a * h) * d /\ (c * b) * h = (c * h) * b
      /\ (e * d) * b = (e * b) * d
  OBVIOUS
<1>5. (a * h) * d \in Nat /\ (c * h) * b \in Nat /\ (e * b) * d \in Nat
      /\ a * h \in Nat /\ e * b \in Nat
  BY <1>1
<1>6. (a * h) * d <= (e * b) * d
  BY <1>2, <1>3, <1>4, <1>5
<1> QED BY <1>5, <1>6, Cancelled

LEMMA ScaledWithin ==
    ASSUME NEW p \in Nat, NEW d \in Nat \ {0}, p <= d, NEW m \in Nat, NEW s \in 0 .. m
    PROVE  (p * s) \div d \in 0 .. m
<1>1. s \in Nat /\ p * s \in Nat /\ d * s \in Nat /\ m * d \in Nat
  <2>1. \A x, y \in Nat : x * y \in Nat
    OBVIOUS
  <2> QED BY <2>1
<1>2. p * s <= d * s
  BY <1>1, ProductRises
<1>3. s * d <= m * d /\ s * d = d * s
  BY <1>1, ProductRises
<1>4. p * s <= m * d
  BY <1>1, <1>2, <1>3
<1> QED BY <1>1, <1>4, QuotientWithin, Quotient

LEMMA ScaledRises ==
    ASSUME NEW p \in Nat, NEW d \in Nat \ {0}, NEW s \in Nat, NEW t \in Nat, s <= t
    PROVE  (p * s) \div d <= (p * t) \div d
<1>1. p * s <= p * t /\ p * s \in Nat /\ p * t \in Nat
  BY ProductRises
<1> QED BY <1>1, QuotientRises

\* The higher the ratio, the more keys of the tree are no higher.
LEMMA RatioRises ==
    ASSUME NEW S, ListsCounted(S), TreeCounted(S), policy = "ratio",
           NEW f \in S, NEW g \in S, f \in File, g \in File,
           TotalModules[f] = TotalModules[g], TotalCount(f) > 0, TotalCount(g) > 0,
           NEW fraction \in Fraction, fraction.num <= fraction.den
    PROVE  /\ RatioLimit(f, fraction) \in 0 .. TotalModules[f]
           /\ LessOrEqual(RatioKey(total, empty, g), RatioKey(total, empty, f)) =>
                 RatioLimit(f, fraction) >= RatioLimit(g, fraction)
<1>1. Listed(total, S) /\ Listed(empty, S) /\ ratio_tree = Keys(total, empty, S)
  BY DEF ListsCounted, TreeCounted
<1>2. \A x \in S : /\ CountOf(total, x) \in Nat /\ CountOf(empty, x) \in Nat
                   /\ CountOf(empty, x) * CountOf(empty, x) \in Nat
  <2>1. \A x \in S : CountOf(total, x) \in Nat /\ CountOf(empty, x) \in Nat
    BY <1>1, CountOfListed
  <2> QED BY <2>1
<1>3. PICK key : key = [x \in S |-> RatioKey(total, empty, x)]
  OBVIOUS
<1>4. \A x \in S : TotalCount(x) > 0 => key[x].num \in Nat /\ key[x].den \in Nat \ {0}
  BY <1>2, <1>3 DEF RatioKey, TotalCount
<1>5. \A k \in ratio_tree : k.num \in Nat /\ k.den \in Nat \ {0}
  BY <1>1, <1>3, <1>4 DEF Keys, NonZero, TotalCount
<1>6. PICK A, B : /\ A = {k \in ratio_tree : LessOrEqual(k, key[g])}
                  /\ B = {k \in ratio_tree : LessOrEqual(k, key[f])}
  OBVIOUS
<1>7. PICK lo, hi, n : lo = Cardinality(A) /\ hi = Cardinality(B) /\ n = Cardinality(ratio_tree)
  OBVIOUS
<1>8. n \in Nat \ {0} /\ lo \in 0 .. n /\ hi \in 0 .. n
  <2>1. IsFiniteSet(ratio_tree) /\ key[f] \in ratio_tree
    BY <1>1, <1>3, KeysCounted DEF NonZero, TotalCount
  <2>2. A \subseteq ratio_tree /\ B \subseteq ratio_tree
    BY <1>6
  <2> QED BY <1>7, <2>1, <2>2, FS_Subset, FS_CardinalityType, FS_EmptySet
<1>9. LessOrEqual(key[g], key[f]) => lo <= hi
  <2>1. ASSUME LessOrEqual(key[g], key[f]) PROVE A \subseteq B
    <3>1. ASSUME NEW k \in A PROVE k \in B
      <4>1. k.num * key[g].den <= key[g].num * k.den
            /\ key[g].num * key[f].den <= key[f].num * key[g].den
        BY <1>6, <2>1, <3>1 DEF LessOrEqual
      <4>2. k.num * key[f].den <= key[f].num * k.den
        BY <1>4, <1>5, <1>6, <4>1, RatiosChain
      <4> QED BY <1>6, <4>2 DEF LessOrEqual
    <3> QED BY <3>1
  <2>2. IsFiniteSet(B)
    BY <1>1, <1>6, KeysCounted, FS_Subset
  <2> QED BY <1>7, <2>1, <2>2, FS_Subset
<1>10. PICK m \in Nat : m = TotalModules[f] /\ m = TotalModules[g]
  BY FileCountsAssumption
<1>11. PICK s, t : s = Share(g, lo, n - lo) /\ t = Share(f, hi, n - hi)
  OBVIOUS
<1>12. /\ s \in 0 .. m /\ t \in 0 .. m
       /\ LessOrEqual(key[g], key[f]) => s <= t
  <2>1. s \in 0 .. m /\ t \in 0 .. m
    BY <1>8, <1>10, <1>11, ShareRises
  <2>2. ASSUME lo <= hi PROVE s <= t
    BY <1>8, <1>10, <1>11, <2>2, ShareRises
  <2> QED BY <1>9, <2>1, <2>2
<1>13. PICK p, d : p = fraction.num /\ d = fraction.den
  OBVIOUS
<1>14. p \in Nat /\ d \in Nat \ {0} /\ p <= d
  BY <1>13 DEF Fraction
<1>15. /\ RatioLimit(f, fraction) = IF EmptyCount(f) = 0 THEN 0 ELSE (p * t) \div d
       /\ RatioLimit(g, fraction) = IF EmptyCount(g) = 0 THEN 0 ELSE (p * s) \div d
  BY <1>3, <1>6, <1>7, <1>11, <1>13 DEF RatioLimit, OrderOfRatio
<1>16. (p * t) \div d \in 0 .. m /\ (p * s) \div d \in 0 .. m
  BY <1>10, <1>12, <1>14, ScaledWithin
<1>17. LessOrEqual(key[g], key[f]) => (p * s) \div d <= (p * t) \div d
  BY <1>12, <1>14, ScaledRises
<1>18. LessOrEqual(key[g], key[f]) /\ EmptyCount(f) = 0 => EmptyCount(g) = 0
  <2>1. SUFFICES ASSUME LessOrEqual(key[g], key[f]), EmptyCount(f) = 0 PROVE EmptyCount(g) = 0
    OBVIOUS
  <2>2. PICK y \in Nat : y = EmptyCount(g)
    BY <1>2 DEF EmptyCount
  <2>3. PICK z \in Nat \ {0} : z = TotalCount(f)
    BY <1>2 DEF TotalCount
  <2>4. y * y * z <= 0
    <3>1. key[g].num = y * y /\ key[f].den = z /\ key[f].num = 0 /\ key[g].den \in Nat
      BY <1>2, <1>3, <2>1, <2>2, <2>3 DEF RatioKey, EmptyCount, TotalCount
    <3> QED BY <2>1, <3>1 DEF LessOrEqual
  <2>5. y # 0 => y * y \in Nat \ {0}
    OBVIOUS
  <2>6. \A w \in Nat \ {0} : w * z \in Nat \ {0}
    BY <2>3
  <2> QED BY <2>2, <2>4, <2>5, <2>6
<1> QED BY <1>3, <1>10, <1>15, <1>16, <1>17, <1>18

\* A probe uses a number of modules: a prefix of those it may use, or all.
LEMMA UsesAreCounts ==
    ASSUME NEW f \in File, NEW found, NEW limit, Modular => limit \in Nat,
           NEW use \in FilterUses(f, found, limit)
    PROVE  use[1] \in Nat
<1>1. CASE Modular
  <2>1. use = <<limit, TRUE>> \/ use \in (1 .. limit) \X {FALSE}
    BY <1>1 DEF FilterUses, Verdicts
  <2>2. CASE use = <<limit, TRUE>>
    BY <1>1, <2>2
  <2>3. CASE use \in (1 .. limit) \X {FALSE}
    <3>1. use[1] \in 1 .. limit
      BY <2>3
    <3> QED BY <1>1, <3>1
  <2> QED BY <2>1, <2>2, <2>3
<1>2. CASE ~ Modular
  BY <1>2, FileCountsAssumption DEF FilterUses
<1> QED BY <1>1, <1>2

(***************************************************************************)
(* One access and the result.                                              *)
(***************************************************************************)
\* The blocks that are looked up.
Simulable == {"filter", "index", "data"}
CachedBlock == [file : File, type : Simulable, id : Nat]
Point == [hit : Nat, miss : Nat, extra_read : Nat]

ResultOK ==
    /\ count \in [Counter -> Nat]
    /\ curr_access \in Nat /\ series_per_record \in Nat
    /\ series \in Seq(Point)

ByType ==
    /\ count.hit = count.filter_hit + count.index_hit + count.data_hit
    /\ count.miss = count.filter_miss + count.index_miss + count.data_miss

(***************************************************************************)
(* The series.                                                             *)
(***************************************************************************)
\* A quotient and a remainder are the only ones.
LEMMA OneQuotient ==
    ASSUME NEW n \in Nat \ {0}, NEW p \in Int, NEW q \in Int, NEW r \in 0 .. n - 1,
           NEW s \in 0 .. n - 1, p * n + r = q * n + s
    PROVE  r = s
<1>1. PICK d \in Int : d = q - p
  OBVIOUS
<1>2. d * n = r - s
  <2>1. \A x, y, z \in Int : z = y - x => z * n = y * n - x * n
    OBVIOUS
  <2> QED BY <1>1, <2>1
<1>3. ~ d > 0
  <2>1. \A x, y \in Int : x > 0 /\ y > 0 => x * y >= y
    OBVIOUS
  <2>2. d > 0 => d * n >= n
    BY <2>1
  <2> QED BY <1>2, <2>2
<1>4. ~ d < 0
  <2>1. \A x, y \in Int : x < 0 /\ y > 0 => x * y <= - y
    OBVIOUS
  <2>2. d < 0 => d * n <= - n
    BY <2>1
  <2> QED BY <1>2, <2>2
<1>5. d = 0
  BY <1>3, <1>4
<1>6. d * n = 0
  BY <1>5
<1> QED BY <1>2, <1>6

\* A counter of the width of n that counts one more.
LEMMA NextRemainder ==
    ASSUME NEW a \in Nat, NEW n \in Nat \ {0}
    PROVE  /\ a % n \in 0 .. n - 1
           /\ (a + 1) % n = IF (a % n) + 1 = n THEN 0 ELSE (a % n) + 1
<1>1. \A x \in Nat : /\ x % n \in 0 .. n - 1 /\ x \div n \in Int
                     /\ x = (x \div n) * n + (x % n)
  OBVIOUS
<1>2. PICK q \in Int, r \in 0 .. n - 1 : q = a \div n /\ r = a % n /\ a = q * n + r
  BY <1>1
<1>3. PICK p \in Int, s \in 0 .. n - 1 :
         p = (a + 1) \div n /\ s = (a + 1) % n /\ a + 1 = p * n + s
  BY <1>1
<1>4. CASE r + 1 = n
  <2>1. (q + 1) * n = q * n + n
    OBVIOUS
  <2>2. p * n + s = (q + 1) * n + 0 /\ q + 1 \in Int
    BY <1>2, <1>3, <1>4, <2>1
  <2>3. s = 0
    BY <2>2, OneQuotient
  <2> QED BY <1>2, <1>3, <1>4, <2>3
<1>5. CASE r + 1 # n
  <2>1. r + 1 \in 0 .. n - 1 /\ p * n + s = q * n + (r + 1)
    BY <1>2, <1>3, <1>5
  <2>2. s = r + 1
    BY <2>1, OneQuotient
  <2> QED BY <1>2, <1>3, <1>5, <2>2
<1> QED BY <1>4, <1>5

LEMMA SmallRemainder ==
    ASSUME NEW n \in Nat \ {0}, NEW a \in 0 .. n - 1
    PROVE  a % n = a
OBVIOUS

LEMMA NothingLeft == ASSUME NEW n \in Nat \ {0} PROVE n % n = 0
<1>1. (n - 1) % n = n - 1 /\ n - 1 \in Nat
  BY SmallRemainder
<1>2. (n - 1) + 1 = n
  OBVIOUS
<1> QED BY <1>1, <1>2, NextRemainder

\* What curr_access and the series become: the period goes on, ends, or cannot.
LEMMA PushKeeps ==
    ASSUME ResultOK, series_per_record < Word => curr_access < Period,
           NEW p \in Point, Push(p)
    PROVE  /\ curr_access' \in Nat /\ series' \in Seq(Point)
           /\ series_per_record < Word =>
                 \/ /\ series' = series
                    /\ curr_access' = curr_access + 1 /\ curr_access' < Period
                 \/ /\ series' = Append(series, p)
                    /\ curr_access' = 0 /\ curr_access + 1 = Period
           /\ series_per_record >= Word =>
                 series' = series /\ curr_access' = (curr_access + 1) % Word
<1> DEFINE next == (curr_access + 1) % Word
<1>1. Word \in Nat \ {0} /\ series_per_record \in Nat /\ curr_access \in Nat
  BY CountsAssumption DEF ResultOK
<1>2. next \in 0 .. Word - 1
  <2>1. curr_access + 1 \in Nat
    BY <1>1
  <2> QED BY <1>1, <2>1, NextRemainder
<1>3. /\ next = series_per_record => curr_access' = 0 /\ series' = Append(series, p)
      /\ next # series_per_record => curr_access' = next /\ series' = series
  BY DEF Push
<1>4. series \in Seq(Point) /\ Append(series, p) \in Seq(Point)
  BY AppendProperties DEF ResultOK
<1>5. ASSUME series_per_record < Word
      PROVE  \/ next # series_per_record /\ next = curr_access + 1 /\ next < Period
             \/ next = series_per_record /\ curr_access + 1 = Period
  <2>1. Period \in 1 .. Word /\ curr_access + 1 <= Period
    BY <1>1, <1>5 DEF Period
  <2>2. CASE curr_access + 1 = Word
    <3>1. next = 0
      BY <1>1, <2>2, NothingLeft
    <3>2. Period = Word /\ series_per_record = 0
      BY <1>1, <1>5, <2>1, <2>2 DEF Period
    <3> QED BY <2>2, <3>1, <3>2
  <2>3. CASE curr_access + 1 # Word
    <3>1. curr_access + 1 \in 0 .. Word - 1
      BY <1>1, <2>1, <2>3
    <3>2. next = curr_access + 1
      BY <1>1, <3>1, SmallRemainder
    <3> QED BY <1>1, <1>5, <2>1, <3>1, <3>2 DEF Period
  <2> QED BY <2>2, <2>3
<1> HIDE DEF next
<1>6. ASSUME series_per_record >= Word PROVE next # series_per_record
  BY <1>1, <1>2, <1>6
<1>7. curr_access' \in Nat /\ series' \in Seq(Point)
  <2>1. next \in Nat
    BY <1>1, <1>2
  <2> QED BY <1>3, <1>4, <2>1
<1>8. ASSUME series_per_record < Word
      PROVE  \/ /\ series' = series
                /\ curr_access' = curr_access + 1 /\ curr_access' < Period
             \/ /\ series' = Append(series, p)
                /\ curr_access' = 0 /\ curr_access + 1 = Period
  BY <1>3, <1>5, <1>8
<1>9. ASSUME series_per_record >= Word
      PROVE  series' = series /\ curr_access' = (curr_access + 1) % Word
  BY <1>3, <1>6, <1>9 DEF next
<1> QED BY <1>7, <1>8, <1>9

\* An access is counted as a hit or a miss, once in all and once by the type of
\* its block; the point that may be pushed has it.
LEMMA AccessCounted ==
    ASSUME ResultOK, NEW b \in CachedBlock, NEW unnecessary, NEW late \in BOOLEAN,
           AccessTo(b, unnecessary, late)
    PROVE  \E outcome \in {"hit", "miss"}, p \in Point :
              /\ count' \in [Counter -> Nat]
              /\ \A c \in Counter \ {"extra_read"} :
                    count'[c] = IF c \in {outcome, Typed[b.type][outcome]} THEN count[c] + 1
                                ELSE count[c]
              /\ count'["extra_read"] = IF IsExtra(b, outcome, unnecessary)
                                        THEN count["extra_read"] + 1 ELSE count["extra_read"]
              /\ p.hit = count'["hit"] /\ p.miss = count'["miss"]
              /\ p.extra_read = IF late THEN count["extra_read"] ELSE count'["extra_read"]
              /\ Push(p)
<1>1. PICK outcome \in {"hit", "miss"} :
         outcome = IF b \in filter_cache \cup data_cache THEN "hit" ELSE "miss"
  OBVIOUS
<1>2. PICK counted : counted = Counted(b, outcome)
  OBVIOUS
<1>3. /\ count' = IF IsExtra(b, outcome, unnecessary)
                  THEN [counted EXCEPT !.extra_read = @ + 1] ELSE counted
      /\ Push(PointOf(IF late THEN counted ELSE count'))
  BY <1>1, <1>2 DEF AccessTo
<1>4. count \in [Counter -> Nat]
  BY DEF ResultOK
<1>5. b.type \in Simulable
  BY DEF CachedBlock
<1>6. "extra_read" # outcome /\ "extra_read" # Typed[b.type][outcome]
  BY <1>1, <1>5 DEF Typed, Simulable
<1>7. /\ counted \in [Counter -> Nat]
      /\ \A c \in Counter : counted[c] = IF c \in {outcome, Typed[b.type][outcome]}
                                         THEN count[c] + 1 ELSE count[c]
  BY <1>2, <1>4 DEF Counted
<1>8. "extra_read" \in Counter /\ "hit" \in Counter /\ "miss" \in Counter
  BY DEF Counter
<1>9. counted["extra_read"] = count["extra_read"]
  BY <1>6, <1>7, <1>8
<1>10. /\ count' \in [Counter -> Nat]
       /\ \A c \in Counter \ {"extra_read"} : count'[c] = counted[c]
       /\ count'["extra_read"] = IF IsExtra(b, outcome, unnecessary)
                                 THEN count["extra_read"] + 1 ELSE count["extra_read"]
  <2>1. CASE IsExtra(b, outcome, unnecessary)
    BY <1>3, <1>7, <1>8, <1>9, <2>1
  <2>2. CASE ~ IsExtra(b, outcome, unnecessary)
    BY <1>3, <1>7, <1>9, <2>2
  <2> QED BY <2>1, <2>2
<1>11. PICK p : p = PointOf(IF late THEN counted ELSE count')
  OBVIOUS
<1>12. /\ p \in Point
       /\ p.hit = count'["hit"] /\ p.miss = count'["miss"]
       /\ p.extra_read = IF late THEN count["extra_read"] ELSE count'["extra_read"]
  BY <1>7, <1>8, <1>9, <1>10, <1>11 DEF PointOf, Point
<1> QED BY <1>1, <1>3, <1>7, <1>10, <1>11, <1>12

\* Every access goes into the counts by type, and into the series in time.
LEMMA AccessKeeps ==
    ASSUME ResultOK, ByType, PointsDue(Len(series)),
           NEW b \in CachedBlock, NEW unnecessary, NEW late \in BOOLEAN,
           AccessTo(b, unnecessary, late), series_per_record' = series_per_record
    PROVE  /\ ResultOK' /\ ByType' /\ PointsDue(Len(series))'
           /\ count'.hit + count'.miss = count.hit + count.miss + 1
           /\ count'.extra_read \in {count.extra_read, count.extra_read + 1}
           /\ curr_access' = 0 /\ series' # <<>> =>
                 /\ Latest'.hit = count'.hit /\ Latest'.miss = count'.miss
                 /\ Latest'.extra_read = IF late THEN count.extra_read ELSE count'.extra_read
<1>1. PICK outcome \in {"hit", "miss"}, p \in Point :
         /\ count' \in [Counter -> Nat]
         /\ \A c \in Counter \ {"extra_read"} :
               count'[c] = IF c \in {outcome, Typed[b.type][outcome]} THEN count[c] + 1
                           ELSE count[c]
         /\ count'["extra_read"] = IF IsExtra(b, outcome, unnecessary)
                                   THEN count["extra_read"] + 1 ELSE count["extra_read"]
         /\ p.hit = count'["hit"] /\ p.miss = count'["miss"]
         /\ p.extra_read = IF late THEN count["extra_read"] ELSE count'["extra_read"]
         /\ Push(p)
  BY AccessCounted
<1>2. count \in [Counter -> Nat]
  BY DEF ResultOK
<1>3. b.type \in Simulable
  BY DEF CachedBlock
<1>4. /\ count'["hit"] = IF outcome = "hit" THEN count["hit"] + 1 ELSE count["hit"]
      /\ count'["miss"] = IF outcome = "miss" THEN count["miss"] + 1 ELSE count["miss"]
      /\ count'["filter_hit"] = IF outcome = "hit" /\ b.type = "filter"
                                THEN count["filter_hit"] + 1 ELSE count["filter_hit"]
      /\ count'["index_hit"] = IF outcome = "hit" /\ b.type = "index"
                               THEN count["index_hit"] + 1 ELSE count["index_hit"]
      /\ count'["data_hit"] = IF outcome = "hit" /\ b.type = "data"
                              THEN count["data_hit"] + 1 ELSE count["data_hit"]
      /\ count'["filter_miss"] = IF outcome = "miss" /\ b.type = "filter"
                                 THEN count["filter_miss"] + 1 ELSE count["filter_miss"]
      /\ count'["index_miss"] = IF outcome = "miss" /\ b.type = "index"
                                THEN count["index_miss"] + 1 ELSE count["index_miss"]
      /\ count'["data_miss"] = IF outcome = "miss" /\ b.type = "data"
                               THEN count["data_miss"] + 1 ELSE count["data_miss"]
  BY <1>1, <1>3 DEF Counter, Typed, Simulable
<1>5. \A c \in Counter : count[c] \in Nat /\ count'[c] \in Nat
  BY <1>1, <1>2
<1>6. ByType'
  <2>1. /\ count["hit"] \in Nat /\ count["miss"] \in Nat
        /\ count["filter_hit"] \in Nat /\ count["index_hit"] \in Nat /\ count["data_hit"] \in Nat
        /\ count["filter_miss"] \in Nat /\ count["index_miss"] \in Nat
        /\ count["data_miss"] \in Nat
    BY <1>5 DEF Counter
  <2>2. b.type \in {"filter", "index", "data"}
    BY <1>3 DEF Simulable
  <2>3. /\ count["hit"] = count["filter_hit"] + count["index_hit"] + count["data_hit"]
        /\ count["miss"] = count["filter_miss"] + count["index_miss"] + count["data_miss"]
    BY DEF ByType
  <2>4. count'["hit"] = count'["filter_hit"] + count'["index_hit"] + count'["data_hit"]
    <3>1. CASE outcome # "hit"
      <4>1. /\ count'["hit"] = count["hit"] /\ count'["filter_hit"] = count["filter_hit"]
            /\ count'["index_hit"] = count["index_hit"] /\ count'["data_hit"] = count["data_hit"]
        BY <1>4, <3>1
      <4> QED BY <2>3, <4>1
    <3>2. CASE outcome = "hit" /\ b.type = "filter"
      <4>1. /\ count'["hit"] = count["hit"] + 1
            /\ count'["filter_hit"] = count["filter_hit"] + 1
            /\ count'["index_hit"] = count["index_hit"] /\ count'["data_hit"] = count["data_hit"]
        BY <1>4, <3>2
      <4> QED BY <2>1, <2>3, <4>1
    <3>3. CASE outcome = "hit" /\ b.type = "index"
      <4>1. /\ count'["hit"] = count["hit"] + 1
            /\ count'["index_hit"] = count["index_hit"] + 1
            /\ count'["filter_hit"] = count["filter_hit"] /\ count'["data_hit"] = count["data_hit"]
        BY <1>4, <3>3
      <4> QED BY <2>1, <2>3, <4>1
    <3>4. CASE outcome = "hit" /\ b.type = "data"
      <4>1. /\ count'["hit"] = count["hit"] + 1
            /\ count'["data_hit"] = count["data_hit"] + 1
            /\ count'["filter_hit"] = count["filter_hit"]
            /\ count'["index_hit"] = count["index_hit"]
        BY <1>4, <3>4
      <4> QED BY <2>1, <2>3, <4>1
    <3> QED BY <2>2, <3>1, <3>2, <3>3, <3>4
  <2>5. count'["miss"] = count'["filter_miss"] + count'["index_miss"] + count'["data_miss"]
    <3>1. CASE outcome # "miss"
      <4>1. /\ count'["miss"] = count["miss"] /\ count'["filter_miss"] = count["filter_miss"]
            /\ count'["index_miss"] = count["index_miss"] /\ count'["data_miss"] = count["data_miss"]
        BY <1>4, <3>1
      <4> QED BY <2>3, <4>1
    <3>2. CASE outcome = "miss" /\ b.type = "filter"
      <4>1. /\ count'["miss"] = count["miss"] + 1
            /\ count'["filter_miss"] = count["filter_miss"] + 1
            /\ count'["index_miss"] = count["index_miss"] /\ count'["data_miss"] = count["data_miss"]
        BY <1>4, <3>2
      <4> QED BY <2>1, <2>3, <4>1
    <3>3. CASE outcome = "miss" /\ b.type = "index"
      <4>1. /\ count'["miss"] = count["miss"] + 1
            /\ count'["index_miss"] = count["index_miss"] + 1
            /\ count'["filter_miss"] = count["filter_miss"] /\ count'["data_miss"] = count["data_miss"]
        BY <1>4, <3>3
      <4> QED BY <2>1, <2>3, <4>1
    <3>4. CASE outcome = "miss" /\ b.type = "data"
      <4>1. /\ count'["miss"] = count["miss"] + 1
            /\ count'["data_miss"] = count["data_miss"] + 1
            /\ count'["filter_miss"] = count["filter_miss"]
            /\ count'["index_miss"] = count["index_miss"]
        BY <1>4, <3>4
      <4> QED BY <2>1, <2>3, <4>1
    <3> QED BY <2>2, <3>1, <3>2, <3>3, <3>4
  <2> QED BY <2>4, <2>5 DEF ByType
<1>7. count'.hit + count'.miss = count.hit + count.miss + 1
  <2>1. count.hit \in Nat /\ count.miss \in Nat
    BY <1>5 DEF Counter
  <2>2. CASE outcome = "hit"
    BY <1>4, <2>1, <2>2
  <2>3. CASE outcome = "miss"
    BY <1>4, <2>1, <2>3
  <2> QED BY <2>2, <2>3
<1>8. /\ series \in Seq(Point) /\ Len(series) \in Nat /\ curr_access \in Nat
      /\ Word \in Nat \ {0} /\ series_per_record \in Nat
      /\ count.hit + count.miss \in Nat
  <2>1. count.hit \in Nat /\ count.miss \in Nat
    BY <1>5 DEF Counter
  <2>2. series \in Seq(Point) /\ curr_access \in Nat /\ series_per_record \in Nat
    BY DEF ResultOK
  <2>3. Len(series) \in Nat
    BY <2>2, LenProperties
  <2> QED BY <2>1, <2>2, <2>3, CountsAssumption
<1>9. Period' = Period /\ Period \in Nat \ {0}
  BY <1>8 DEF Period
<1>10. /\ series_per_record < Word =>
             Len(series) * Period + curr_access = count.hit + count.miss /\ curr_access < Period
       /\ ~ (series_per_record < Word) =>
             Len(series) = 0 /\ curr_access = (count.hit + count.miss) % Word
       /\ \A i \in 1 .. Len(series) : series[i].hit + series[i].miss = i * Period
  BY DEF PointsDue
<1>11. /\ curr_access' \in Nat /\ series' \in Seq(Point)
       /\ series_per_record < Word =>
             \/ /\ series' = series
                /\ curr_access' = curr_access + 1 /\ curr_access' < Period
             \/ /\ series' = Append(series, p)
                /\ curr_access' = 0 /\ curr_access + 1 = Period
       /\ series_per_record >= Word =>
             series' = series /\ curr_access' = (curr_access + 1) % Word
  <2>1. series_per_record < Word => curr_access < Period
    BY <1>10
  <2> QED BY <1>1, <2>1, PushKeeps
<1>12. ResultOK'
  BY <1>1, <1>8, <1>11 DEF ResultOK
<1> DEFINE late_by == IF late THEN count.extra_read ELSE count'.extra_read
           Goal == /\ PointsDue(Len(series))'
                   /\ curr_access' = 0 /\ series' # <<>> =>
                         /\ Latest'.hit = count'.hit /\ Latest'.miss = count'.miss
                         /\ Latest'.extra_read = late_by
<1> SUFFICES Goal
  <2>1. count'.extra_read \in {count.extra_read, count.extra_read + 1}
    BY <1>1 DEF Counter
  <2> QED BY <1>6, <1>7, <1>12, <2>1
<1>13. CASE series_per_record < Word /\ series' = series
  <2>1. curr_access' = curr_access + 1 /\ curr_access' < Period
    <3>1. Len(Append(series, p)) = Len(series) + 1
      BY <1>1, <1>8, AppendProperties
    <3> QED BY <1>8, <1>11, <1>13, <3>1
  <2>2. Len(series) * Period + curr_access' = count'.hit + count'.miss
    <3>1. Len(series) * Period \in Int
      BY <1>8, <1>9
    <3> QED BY <1>7, <1>8, <1>10, <1>13, <2>1, <3>1
  <2>3. PointsDue(Len(series))'
    BY <1>9, <1>10, <1>13, <2>1, <2>2 DEF PointsDue
  <2>4. curr_access' # 0
    BY <1>8, <2>1
  <2> QED BY <2>3, <2>4
<1>14. CASE series_per_record < Word /\ series' # series
  <2>1. series' = Append(series, p) /\ curr_access' = 0 /\ curr_access + 1 = Period
    BY <1>11, <1>14
  <2>2. /\ Len(series') = Len(series) + 1
        /\ \A i \in 1 .. Len(series) : series'[i] = series[i]
        /\ series'[Len(series) + 1] = p
    BY <1>1, <1>8, <2>1, AppendProperties
  <2>3. (Len(series) + 1) * Period = count'.hit + count'.miss
    <3>1. (Len(series) + 1) * Period = Len(series) * Period + Period /\ Len(series) * Period \in Int
      BY <1>8, <1>9
    <3>2. Len(series) * Period + curr_access = count.hit + count.miss
      BY <1>10, <1>14
    <3>3. PICK lp \in Int, hit_miss \in Nat :
             lp = Len(series) * Period /\ hit_miss = count.hit + count.miss
      BY <1>8, <3>1
    <3>5. lp + curr_access = hit_miss
      BY <3>2, <3>3
    <3>6. curr_access \in Nat /\ Period \in Nat /\ curr_access + 1 = Period
      BY <1>8, <1>9, <2>1
    <3>4. lp + Period = hit_miss + 1
      BY <3>5, <3>6
    <3> QED BY <1>7, <3>1, <3>3, <3>4
  <2>4. \A i \in 1 .. Len(series') : series'[i].hit + series'[i].miss = i * Period
    <3>1. p.hit + p.miss = (Len(series) + 1) * Period
      BY <1>1, <2>3
    <3>2. ASSUME NEW i \in 1 .. Len(series')
          PROVE  series'[i].hit + series'[i].miss = i * Period
      <4>1. i \in 1 .. Len(series) \/ i = Len(series) + 1
        BY <1>8, <2>2
      <4> QED BY <1>10, <2>2, <3>1, <4>1
    <3> QED BY <3>2
  <2>5. PointsDue(Len(series))'
    <3>1. Len(series') * Period + curr_access' = count'.hit + count'.miss /\ curr_access' < Period
      <4>1. count'.hit + count'.miss \in Nat
        BY <1>7, <1>8
      <4> QED BY <1>9, <2>1, <2>2, <2>3, <4>1
    <3> QED BY <1>9, <1>14, <2>4, <3>1 DEF PointsDue
  <2>6. Latest' = p
    BY <2>2 DEF Latest
  <2> QED BY <1>1, <2>5, <2>6
<1>15. CASE ~ (series_per_record < Word)
  <2>1. series' = series /\ curr_access' = (curr_access + 1) % Word /\ Len(series) = 0
        /\ curr_access = (count.hit + count.miss) % Word
    BY <1>8, <1>10, <1>11, <1>15
  <2>2. curr_access' = (count'.hit + count'.miss) % Word
    <3>1. PICK a \in Nat : a = count.hit + count.miss
      BY <1>8
    <3>2. a % Word \in 0 .. Word - 1
          /\ (a + 1) % Word = IF (a % Word) + 1 = Word THEN 0 ELSE (a % Word) + 1
      BY <1>8, <3>1, NextRemainder
    <3>3. CASE (a % Word) + 1 = Word
      BY <1>7, <1>8, <2>1, <3>1, <3>2, <3>3, NothingLeft
    <3>4. CASE (a % Word) + 1 # Word
      <4>1. (a % Word) + 1 \in 0 .. Word - 1
        BY <1>8, <3>2, <3>4
      <4>2. ((a % Word) + 1) % Word = (a % Word) + 1
        BY <1>8, <4>1, SmallRemainder
      <4> QED BY <1>7, <2>1, <3>1, <3>2, <3>4, <4>2
    <3> QED BY <3>3, <3>4
  <2>3. PointsDue(Len(series))'
    BY <1>15, <2>1, <2>2 DEF PointsDue
  <2>4. series = <<>>
    BY <1>8, <2>1, EmptySeq
  <2> QED BY <2>1, <2>3, <2>4
<1> QED BY <1>13, <1>14, <1>15, <1>11

\* The last point closes the accesses since the one before it.
LEMMA LastPushKeeps ==
    ASSUME ResultOK, PointsDue(Len(series)), LastPush,
           UNCHANGED <<series_per_record, count, curr_access>>
    PROVE  /\ ResultOK' /\ PointsDue(IF curr_access # 0 THEN Len(series) - 1 ELSE Len(series))'
           /\ curr_access # 0 => Latest' = PointOf(count)
           /\ curr_access = 0 => series' = series
<1>1. /\ count.hit \in Nat /\ count.miss \in Nat /\ count.extra_read \in Nat
      /\ series \in Seq(Point) /\ Len(series) \in Nat
  BY LenProperties DEF ResultOK, Counter
<1>2. CASE curr_access = 0
  <2>1. series' = series
    BY <1>2 DEF LastPush
  <2> QED BY <1>2, <2>1 DEF ResultOK, PointsDue, FullPoints, Period
<1>3. CASE curr_access # 0
  <2>1. PICK p : p = PointOf(count)
    OBVIOUS
  <2>2. p \in Point
    BY <1>1, <2>1 DEF PointOf, Point
  <2>3. series' = Append(series, p)
    BY <1>3, <2>1 DEF LastPush
  <2>4. /\ series' \in Seq(Point) /\ Len(series') = Len(series) + 1
        /\ \A i \in 1 .. Len(series) : series'[i] = series[i]
        /\ series'[Len(series')] = p
    BY <1>1, <2>2, <2>3, AppendProperties
  <2>5. Len(series') - 1 = Len(series)
    BY <1>1, <2>4
  <2>6. PointsDue(IF curr_access # 0 THEN Len(series) - 1 ELSE Len(series))'
    BY <1>3, <2>4, <2>5 DEF PointsDue, Period
  <2>7. ResultOK'
    BY <2>4 DEF ResultOK
  <2> QED BY <1>3, <2>1, <2>4, <2>6, <2>7 DEF Latest
<1> QED BY <1>2, <1>3

LEMMA LatestTyped ==
    ASSUME ResultOK, series # <<>>
    PROVE  Latest \in Point
<1>1. series \in Seq(Point) /\ Len(series) \in Nat
  BY LenProperties DEF ResultOK
<1>2. Len(series) \in 1 .. Len(series)
  BY <1>1, EmptySeq
<1> QED BY <1>1, <1>2, ElementOfSeq DEF Latest

\* Before the first access no point is due.
LEMMA NothingDue == CountsInit => ResultOK /\ ByType /\ PointsDue(Len(series))
<1> SUFFICES ASSUME CountsInit PROVE ResultOK /\ ByType /\ PointsDue(Len(series))
  OBVIOUS
<1>1. /\ \A c \in Counter : count[c] = 0
      /\ count \in [Counter -> Nat] /\ curr_access = 0 /\ series = <<>> /\ Len(series) = 0
      /\ series_per_record \in Nat /\ Word \in Nat \ {0}
  BY CountsAssumption DEF CountsInit
<1>2. count.hit + count.miss = 0
  BY <1>1 DEF Counter
<1>3. 0 % Word = 0 /\ 0 \in 0 .. Word - 1
  BY <1>1, SmallRemainder
<1>4. PointsDue(Len(series))
  <2>1. Period \in Nat \ {0}
    BY <1>1 DEF Period
  <2>2. 0 * Period = 0
    BY <2>1
  <2> QED BY <1>1, <1>2, <1>3, <2>1, <2>2 DEF PointsDue
<1>5. ByType
  <2>1. /\ count.hit = 0 /\ count.filter_hit = 0 /\ count.index_hit = 0 /\ count.data_hit = 0
        /\ count.miss = 0 /\ count.filter_miss = 0 /\ count.index_miss = 0 /\ count.data_miss = 0
    BY <1>1 DEF Counter
  <2> QED BY <2>1 DEF ByType
<1>6. ResultOK
  BY <1>1 DEF ResultOK
<1> QED BY <1>4, <1>5, <1>6

(***************************************************************************)
(* The blocks of a probe.                                                  *)
(***************************************************************************)
\* A sequence with its elements in T is one over T.
LEMMA SeqOf ==
    ASSUME NEW S, NEW s \in Seq(S), NEW T, \A i \in 1 .. Len(s) : s[i] \in T
    PROVE  s \in Seq(T)
<1>1. Len(s) \in Nat /\ s \in [1 .. Len(s) -> S]
  BY LenProperties
<1>2. s \in [1 .. Len(s) -> T]
  BY <1>1
<1> QED BY <1>1, <1>2, SeqDef

Looked == [type : {"index", "data"}, id : Nat]

LEMMA SimulatedTyped ==
    ASSUME NEW reads \in Seq(Block)
    PROVE  Simulated(reads) \in Seq(Looked)
<1>1. PICK places : places = {i \in 1 .. Len(reads) : reads[i].type \in {"index", "data"}}
  OBVIOUS
<1>2. PICK kept : kept = Kept(reads, places)
  OBVIOUS
<1>3. places \subseteq 1 .. Len(reads)
  BY <1>1
<1>4. \A i \in places : reads[i] \in Looked
  <2> SUFFICES ASSUME NEW i \in places PROVE reads[i] \in Looked
    OBVIOUS
  <2>1. reads[i] \in Block /\ reads[i].type \in {"index", "data"}
    BY <1>1, ElementOfSeq
  <2> QED BY <2>1 DEF Block, Looked
<1>5. kept \in Seq(Block) /\ \A k \in 1 .. Len(kept) : \E i \in places : kept[k] = reads[i]
  BY <1>2, <1>3, KeptElements, KeptFrom
<1>6. \A k \in 1 .. Len(kept) : kept[k] \in Looked
  BY <1>4, <1>5
<1>7. Simulated(reads) = kept
  BY <1>1, <1>2 DEF Simulated
<1> QED BY <1>5, <1>6, <1>7, SeqOf

\* Blocks of f, those of its filter and then n that are behind it.
FilterFirst(blocks, f, used, n) ==
    /\ blocks \in Seq(CachedBlock)
    /\ Len(blocks) = used + n
    /\ \A i \in 1 .. Len(blocks) :
          /\ blocks[i].file = f
          /\ i <= used => blocks[i].type = "filter"
          /\ i > used => blocks[i].type # "filter"

\* As many filter blocks as are used, then the blocks read.
LEMMA BlocksOfTyped ==
    ASSUME NEW f \in File, NEW used \in Nat, NEW reads \in Seq(Looked)
    PROVE  FilterFirst(BlocksOf(f, used, reads), f, used, Len(reads))
<1>0. PICK blocks : blocks = BlocksOf(f, used, reads)
  OBVIOUS
<1> DEFINE first == [i \in 1 .. used |-> [file |-> f, type |-> "filter", id |-> i]]
           second == [i \in 1 .. Len(reads) |->
                         [file |-> f, type |-> reads[i].type, id |-> reads[i].id]]
<1>1. Len(reads) \in Nat
  BY LenProperties
<1>2. \A i \in 1 .. Len(reads) : reads[i].type \in {"index", "data"} /\ reads[i].id \in Nat
  <2>1. \A i \in 1 .. Len(reads) : reads[i] \in Looked
    BY ElementOfSeq
  <2> QED BY <2>1 DEF Looked
<1>3. /\ first \in [1 .. used -> CachedBlock]
      /\ \A i \in 1 .. used : first[i].file = f /\ first[i].type = "filter"
  BY DEF CachedBlock, Simulable
<1>4. /\ second \in [1 .. Len(reads) -> CachedBlock]
      /\ \A i \in 1 .. Len(reads) : second[i].file = f /\ second[i].type # "filter"
  BY <1>2 DEF CachedBlock, Simulable
<1>5. blocks = first \o second
  BY <1>0 DEF BlocksOf
<1> HIDE DEF first, second
<1>6. first \in Seq(CachedBlock) /\ Len(first) = used
  BY <1>3, SeqDef, LenProperties
<1>7. second \in Seq(CachedBlock) /\ Len(second) = Len(reads)
  BY <1>1, <1>4, SeqDef, LenProperties
<1>8. /\ blocks \in Seq(CachedBlock)
      /\ Len(blocks) = used + Len(reads)
      /\ \A i \in 1 .. used + Len(reads) :
            blocks[i] = IF i <= used THEN first[i] ELSE second[i - used]
  <2>1. /\ first \o second \in Seq(CachedBlock)
        /\ Len(first \o second) = Len(first) + Len(second)
        /\ \A i \in 1 .. Len(first) + Len(second) :
              (first \o second)[i] = IF i <= Len(first) THEN first[i]
                                     ELSE second[i - Len(first)]
    BY <1>6, <1>7, ConcatProperties
  <2> QED BY <1>5, <1>6, <1>7, <2>1
<1>9. ASSUME NEW i \in 1 .. Len(blocks)
      PROVE  /\ blocks[i].file = f
             /\ i <= used => blocks[i].type = "filter"
             /\ i > used => blocks[i].type # "filter"
  <2>1. CASE i <= used
    BY <1>1, <1>3, <1>8, <2>1
  <2>2. CASE i > used
    <3>1. i - used \in 1 .. Len(reads)
      BY <1>1, <1>8, <2>2
    <3> QED BY <1>1, <1>4, <1>8, <2>2, <3>1
  <2> QED BY <1>1, <1>8, <2>1, <2>2
<1> QED BY <1>0, <1>8, <1>9 DEF FilterFirst
=============================================================================
