---------------------------- MODULE DriverProofs ----------------------------
(***************************************************************************)
(* Proofs about the operators of the file system drivers, for volumes of   *)
(* every size.                                                             *)
(***************************************************************************)
EXTENDS Ext2, Btrfs, FiniteSetsExt, Integers, Sequences, SequenceTheorems,
        NaturalsInduction, WellFoundedInduction, TLAPS

\* A set of natural numbers that is not empty has a least member.
LEMMA LeastOf ==
  ASSUME NEW S, S \subseteq Nat, S # {}
  PROVE  \E n \in S : \A k \in S : n <= k
<1>1. PICK n \in S : \A k \in S : ~ (<<k, n>> \in OpToRel(<, Nat))
  BY NatLessThanWellFounded, WFMin
<1>2. \A k \in S : ~ (k < n)
  BY <1>1 DEF OpToRel
<1> QED
  BY <1>2

\* Induction up to N, with a set for the property.
LEMMA UpTo ==
  ASSUME NEW N \in Nat, NEW S, 0 \in S, \A i \in 1 .. N : i - 1 \in S => i \in S
  PROVE  \A i \in 0 .. N : i \in S
<1> DEFINE Bad == {i \in 0 .. N : i \notin S}
<1>1. ASSUME Bad # {} PROVE FALSE
  <2>0. Bad \subseteq Nat
    OBVIOUS
  <2>1. PICK n \in Bad : \A k \in Bad : n <= k
    <3> HIDE DEF Bad
    <3> QED
      BY <1>1, <2>0, LeastOf
  <2>2. n \in 1 .. N /\ n - 1 \in 0 .. N /\ ~(n <= n - 1)
    BY <2>1
  <2> QED
    BY <2>1, <2>2
<1> QED
  BY <1>1

Iterates(f, a, N, F) == f[0] = a /\ \A i \in 1 .. N : f[i] = F[<<f[i - 1], i>>]

\* A step that is a function can be repeated: the functions that the loops of
\* the drivers are written as exist.
LEMMA IterationExists ==
  ASSUME NEW X, NEW N \in Nat, NEW a \in X, NEW F \in [X \X (1 .. N) -> X]
  PROVE  \E f \in [0 .. N -> X] : Iterates(f, a, N, F)
<1> DEFINE Upto(n, f) == /\ f \in [0 .. n -> X] /\ f[0] = a
                         /\ \A i \in 1 .. n : f[i] = F[<<f[i - 1], i>>]
           S == {n \in 0 .. N : \E f : Upto(n, f)}
<1>1. 0 \in S
  <2>1. Upto(0, [i \in 0 .. 0 |-> a])
    OBVIOUS
  <2>2. 0 \in 0 .. N
    OBVIOUS
  <2> HIDE DEF Upto
  <2> QED
    BY <2>1, <2>2, Zenon
<1>2. ASSUME NEW n \in 1 .. N, n - 1 \in S PROVE n \in S
  <2>1. PICK f : Upto(n - 1, f)
    BY <1>2
  <2>2. PICK b : b = F[<<f[n - 1], n>>]
    OBVIOUS
  <2>3. f[n - 1] \in X /\ b \in X
    BY <2>1, <2>2
  <2>4. PICK g : g = [i \in 0 .. n |-> IF i = n THEN b ELSE f[i]]
    OBVIOUS
  <2>5. g[n] = b /\ \A i \in 0 .. n - 1 : g[i] = f[i]
    BY <2>4
  <2>6. g \in [0 .. n -> X]
    <3>1. ASSUME NEW i \in 0 .. n PROVE (IF i = n THEN b ELSE f[i]) \in X
      BY <2>1, <2>3
    <3> QED
      BY <2>4, <3>1
  <2>7. ASSUME NEW i \in 1 .. n PROVE g[i] = F[<<g[i - 1], i>>]
    <3>1. g[i - 1] = f[i - 1]
      BY <2>5
    <3>2. CASE i = n
      BY <2>2, <2>5, <3>1, <3>2
    <3>3. CASE i # n
      <4>1. i \in 1 .. n - 1
        BY <3>3
      <4> QED
        BY <2>1, <2>5, <3>1, <4>1
    <3> QED
      BY <3>2, <3>3
  <2>8. g[0] = a
    BY <2>1, <2>5
  <2>9. Upto(n, g)
    BY <2>6, <2>7, <2>8
  <2> QED
    BY <2>9
<1>3. \A n \in 0 .. N : n \in S
  <2> HIDE DEF S
  <2> QED
    BY <1>1, <1>2, UpTo
<1>4. N \in S
  BY <1>3
<1> QED
  BY <1>4 DEF Iterates

-----------------------------------------------------------------------------
(* btrfs: binary search. *)

\* Slots are ordered, and at most one of them compares as equal.
Ascending(order, min, max) ==
  /\ order \in [min .. max - 1 -> Int]
  /\ \A i, j \in min .. max - 1 : i < j /\ order[j] <= 0 => order[i] < 0

\* What a search of low .. high - 1 must answer.
Answer(order, low, high, r) ==
  /\ r \in [slot : Nat, found : BOOLEAN]
  /\ r.slot \in low .. high
  /\ r.found => r.slot < high /\ order[r.slot] = 0
  /\ ~r.found => /\ \A i \in low .. r.slot - 1 : order[i] < 0
                 /\ \A i \in r.slot .. high - 1 : order[i] > 0

\* One round of the loop of bin_search, f being what the rest of it returns.
Round(f, order, low, high) ==
  LET mid == (low + high) \div 2
  IN IF low >= high THEN [slot |-> low, found |-> FALSE]
     ELSE CASE order[mid] < 0 -> f[<<mid + 1, high>>]
            [] order[mid] > 0 -> f[<<low, mid>>]
            [] OTHER -> [slot |-> mid, found |-> TRUE]

\* There is an answer for every part of the slots.
LEMMA AnswerExists ==
  ASSUME NEW order, NEW min \in Nat, NEW max \in Nat, Ascending(order, min, max),
         NEW low \in min .. max, NEW high \in min .. max, low <= high
  PROVE  \E r : Answer(order, low, high, r)
<1> DEFINE S == {k \in low .. high : \A i \in k .. high - 1 : order[i] >= 0}
<1>1. S \subseteq Nat /\ high \in S
  OBVIOUS
<1>2. PICK k \in S : \A j \in S : k <= j
  BY <1>1, LeastOf
<1>3. ASSUME NEW i \in low .. k - 1 PROVE order[i] < 0
  <2>1. k - 1 \notin S /\ k - 1 \in low .. high
    BY <1>2, <1>3
  <2>2. order[k - 1] < 0
    <3>1. PICK j \in k - 1 .. high - 1 : ~(order[j] >= 0)
      BY <2>1
    <3>2. j \notin k .. high - 1
      BY <1>2, <3>1
    <3>3. j = k - 1 /\ order[j] \in Int
      BY <3>1, <3>2, <2>1, <1>2 DEF Ascending
    <3> QED
      BY <3>1, <3>3
  <2>3. i \in min .. max - 1 /\ k - 1 \in min .. max - 1
    BY <1>2, <1>3
  <2> QED
    BY <2>2, <2>3, <1>3, <1>2 DEF Ascending
<1>4. CASE k < high /\ order[k] = 0
  <2>1. Answer(order, low, high, [slot |-> k, found |-> TRUE])
    BY <1>4, <1>2 DEF Answer
  <2> QED
    BY <2>1
<1>5. CASE ~(k < high /\ order[k] = 0)
  <2>1. ASSUME NEW i \in k .. high - 1 PROVE order[i] > 0
    <3>1. order[i] >= 0 /\ order[i] \in Int /\ k < high /\ order[k] \in Int
      BY <1>2, <2>1 DEF Ascending
    <3>2. CASE i = k
      BY <3>1, <3>2, <1>5
    <3>3. CASE i # k
      <4>1. order[k] >= 0 /\ k \in min .. max - 1 /\ i \in min .. max - 1 /\ k < i
        BY <1>2, <2>1, <3>3
      <4> QED
        BY <4>1, <3>1 DEF Ascending
    <3> QED
      BY <3>2, <3>3
  <2>2. Answer(order, low, high, [slot |-> k, found |-> FALSE])
    BY <1>2, <1>3, <2>1 DEF Answer
  <2> QED
    BY <2>2
<1> QED
  BY <1>4, <1>5

\* There is only one.
LEMMA AnswerUnique ==
  ASSUME NEW order, NEW min \in Nat, NEW max \in Nat, Ascending(order, min, max),
         NEW low \in min .. max, NEW high \in min .. max,
         NEW r, NEW s, Answer(order, low, high, r), Answer(order, low, high, s)
  PROVE  r = s
<1>1. r.slot \in low .. high /\ s.slot \in low .. high /\ r.found \in BOOLEAN /\ s.found \in BOOLEAN
  BY DEF Answer
<1>2. r.found = s.found
  <2>1. ASSUME NEW x, NEW y, Answer(order, low, high, x), Answer(order, low, high, y), x.found, ~y.found
        PROVE  FALSE
    <3>1. x.slot \in low .. high - 1 /\ order[x.slot] = 0 /\ y.slot \in low .. high
      BY <2>1 DEF Answer
    <3>2. x.slot \in low .. y.slot - 1 \/ x.slot \in y.slot .. high - 1
      BY <3>1
    <3> QED
      BY <3>1, <3>2, <2>1 DEF Answer
  <2>2. ~(r.found /\ ~s.found) /\ ~(s.found /\ ~r.found)
    BY <2>1
  <2> QED
    BY <1>1, <2>2
<1>3. r.slot = s.slot
  <2>1. CASE r.found
    <3>1. /\ r.slot \in min .. max - 1 /\ order[r.slot] = 0
          /\ s.slot \in min .. max - 1 /\ order[s.slot] = 0
      BY <2>1, <1>1, <1>2 DEF Answer
    <3> QED
      BY <3>1 DEF Ascending
  <2>2. CASE ~r.found
    <3>1. ASSUME NEW x, NEW y, Answer(order, low, high, x), Answer(order, low, high, y),
                 ~x.found, ~y.found, x.slot < y.slot
          PROVE  FALSE
      <4>1. x.slot \in low .. y.slot - 1 /\ x.slot \in x.slot .. high - 1
        BY <3>1 DEF Answer
      <4>2. order[x.slot] \in Int /\ order[x.slot] < 0 /\ order[x.slot] > 0
        BY <3>1, <4>1 DEF Answer, Ascending
      <4> QED
        BY <4>2
    <3>2. ~(r.slot < s.slot) /\ ~(s.slot < r.slot)
      BY <3>1, <2>2, <1>2
    <3> QED
      BY <3>2, <1>1
  <2> QED
    BY <2>1, <2>2
<1> QED
  BY <1>2, <1>3 DEF Answer

\* A round that can rely on the narrower searches answers.
LEMMA RoundAnswers ==
  ASSUME NEW order, NEW min \in Nat, NEW max \in Nat, Ascending(order, min, max),
         NEW low \in min .. max, NEW high \in min .. max, low <= high, NEW f,
         \A l, h \in min .. max :
            l <= h /\ h - l < high - low => Answer(order, l, h, f[<<l, h>>])
  PROVE  Answer(order, low, high, Round(f, order, low, high))
<1>1. CASE low = high
  <2>1. Round(f, order, low, high) = [slot |-> low, found |-> FALSE]
    BY <1>1 DEF Round
  <2> QED
    BY <1>1, <2>1 DEF Answer
<1>2. CASE low < high
  <2>1. PICK mid : mid = (low + high) \div 2
    OBVIOUS
  <2>2. mid \in low .. high - 1 /\ mid \in min .. max - 1
    BY <1>2, <2>1
  <2>3. order[mid] \in Int
    BY <2>2 DEF Ascending
  <2>4. CASE order[mid] < 0
    <3>1. PICK r : r = f[<<mid + 1, high>>]
      OBVIOUS
    <3>2. Round(f, order, low, high) = r
      BY <1>2, <2>1, <2>3, <2>4, <3>1 DEF Round
    <3>3. mid + 1 \in min .. max /\ mid + 1 <= high /\ high - (mid + 1) < high - low
      BY <2>2
    <3>4. Answer(order, mid + 1, high, r)
      BY <3>1, <3>3
    <3>5. \A i \in low .. mid : order[i] < 0
      BY <2>2, <2>3, <2>4 DEF Ascending
    <3>6. Answer(order, low, high, r)
      BY <3>4, <3>5, <2>2 DEF Answer
    <3> QED
      BY <3>2, <3>6
  <2>5. CASE order[mid] > 0
    <3>1. PICK r : r = f[<<low, mid>>]
      OBVIOUS
    <3>2. Round(f, order, low, high) = r
      BY <1>2, <2>1, <2>3, <2>5, <3>1 DEF Round
    <3>3. mid \in min .. max /\ low <= mid /\ mid - low < high - low
      BY <2>2
    <3>4. Answer(order, low, mid, r)
      BY <3>1, <3>3
    <3>5. \A i \in mid .. high - 1 : order[i] > 0
      <4>1. ASSUME NEW i \in mid .. high - 1 PROVE order[i] > 0
        <5>1. i \in min .. max - 1 /\ order[i] \in Int
          BY <2>2 DEF Ascending
        <5> QED
          BY <5>1, <2>2, <2>5 DEF Ascending
      <4> QED
        BY <4>1
    <3>6. Answer(order, low, high, r)
      BY <3>4, <3>5, <2>2 DEF Answer
    <3> QED
      BY <3>2, <3>6
  <2>6. CASE order[mid] = 0
    <3>1. Round(f, order, low, high) = [slot |-> mid, found |-> TRUE]
      BY <1>2, <2>1, <2>6 DEF Round
    <3> QED
      BY <3>1, <2>2, <2>6 DEF Answer
  <2> QED
    BY <2>3, <2>4, <2>5, <2>6
<1> QED
  BY <1>1, <1>2

\* btrfs.c:28-56.  For every number of slots, bin_search finds the slot that
\* compares as equal if there is one, and otherwise the place where it would be:
\* all slots before it are smaller, all from it on are greater.
THEOREM BinarySearchRight ==
  ASSUME NEW order, NEW min \in Nat, NEW max \in Nat, min <= max, Ascending(order, min, max)
  PROVE  Answer(order, min, max, bin_search(order, min, max))
<1> DEFINE Pairs == (min .. max) \X (min .. max)
           Eqn(f) == f = [r \in Pairs |-> Round(f, order, r[1], r[2])]
           Best(l, h) == IF l >= h THEN [slot |-> l, found |-> FALSE]
                         ELSE CHOOSE a : Answer(order, l, h, a)
<1> HIDE DEF Best
<1>0. PICK g : g = [r \in Pairs |-> Best(r[1], r[2])]
  OBVIOUS
<1>1. ASSUME NEW l \in min .. max, NEW h \in min .. max
      PROVE  g[<<l, h>>] = Best(l, h)
  BY <1>0
<1>2. ASSUME NEW l \in min .. max, NEW h \in min .. max, l <= h
      PROVE  Answer(order, l, h, g[<<l, h>>])
  <2>1. CASE l = h
    <3>1. g[<<l, h>>] = [slot |-> l, found |-> FALSE]
      BY <1>1, <2>1 DEF Best
    <3> QED
      BY <2>1, <3>1 DEF Answer
  <2>2. CASE l # h
    <3>1. Best(l, h) = CHOOSE a : Answer(order, l, h, a)
      BY <1>2, <2>2 DEF Best
    <3>2. Answer(order, l, h, Best(l, h))
      BY <1>2, <3>1, AnswerExists
    <3> QED
      BY <1>1, <3>2
  <2> QED
    BY <2>1, <2>2
<1>3. ASSUME NEW l \in min .. max, NEW h \in min .. max
      PROVE  g[<<l, h>>] = Round(g, order, l, h)
  <2>1. CASE l <= h
    <3>1. Answer(order, l, h, Round(g, order, l, h))
      BY <1>2, <2>1, RoundAnswers
    <3> QED
      BY <1>2, <2>1, <3>1, AnswerUnique
  <2>2. CASE ~(l <= h)
    BY <1>1, <2>2 DEF Round, Best
  <2> QED
    BY <2>1, <2>2
<1>4. Eqn(g)
  <2>1. [r \in Pairs |-> g[r]] = [r \in Pairs |-> Round(g, order, r[1], r[2])]
    <3>1. \A r \in Pairs : g[r] = Round(g, order, r[1], r[2])
      BY <1>3
    <3> QED
      BY <3>1
  <2>2. g = [r \in Pairs |-> g[r]]
    BY <1>0
  <2> QED
    BY <2>1, <2>2, Zenon
<1>5. PICK f : Eqn(f) /\ f = CHOOSE h : Eqn(h)
  BY <1>4
<1>6. ASSUME NEW l \in min .. max, NEW h \in min .. max
      PROVE  f[<<l, h>>] = Round(f, order, l, h)
  BY <1>5
<1> DEFINE Wrong == {d \in 0 .. max - min :
                       \E l, h \in min .. max : l <= h /\ h - l = d /\ ~Answer(order, l, h, f[<<l, h>>])}
<1>7. Wrong = {}
  <2>1. ASSUME Wrong # {} PROVE FALSE
    <3>1. Wrong \subseteq Nat
      OBVIOUS
    <3>2. PICK d \in Wrong : \A e \in Wrong : d <= e
      BY <2>1, <3>1, LeastOf
    <3>3. PICK l \in min .. max, h \in min .. max :
                 l <= h /\ h - l = d /\ ~Answer(order, l, h, f[<<l, h>>])
      BY <3>2
    <3>4. ASSUME NEW x \in min .. max, NEW y \in min .. max, x <= y, y - x < h - l
          PROVE  Answer(order, x, y, f[<<x, y>>])
      <4>1. y - x \in 0 .. max - min /\ ~(d <= y - x)
        BY <3>3, <3>4
      <4>2. y - x \notin Wrong
        BY <3>2, <4>1
      <4> QED
        BY <3>4, <4>1, <4>2
    <3>5. Answer(order, l, h, Round(f, order, l, h))
      BY <3>3, <3>4, RoundAnswers
    <3> QED
      BY <3>3, <3>5, <1>6
  <2> QED
    BY <2>1
<1>8. Answer(order, min, max, f[<<min, max>>])
  <2>1. max - min \in 0 .. max - min /\ max - min \notin Wrong
    <3>1. max - min \in 0 .. max - min
      OBVIOUS
    <3> HIDE DEF Wrong
    <3> QED
      BY <1>7, <3>1
  <2>2. min \in min .. max /\ max \in min .. max
    OBVIOUS
  <2> QED
    BY <2>1, <2>2
<1>9. CASE min = max
  <2>1. bin_search(order, min, max) = [slot |-> min, found |-> FALSE]
    BY <1>9 DEF bin_search
  <2> QED
    BY <1>9, <2>1 DEF Answer
<1>10. CASE min # max
  <2>1. bin_search(order, min, max) = (CHOOSE h : Eqn(h))[<<min, max>>]
    BY <1>10 DEF bin_search, Round
  <2> QED
    BY <2>1, <1>5, <1>8
<1> QED
  BY <1>9, <1>10

-----------------------------------------------------------------------------
(* btrfs: the chunk map. *)

\* The order of the chunk map, which bin_search relies on.
Ordered(map) ==
  \A i, j \in 1 .. Len(map) : i < j => map[i].logical < map[j].logical

ChunkMap(map) ==
  /\ map \in Seq(btrfs_chunk_map_item)
  /\ Len(map) <= BTRFS_MAX_CHUNK_ENTRIES
  /\ Ordered(map)

\* The addresses of two chunks are apart.
Apart(c, d) ==
  c.logical + c.length <= d.logical \/ d.logical + d.length <= c.logical

\* Chunk c holds the address, and no chunk of the map begins between the two.
Holds(map, c, logical) ==
  /\ c.logical <= logical /\ logical < c.logical + c.length
  /\ \A i \in 1 .. Len(map) : map[i].logical <= c.logical \/ logical < map[i].logical

\* What the search in an ordered map answers.
LEMMA FindChunkRight ==
  ASSUME NEW map \in Seq(btrfs_chunk_map_item), Ordered(map), NEW item, item.logical \in Nat,
         NEW s, s = FindChunk(map, item)
  PROVE  /\ s.slot \in 0 .. Len(map) /\ s.found \in BOOLEAN
         /\ s.found => s.slot < Len(map) /\ map[s.slot + 1].logical = item.logical
         /\ ~s.found => /\ \A i \in 1 .. s.slot : map[i].logical < item.logical
                        /\ \A i \in s.slot + 1 .. Len(map) : map[i].logical > item.logical
<1>1. PICK n \in Nat : n = Len(map)
  OBVIOUS
<1>2. \A i \in 1 .. n : map[i].logical \in Nat
  <2>1. \A i \in 1 .. n : map[i] \in btrfs_chunk_map_item
    BY <1>1, ElementOfSeq
  <2> QED
    BY <2>1 DEF btrfs_chunk_map_item
<1>3. PICK order : order = [i \in 0 .. n - 1 |-> btrfs_comp_chunk_map(map[i + 1], item)]
  OBVIOUS
<1>4. ASSUME NEW i \in 0 .. n - 1
      PROVE  /\ order[i] \in Int
             /\ order[i] < 0 <=> map[i + 1].logical < item.logical
             /\ order[i] = 0 <=> map[i + 1].logical = item.logical
             /\ order[i] > 0 <=> map[i + 1].logical > item.logical
  <2>1. order[i] = Sign(map[i + 1].logical, item.logical)
    BY <1>3 DEF btrfs_comp_chunk_map
  <2>2. map[i + 1].logical \in Nat
    BY <1>2
  <2> QED
    BY <2>1, <2>2 DEF Sign
<1>5. Ascending(order, 0, n)
  <2>1. order \in [0 .. n - 1 -> Int]
    <3>1. \A i \in 0 .. n - 1 : order[i] \in Int
      BY <1>4
    <3> QED
      BY <3>1, <1>3
  <2>2. ASSUME NEW i \in 0 .. n - 1, NEW j \in 0 .. n - 1, i < j, order[j] <= 0
        PROVE  order[i] < 0
    <3>1. map[i + 1].logical < map[j + 1].logical
      BY <2>2, <1>1 DEF Ordered
    <3>2. map[j + 1].logical <= item.logical
      BY <2>2, <1>2, <1>4
    <3>3. map[i + 1].logical \in Nat /\ map[j + 1].logical \in Nat
      BY <1>2
    <3> QED
      BY <3>1, <3>2, <3>3, <1>4
  <2> QED
    BY <2>1, <2>2 DEF Ascending
<1>6. Answer(order, 0, n, s)
  <2>1. s = bin_search(order, 0, n)
    BY <1>1, <1>3 DEF FindChunk
  <2> QED
    BY <2>1, <1>5, BinarySearchRight
<1>7. s.slot \in 0 .. n /\ s.found \in BOOLEAN
  BY <1>6 DEF Answer
<1>8. s.found => s.slot < n /\ map[s.slot + 1].logical = item.logical
  <2> HAVE s.found
  <2>1. s.slot \in 0 .. n - 1 /\ order[s.slot] = 0
    BY <1>6, <1>7 DEF Answer
  <2> QED
    BY <2>1, <1>4
<1>9. ASSUME ~s.found
      PROVE  /\ \A i \in 1 .. s.slot : map[i].logical < item.logical
             /\ \A i \in s.slot + 1 .. n : map[i].logical > item.logical
  <2>1. ASSUME NEW i \in 1 .. s.slot PROVE map[i].logical < item.logical
    <3>1. i - 1 \in 0 .. n - 1 /\ order[i - 1] < 0 /\ (i - 1) + 1 = i
      BY <1>9, <1>6, <1>7 DEF Answer
    <3> QED
      BY <3>1, <1>4
  <2>2. ASSUME NEW i \in s.slot + 1 .. n PROVE map[i].logical > item.logical
    <3>1. i - 1 \in 0 .. n - 1 /\ order[i - 1] > 0 /\ (i - 1) + 1 = i
      BY <1>9, <1>6, <1>7 DEF Answer
    <3> QED
      BY <3>1, <1>4
  <2> QED
    BY <2>1, <2>2
<1> QED
  BY <1>1, <1>7, <1>8, <1>9

Splice(map, k, item) == SubSeq(map, 1, k) \o <<item>> \o SubSeq(map, k + 1, Len(map))

\* Where the members of a sequence are after another one has been put in.
LEMMA Spliced ==
  ASSUME NEW S, NEW map \in Seq(S), NEW item \in S, NEW k \in 0 .. Len(map), NEW new,
         new = Splice(map, k, item)
  PROVE  /\ new \in Seq(S) /\ Len(new) = Len(map) + 1
         /\ \A i \in 1 .. k : new[i] = map[i]
         /\ new[k + 1] = item
         /\ \A i \in k + 1 .. Len(map) : new[i + 1] = map[i]
<1>1. PICK n \in Nat : n = Len(map)
  OBVIOUS
<1>2. \A i \in 1 .. n : map[i] \in S
  BY <1>1
<1>3. PICK a : a = SubSeq(map, 1, k)
  OBVIOUS
<1>4. a \in Seq(S) /\ Len(a) = k /\ \A i \in 1 .. k : a[i] = map[i]
  <2>1. \A i \in 1 .. k : map[i] \in S
    BY <1>1, <1>2
  <2>2. /\ a \in Seq(S)
        /\ Len(a) = IF 1 <= k THEN k - 1 + 1 ELSE 0
        /\ \A i \in 1 .. k - 1 + 1 : a[i] = map[1 + i - 1]
    BY <2>1, <1>3, SubSeqProperties
  <2> QED
    BY <2>2
<1>5. PICK b : b = SubSeq(map, k + 1, n)
  OBVIOUS
<1>6. b \in Seq(S) /\ Len(b) = n - k /\ \A i \in 1 .. n - k : b[i] = map[k + i]
  <2>1. \A i \in k + 1 .. n : map[i] \in S
    BY <1>1, <1>2
  <2>2. /\ b \in Seq(S)
        /\ Len(b) = IF k + 1 <= n THEN n - (k + 1) + 1 ELSE 0
        /\ \A i \in 1 .. n - (k + 1) + 1 : b[i] = map[(k + 1) + i - 1]
    BY <2>1, <1>5, SubSeqProperties
  <2>3. ASSUME NEW i \in 1 .. n - k PROVE b[i] = map[k + i]
    <3>1. i \in 1 .. n - (k + 1) + 1 /\ (k + 1) + i - 1 = k + i
      OBVIOUS
    <3> QED
      BY <3>1, <2>2
  <2> QED
    BY <2>2, <2>3, <1>1
<1>7. <<item>> \in Seq(S) /\ Len(<<item>>) = 1 /\ <<item>>[1] = item
  OBVIOUS
<1>8. PICK m : m = a \o <<item>>
  OBVIOUS
<1>9. m \in Seq(S) /\ Len(m) = k + 1 /\ m[k + 1] = item /\ \A i \in 1 .. k : m[i] = map[i]
  <2>1. /\ m \in Seq(S) /\ Len(m) = Len(a) + Len(<<item>>)
        /\ \A i \in 1 .. Len(a) + Len(<<item>>) :
             m[i] = IF i <= Len(a) THEN a[i] ELSE <<item>>[i - Len(a)]
    BY <1>4, <1>7, <1>8, ConcatProperties
  <2>2. /\ Len(m) = k + 1
        /\ \A i \in 1 .. k + 1 : m[i] = IF i <= k THEN a[i] ELSE <<item>>[i - k]
    BY <2>1, <1>4, <1>7
  <2> QED
    BY <2>1, <2>2, <1>4, <1>7
<1>10. new = m \o b
  BY <1>1, <1>3, <1>5, <1>8 DEF Splice
<1>11. /\ new \in Seq(S) /\ Len(new) = n + 1
       /\ \A i \in 1 .. n + 1 : new[i] = IF i <= k + 1 THEN m[i] ELSE b[i - (k + 1)]
  <2>1. /\ new \in Seq(S) /\ Len(new) = Len(m) + Len(b)
        /\ \A i \in 1 .. Len(m) + Len(b) :
             new[i] = IF i <= Len(m) THEN m[i] ELSE b[i - Len(m)]
    <3>1. m \in Seq(S) /\ b \in Seq(S)
      BY <1>6, <1>9
    <3>2. /\ m \o b \in Seq(S) /\ Len(m \o b) = Len(m) + Len(b)
          /\ \A i \in 1 .. Len(m) + Len(b) :
               (m \o b)[i] = IF i <= Len(m) THEN m[i] ELSE b[i - Len(m)]
      BY <3>1, ConcatProperties, Zenon
    <3> QED
      BY <1>10, <3>2, Zenon
  <2>2. Len(m) + Len(b) = n + 1 /\ Len(m) = k + 1
    BY <1>1, <1>6, <1>9
  <2> QED
    BY <2>1, <2>2
<1>12. ASSUME NEW i \in k + 1 .. n PROVE new[i + 1] = map[i]
  <2>1. i + 1 \in 1 .. n + 1 /\ ~(i + 1 <= k + 1) /\ (i + 1) - (k + 1) = i - k
    BY <1>1
  <2>2. i - k \in 1 .. n - k /\ k + (i - k) = i
    BY <1>1
  <2> QED
    BY <2>1, <2>2, <1>6, <1>11
<1>13. \A i \in 1 .. k + 1 : new[i] = m[i]
  <2>1. \A i \in 1 .. k + 1 : i \in 1 .. n + 1 /\ i <= k + 1
    BY <1>1
  <2> QED
    BY <2>1, <1>11
<1>14. (\A i \in 1 .. k : new[i] = map[i]) /\ new[k + 1] = item
  <2>1. k + 1 \in 1 .. k + 1 /\ \A i \in 1 .. k : i \in 1 .. k + 1
    BY <1>1
  <2> QED
    BY <1>9, <1>13, <2>1, Zenon
<1> QED
  BY <1>1, <1>11, <1>12, <1>14

InMap(map, c) == \E i \in 1 .. Len(map) : map[i] = c

\* insert_map takes the chunk: there is room, and none begins at its address.
Taken(map, item) ==
  /\ Len(map) < BTRFS_MAX_CHUNK_ENTRIES
  /\ \A i \in 1 .. Len(map) : map[i].logical # item.logical

\* btrfs.c:74-102.  The chunk map stays ordered by logical address and within its
\* memory whatever is inserted into it; it then has the chunks it had, and the
\* new one unless there is one at the same address or no room.
THEOREM ChunkMapStaysOrdered ==
  ASSUME NEW map, ChunkMap(map), NEW item \in btrfs_chunk_map_item
  PROVE  /\ ChunkMap(insert_map(map, item))
         /\ \A c : InMap(insert_map(map, item), c)
                     <=> InMap(map, c) \/ (c = item /\ Taken(map, item))
<1>1. PICK n \in Nat : n = Len(map) /\ n <= BTRFS_MAX_CHUNK_ENTRIES
  BY DEF ChunkMap
<1>2. map \in Seq(btrfs_chunk_map_item) /\ Ordered(map) /\ BTRFS_MAX_CHUNK_ENTRIES \in Nat
  BY BtrfsAssumption DEF ChunkMap
<1>3. item.logical \in Nat
  BY DEF btrfs_chunk_map_item
<1>4. \A i \in 1 .. n : map[i].logical \in Nat
  <2>1. \A i \in 1 .. n : map[i] \in btrfs_chunk_map_item
    BY <1>1, <1>2, ElementOfSeq
  <2> QED
    BY <2>1 DEF btrfs_chunk_map_item
<1>5. PICK s : s = FindChunk(map, item)
  OBVIOUS
<1>6. /\ s.slot \in 0 .. n /\ s.found \in BOOLEAN
      /\ s.found => s.slot < n /\ map[s.slot + 1].logical = item.logical
      /\ ~s.found => /\ \A i \in 1 .. s.slot : map[i].logical < item.logical
                     /\ \A i \in s.slot + 1 .. n : map[i].logical > item.logical
  BY <1>1, <1>2, <1>3, <1>5, FindChunkRight
<1>7. CASE s.found \/ n = BTRFS_MAX_CHUNK_ENTRIES
  <2>1. insert_map(map, item) = map
    BY <1>1, <1>5, <1>7 DEF insert_map
  <2>2. ~Taken(map, item)
    <3>1. CASE n = BTRFS_MAX_CHUNK_ENTRIES
      BY <1>1, <3>1 DEF Taken
    <3>2. CASE s.found
      <4>1. s.slot + 1 \in 1 .. n /\ map[s.slot + 1].logical = item.logical
        BY <1>6, <3>2
      <4> QED
        BY <4>1, <1>1 DEF Taken
    <3> QED
      BY <1>7, <3>1, <3>2
  <2> QED
    BY <2>1, <2>2
<1>8. CASE ~(s.found \/ n = BTRFS_MAX_CHUNK_ENTRIES)
  <2>1. PICK k \in 0 .. n : k = s.slot
    BY <1>6
  <2>2. PICK new : new = insert_map(map, item)
    OBVIOUS
  <2>3. new = Splice(map, k, item)
    BY <1>1, <1>5, <1>8, <2>1, <2>2 DEF insert_map, Splice
  <2>4. /\ new \in Seq(btrfs_chunk_map_item) /\ Len(new) = n + 1
        /\ \A i \in 1 .. k : new[i] = map[i]
        /\ new[k + 1] = item
        /\ \A i \in k + 1 .. n : new[i + 1] = map[i]
    <3>1. k \in 0 .. Len(map)
      BY <1>1, <2>1
    <3>2. /\ new \in Seq(btrfs_chunk_map_item) /\ Len(new) = Len(map) + 1
          /\ \A i \in 1 .. k : new[i] = map[i]
          /\ new[k + 1] = item
          /\ \A i \in k + 1 .. Len(map) : new[i + 1] = map[i]
      <4>1. PICK S : S = btrfs_chunk_map_item
        OBVIOUS
      <4>2. map \in Seq(S) /\ item \in S /\ k \in 0 .. Len(map) /\ new = Splice(map, k, item)
        BY <1>2, <2>3, <3>1, <4>1
      <4>3. /\ new \in Seq(S) /\ Len(new) = Len(map) + 1
            /\ \A i \in 1 .. k : new[i] = map[i]
            /\ new[k + 1] = item
            /\ \A i \in k + 1 .. Len(map) : new[i + 1] = map[i]
        <5>1. new \in Seq(S) /\ Len(new) = Len(map) + 1
          BY <4>2, Spliced, SMTT(30)
        <5>2. \A i \in 1 .. k : new[i] = map[i]
          BY <4>2, Spliced, SMTT(30)
        <5>3. new[k + 1] = item
          BY <4>2, Spliced, SMTT(30)
        <5>4. \A i \in k + 1 .. Len(map) : new[i + 1] = map[i]
          BY <4>2, Spliced, SMTT(30)
        <5> QED
          BY <5>1, <5>2, <5>3, <5>4
      <4> QED
        BY <4>1, <4>3
    <3> QED
      BY <1>1, <3>2, Zenon
  <2>5. /\ \A i \in 1 .. k : map[i].logical < item.logical
        /\ \A i \in k + 1 .. n : map[i].logical > item.logical
    BY <1>6, <1>8, <2>1
  <2>6. ASSUME NEW i \in 1 .. n + 1
        PROVE  \/ i <= k /\ i \in 1 .. n /\ new[i] = map[i]
               \/ i = k + 1 /\ new[i] = item
               \/ i > k + 1 /\ i - 1 \in k + 1 .. n /\ new[i] = map[i - 1]
    <3>1. CASE i <= k
      BY <2>1, <2>4, <3>1
    <3>2. CASE i = k + 1
      BY <2>4, <3>2
    <3>3. CASE i > k + 1
      <4>1. i - 1 \in k + 1 .. n /\ (i - 1) + 1 = i
        BY <3>3, <2>1
      <4> QED
        BY <4>1, <2>4, <3>3
    <3> QED
      BY <3>1, <3>2, <3>3, <2>1
  <2>7. Ordered(new)
    <3>1. ASSUME NEW i \in 1 .. n + 1, NEW j \in 1 .. n + 1, i < j
          PROVE  new[i].logical < new[j].logical
      <4>1. CASE j <= k
        <5>1. i \in 1 .. n /\ j \in 1 .. n /\ new[i] = map[i] /\ new[j] = map[j]
          BY <3>1, <4>1, <2>1, <2>4
        <5> QED
          BY <5>1, <3>1, <1>1, <1>2 DEF Ordered
      <4>2. CASE j = k + 1
        <5>1. i \in 1 .. k /\ new[i] = map[i] /\ new[j] = item
          BY <3>1, <4>2, <2>1, <2>4
        <5> QED
          BY <5>1, <2>5
      <4>3. CASE j > k + 1
        <5>1. j - 1 \in k + 1 .. n /\ new[j] = map[j - 1]
          BY <2>6, <4>3, <2>1
        <5>2. CASE i <= k
          <6>1. i \in 1 .. n /\ new[i] = map[i] /\ j - 1 \in 1 .. n /\ i < j - 1
            BY <5>1, <5>2, <2>1, <2>4
          <6> QED
            BY <5>1, <6>1, <1>1, <1>2 DEF Ordered
        <5>3. CASE i = k + 1
          BY <5>1, <5>3, <2>4, <2>5
        <5>4. CASE i > k + 1
          <6>1. i - 1 \in k + 1 .. n /\ new[i] = map[i - 1]
            BY <2>6, <5>4, <2>1
          <6>2. i - 1 \in 1 .. n /\ j - 1 \in 1 .. n /\ i - 1 < j - 1
            BY <5>1, <6>1, <3>1, <2>1
          <6> QED
            BY <5>1, <6>1, <6>2, <1>1, <1>2 DEF Ordered
        <5> QED
          BY <5>2, <5>3, <5>4, <2>1
      <4> QED
        BY <4>1, <4>2, <4>3, <2>1
    <3> QED
      BY <3>1, <2>4 DEF Ordered
  <2>8. ChunkMap(new)
    BY <1>1, <1>2, <1>8, <2>4, <2>7 DEF ChunkMap
  <2>9. Taken(map, item)
    <3>1. n < BTRFS_MAX_CHUNK_ENTRIES
      BY <1>1, <1>2, <1>8
    <3>2. ASSUME NEW i \in 1 .. n PROVE map[i].logical # item.logical
      <4>1. i \in 1 .. k \/ i \in k + 1 .. n
        BY <2>1
      <4> QED
        BY <4>1, <2>5, <1>3, <1>4
    <3> QED
      BY <1>1, <3>1, <3>2 DEF Taken
  <2>10. ASSUME NEW c
         PROVE  InMap(new, c) <=> InMap(map, c) \/ c = item
    <3>1. ASSUME InMap(new, c) PROVE InMap(map, c) \/ c = item
      <4>1. PICK i \in 1 .. n + 1 : new[i] = c
        BY <3>1, <2>4 DEF InMap
      <4>2. CASE i <= k
        BY <4>1, <4>2, <2>6, <1>1 DEF InMap
      <4>3. CASE i = k + 1
        BY <4>1, <4>3, <2>4
      <4>4. CASE i > k + 1
        <5>1. i - 1 \in 1 .. n /\ new[i] = map[i - 1]
          BY <4>4, <2>6, <2>1
        <5> QED
          BY <5>1, <4>1, <1>1 DEF InMap
      <4> QED
        BY <4>2, <4>3, <4>4, <2>1
    <3>2. ASSUME InMap(map, c) PROVE InMap(new, c)
      <4>1. PICK i \in 1 .. n : map[i] = c
        BY <3>2, <1>1 DEF InMap
      <4>2. CASE i <= k
        <5>1. i \in 1 .. n + 1 /\ new[i] = c
          BY <4>1, <4>2, <2>4
        <5> QED
          BY <5>1, <2>4 DEF InMap
      <4>3. CASE i > k
        <5>1. i + 1 \in 1 .. n + 1 /\ new[i + 1] = c
          BY <4>1, <4>3, <2>1, <2>4
        <5> QED
          BY <5>1, <2>4 DEF InMap
      <4> QED
        BY <4>2, <4>3, <2>1
    <3>3. InMap(new, item)
      <4>1. k + 1 \in 1 .. n + 1
        BY <2>1
      <4> QED
        BY <4>1, <2>4 DEF InMap
    <3> QED
      BY <3>1, <3>2, <3>3
  <2> QED
    BY <2>2, <2>8, <2>9, <2>10
<1> QED
  BY <1>7, <1>8

\* btrfs.c:108-126.  A logical address becomes the physical one that the chunk
\* which holds it says, in a map of any length; an address that no chunk holds
\* becomes -1.
THEOREM AddressesTranslated ==
  ASSUME NEW map, ChunkMap(map), NEW logical \in Nat
  PROVE  /\ \A c : InMap(map, c) /\ Holds(map, c, logical)
                     => logical_physical(map, logical) = c.physical + logical - c.logical
         /\ (\A c : InMap(map, c) => ~Holds(map, c, logical))
              => logical_physical(map, logical) = -1
<1>1. PICK n \in Nat : n = Len(map)
  BY DEF ChunkMap
<1>2. map \in Seq(btrfs_chunk_map_item) /\ Ordered(map)
  BY DEF ChunkMap
<1>3. \A i \in 1 .. n : map[i].logical \in Nat /\ map[i].length \in Nat /\ map[i].physical \in Nat
  <2>1. \A i \in 1 .. n : map[i] \in btrfs_chunk_map_item
    BY <1>1, <1>2, ElementOfSeq
  <2> QED
    BY <2>1 DEF btrfs_chunk_map_item
<1>4. PICK item : item = [logical |-> logical]
  OBVIOUS
<1>5. PICK s : s = FindChunk(map, item)
  OBVIOUS
<1>6. /\ s.slot \in 0 .. n /\ s.found \in BOOLEAN
      /\ s.found => s.slot < n /\ map[s.slot + 1].logical = logical
      /\ ~s.found => /\ \A i \in 1 .. s.slot : map[i].logical < logical
                     /\ \A i \in s.slot + 1 .. n : map[i].logical > logical
  <2>1. item.logical = logical
    BY <1>4
  <2> QED
    BY <1>1, <1>2, <1>5, <2>1, FindChunkRight
<1>7. PICK k : k = IF s.found THEN s.slot + 1 ELSE s.slot
  OBVIOUS
<1>8. k \in 0 .. n
  BY <1>6, <1>7
\* Chunk k is the last one that begins at or before the address.
<1>9. ASSUME NEW i \in 1 .. n PROVE map[i].logical <= logical <=> i <= k
  <2>1. CASE ~s.found
    <3>1. i \in 1 .. s.slot \/ i \in s.slot + 1 .. n
      BY <1>6
    <3> QED
      BY <1>3, <1>6, <1>7, <2>1, <3>1
  <2>2. CASE s.found
    <3>1. k \in 1 .. n /\ map[k].logical = logical
      BY <1>6, <1>7, <2>2
    <3>2. /\ i < k => map[i].logical < map[k].logical
          /\ k < i => map[k].logical < map[i].logical
      BY <1>1, <1>2, <3>1 DEF Ordered
    <3>3. i < k \/ i = k \/ k < i
      BY <3>1
    <3> QED
      BY <1>3, <3>1, <3>2, <3>3
  <2> QED
    BY <1>6, <2>1, <2>2
<1>10. logical_physical(map, logical) =
         IF k = 0 THEN -1
         ELSE IF logical >= map[k].logical + map[k].length THEN -1
         ELSE map[k].physical + logical - map[k].logical
  BY <1>4, <1>5, <1>7 DEF logical_physical
\* No other chunk can hold the address.
<1>11. ASSUME NEW i \in 1 .. n, Holds(map, map[i], logical) PROVE i = k
  <2>1. map[i].logical <= logical
    BY <1>11 DEF Holds
  <2>2. i <= k /\ k \in 1 .. n
    BY <2>1, <1>8, <1>9
  <2>3. map[k].logical <= map[i].logical \/ logical < map[k].logical
    BY <1>1, <1>11, <2>2 DEF Holds
  <2>4. map[k].logical <= logical
    BY <1>9, <2>2
  <2>5. ~(i < k)
    <3>1. i < k => map[i].logical < map[k].logical
      BY <1>1, <1>2, <2>2 DEF Ordered
    <3> QED
      BY <1>3, <2>2, <2>3, <2>4, <3>1
  <2> QED
    BY <2>2, <2>5
<1>12. ASSUME NEW c, InMap(map, c), Holds(map, c, logical)
       PROVE  logical_physical(map, logical) = c.physical + logical - c.logical
  <2>1. PICK i \in 1 .. n : map[i] = c
    BY <1>1, <1>12 DEF InMap
  <2>2. i = k
    BY <1>11, <1>12, <2>1
  <2>3. c = map[k] /\ k # 0
    BY <2>1, <2>2
  <2>4. logical < map[k].logical + map[k].length
    BY <1>12, <2>3 DEF Holds
  <2>5. ~(logical >= map[k].logical + map[k].length)
    BY <1>3, <2>1, <2>2, <2>4
  <2> QED
    BY <1>10, <2>3, <2>5
<1>13. ASSUME \A c : InMap(map, c) => ~Holds(map, c, logical)
       PROVE  logical_physical(map, logical) = -1
  <2>1. CASE k = 0
    BY <1>10, <2>1
  <2>2. CASE k # 0
    <3>1. k \in 1 .. n
      BY <1>8, <2>2
    <3>2. ~Holds(map, map[k], logical)
      BY <1>1, <1>13, <3>1 DEF InMap
    <3>3. map[k].logical <= logical
      BY <1>8, <1>9, <3>1
    <3>4. ASSUME NEW i \in 1 .. n PROVE map[i].logical <= map[k].logical \/ logical < map[i].logical
      <4>1. CASE i <= k
        <5>1. i < k => map[i].logical < map[k].logical
          BY <1>1, <1>2, <3>1 DEF Ordered
        <5> QED
          BY <1>3, <3>1, <4>1, <5>1
      <4>2. CASE ~(i <= k)
        BY <1>3, <1>9, <4>2
      <4> QED
        BY <4>1, <4>2
    <3>5. ~(logical < map[k].logical + map[k].length)
      BY <1>1, <3>2, <3>3, <3>4 DEF Holds
    <3>6. logical >= map[k].logical + map[k].length
      BY <1>3, <3>1, <3>5
    <3> QED
      BY <1>10, <2>2, <3>6
  <2> QED
    BY <2>1, <2>2
<1> QED
  BY <1>12, <1>13

\* btrfs.c:98.  The chunk map grows while it is used to read the tree whose items
\* are put into it.  If the chunks do not overlap, no address that could be
\* translated is translated differently afterwards, and the addresses of the
\* new chunk, if it is taken, are translated as it says.
THEOREM GrowingMapKeepsAddresses ==
  ASSUME NEW map, ChunkMap(map), NEW item \in btrfs_chunk_map_item, NEW logical \in Nat,
         \A c : InMap(map, c) => Apart(c, item) \/ c.logical = item.logical
  PROVE  /\ logical_physical(map, logical) # -1
              => logical_physical(insert_map(map, item), logical) = logical_physical(map, logical)
         /\ Taken(map, item) /\ item.logical <= logical /\ logical < item.logical + item.length
              => logical_physical(insert_map(map, item), logical)
                   = item.physical + logical - item.logical
<1>1. PICK new : new = insert_map(map, item)
  OBVIOUS
<1>2. ChunkMap(new) /\ \A c : InMap(new, c) <=> InMap(map, c) \/ (c = item /\ Taken(map, item))
  BY <1>1, ChunkMapStaysOrdered
<1>3. \A c : InMap(map, c) => c \in btrfs_chunk_map_item
  <2>1. ASSUME NEW c, InMap(map, c) PROVE c \in btrfs_chunk_map_item
    <3>1. map \in Seq(btrfs_chunk_map_item)
      BY DEF ChunkMap
    <3>2. PICK i \in 1 .. Len(map) : map[i] = c
      BY <2>1 DEF InMap
    <3> QED
      BY <3>1, <3>2, ElementOfSeq
  <2> QED
    BY <2>1
<1>4. ASSUME NEW i \in 1 .. Len(new) PROVE InMap(new, new[i])
  BY DEF InMap
<1>5. ASSUME logical_physical(map, logical) # -1
      PROVE  logical_physical(new, logical) = logical_physical(map, logical)
  <2>1. PICK c : InMap(map, c) /\ Holds(map, c, logical)
    BY <1>5, AddressesTranslated
  <2>2. c \in btrfs_chunk_map_item /\ InMap(new, c)
    BY <1>2, <1>3, <2>1
  <2>3. c.logical \in Nat /\ c.length \in Nat /\ item.logical \in Nat /\ item.length \in Nat
    BY <2>2 DEF btrfs_chunk_map_item
  <2>4. ASSUME NEW i \in 1 .. Len(new)
        PROVE  new[i].logical <= c.logical \/ logical < new[i].logical
    <3>1. InMap(map, new[i]) \/ new[i] = item
      BY <1>2, <1>4
    <3>2. CASE InMap(map, new[i])
      BY <2>1, <3>2 DEF InMap, Holds
    <3>3. CASE new[i] = item
      <4>1. Apart(c, item) \/ c.logical = item.logical
        BY <2>1
      <4>2. c.logical <= logical /\ logical < c.logical + c.length
        BY <2>1 DEF Holds
      <4> QED
        BY <2>3, <3>3, <4>1, <4>2 DEF Apart
    <3> QED
      BY <3>1, <3>2, <3>3
  <2>5. Holds(new, c, logical)
    BY <2>1, <2>4 DEF Holds
  <2>6. logical_physical(map, logical) = c.physical + logical - c.logical
    BY <2>1, AddressesTranslated
  <2>7. logical_physical(new, logical) = c.physical + logical - c.logical
    BY <1>2, <2>2, <2>5, AddressesTranslated
  <2> QED
    BY <2>6, <2>7
<1>6. ASSUME Taken(map, item), item.logical <= logical, logical < item.logical + item.length
      PROVE  logical_physical(new, logical) = item.physical + logical - item.logical
  <2>1. InMap(new, item)
    BY <1>2, <1>6
  <2>2. ASSUME NEW i \in 1 .. Len(new)
        PROVE  new[i].logical <= item.logical \/ logical < new[i].logical
    <3>1. InMap(map, new[i]) \/ new[i] = item
      BY <1>2, <1>4
    <3>2. CASE InMap(map, new[i])
      <4>1. PICK c : c = new[i]
        OBVIOUS
      <4>2. c \in btrfs_chunk_map_item /\ (Apart(c, item) \/ c.logical = item.logical)
        BY <1>3, <3>2, <4>1
      <4>3. c.logical \in Nat /\ c.length \in Nat /\ item.logical \in Nat /\ item.length \in Nat
        BY <4>2 DEF btrfs_chunk_map_item
      <4>4. c.logical <= item.logical \/ logical < c.logical
        BY <1>6, <4>2, <4>3 DEF Apart
      <4> QED
        BY <4>1, <4>4
    <3>3. CASE new[i] = item
      <4>1. item.logical \in Nat
        BY DEF btrfs_chunk_map_item
      <4> QED
        BY <3>3, <4>1
    <3> QED
      BY <3>1, <3>2, <3>3
  <2>3. Holds(new, item, logical)
    BY <1>6, <2>2 DEF Holds
  <2> QED
    BY <1>2, <2>1, <2>3, AddressesTranslated
<1> QED
  BY <1>1, <1>5, <1>6

\* btrfs.c:333-354.  Whatever chunks the super block lists and in whatever order,
\* the map made of them is ordered, has no chunk that is not listed, and has one
\* for every address listed unless it is full.
THEOREM SysChunksOrdered ==
  ASSUME NEW sb, sb.sys_chunk_array \in Seq(btrfs_chunk), NEW map,
         map = btrfs_read_sys_chunk_array(sb)
  PROVE  /\ ChunkMap(map)
         /\ \A c : InMap(map, c) =>
              \E i \in 1 .. Len(sb.sys_chunk_array) :
                 c = ChunkItem(sb.sys_chunk_array[i].key[3], sb.sys_chunk_array[i])
         /\ Len(map) < BTRFS_MAX_CHUNK_ENTRIES =>
              \A i \in 1 .. Len(sb.sys_chunk_array) :
                 \E c : InMap(map, c) /\ c.logical = sb.sys_chunk_array[i].key[3]
<1>1. PICK arr : arr = sb.sys_chunk_array
  OBVIOUS
<1>2. PICK N \in Nat : N = Len(arr)
  BY <1>1
<1> DEFINE It(i) == ChunkItem(arr[i].key[3], arr[i])
<1>3. ASSUME NEW i \in 1 .. N
      PROVE  It(i) \in btrfs_chunk_map_item /\ It(i).logical = arr[i].key[3]
  <2>1. arr[i] \in btrfs_chunk
    BY <1>1, <1>2, ElementOfSeq
  <2>2. arr[i].key[3] \in Nat /\ arr[i].length \in Nat /\ arr[i].stripe \in Nat
    BY <2>1 DEF btrfs_chunk, btrfs_disk_key
  <2> QED
    BY <2>2 DEF ChunkItem, btrfs_chunk_map_item
<1> HIDE DEF It
<1>4. PICK X : X = {m \in Seq(btrfs_chunk_map_item) : ChunkMap(m)}
  OBVIOUS
<1>5. <<>> \in X
  <2>1. <<>> \in Seq(btrfs_chunk_map_item) /\ Len(<<>>) = 0
    OBVIOUS
  <2>2. ChunkMap(<<>>)
    BY <2>1, BtrfsAssumption DEF ChunkMap, Ordered
  <2> QED
    BY <1>4, <2>1, <2>2
<1>6. ASSUME NEW m \in X, NEW i \in 1 .. N PROVE insert_map(m, It(i)) \in X
  <2>1. ChunkMap(m)
    BY <1>4
  <2>2. ChunkMap(insert_map(m, It(i)))
    BY <1>3, <2>1, ChunkMapStaysOrdered
  <2> QED
    BY <1>4, <2>2 DEF ChunkMap
<1> DEFINE Eqn(f) == f = [i \in 0 .. N |-> IF i = 0 THEN <<>> ELSE insert_map(f[i - 1], It(i))]
<1>7. \E g : Eqn(g)
  <2>1. PICK F : F = [p \in X \X (1 .. N) |-> insert_map(p[1], It(p[2]))]
    OBVIOUS
  <2>2. F \in [X \X (1 .. N) -> X]
    BY <1>6, <2>1
  <2>3. PICK g \in [0 .. N -> X] : g[0] = <<>> /\ \A i \in 1 .. N : g[i] = F[<<g[i - 1], i>>]
    <3>1. PICK e \in X : e = <<>>
      BY <1>5
    <3>2. PICK g \in [0 .. N -> X] : Iterates(g, e, N, F)
      BY <2>2, IterationExists
    <3> QED
      BY <3>1, <3>2 DEF Iterates
  <2>4. ASSUME NEW i \in 1 .. N PROVE g[i] = insert_map(g[i - 1], It(i))
    <3>1. i - 1 \in 0 .. N /\ g[i - 1] \in X
      BY <2>3
    <3>2. <<g[i - 1], i>> \in X \X (1 .. N)
      BY <3>1
    <3>3. F[<<g[i - 1], i>>] = insert_map(g[i - 1], It(i))
      BY <2>1, <3>2
    <3> QED
      BY <2>3, <3>3
  <2>5. \A i \in 0 .. N : g[i] = IF i = 0 THEN <<>> ELSE insert_map(g[i - 1], It(i))
    BY <2>3, <2>4
  <2>6. g = [i \in 0 .. N |-> g[i]]
    BY <2>3
  <2>7. [i \in 0 .. N |-> g[i]]
          = [i \in 0 .. N |-> IF i = 0 THEN <<>> ELSE insert_map(g[i - 1], It(i))]
    BY <2>5
  <2>8. Eqn(g)
    BY <2>6, <2>7, Zenon
  <2> QED
    BY <2>8
<1>8. PICK f : Eqn(f) /\ f = CHOOSE h : Eqn(h)
  BY <1>7
<1>9. map = f[N]
  BY <1>1, <1>2, <1>8, ZenonT(30) DEF btrfs_read_sys_chunk_array, It
<1>10. f[0] = <<>> /\ \A i \in 1 .. N : f[i] = insert_map(f[i - 1], It(i))
  BY <1>8
<1> HIDE DEF Eqn
\* After i chunks.
<1> DEFINE Read(i) ==
             /\ ChunkMap(f[i])
             /\ \A c : InMap(f[i], c) => \E k \in 1 .. i : c = It(k)
             /\ Len(f[i]) < BTRFS_MAX_CHUNK_ENTRIES =>
                  \A k \in 1 .. i : \E c : InMap(f[i], c) /\ c.logical = arr[k].key[3]
           S == {i \in 0 .. N : Read(i)}
<1>11. 0 \in S
  <2>1. ChunkMap(f[0]) /\ Len(f[0]) = 0
    BY <1>4, <1>5, <1>10
  <2> QED
    BY <2>1 DEF InMap
<1>12. ASSUME NEW i \in 1 .. N, i - 1 \in S PROVE i \in S
  <2>1. PICK m : m = f[i - 1]
    OBVIOUS
  <2>2. Read(i - 1)
    BY <1>12
  <2>3. PICK new : new = insert_map(m, It(i))
    OBVIOUS
  <2>4. f[i] = new
    BY <1>10, <2>1, <2>3
  <2>5. /\ ChunkMap(new)
        /\ \A c : InMap(new, c) <=> InMap(m, c) \/ (c = It(i) /\ Taken(m, It(i)))
    <3>1. ChunkMap(m)
      BY <2>1, <2>2
    <3> QED
      BY <1>3, <2>3, <3>1, ChunkMapStaysOrdered
  <2>6. \A c : InMap(new, c) => \E k \in 1 .. i : c = It(k)
    <3>1. ASSUME NEW c, InMap(new, c) PROVE \E k \in 1 .. i : c = It(k)
      <4>1. InMap(m, c) \/ c = It(i)
        BY <2>5, <3>1
      <4>2. CASE InMap(m, c)
        <5>1. PICK k \in 1 .. i - 1 : c = It(k)
          BY <2>1, <2>2, <4>2
        <5> QED
          BY <5>1
      <4>3. CASE c = It(i)
        BY <4>3
      <4> QED
        BY <4>1, <4>2, <4>3
    <3> QED
      BY <3>1
  <2>7. ASSUME Len(new) < BTRFS_MAX_CHUNK_ENTRIES, NEW k \in 1 .. i
        PROVE  \E c : InMap(new, c) /\ c.logical = arr[k].key[3]
    <3>1. Len(m) < BTRFS_MAX_CHUNK_ENTRIES
      <4>1. ASSUME ~(Len(m) < BTRFS_MAX_CHUNK_ENTRIES) PROVE FALSE
        <5>1. Len(m) = BTRFS_MAX_CHUNK_ENTRIES
          BY <2>1, <2>2, <4>1, BtrfsAssumption DEF ChunkMap
        <5>2. new = m
          BY <2>3, <5>1 DEF insert_map
        <5> QED
          BY <2>7, <4>1, <5>2
      <4> QED
        BY <4>1
    <3>2. CASE k < i
      <4>1. k \in 1 .. i - 1
        BY <3>2
      <4>2. PICK c : InMap(m, c) /\ c.logical = arr[k].key[3]
        BY <2>1, <2>2, <3>1, <4>1
      <4> QED
        BY <2>5, <4>2
    <3>3. CASE k = i /\ Taken(m, It(i))
      <4>1. InMap(new, It(i)) /\ It(i).logical = arr[k].key[3]
        BY <1>3, <2>5, <3>3
      <4> QED
        BY <4>1
    <3>4. CASE k = i /\ ~Taken(m, It(i))
      <4>1. PICK j \in 1 .. Len(m) : m[j].logical = It(i).logical
        BY <3>1, <3>4 DEF Taken
      <4>2. InMap(new, m[j])
        BY <2>5, <4>1 DEF InMap
      <4>3. m[j].logical = arr[k].key[3]
        BY <1>3, <3>4, <4>1
      <4> QED
        BY <4>2, <4>3
    <3> QED
      BY <3>2, <3>3, <3>4
  <2>8. Read(i)
    BY <2>4, <2>5, <2>6, <2>7
  <2> QED
    BY <2>8
<1>13. Read(N)
  <2>1. \A i \in 0 .. N : i \in S
    <3> HIDE DEF S
    <3> QED
      BY <1>11, <1>12, UpTo
  <2>2. N \in S
    BY <2>1
  <2> QED
    BY <2>2
<1> QED
  BY <1>1, <1>2, <1>9, <1>13 DEF It

-----------------------------------------------------------------------------
(* btrfs: the search in a tree. *)

\* btrfs_comp_keys is the order of triples.
LEMMA KeyOrder ==
  ASSUME NEW a \in btrfs_disk_key, NEW b \in btrfs_disk_key, NEW c \in btrfs_disk_key
  PROVE  /\ btrfs_comp_keys(a, b) \in Int
         /\ btrfs_comp_keys(a, b) = 0 <=> a = b
         /\ btrfs_comp_keys(a, b) > 0 <=> Before(b, a)
         /\ ~Before(a, a)
         /\ Before(a, b) \/ a = b \/ Before(b, a)
         /\ Before(a, b) => ~Before(b, a)
         /\ Before(a, b) /\ Before(b, c) => Before(a, c)
<1> DEFINE Lex(x, y) ==
             x[1] < y[1] \/ (x[1] = y[1] /\ (x[2] < y[2] \/ (x[2] = y[2] /\ x[3] < y[3])))
<1>1. \A x \in btrfs_disk_key : x[1] \in Nat /\ x[2] \in Nat /\ x[3] \in Nat
  BY DEF btrfs_disk_key
<1>2. ASSUME NEW x \in btrfs_disk_key, NEW y \in btrfs_disk_key
      PROVE  x = y <=> x[1] = y[1] /\ x[2] = y[2] /\ x[3] = y[3]
  BY DEF btrfs_disk_key
<1>3. ASSUME NEW x \in btrfs_disk_key, NEW y \in btrfs_disk_key
      PROVE  /\ btrfs_comp_keys(x, y) \in Int
             /\ btrfs_comp_keys(x, y) < 0 <=> Lex(x, y)
             /\ btrfs_comp_keys(x, y) = 0 <=> x = y
             /\ btrfs_comp_keys(x, y) > 0 <=> Lex(y, x)
  <2>1. btrfs_comp_keys(x, y) =
          IF (IF x[1] # y[1] THEN Sign(x[1], y[1]) ELSE Sign(x[2], y[2])) # 0
          THEN (IF x[1] # y[1] THEN Sign(x[1], y[1]) ELSE Sign(x[2], y[2]))
          ELSE Sign(x[3], y[3])
    BY DEF btrfs_comp_keys, btrfs_comp_keys_type
  <2> QED
    BY <1>1, <1>2, <2>1 DEF Sign
<1>4. \A x, y \in btrfs_disk_key : Before(x, y) <=> Lex(x, y)
  BY <1>3 DEF Before
<1>5. /\ btrfs_comp_keys(a, b) \in Int
      /\ btrfs_comp_keys(a, b) = 0 <=> a = b
      /\ btrfs_comp_keys(a, b) > 0 <=> Before(b, a)
  BY <1>3, <1>4
<1>6. /\ ~Lex(a, a)
      /\ Lex(a, b) \/ a = b \/ Lex(b, a)
      /\ Lex(a, b) => ~Lex(b, a)
      /\ Lex(a, b) /\ Lex(b, c) => Lex(a, c)
  BY <1>1, <1>2
<1> QED
  BY <1>4, <1>5, <1>6

\* The visit x of block nd took item i: the last one that is not after the key,
\* or the first one.
Chosen(nd, n, l, key, p, x, i) ==
  /\ x.item = nd.items[i]
  /\ x.found <=> nd.items[i].key = key
  /\ x.slots = [p.slots EXCEPT ![l] = i - 1]
  /\ \A j \in i + 1 .. n : Before(key, nd.items[j].key)
  /\ NotAfter(nd.items[i].key, key) \/ (i = 1 /\ Before(key, nd.items[1].key))

\* When the path has no slot there.
LEMMA VisitChooses ==
  ASSUME NEW nd, NEW n \in Nat \ {0}, n = Len(nd.items), NEW l \in 0 .. BTRFS_MAX_LEVEL - 1,
         nd.level = l, \A i \in 1 .. n : nd.items[i].key \in btrfs_disk_key,
         \A i, j \in 1 .. n : i < j => Before(nd.items[i].key, nd.items[j].key),
         NEW key \in btrfs_disk_key, NEW lo, NEW p, p.slots[l] = 0, NEW x,
         x = Visit(nd, lo, key, p)
  PROVE  \E i \in 1 .. n : Chosen(nd, n, l, key, p, x, i)
<1>1. PICK it : it = nd.items
  OBVIOUS
<1>2. PICK order : order = [i \in 0 .. n - 1 |-> btrfs_comp_keys(it[i + 1].key, key)]
  OBVIOUS
<1>3. ASSUME NEW i \in 0 .. n - 1
      PROVE  /\ order[i] \in Int
             /\ order[i] < 0 <=> Before(it[i + 1].key, key)
             /\ order[i] = 0 <=> it[i + 1].key = key
             /\ order[i] > 0 <=> Before(key, it[i + 1].key)
  <2>1. order[i] = btrfs_comp_keys(it[i + 1].key, key)
    BY <1>2
  <2>2. it[i + 1].key \in btrfs_disk_key
    BY <1>1
  <2> QED
    BY <2>1, <2>2, KeyOrder DEF Before
<1>4. Ascending(order, 0, n)
  <2>1. order \in [0 .. n - 1 -> Int]
    <3>1. \A i \in 0 .. n - 1 : order[i] \in Int
      BY <1>3
    <3> QED
      BY <3>1, <1>2
  <2>2. ASSUME NEW i \in 0 .. n - 1, NEW j \in 0 .. n - 1, i < j, order[j] <= 0
        PROVE  order[i] < 0
    <3>1. it[i + 1].key \in btrfs_disk_key /\ it[j + 1].key \in btrfs_disk_key
      BY <1>1
    <3>2. Before(it[i + 1].key, it[j + 1].key)
      BY <1>1, <2>2
    <3>3. Before(it[j + 1].key, key) \/ it[j + 1].key = key
      BY <1>3, <2>2
    <3>4. Before(it[i + 1].key, key)
      BY <3>1, <3>2, <3>3, KeyOrder
    <3> QED
      BY <1>3, <3>4
  <2> QED
    BY <2>1, <2>2 DEF Ascending
<1>5. PICK s : s = bin_search(order, 0, n)
  OBVIOUS
<1>6. Answer(order, 0, n, s)
  BY <1>4, <1>5, BinarySearchRight
<1>7. PICK a : a = IF ~s.found /\ s.slot > 0 THEN s.slot - 1 ELSE s.slot
  OBVIOUS
<1>8. a \in 0 .. n - 1 /\ s.found \in BOOLEAN /\ s.slot \in 0 .. n
  <2>1. s.slot \in 0 .. n /\ s.found \in BOOLEAN /\ (s.found => s.slot < n)
    BY <1>6 DEF Answer
  <2> QED
    BY <2>1, <1>7
<1>9. /\ x.item = it[a + 1] /\ x.found = s.found
      /\ x.slots = [p.slots EXCEPT ![l] = a]
  BY <1>1, <1>2, <1>5, <1>7 DEF Visit
<1>10. s.found <=> it[a + 1].key = key
  <2>1. CASE s.found
    <3>1. order[a] = 0
      BY <1>6, <1>7, <2>1 DEF Answer
    <3> QED
      BY <1>3, <1>8, <2>1, <3>1
  <2>2. CASE ~s.found
    <3>1. order[a] # 0
      <4>1. a \in 0 .. s.slot - 1 \/ a \in s.slot .. n - 1
        BY <1>8
      <4>2. order[a] < 0 \/ order[a] > 0
        BY <1>6, <2>2, <4>1 DEF Answer
      <4> QED
        BY <1>3, <1>8, <4>2
    <3> QED
      BY <1>3, <1>8, <2>2, <3>1
  <2> QED
    BY <1>8, <2>1, <2>2
<1>11. ASSUME NEW j \in a + 2 .. n PROVE Before(key, it[j].key)
  <2>1. j - 1 \in 0 .. n - 1 /\ (j - 1) + 1 = j
    BY <1>8
  <2>2. CASE s.found
    <3>1. it[a + 1].key = key
      BY <1>10, <2>2
    <3>2. Before(it[a + 1].key, it[j].key)
      BY <1>1, <1>8
    <3> QED
      BY <3>1, <3>2
  <2>3. CASE ~s.found
    <3>1. j - 1 \in s.slot .. n - 1
      BY <1>7, <1>8, <2>1, <2>3
    <3>2. order[j - 1] > 0
      BY <1>6, <2>3, <3>1 DEF Answer
    <3> QED
      BY <1>3, <2>1, <3>2
  <2> QED
    BY <1>8, <2>2, <2>3
<1>12. NotAfter(it[a + 1].key, key) \/ (a = 0 /\ Before(key, it[1].key))
  <2>1. CASE s.found
    BY <1>10, <2>1 DEF NotAfter
  <2>2. CASE ~s.found /\ s.slot > 0
    <3>1. a \in 0 .. s.slot - 1
      BY <1>7, <1>8, <2>2
    <3>2. order[a] < 0
      BY <1>6, <2>2, <3>1 DEF Answer
    <3> QED
      BY <1>3, <1>8, <3>2 DEF NotAfter
  <2>3. CASE ~s.found /\ ~(s.slot > 0)
    <3>1. a = 0 /\ s.slot = 0 /\ 0 \in s.slot .. n - 1
      BY <1>7, <1>8, <2>3
    <3>2. order[0] > 0
      BY <1>6, <2>3, <3>1 DEF Answer
    <3>3. 0 \in 0 .. n - 1 /\ 0 + 1 = 1
      OBVIOUS
    <3> QED
      BY <1>3, <3>1, <3>2, <3>3
  <2> QED
    BY <1>8, <2>1, <2>2, <2>3
<1>13. PICK i \in 1 .. n : i = a + 1
  BY <1>8
<1>14. a = i - 1 /\ i + 1 = a + 2
  BY <1>8, <1>13
<1>15. WITNESS i \in 1 .. n
<1>16. x.slots = [p.slots EXCEPT ![l] = i - 1]
  BY <1>9, <1>14
<1>17. \A j \in i + 1 .. n : Before(key, it[j].key)
  BY <1>11, <1>14
<1>18. NotAfter(it[i].key, key) \/ (i = 1 /\ Before(key, it[1].key))
  BY <1>12, <1>13, <1>14
<1>19. x.item = it[i] /\ (x.found <=> it[i].key = key)
  BY <1>9, <1>10, <1>13
<1> QED
  BY <1>1, <1>16, <1>17, <1>18, <1>19 DEF Chosen

\* What is looked for in A can be looked for in B: it has the last key of A that
\* is not after key.
Leads(A, B, key) ==
  /\ B \subseteq A
  /\ \A k \in A : NotAfter(k, key) => \E m \in B : NotAfter(k, m) /\ NotAfter(m, key)

LEMMA LeadsOn ==
  ASSUME NEW A \in SUBSET btrfs_disk_key, NEW B, NEW C, NEW key,
         Leads(A, B, key), Leads(B, C, key)
  PROVE  Leads(A, C, key)
<1>1. C \subseteq A /\ B \subseteq A /\ C \subseteq B
  BY DEF Leads
<1>2. ASSUME NEW k \in A, NotAfter(k, key)
      PROVE  \E m \in C : NotAfter(k, m) /\ NotAfter(m, key)
  <2>1. PICK b \in B : NotAfter(k, b) /\ NotAfter(b, key)
    BY <1>2 DEF Leads
  <2>2. PICK m \in C : NotAfter(b, m) /\ NotAfter(m, key)
    BY <2>1 DEF Leads
  <2>3. k \in btrfs_disk_key /\ b \in btrfs_disk_key /\ m \in btrfs_disk_key
    BY <1>1
  <2>4. NotAfter(k, m)
    BY <2>1, <2>2, <2>3, KeyOrder DEF NotAfter
  <2> QED
    BY <2>2, <2>4
<1> QED
  BY <1>1, <1>2 DEF Leads

\* The facts about one block of a tree.
LEMMA BlockOfTree ==
  ASSUME NEW v, NEW map, NEW T, NEW Keys, SearchTree(v, map, T, Keys), NEW lo \in T, NEW nd,
         nd = NodeAt(v, map, lo)
  PROVE  /\ nd.level \in 0 .. BTRFS_MAX_LEVEL - 1 /\ Len(nd.items) \in Nat \ {0}
         /\ \A i \in 1 .. Len(nd.items) : nd.items[i].key \in btrfs_disk_key
         /\ \A i, j \in 1 .. Len(nd.items) : i < j => Before(nd.items[i].key, nd.items[j].key)
         /\ Keys[lo] \subseteq btrfs_disk_key
<1>0. TreeBlock(v, map, T, Keys, lo, nd)
  BY DEF SearchTree
<1>1. /\ nd \in btrfs_leaf \cup btrfs_node /\ nd.items # <<>> /\ Keys[lo] \subseteq btrfs_disk_key
      /\ \A i, j \in 1 .. Len(nd.items) : i < j => Before(nd.items[i].key, nd.items[j].key)
  BY <1>0 DEF TreeBlock
<1>2. PICK I : nd.items \in Seq(I) /\ \A t \in I : t.key \in btrfs_disk_key
  <2>1. CASE nd \in btrfs_leaf
    <3>1. nd.items \in Seq(btrfs_item)
      BY <2>1 DEF btrfs_leaf
    <3>2. \A t \in btrfs_item : t.key \in btrfs_disk_key
      BY DEF btrfs_item, btrfs_chunk, btrfs_inode_item, btrfs_root_item, btrfs_dir_item,
             btrfs_file_extent_item, btrfs_root_ref
    <3> QED
      BY <3>1, <3>2
  <2>2. CASE nd \in btrfs_node
    <3>1. nd.items \in Seq([key : btrfs_disk_key, blockptr : Nat])
      BY <2>2 DEF btrfs_node
    <3>2. \A t \in [key : btrfs_disk_key, blockptr : Nat] : t.key \in btrfs_disk_key
      OBVIOUS
    <3> QED
      BY <3>1, <3>2
  <2> QED
    BY <1>1, <2>1, <2>2
<1>3. \A i \in 1 .. Len(nd.items) : nd.items[i].key \in btrfs_disk_key
  BY <1>2, ElementOfSeq
<1>4. Len(nd.items) \in Nat \ {0}
  BY <1>1, <1>2
<1>5. nd.level \in 0 .. BTRFS_MAX_LEVEL - 1
  <2>1. CASE nd \in btrfs_leaf
    <3>1. nd.level = 0
      BY <2>1 DEF btrfs_leaf
    <3> QED
      BY <3>1 DEF BTRFS_MAX_LEVEL
  <2>2. CASE nd \in btrfs_node
    <3>1. nd.level \in 1 .. BTRFS_MAX_LEVEL - 1
      BY <2>2 DEF btrfs_node
    <3> QED
      BY <3>1 DEF BTRFS_MAX_LEVEL
  <2> QED
    BY <1>1, <2>1, <2>2
<1> QED
  BY <1>1, <1>3, <1>4, <1>5

\* The visit x of a block of the tree takes the search on: to the block below that
\* has the key, or to the item.
Onward(v, map, T, Keys, lo, nd, key, p, x, i) ==
  /\ x.item = nd.items[i]
  /\ x.found <=> x.item.key = key
  /\ x.slots = [p.slots EXCEPT ![nd.level] = i - 1]
  /\ nd.level = 0 => Leads(Keys[lo], {x.item.key}, key)
  /\ nd.level # 0 => /\ x.item.blockptr \in T
                     /\ NodeAt(v, map, x.item.blockptr).level = nd.level - 1
                     /\ Leads(Keys[lo], Keys[x.item.blockptr], key)

LEMMA VisitLeads ==
  ASSUME NEW v, NEW map, NEW T, NEW Keys, SearchTree(v, map, T, Keys), NEW lo \in T, NEW nd,
         nd = NodeAt(v, map, lo), NEW key \in btrfs_disk_key, NEW p, p.slots[nd.level] = 0,
         NEW x, x = Visit(nd, lo, key, p)
  PROVE  \E i \in 1 .. Len(nd.items) : Onward(v, map, T, Keys, lo, nd, key, p, x, i)
<1>1. PICK it : it = nd.items
  OBVIOUS
<1>2. PICK n \in Nat \ {0} : n = Len(it)
  BY <1>1, BlockOfTree
<1>3. PICK l \in 0 .. BTRFS_MAX_LEVEL - 1 : l = nd.level
  BY BlockOfTree
<1>4. /\ \A i \in 1 .. n : it[i].key \in btrfs_disk_key
      /\ \A i, j \in 1 .. n : i < j => Before(it[i].key, it[j].key)
      /\ Keys[lo] \subseteq btrfs_disk_key
  BY <1>1, <1>2, BlockOfTree
<1>5. PICK i \in 1 .. n :
        /\ x.item = it[i] /\ (x.found <=> it[i].key = key)
        /\ x.slots = [p.slots EXCEPT ![l] = i - 1]
        /\ \A j \in i + 1 .. n : Before(key, it[j].key)
        /\ NotAfter(it[i].key, key) \/ (i = 1 /\ Before(key, it[1].key))
  <2>1. n = Len(nd.items) /\ p.slots[l] = 0 /\ nd.level = l
    BY <1>1, <1>2, <1>3
  <2>2. /\ \A k \in 1 .. n : nd.items[k].key \in btrfs_disk_key
        /\ \A k, j \in 1 .. n : k < j => Before(nd.items[k].key, nd.items[j].key)
    BY <1>1, <1>4
  <2>3. PICK i \in 1 .. n : Chosen(nd, n, l, key, p, x, i)
    BY <2>1, <2>2, VisitChooses, SMTT(30)
  <2>4. /\ x.item = it[i] /\ (x.found <=> it[i].key = key)
        /\ x.slots = [p.slots EXCEPT ![l] = i - 1]
        /\ \A j \in i + 1 .. n : Before(key, it[j].key)
        /\ NotAfter(it[i].key, key) \/ (i = 1 /\ Before(key, it[1].key))
    BY <1>1, <2>3, Zenon DEF Chosen
  <2> QED
    BY <2>4
<1>0. TreeBlock(v, map, T, Keys, lo, nd)
  BY DEF SearchTree
\* An item up to which the keys may be is not after the chosen one.
<1>6. ASSUME NEW j \in 1 .. n, NotAfter(it[j].key, key)
      PROVE  j <= i /\ NotAfter(it[i].key, key)
  <2>1. it[j].key \in btrfs_disk_key /\ it[1].key \in btrfs_disk_key
    BY <1>4
  <2>2. ~Before(key, it[j].key)
    BY <1>6, <2>1, KeyOrder DEF NotAfter
  <2>3. j <= i
    BY <1>5, <2>2
  <2>4. CASE i = 1
    <3>1. j = 1
      BY <2>3, <2>4
    <3> QED
      BY <1>6, <2>4, <3>1
  <2>5. CASE i # 1
    BY <1>5, <2>3, <2>5
  <2> QED
    BY <2>3, <2>4, <2>5
<1>7. ASSUME l = 0 PROVE Leads(Keys[lo], {it[i].key}, key)
  <2>1. Keys[lo] = {it[j].key : j \in 1 .. n}
    BY <1>0, <1>1, <1>2, <1>3, <1>7 DEF TreeBlock
  <2>2. ASSUME NEW k \in Keys[lo], NotAfter(k, key)
        PROVE  NotAfter(k, it[i].key) /\ NotAfter(it[i].key, key)
    <3>1. PICK j \in 1 .. n : k = it[j].key
      BY <2>1
    <3>2. j <= i /\ NotAfter(it[i].key, key)
      BY <1>6, <2>2, <3>1
    <3>3. j = i \/ Before(it[j].key, it[i].key)
      BY <1>4, <3>2
    <3> QED
      BY <3>1, <3>2, <3>3 DEF NotAfter
  <2>3. it[i].key \in Keys[lo]
    BY <2>1
  <2> QED
    BY <2>2, <2>3 DEF Leads
<1>8. ASSUME l # 0
      PROVE  /\ it[i].blockptr \in T
             /\ NodeAt(v, map, it[i].blockptr).level = l - 1
             /\ Leads(Keys[lo], Keys[it[i].blockptr], key)
  <2>1. /\ Keys[lo] = UNION {Keys[it[j].blockptr] : j \in 1 .. n}
        /\ \A j \in 1 .. n :
             /\ it[j].blockptr \in T
             /\ NodeAt(v, map, it[j].blockptr).level = l - 1
             /\ it[j].key \in Keys[it[j].blockptr]
             /\ \A k \in Keys[it[j].blockptr] :
                  /\ NotAfter(it[j].key, k)
                  /\ j < n => Before(k, it[j + 1].key)
    <3>1. n = Len(nd.items) /\ it = nd.items /\ l = nd.level /\ nd.level # 0
      BY <1>1, <1>2, <1>3, <1>8
    <3>2. Keys[lo] = UNION {Keys[nd.items[j].blockptr] : j \in 1 .. Len(nd.items)}
      BY <1>0, <3>1 DEF TreeBlock
    <3>3. \A j \in 1 .. Len(nd.items) :
             /\ nd.items[j].blockptr \in T
             /\ NodeAt(v, map, nd.items[j].blockptr).level = nd.level - 1
             /\ nd.items[j].key \in Keys[nd.items[j].blockptr]
             /\ \A k \in Keys[nd.items[j].blockptr] :
                  /\ NotAfter(nd.items[j].key, k)
                  /\ j < Len(nd.items) => Before(k, nd.items[j + 1].key)
      BY <1>0, <3>1 DEF TreeBlock
    <3>4. Keys[lo] = UNION {Keys[it[j].blockptr] : j \in 1 .. n}
      BY <3>1, <3>2
    <3>5. ASSUME NEW j \in 1 .. n
          PROVE  /\ it[j].blockptr \in T
                 /\ NodeAt(v, map, it[j].blockptr).level = l - 1
                 /\ it[j].key \in Keys[it[j].blockptr]
                 /\ \A k \in Keys[it[j].blockptr] :
                      /\ NotAfter(it[j].key, k)
                      /\ j < n => Before(k, it[j + 1].key)
      BY <3>1, <3>3
    <3> QED
      BY <3>4, <3>5
  <2>2. Keys[it[i].blockptr] \subseteq Keys[lo]
    BY <2>1
  <2>3. ASSUME NEW k \in Keys[lo], NotAfter(k, key)
        PROVE  \E m \in Keys[it[i].blockptr] : NotAfter(k, m) /\ NotAfter(m, key)
    <3>1. PICK j \in 1 .. n : k \in Keys[it[j].blockptr]
      BY <2>1
    <3>2. k \in btrfs_disk_key /\ it[j].key \in btrfs_disk_key /\ it[i].key \in btrfs_disk_key
      BY <1>4
    <3>3. NotAfter(it[j].key, k)
      BY <2>1, <3>1
    <3>4. NotAfter(it[j].key, key)
      BY <2>3, <3>2, <3>3, KeyOrder DEF NotAfter
    <3>5. j <= i /\ NotAfter(it[i].key, key)
      BY <1>6, <3>4
    <3>6. CASE j = i
      BY <2>3, <3>1, <3>6 DEF NotAfter
    <3>7. CASE j < i
      <4>1. j < n /\ j + 1 \in 1 .. n
        BY <3>7
      <4>2. Before(k, it[j + 1].key)
        BY <2>1, <3>1, <4>1
      <4>3. j + 1 = i \/ Before(it[j + 1].key, it[i].key)
        BY <1>4, <3>7, <4>1
      <4>4. it[j + 1].key \in btrfs_disk_key
        BY <1>4, <4>1
      <4>5. Before(k, it[i].key)
        BY <3>2, <4>2, <4>3, <4>4, KeyOrder
      <4>6. it[i].key \in Keys[it[i].blockptr]
        BY <2>1
      <4> QED
        BY <3>5, <4>5, <4>6 DEF NotAfter
    <3> QED
      BY <3>5, <3>6, <3>7
  <2> QED
    BY <2>1, <2>2, <2>3 DEF Leads
<1>9. i \in 1 .. Len(nd.items)
  BY <1>1, <1>2
<1> WITNESS i \in 1 .. Len(nd.items)
<1> QED
  BY <1>1, <1>3, <1>5, <1>7, <1>8, <1>9 DEF Onward

\* The visit of the block below the item that the visit y took.
Below(v, map, key, y) == Visit(NodeAt(v, map, y.item.blockptr), y.item.blockptr, key, y)

Descent(f, v, map, key, first, top) ==
  f = [l \in 0 .. top |-> IF l = top THEN first ELSE Below(v, map, key, f[l + 1])]

\* The function that search_tree is written as exists.
LEMMA DescentExists ==
  ASSUME NEW v, NEW map, NEW key, NEW first, NEW top \in Nat
  PROVE  \E f : Descent(f, v, map, key, first, top)
<1> DEFINE Upto(n, f) ==
             f = [l \in top - n .. top |-> IF l = top THEN first ELSE Below(v, map, key, f[l + 1])]
           S == {n \in 0 .. top : \E f : Upto(n, f)}
<1>1. 0 \in S
  <2>1. Upto(0, [l \in top .. top |-> first])
    OBVIOUS
  <2>2. 0 \in 0 .. top
    OBVIOUS
  <2> HIDE DEF Upto
  <2> QED
    BY <2>1, <2>2, Zenon
<1>2. ASSUME NEW n \in 1 .. top, n - 1 \in S PROVE n \in S
  <2>1. PICK f : Upto(n - 1, f)
    BY <1>2
  <2>2. PICK b : b = top - n
    OBVIOUS
  <2>3. b \in Nat /\ b < top /\ top - (n - 1) = b + 1
    BY <2>2
  <2>4. f = [l \in b + 1 .. top |-> IF l = top THEN first ELSE Below(v, map, key, f[l + 1])]
    BY <2>1, <2>3
  <2>5. PICK g : g = [l \in b .. top |-> IF l = b THEN Below(v, map, key, f[b + 1]) ELSE f[l]]
    OBVIOUS
  <2>6. \A l \in b + 1 .. top : g[l] = f[l]
    BY <2>3, <2>5
  <2>7. ASSUME NEW l \in b .. top
        PROVE  g[l] = IF l = top THEN first ELSE Below(v, map, key, g[l + 1])
    <3>1. CASE l = b
      <4>1. g[l] = Below(v, map, key, f[b + 1]) /\ g[b + 1] = f[b + 1] /\ l # top
        BY <2>3, <2>5, <2>6, <3>1
      <4> QED
        BY <3>1, <4>1
    <3>2. CASE l # b
      <4>1. l \in b + 1 .. top /\ g[l] = f[l]
        BY <2>3, <2>6, <3>2
      <4>2. f[l] = IF l = top THEN first ELSE Below(v, map, key, f[l + 1])
        BY <2>4, <4>1
      <4>3. l # top => g[l + 1] = f[l + 1]
        BY <2>3, <2>6, <4>1
      <4> QED
        BY <4>1, <4>2, <4>3
    <3> QED
      BY <3>1, <3>2
  <2>8. Upto(n, g)
    <3>1. g = [l \in b .. top |-> g[l]]
      BY <2>5
    <3>2. [l \in b .. top |-> g[l]]
            = [l \in b .. top |-> IF l = top THEN first ELSE Below(v, map, key, g[l + 1])]
      BY <2>7
    <3>3. g = [l \in b .. top |-> IF l = top THEN first ELSE Below(v, map, key, g[l + 1])]
      BY <3>1, <3>2, Zenon
    <3> QED
      BY <2>2, <3>3
  <2>9. n \in 0 .. top
    OBVIOUS
  <2> HIDE DEF Upto
  <2> QED
    BY <2>8, <2>9, Zenon
<1>3. top \in S
  <2>1. \A n \in 0 .. top : n \in S
    <3> HIDE DEF S
    <3> QED
      BY <1>1, <1>2, UpTo
  <2> QED
    BY <2>1
<1>4. PICK f : Upto(top, f)
  BY <1>3
<1>5. top - top = 0
  OBVIOUS
<1> QED
  BY <1>4, <1>5 DEF Descent

\* btrfs.c:248-289.  In a tree of any depth and width, search_tree ends at an item
\* of the tree: the last one that is not after the key, if there is one, and it
\* says that it found the key if and only if the key is in the tree.
THEOREM SearchFindsKey ==
  ASSUME NEW v, NEW map, NEW T, NEW Keys, SearchTree(v, map, T, Keys), NEW root \in T,
         NEW key \in btrfs_disk_key, NEW x, x = search_tree(v, map, root, key, clear_path)
  PROVE  /\ x.item.key \in Keys[root]
         /\ x.found <=> key \in Keys[root]
         /\ x.found <=> x.item.key = key
         /\ \A k \in Keys[root] :
              NotAfter(k, key) => NotAfter(k, x.item.key) /\ NotAfter(x.item.key, key)
<1> DEFINE top == NodeAt(v, map, root).level
           first == Visit(NodeAt(v, map, root), root, key, clear_path)
<1>1. top \in 0 .. BTRFS_MAX_LEVEL - 1
  BY BlockOfTree
<1>2. x = (CHOOSE f : Descent(f, v, map, key, first, top))[0]
  BY DEF search_tree, Below, Descent
<1> HIDE DEF top, first
<1>3. top \in Nat /\ top < BTRFS_MAX_LEVEL /\ BTRFS_MAX_LEVEL \in Nat
  BY <1>1 DEF BTRFS_MAX_LEVEL
<1>4. PICK f : Descent(f, v, map, key, first, top) /\ f = CHOOSE g : Descent(g, v, map, key, first, top)
  BY <1>3, DescentExists
<1>5. x = f[0]
  BY <1>2, <1>4
<1>6. f[top] = first /\ \A l \in 0 .. top - 1 : f[l] = Below(v, map, key, f[l + 1])
  BY <1>3, <1>4 DEF Descent
\* Where the descent is at level l.
<1> DEFINE At(l) ==
             LET y == f[l]
             IN /\ \A j \in 0 .. l - 1 : y.slots[j] = 0
                /\ \E s : y.slots = s /\ s \in [0 .. BTRFS_MAX_LEVEL - 1 -> Nat]
                /\ y.found <=> y.item.key = key
                /\ l = 0 => Leads(Keys[root], {y.item.key}, key)
                /\ l # 0 => /\ y.item.blockptr \in T
                            /\ NodeAt(v, map, y.item.blockptr).level = l - 1
                            /\ Leads(Keys[root], Keys[y.item.blockptr], key)
           S == {n \in 0 .. top : At(top - n)}
<1>7. Leads(Keys[root], Keys[root], key)
  BY DEF Leads, NotAfter
<1>8. \A lo \in T : Keys[lo] \in SUBSET btrfs_disk_key
  BY BlockOfTree
\* The same for the first visit and for the others.
<1>9. ASSUME NEW lo \in T, NEW l \in 0 .. top, NodeAt(v, map, lo).level = l,
             Leads(Keys[root], Keys[lo], key), NEW p,
             p.slots \in [0 .. BTRFS_MAX_LEVEL - 1 -> Nat], \A j \in 0 .. l : p.slots[j] = 0,
             f[l] = Visit(NodeAt(v, map, lo), lo, key, p)
      PROVE  At(l)
  <2>1. PICK nd : nd = NodeAt(v, map, lo)
    OBVIOUS
  <2>2. PICK y : y = f[l]
    OBVIOUS
  <2>3. p.slots[nd.level] = 0 /\ nd.level = l /\ y = Visit(nd, lo, key, p)
    BY <1>9, <2>1, <2>2
  <2>4. PICK i \in 1 .. Len(nd.items) : Onward(v, map, T, Keys, lo, nd, key, p, y, i)
    BY <2>1, <2>3, VisitLeads
  <2>5. Len(nd.items) \in Nat /\ i - 1 \in Nat
    BY <2>1, BlockOfTree
  <2>6. y.slots \in [0 .. BTRFS_MAX_LEVEL - 1 -> Nat] /\ \A j \in 0 .. l - 1 : y.slots[j] = 0
    <3>1. PICK s \in [0 .. BTRFS_MAX_LEVEL - 1 -> Nat] : s = p.slots
      BY <1>9
    <3>2. y.slots = [s EXCEPT ![l] = i - 1]
      BY <2>3, <2>4, <3>1 DEF Onward
    <3>3. \A j \in 0 .. l - 1 : j \in 0 .. BTRFS_MAX_LEVEL - 1 /\ j # l /\ s[j] = 0
      BY <1>3, <1>9, <3>1
    <3> QED
      BY <2>5, <3>2, <3>3
  <2>7. l = 0 => Leads(Keys[root], {y.item.key}, key)
    BY <1>8, <1>9, <2>3, <2>4, LeadsOn DEF Onward
  <2>8. l # 0 => Leads(Keys[root], Keys[y.item.blockptr], key)
    BY <1>8, <1>9, <2>3, <2>4, LeadsOn DEF Onward
  <2> QED
    BY <2>2, <2>3, <2>4, <2>6, <2>7, <2>8 DEF Onward
<1>10. 0 \in S
  <2>1. clear_path.slots = [l \in 0 .. BTRFS_MAX_LEVEL - 1 |-> 0]
    BY DEF clear_path
  <2>2. /\ clear_path.slots \in [0 .. BTRFS_MAX_LEVEL - 1 -> Nat]
        /\ \A j \in 0 .. top : clear_path.slots[j] = 0
    BY <1>3, <2>1
  <2>3. At(top)
    <3>1. NodeAt(v, map, root).level = top /\ top \in 0 .. top
      BY <1>3 DEF top
    <3>2. f[top] = Visit(NodeAt(v, map, root), root, key, clear_path)
      BY <1>6 DEF first
    <3> HIDE DEF At
    <3> QED
      BY <1>7, <1>9, <2>2, <3>1, <3>2
  <2>4. top - 0 = top /\ 0 \in 0 .. top
    BY <1>3
  <2> HIDE DEF At
  <2> QED
    BY <2>3, <2>4
<1>11. ASSUME NEW n \in 1 .. top, n - 1 \in S PROVE n \in S
  <2>1. PICK l : l = top - n
    OBVIOUS
  <2>2. /\ l \in 0 .. top - 1 /\ top - (n - 1) = l + 1 /\ l \in 0 .. top /\ l + 1 # 0
        /\ (l + 1) - 1 = l
    BY <1>3, <2>1
  <2>3. At(l + 1)
    <3> HIDE DEF At
    <3> QED
      BY <1>11, <2>2
  <2>4. PICK y : y = f[l + 1]
    OBVIOUS
  <2>5. PICK lo : lo = y.item.blockptr
    OBVIOUS
  <2>6. /\ lo \in T /\ NodeAt(v, map, lo).level = l /\ Leads(Keys[root], Keys[lo], key)
        /\ y.slots \in [0 .. BTRFS_MAX_LEVEL - 1 -> Nat]
        /\ \A j \in 0 .. l : y.slots[j] = 0
    BY <2>2, <2>3, <2>4, <2>5
  <2>7. f[l] = Visit(NodeAt(v, map, lo), lo, key, y)
    BY <1>6, <2>2, <2>4, <2>5 DEF Below
  <2> HIDE DEF At
  <2>8. At(l)
    BY <1>9, <2>2, <2>6, <2>7
  <2> QED
    BY <2>1, <2>8
<1>12. At(0)
  <2>1. \A n \in 0 .. top : n \in S
    <3> HIDE DEF S
    <3> QED
      BY <1>3, <1>10, <1>11, UpTo
  <2>2. top \in 0 .. top /\ top - top = 0
    BY <1>3
  <2>3. top \in S
    <3> HIDE DEF S
    <3> QED
      BY <2>1, <2>2
  <2> HIDE DEF At
  <2> QED
    BY <2>2, <2>3
<1>13. Leads(Keys[root], {x.item.key}, key) /\ (x.found <=> x.item.key = key)
  BY <1>5, <1>12
<1>14. \A k \in Keys[root] :
          NotAfter(k, key) => NotAfter(k, x.item.key) /\ NotAfter(x.item.key, key)
  BY <1>13 DEF Leads
<1>15. x.item.key \in Keys[root]
  BY <1>13 DEF Leads
<1>16. key \in Keys[root] => x.item.key = key
  <2> HAVE key \in Keys[root]
  <2>1. NotAfter(key, x.item.key) /\ NotAfter(x.item.key, key)
    BY <1>14 DEF NotAfter
  <2>2. x.item.key \in btrfs_disk_key
    BY <1>8, <1>15
  <2> QED
    BY <2>1, <2>2, KeyOrder DEF NotAfter
<1> QED
  BY <1>13, <1>14, <1>15, <1>16

\* btrfs.c:477-513.  A call of btrfs_readdir returns the entry of the directory with
\* the highest hash below the one returned before (or the highest of all, at the
\* start) and ends when there is none, wherever in the tree the entries are and
\* whatever lies around them.  So a listing has every hash above 0 once.
THEOREM ReaddirTakesNext ==
  ASSUME NEW v, NEW m, NEW T, NEW Keys, SearchTree(v, m.map, T, Keys), m.fs_tree \in T,
         NEW parent \in Nat, <<parent, BTRFS_INODE_ITEM_KEY, 0>> \in Keys[m.fs_tree],
         NEW offset \in 0 .. BTRFS_HIGHEST, NEW limit,
         limit = IF offset = 0 THEN BTRFS_HIGHEST ELSE offset - 1,
         NEW r, r = btrfs_readdir(v, m, parent, offset)
  PROVE  IF \E h \in 0 .. limit : <<parent, BTRFS_DIR_ITEM_KEY, h>> \in Keys[m.fs_tree]
         THEN /\ ~r.end /\ r.offset \in 0 .. limit
              /\ <<parent, BTRFS_DIR_ITEM_KEY, r.offset>> \in Keys[m.fs_tree]
              /\ \A h \in 0 .. limit :
                   <<parent, BTRFS_DIR_ITEM_KEY, h>> \in Keys[m.fs_tree] => h <= r.offset
         ELSE r.end /\ r.offset = offset
<1>1. limit \in Nat
  BY DEF BTRFS_HIGHEST
<1>2. PICK key : key = <<parent, BTRFS_DIR_ITEM_KEY, limit>>
  OBVIOUS
<1>3. PICK K : K = Keys[m.fs_tree]
  OBVIOUS
<1>4. PICK x : x = search_tree(v, m.map, m.fs_tree, key, clear_path)
  OBVIOUS
<1>5. \A h \in Nat : <<parent, BTRFS_DIR_ITEM_KEY, h>> \in btrfs_disk_key
  BY DEF btrfs_disk_key, BTRFS_DIR_ITEM_KEY
<1>6. key \in btrfs_disk_key
  BY <1>1, <1>2, <1>5
<1>7. /\ x.item.key \in K
      /\ x.found <=> x.item.key = key
      /\ \A k \in K : NotAfter(k, key) => NotAfter(k, x.item.key) /\ NotAfter(x.item.key, key)
  <2>1. /\ x.item.key \in Keys[m.fs_tree]
        /\ x.found <=> key \in Keys[m.fs_tree]
        /\ x.found <=> x.item.key = key
        /\ \A k \in Keys[m.fs_tree] :
             NotAfter(k, key) => NotAfter(k, x.item.key) /\ NotAfter(x.item.key, key)
    BY <1>4, <1>6, SearchFindsKey
  <2> QED
    BY <1>3, <2>1
<1>8. K \subseteq btrfs_disk_key
  BY <1>3, BlockOfTree
<1>9. PICK a : a = x.item.key
  OBVIOUS
<1>10. a \in btrfs_disk_key /\ a[1] \in Nat /\ a[2] \in Nat /\ a[3] \in Nat /\ a = <<a[1], a[2], a[3]>>
  BY <1>7, <1>8, <1>9 DEF btrfs_disk_key
<1>11. ASSUME NEW b \in btrfs_disk_key, NEW c \in btrfs_disk_key
       PROVE  NotAfter(b, c) <=> \/ b[1] < c[1] \/ (b[1] = c[1] /\ b[2] < c[2])
                                 \/ (b[1] = c[1] /\ b[2] = c[2] /\ b[3] <= c[3])
  <2>1. b[1] \in Nat /\ b[2] \in Nat /\ b[3] \in Nat /\ c[1] \in Nat /\ c[2] \in Nat /\ c[3] \in Nat
    BY DEF btrfs_disk_key
  <2>2. b = c <=> b[1] = c[1] /\ b[2] = c[2] /\ b[3] = c[3]
    BY DEF btrfs_disk_key
  <2>3. btrfs_comp_keys(b, c) =
          IF (IF b[1] # c[1] THEN Sign(b[1], c[1]) ELSE Sign(b[2], c[2])) # 0
          THEN (IF b[1] # c[1] THEN Sign(b[1], c[1]) ELSE Sign(b[2], c[2]))
          ELSE Sign(b[3], c[3])
    BY DEF btrfs_comp_keys, btrfs_comp_keys_type
  <2> QED
    BY <2>1, <2>2, <2>3 DEF NotAfter, Before, Sign
<1>12. key[1] = parent /\ key[2] = BTRFS_DIR_ITEM_KEY /\ key[3] = limit
  BY <1>2
<1>13. NotAfter(a, key)
  <2>1. PICK i : i = <<parent, BTRFS_INODE_ITEM_KEY, 0>>
    OBVIOUS
  <2>2. i \in K /\ i \in btrfs_disk_key /\ i[1] = parent /\ i[2] = BTRFS_INODE_ITEM_KEY
    BY <1>3, <1>8, <2>1
  <2>3. NotAfter(i, key)
    BY <1>6, <1>11, <1>12, <2>2 DEF BTRFS_INODE_ITEM_KEY, BTRFS_DIR_ITEM_KEY
  <2> QED
    BY <1>7, <1>9, <2>2, <2>3
<1>14. btrfs_comp_keys_type(key, a) = 0 <=> a[1] = parent /\ a[2] = BTRFS_DIR_ITEM_KEY
  BY <1>1, <1>10, <1>12 DEF btrfs_comp_keys_type, Sign, BTRFS_DIR_ITEM_KEY
<1>15. r = IF ~x.found /\ btrfs_comp_keys_type(key, a) # 0 THEN [end |-> TRUE, offset |-> offset]
           ELSE [end |-> FALSE, name |-> x.item.name, d_ino |-> x.item.location, offset |-> a[3]]
  BY <1>2, <1>4, <1>9 DEF btrfs_readdir, Search
<1>16. ASSUME NEW h \in 0 .. limit, <<parent, BTRFS_DIR_ITEM_KEY, h>> \in K
       PROVE  a[1] = parent /\ a[2] = BTRFS_DIR_ITEM_KEY /\ h <= a[3]
  <2>1. PICK b : b = <<parent, BTRFS_DIR_ITEM_KEY, h>>
    OBVIOUS
  <2>2. b \in K /\ b \in btrfs_disk_key /\ b[1] = parent /\ b[2] = BTRFS_DIR_ITEM_KEY /\ b[3] = h
    BY <1>8, <1>16, <2>1
  <2>3. NotAfter(b, key)
    BY <1>1, <1>6, <1>11, <1>12, <2>2
  <2>4. NotAfter(b, a)
    BY <1>7, <1>9, <2>2, <2>3
  <2>5. \/ parent < a[1] \/ (parent = a[1] /\ BTRFS_DIR_ITEM_KEY < a[2])
        \/ (parent = a[1] /\ BTRFS_DIR_ITEM_KEY = a[2] /\ h <= a[3])
    BY <1>10, <1>11, <2>2, <2>4
  <2>6. \/ a[1] < parent \/ (a[1] = parent /\ a[2] < BTRFS_DIR_ITEM_KEY)
        \/ (a[1] = parent /\ a[2] = BTRFS_DIR_ITEM_KEY /\ a[3] <= limit)
    BY <1>6, <1>10, <1>11, <1>12, <1>13
  <2> QED
    BY <1>10, <2>5, <2>6 DEF BTRFS_DIR_ITEM_KEY
<1>17. a[1] = parent /\ a[2] = BTRFS_DIR_ITEM_KEY => a[3] \in 0 .. limit
  <2> HAVE a[1] = parent /\ a[2] = BTRFS_DIR_ITEM_KEY
  <2>1. a[3] <= limit
    BY <1>6, <1>10, <1>11, <1>12, <1>13 DEF BTRFS_DIR_ITEM_KEY
  <2> QED
    BY <1>1, <1>10, <2>1
<1>18. CASE \E h \in 0 .. limit : <<parent, BTRFS_DIR_ITEM_KEY, h>> \in K
  <2>1. a[1] = parent /\ a[2] = BTRFS_DIR_ITEM_KEY
    BY <1>16, <1>18
  <2>2. ~r.end /\ r.offset = a[3]
    BY <1>14, <1>15, <2>1
  <2>3. a[3] \in 0 .. limit /\ <<parent, BTRFS_DIR_ITEM_KEY, a[3]>> \in K
    BY <1>7, <1>9, <1>10, <1>17, <2>1
  <2> QED
    BY <1>3, <1>16, <1>18, <2>2, <2>3
<1>19. CASE ~\E h \in 0 .. limit : <<parent, BTRFS_DIR_ITEM_KEY, h>> \in K
  <2>1. ~(a[1] = parent /\ a[2] = BTRFS_DIR_ITEM_KEY)
    BY <1>7, <1>9, <1>10, <1>17, <1>19
  <2>2. ~x.found
    BY <1>7, <1>9, <1>12, <2>1
  <2>3. r = [end |-> TRUE, offset |-> offset]
    BY <1>14, <1>15, <2>1, <2>2
  <2> QED
    BY <1>3, <1>19, <2>3
<1> QED
  BY <1>18, <1>19

-----------------------------------------------------------------------------
(* ext4: trees of extents. *)

\* bmap.c:33-39, 68-71.  In a list in order, the entry that both loops stop at is
\* the last one that does not start after the block.
LEMMA LastOfOrdered ==
  ASSUME NEW ents, NEW n \in Nat, n = Len(ents), NEW block \in Nat,
         \A i \in 1 .. n : ents[i].block \in Nat,
         \A i, j \in 1 .. n : i < j => ents[i].block < ents[j].block,
         NEW m, m = LastAtMost(ents, block)
  PROVE  /\ m \in 0 .. n
         /\ \A j \in 1 .. m : ents[j].block <= block
         /\ \A j \in m + 1 .. n : block < ents[j].block
<1> DEFINE S == {i \in 0 .. n : \A j \in 1 .. i : ents[j].block <= block}
           Back == {n - i : i \in S}
<1>1. 0 \in S
  OBVIOUS
<1>2. PICK k \in Back : \A x \in Back : k <= x
  <2>1. Back \subseteq Nat /\ Back # {}
    BY <1>1
  <2> HIDE DEF Back
  <2> QED
    BY <2>1, LeastOf
<1>3. PICK top \in S : \A i \in S : i <= top
  <2>1. PICK t \in S : k = n - t
    BY <1>2
  <2>2. ASSUME NEW i \in S PROVE i <= t
    <3>1. n - i \in Back /\ i \in 0 .. n /\ t \in 0 .. n
      BY <2>1, <2>2
    <3>2. n - t <= n - i
      <4> HIDE DEF Back
      <4> QED
        BY <1>2, <2>1, <3>1
    <3> QED
      BY <3>1, <3>2
  <2> QED
    BY <2>1, <2>2
<1>4. m = (CHOOSE i \in S : \A j \in S : i >= j)
  BY DEF LastAtMost, Max
<1>5. m \in S /\ \A i \in S : i <= m
  <2>1. top \in S /\ \A j \in S : top >= j
    BY <1>3
  <2>2. m \in S /\ \A j \in S : m >= j
    <3> HIDE DEF S
    <3> QED
      BY <1>4, <2>1, Zenon
  <2> QED
    BY <2>2
<1>6. ASSUME NEW j \in m + 1 .. n PROVE block < ents[j].block
  <2>1. m + 1 \notin S /\ m + 1 \in 1 .. n
    BY <1>5
  <2>2. PICK i \in 1 .. m + 1 : ~(ents[i].block <= block)
    BY <2>1
  <2>3. i = m + 1
    BY <1>5, <2>2
  <2>4. ents[m + 1].block \in Nat /\ ents[j].block \in Nat
    BY <2>1
  <2>5. j = m + 1 \/ ents[m + 1].block < ents[j].block
    BY <2>1, <1>5
  <2> QED
    BY <2>2, <2>3, <2>4, <2>5
<1> QED
  BY <1>5, <1>6

NoLeaf == [depth |-> 0, ents |-> <<>>]

\* What ext4_find_leaf goes to below the header up.
Under(v, block, up) ==
  LET i == LastAtMost(up.ents, block)
  IN IF i = 0 THEN NoLeaf ELSE v.ext[up.ents[i].leaf]

WayDown(f, v, block, first, top) ==
  f = [l \in 0 .. top |-> IF l = top THEN first ELSE Under(v, block, f[l + 1])]

\* The function that ext4_find_leaf is written as exists.
LEMMA WayDownExists ==
  ASSUME NEW v, NEW block, NEW first, NEW top \in Nat
  PROVE  \E f : WayDown(f, v, block, first, top)
<1> DEFINE Upto(n, f) ==
             f = [l \in top - n .. top |-> IF l = top THEN first ELSE Under(v, block, f[l + 1])]
           S == {n \in 0 .. top : \E f : Upto(n, f)}
<1>1. 0 \in S
  <2>1. Upto(0, [l \in top .. top |-> first])
    OBVIOUS
  <2>2. 0 \in 0 .. top
    OBVIOUS
  <2> HIDE DEF Upto
  <2> QED
    BY <2>1, <2>2, Zenon
<1>2. ASSUME NEW n \in 1 .. top, n - 1 \in S PROVE n \in S
  <2>1. PICK f : Upto(n - 1, f)
    BY <1>2
  <2>2. PICK b : b = top - n
    OBVIOUS
  <2>3. b \in Nat /\ b < top /\ top - (n - 1) = b + 1
    BY <2>2
  <2>4. f = [l \in b + 1 .. top |-> IF l = top THEN first ELSE Under(v, block, f[l + 1])]
    BY <2>1, <2>3
  <2>5. PICK g : g = [l \in b .. top |-> IF l = b THEN Under(v, block, f[b + 1]) ELSE f[l]]
    OBVIOUS
  <2>6. \A l \in b + 1 .. top : g[l] = f[l]
    BY <2>3, <2>5
  <2>7. ASSUME NEW l \in b .. top
        PROVE  g[l] = IF l = top THEN first ELSE Under(v, block, g[l + 1])
    <3>1. CASE l = b
      <4>1. g[l] = Under(v, block, f[b + 1]) /\ g[b + 1] = f[b + 1] /\ l # top
        BY <2>3, <2>5, <2>6, <3>1
      <4> QED
        BY <3>1, <4>1
    <3>2. CASE l # b
      <4>1. l \in b + 1 .. top /\ g[l] = f[l]
        BY <2>3, <2>6, <3>2
      <4>2. f[l] = IF l = top THEN first ELSE Under(v, block, f[l + 1])
        BY <2>4, <4>1
      <4>3. l # top => g[l + 1] = f[l + 1]
        BY <2>3, <2>6, <4>1
      <4> QED
        BY <4>1, <4>2, <4>3
    <3> QED
      BY <3>1, <3>2
  <2>8. Upto(n, g)
    <3>1. g = [l \in b .. top |-> g[l]]
      BY <2>5
    <3>2. [l \in b .. top |-> g[l]]
            = [l \in b .. top |-> IF l = top THEN first ELSE Under(v, block, g[l + 1])]
      BY <2>7
    <3>3. g = [l \in b .. top |-> IF l = top THEN first ELSE Under(v, block, g[l + 1])]
      BY <3>1, <3>2, Zenon
    <3> QED
      BY <2>2, <3>3
  <2>9. n \in 0 .. top
    OBVIOUS
  <2> HIDE DEF Upto
  <2> QED
    BY <2>8, <2>9, Zenon
<1>3. top \in S
  <2>1. \A n \in 0 .. top : n \in S
    <3> HIDE DEF S
    <3> QED
      BY <1>1, <1>2, UpTo
  <2> QED
    BY <2>1
<1>4. PICK f : Upto(top, f)
  BY <1>3
<1>5. top - top = 0
  OBVIOUS
<1> QED
  BY <1>4, <1>5 DEF WayDown

\* All that is known of the header x that is d levels above the leaves: the extent
\* of the block, if there is one, is below it.
Toward(T, Exts, root, block, d, x) ==
  \/ x = NoLeaf /\ \A e \in Exts[root] : ~Covers(e, block)
  \/ /\ x \in T /\ x.depth = d /\ Exts[x] \subseteq Exts[root]
     /\ \A e \in Exts[root] : Covers(e, block) => e \in Exts[x]

\* ext4_find_leaf keeps to the way on which the extent of the block lies.
LEMMA UnderToward ==
  ASSUME NEW v, NEW T, NEW Exts, ExtentTree(v, T, Exts), NEW root \in T, NEW block \in Nat,
         NEW d \in Nat, NEW x, Toward(T, Exts, root, block, d + 1, x)
  PROVE  Toward(T, Exts, root, block, d, Under(v, block, x))
<1>1. CASE x = NoLeaf /\ \A e \in Exts[root] : ~Covers(e, block)
  <2>1. x.ents = <<>> /\ Len(x.ents) = 0
    BY <1>1 DEF NoLeaf
  <2>2. LastAtMost(x.ents, block) = 0
    <3>1. LastAtMost(x.ents, block) \in 0 .. 0
      BY <2>1, LastOfOrdered
    <3> QED
      BY <3>1
  <2>3. Under(v, block, x) = NoLeaf
    BY <2>2 DEF Under
  <2> QED
    BY <1>1, <2>3 DEF Toward
<1>2. CASE /\ x \in T /\ x.depth = d + 1 /\ Exts[x] \subseteq Exts[root]
           /\ \A e \in Exts[root] : Covers(e, block) => e \in Exts[x]
  <2>1. x \in T /\ x.depth = d + 1 /\ Exts[x] \subseteq Exts[root] /\ ExtentBlock(v, T, Exts, x)
    BY <1>2 DEF ExtentTree
  <2>2. x.depth # 0
    BY <2>1
  <2>3. PICK n \in Nat : n = Len(x.ents)
    BY <2>1 DEF ExtentBlock, ext4_extent_header
  <2>4. PICK i : i = LastAtMost(x.ents, block)
    OBVIOUS
  <2> DEFINE child(j) == v.ext[x.ents[j].leaf]
  <2>5. /\ \A j \in 1 .. n : x.ents[j].block \in Nat
        /\ \A j, k \in 1 .. n : j < k => x.ents[j].block < x.ents[k].block
    <3>1. x.ents \in Seq(ext4_extent_idx)
      BY <2>1, <2>2 DEF ExtentBlock, ext4_extent_header
    <3>2. \A j \in 1 .. n : x.ents[j] \in ext4_extent_idx
      BY <2>3, <3>1, ElementOfSeq
    <3> QED
      BY <2>1, <2>3, <3>2 DEF ExtentBlock, ext4_extent_idx
  <2>6. /\ i \in 0 .. n
        /\ \A j \in 1 .. i : x.ents[j].block <= block
        /\ \A j \in i + 1 .. n : block < x.ents[j].block
    BY <2>3, <2>4, <2>5, LastOfOrdered
  <2>7. ASSUME NEW e \in Exts[x], Covers(e, block)
        PROVE  i # 0 /\ e \in Exts[child(i)]
    <3>1. PICK j \in 1 .. n : e \in Exts[child(j)]
      BY <2>1, <2>2, <2>3 DEF ExtentBlock
    <3>2. e.block \in Nat /\ e.len \in Nat
      BY <2>1 DEF ExtentBlock, ext4_extent
    <3>3. x.ents[j].block <= e.block
      BY <2>1, <2>2, <2>3, <3>1 DEF ExtentBlock
    <3>4. ~(j \in i + 1 .. n)
      BY <2>5, <2>6, <2>7, <3>2, <3>3 DEF Covers
    <3>5. j <= i
      BY <2>6, <3>4
    <3>6. ~(j < i)
      <4>1. ASSUME j < i PROVE FALSE
        <5>1. i \in 1 .. n
          BY <2>6, <4>1
        <5>2. e.block + e.len <= x.ents[i].block
          BY <2>1, <2>2, <2>3, <3>1, <4>1, <5>1 DEF ExtentBlock
        <5>3. x.ents[i].block <= block
          BY <2>6, <5>1
        <5> QED
          BY <2>5, <2>7, <3>2, <5>1, <5>2, <5>3 DEF Covers
      <4> QED
        BY <4>1
    <3>7. i = j
      BY <2>6, <3>5, <3>6
    <3> QED
      BY <3>1, <3>7
  <2>8. CASE i = 0
    <3>1. Under(v, block, x) = NoLeaf
      BY <2>4, <2>8 DEF Under
    <3> QED
      BY <1>2, <2>7, <2>8, <3>1 DEF Toward
  <2>9. CASE i # 0
    <3>1. Under(v, block, x) = child(i)
      BY <2>4, <2>9 DEF Under
    <3>2. i \in 1 .. n
      BY <2>6, <2>9
    <3>3. child(i) \in T /\ child(i).depth = d + 1 - 1
      BY <2>1, <2>2, <2>3, <3>2 DEF ExtentBlock
    <3>4. Exts[child(i)] \subseteq Exts[x]
      BY <2>1, <2>2, <2>3, <3>2 DEF ExtentBlock
    <3>5. child(i).depth = d
      BY <3>3
    <3> QED
      BY <1>2, <2>1, <2>7, <3>1, <3>3, <3>4, <3>5 DEF Toward
  <2> QED
    BY <2>8, <2>9
<1> QED
  BY <1>1, <1>2 DEF Toward

\* The leaf that ext4_find_leaf ends at.
LEMMA LeafToward ==
  ASSUME NEW v, NEW T, NEW Exts, ExtentTree(v, T, Exts), NEW root \in T, NEW block \in Nat,
         NEW leaf, leaf = ext4_find_leaf(v, root, block)
  PROVE  Toward(T, Exts, root, block, 0, leaf)
<1>1. PICK top : top = root.depth
  OBVIOUS
<1>2. top \in Nat
  BY <1>1 DEF ExtentTree, ExtentBlock, ext4_extent_header
<1>3. leaf = (CHOOSE h : WayDown(h, v, block, root, root.depth))[0]
  BY DEF ext4_find_leaf, Under, NoLeaf, WayDown
<1>4. PICK f : f = (CHOOSE h : WayDown(h, v, block, root, top))
  OBVIOUS
<1>5. WayDown(f, v, block, root, top)
  BY <1>2, <1>4, WayDownExists
<1>6. leaf = f[0]
  BY <1>1, <1>3, <1>4
<1>7. /\ f[top] = root
      /\ \A l \in 0 .. top - 1 : f[l] = Under(v, block, f[l + 1])
  <2>1. ASSUME NEW l \in 0 .. top
        PROVE  f[l] = IF l = top THEN root ELSE Under(v, block, f[l + 1])
    BY <1>5 DEF WayDown
  <2>2. top \in 0 .. top
    BY <1>2
  <2>3. ASSUME NEW l \in 0 .. top - 1 PROVE l \in 0 .. top /\ l # top
    BY <1>2
  <2> QED
    BY <2>1, <2>2, <2>3
<1> DEFINE S == {n \in 0 .. top : Toward(T, Exts, root, block, top - n, f[top - n])}
<1>8. 0 \in S
  <2>1. top - 0 = top /\ 0 \in 0 .. top
    BY <1>2
  <2>2. Toward(T, Exts, root, block, top, root)
    BY <1>1 DEF Toward
  <2> QED
    BY <1>7, <2>1, <2>2
<1>9. ASSUME NEW n \in 1 .. top, n - 1 \in S PROVE n \in S
  <2>1. PICK d \in Nat : d = top - n
    BY <1>2
  <2>2. d \in 0 .. top - 1 /\ top - (n - 1) = d + 1 /\ n \in 0 .. top
    BY <1>2, <2>1
  <2>3. Toward(T, Exts, root, block, d + 1, f[d + 1])
    BY <1>9, <2>2
  <2>4. Toward(T, Exts, root, block, d, f[d])
    BY <1>7, <2>2, <2>3, UnderToward
  <2> QED
    BY <2>1, <2>2, <2>4
<1>10. top \in S
  <2>1. \A n \in 0 .. top : n \in S
    <3> HIDE DEF S
    <3> QED
      BY <1>2, <1>8, <1>9, UpTo
  <2> QED
    BY <1>2, <2>1
<1>11. top - top = 0
  BY <1>2
<1> QED
  BY <1>6, <1>10, <1>11

\* bmap.c:16-87.  In a tree of extents of any depth and width, a block of the
\* file that an extent has is found, at its place in that extent and with as many
\* blocks as the extent still has from there; a block that no extent has is a
\* block 0 and no blocks.
THEOREM ExtentFound ==
  ASSUME NEW v, NEW T, NEW Exts, ExtentTree(v, T, Exts),
         NEW inode, inode.i_extent_hdr \in T, NEW block \in Nat,
         NEW r, r = bmap_extent(v, inode, block)
  PROVE  /\ \A e \in Exts[inode.i_extent_hdr] :
              Covers(e, block) => LET skip == block - e.block
                                  IN r = [blk |-> e.start + skip, n |-> e.len - skip]
         /\ (\A e \in Exts[inode.i_extent_hdr] : ~Covers(e, block))
              => r = [blk |-> 0, n |-> 0]
<1>1. PICK root \in T : root = inode.i_extent_hdr
  OBVIOUS
<1>2. PICK leaf : leaf = ext4_find_leaf(v, root, block)
  OBVIOUS
<1>3. PICK i : i = LastAtMost(leaf.ents, block)
  OBVIOUS
<1>4. r = IF i = 0 \/ block - leaf.ents[i].block >= leaf.ents[i].len
          THEN [blk |-> 0, n |-> 0]
          ELSE [blk |-> leaf.ents[i].start + (block - leaf.ents[i].block),
                n |-> leaf.ents[i].len - (block - leaf.ents[i].block)]
  BY <1>1, <1>2, <1>3 DEF bmap_extent
<1>5. Toward(T, Exts, root, block, 0, leaf)
  BY <1>2, LeafToward
<1>6. CASE leaf = NoLeaf /\ \A e \in Exts[root] : ~Covers(e, block)
  <2>1. leaf.ents = <<>> /\ Len(leaf.ents) = 0
    BY <1>6 DEF NoLeaf
  <2>2. i \in 0 .. 0
    BY <1>3, <2>1, LastOfOrdered
  <2>3. i = 0
    BY <2>2
  <2> QED
    BY <1>1, <1>4, <1>6, <2>3
<1>7. CASE /\ leaf \in T /\ leaf.depth = 0 /\ Exts[leaf] \subseteq Exts[root]
           /\ \A e \in Exts[root] : Covers(e, block) => e \in Exts[leaf]
  <2>1. ExtentBlock(v, T, Exts, leaf)
    BY <1>7 DEF ExtentTree
  <2>2. leaf.ents \in Seq(ext4_extent)
    BY <1>7, <2>1 DEF ExtentBlock, ext4_extent_header
  <2>3. PICK n \in Nat : n = Len(leaf.ents)
    BY <2>2
  <2>4. \A j \in 1 .. n : leaf.ents[j].block \in Nat /\ leaf.ents[j].len \in Nat
    <3>1. \A j \in 1 .. n : leaf.ents[j] \in ext4_extent
      BY <2>2, <2>3, ElementOfSeq
    <3> QED
      BY <3>1 DEF ext4_extent
  <2>5. \A j, k \in 1 .. n : j < k => leaf.ents[j].block < leaf.ents[k].block
    BY <2>1, <2>3 DEF ExtentBlock
  <2>6. /\ i \in 0 .. n
        /\ \A j \in 1 .. i : leaf.ents[j].block <= block
        /\ \A j \in i + 1 .. n : block < leaf.ents[j].block
    BY <1>3, <2>3, <2>4, <2>5, LastOfOrdered
  <2>7. Exts[leaf] = {leaf.ents[j] : j \in 1 .. n}
    BY <1>7, <2>1, <2>3 DEF ExtentBlock
  <2>8. ASSUME NEW e \in Exts[root], Covers(e, block)
        PROVE  i # 0 /\ e = leaf.ents[i]
    <3>1. PICK j \in 1 .. n : e = leaf.ents[j]
      BY <1>7, <2>7, <2>8
    <3>2. e.block \in Nat /\ e.len \in Nat
      BY <2>4, <3>1
    <3>3. ~(j \in i + 1 .. n)
      BY <2>4, <2>6, <2>8, <3>1, <3>2 DEF Covers
    <3>4. j <= i
      BY <2>6, <3>3
    <3>5. ASSUME j < i PROVE FALSE
      <4>1. i \in 1 .. n
        BY <2>6, <3>5
      <4>2. e.block + e.len <= leaf.ents[i].block
        BY <1>7, <2>1, <2>3, <3>1, <3>5, <4>1 DEF ExtentBlock
      <4>3. leaf.ents[i].block <= block /\ leaf.ents[i].block \in Nat
        BY <2>4, <2>6, <4>1
      <4> QED
        BY <2>8, <3>2, <4>2, <4>3 DEF Covers
    <3>6. i = j
      BY <2>6, <3>4, <3>5
    <3> QED
      BY <3>1, <3>6
  <2>9. ASSUME i # 0, block - leaf.ents[i].block < leaf.ents[i].len
        PROVE  leaf.ents[i] \in Exts[root] /\ Covers(leaf.ents[i], block)
    <3>1. i \in 1 .. n
      BY <2>6, <2>9
    <3>2. leaf.ents[i].block \in Nat /\ leaf.ents[i].len \in Nat /\ leaf.ents[i].block <= block
      BY <2>4, <2>6, <3>1
    <3>3. Covers(leaf.ents[i], block)
      BY <2>9, <3>2 DEF Covers
    <3>4. leaf.ents[i] \in Exts[leaf]
      BY <2>7, <3>1
    <3> QED
      BY <1>7, <3>3, <3>4
  <2>10. i # 0 => leaf.ents[i].block \in Nat /\ leaf.ents[i].len \in Nat
    BY <2>4, <2>6
  <2>11. ASSUME NEW e \in Exts[root], Covers(e, block)
         PROVE  r = [blk |-> e.start + (block - e.block), n |-> e.len - (block - e.block)]
    <3>1. i # 0 /\ e = leaf.ents[i]
      BY <2>8, <2>11
    <3>2. ~(block - e.block >= e.len)
      BY <2>10, <2>11, <3>1 DEF Covers
    <3> QED
      BY <1>4, <3>1, <3>2
  <2>12. ASSUME \A e \in Exts[root] : ~Covers(e, block)
         PROVE  r = [blk |-> 0, n |-> 0]
    <3>1. ~(i # 0 /\ block - leaf.ents[i].block < leaf.ents[i].len)
      BY <2>9, <2>12
    <3>2. i = 0 \/ block - leaf.ents[i].block >= leaf.ents[i].len
      BY <2>10, <3>1
    <3> QED
      BY <1>4, <3>2
  <2> QED
    BY <1>1, <2>11, <2>12
<1> QED
  BY <1>5, <1>6, <1>7 DEF Toward

=============================================================================
