--------------------------- MODULE FileReadProofs ---------------------------
(***************************************************************************)
(* Proofs about FileRead: the content of a file arrives complete and in    *)
(* order, however the reads are cut up, on every volume that satisfies     *)
(* ReadAssumption.                                                         *)
(***************************************************************************)
EXTENDS FileRead, SequenceTheorems, NaturalsInduction, WellFoundedInduction, TLAPS

-----------------------------------------------------------------------------
(* Arithmetic.  The provers know little of products and quotients. *)

\* What a quotient and a remainder are.
LEMMA DivFacts ==
  ASSUME NEW a \in Int, NEW b \in Nat, b > 0
  PROVE  /\ a \div b \in Int /\ a % b \in 0 .. b - 1
         /\ a = b * (a \div b) + (a % b)
OBVIOUS

\* Multiplication by a natural number keeps the order.
LEMMA MulLe ==
  ASSUME NEW a \in Int, NEW b \in Int, NEW c \in Nat, a <= b
  PROVE  c * a <= c * b
OBVIOUS

\* A product of natural numbers is one.
LEMMA MulNat ==
  ASSUME NEW a \in Nat, NEW b \in Nat
  PROVE  a * b \in Nat
OBVIOUS

\* Multiplication distributes over addition.
LEMMA MulAdd ==
  ASSUME NEW a \in Int, NEW b \in Int, NEW c \in Int
  PROVE  (a + b) * c = a * c + b * c
OBVIOUS

\* Multiplication is commutative.
LEMMA MulComm ==
  ASSUME NEW a \in Int, NEW b \in Int
  PROVE  a * b = b * a
OBVIOUS

\* What is smaller after a multiplication was smaller before.
LEMMA MulCancel ==
  ASSUME NEW a \in Int, NEW b \in Int, NEW c \in Nat, c * a < c * b
  PROVE  a < b
<1> SUFFICES ASSUME b <= a PROVE FALSE
  OBVIOUS
<1>1. c * b <= c * a
  BY MulLe
<1>2. c * a \in Int /\ c * b \in Int
  OBVIOUS
<1> QED BY <1>1, <1>2

\* Quotient and remainder are unique.
LEMMA DivUnique ==
  ASSUME NEW a \in Int, NEW b \in Nat, NEW q \in Int, NEW r \in 0 .. b - 1,
         a = b * q + r
  PROVE  a \div b = q /\ a % b = r
<1>1. /\ b \in Nat /\ b > 0 /\ a \div b \in Int /\ a % b \in 0 .. b - 1
      /\ a = b * (a \div b) + (a % b)
  BY DivFacts
<1>2. ASSUME NEW d \in Int, NEW e \in Int, b * d - b * e < b, b * d - b * e > - b
      PROVE d = e
  <2>1. b * (d - e) < b /\ b * (d - e) > - b
    BY <1>1, <1>2
  <2>2. d - e < 1
    <3> SUFFICES ASSUME d - e >= 1 PROVE FALSE
      OBVIOUS
    <3> QED BY <2>1, <1>1, MulLe
  <2>3. d - e > -1
    <3> SUFFICES ASSUME d - e <= -1 PROVE FALSE
      OBVIOUS
    <3> QED BY <2>1, <1>1, MulLe
  <2> QED BY <2>2, <2>3
<1>3. (a \div b) = q
  BY <1>1, <1>2
<1> QED BY <1>1, <1>3

\* A multiple has no remainder.
LEMMA MulDiv ==
  ASSUME NEW a \in Nat, NEW b \in Nat, b > 0
  PROVE  (a * b) % b = 0 /\ (a * b) \div b = a
<1>1. PICK x \in Nat : x = a * b
  BY MulNat
<1>2. PICK r \in 0 .. b - 1 : r = 0
  OBVIOUS
<1>3. x = b * a + r
  BY <1>1, <1>2, MulComm
<1>4. x \div b = a /\ x % b = r
  BY <1>3, DivUnique
<1> QED
  BY <1>1, <1>2, <1>4

\* A set of natural numbers that is not empty has a least member.
LEMMA LeastMember ==
  ASSUME NEW S, S \subseteq Nat, S # {}
  PROVE  \E n \in S : \A k \in S : n <= k
<1>1. \E n \in S : \A k \in S : ~ (<<k, n>> \in OpToRel(<, Nat))
  BY NatLessThanWellFounded, WFMin
<1>2. PICK n \in S : \A k \in S : ~ (<<k, n>> \in OpToRel(<, Nat))
  BY <1>1
<1>3. \A k \in S : ~ (k < n)
  BY <1>2 DEF OpToRel
<1> QED
  BY <1>3

-----------------------------------------------------------------------------
(* The inductive invariant. *)

\* A file on FAT that has a cluster.  One that has none is taken for the root
\* directory (run file_read_empty).
HasClusters == fs = "fat" => chain # <<>>

\* The file on the disk does not change.
FileInv ==
  /\ \/ fs = "fat" /\ chain \in FatChains /\ start = chain[1]
     \/ fs = "ext2" /\ chain \in Ext2Chains /\ Complete
  /\ entrysize \in Sizes
  /\ got \in Seq(Nat \cup {EXTENT_ZERO})

\* fat.c:113.  The size is only cut if the chain is too short for it.
SizeInv ==
  /\ size <= entrysize
  /\ size # entrysize => fs = "fat" /\ Len(chain) * ClusterBytes < entrysize

\* An extent is true for all of its sectors, also after the end of the file;
\* on FAT it ends where a cluster ends.
True(e) == \A k \in 0 .. e.len - 1 : Phys(e.lstart + k) = next_psector(e.pstart, k)
Aligned(e) == fs = "fat" => (e.lstart + e.len) % ClusterSecs = 0

ExtentInv == True(this) /\ True(nxt) /\ Aligned(this) /\ Aligned(nxt)

\* Where the call is: this_extent starts with the sector that comes next.
Running == pc \in {"extent", "join", "io", "end"}

PositionInv ==
  /\ offset <= entrysize
  /\ pc # "closed" => this.lstart = Len(got)
  /\ pc = "idle" \/ (pc = "ret" /\ more) => offset = SectorSize * Len(got)
  /\ Running => offset + bytes = SectorSize * Len(got)
  /\ Running /\ size = entrysize => left = entrysize - offset
  /\ pc = "join" => nxt.lstart = this.lstart + this.len
  /\ pc = "ret" /\ size = entrysize /\ bytes > 0 => (more <=> offset < entrysize)

\* The i-th link of the chain, counted from 0; the end after the last.
Link(i) == IF i < Len(chain) THEN chain[i + 1] ELSE EOC

\* A place in the chain is right for a file of n bytes: no matter where it is
\* if it is not in the file.
PlaceRight(place, n) ==
  /\ place.offset % ClusterSecs = 0
  /\ ClusterBytes * (place.offset \div ClusterSecs) < n =>
       /\ place.offset \div ClusterSecs <= Len(chain)
       /\ place.here = ClusterStart(Link(place.offset \div ClusterSecs))

\* The place remembered in the chain.
PlaceInv == fs = "fat" => PlaceRight(pvt, size)

IInv == /\ TypeOK /\ FileInv /\ SizeInv /\ ExtentInv /\ PositionInv /\ PlaceInv
        /\ ContentInOrder

-----------------------------------------------------------------------------
(* Clusters and sectors. *)

\* What the proofs need of the constants.
LEMMA Constants ==
  /\ SectorSize \in Nat /\ SectorSize > 0 /\ ClusterSecs \in Nat /\ ClusterSecs > 0
  /\ NClusters \in Nat /\ DataArea \in Nat /\ Word \in Nat /\ Word > 0
  /\ ClusterBytes \in Nat /\ ClusterBytes > 0 /\ ClusterBytes >= ClusterSecs
  /\ \A c \in Cluster : c \in Nat /\ c >= 2 /\ c # Hole /\ c < EOC - 1
  /\ EOC \in Nat /\ EOC \notin Cluster /\ EXTENT_ZERO = -1 /\ Hole = 0
<1>1. SectorSize \in Nat /\ SectorSize > 0 /\ ClusterSecs \in Nat /\ ClusterSecs > 0
  BY ReadAssumption
<1>2. ClusterSecs * 1 <= ClusterSecs * SectorSize
  BY <1>1, MulLe
<1>3. ClusterBytes \in Nat /\ ClusterBytes > 0 /\ ClusterBytes >= ClusterSecs
  BY <1>1, <1>2, MulNat DEF ClusterBytes
<1>4. Word > 0
  BY ReadAssumption
<1> QED
  BY <1>1, <1>3, <1>4, ReadAssumption DEF Cluster, EOC, Hole, EXTENT_ZERO

\* Where a cluster starts.
LEMMA StartNat ==
  ASSUME NEW c \in Cluster \cup {EOC}
  PROVE  /\ ClusterStart(c) \in Nat /\ ClusterStart(c) >= DataArea
         /\ (((c - 2) * ClusterSecs) % Word) + DataArea = ClusterStart(c)
         /\ ((ClusterStart(c) - DataArea) \div ClusterSecs) + 2 = c
<1>1. c - 2 \in Nat /\ c - 2 <= EOC - 2 /\ EOC - 2 \in Nat
  BY Constants DEF Cluster, EOC
<1>2. ClusterSecs * (c - 2) <= ClusterSecs * (EOC - 2)
  BY <1>1, Constants, MulLe
<1>3. (c - 2) * ClusterSecs \in Nat /\ (c - 2) * ClusterSecs = ClusterSecs * (c - 2)
  BY <1>1, Constants, MulNat, MulComm
<1>4. (EOC - 2) * ClusterSecs = ClusterSecs * (EOC - 2)
  BY <1>1, Constants, MulComm
<1>5. (c - 2) * ClusterSecs < Word
  BY <1>2, <1>3, <1>4, <1>1, Constants, MulNat, ReadAssumption
<1>6. ((c - 2) * ClusterSecs) % Word = (c - 2) * ClusterSecs
  BY <1>3, <1>5, Constants
<1>7. ((c - 2) * ClusterSecs) \div ClusterSecs = c - 2
  BY <1>1, <1>3, Constants, DivUnique
<1>8. ClusterStart(c) - DataArea = (c - 2) * ClusterSecs
  BY <1>3, Constants DEF ClusterStart
<1>9. ((ClusterStart(c) - DataArea) \div ClusterSecs) + 2 = c
  BY <1>7, <1>8, <1>1, Constants
<1> QED
  BY <1>3, <1>6, <1>9, Constants DEF ClusterStart

\* The chain of a file.
LEMMA ChainFacts ==
  ASSUME FileInv
  PROVE  /\ chain \in Seq(Cluster \cup {Hole}) /\ Len(chain) \in Nat
         /\ \A i \in 1 .. Len(chain) : chain[i] \in Cluster \cup {Hole}
         /\ fs = "fat" => \A i \in 1 .. Len(chain) : chain[i] \in Cluster
         /\ fs = "fat" => \A i, j \in 1 .. Len(chain) : chain[i] = chain[j] => i = j
<1>1. CASE fs = "fat"
  <2>1. chain \in FatChains
    BY <1>1 DEF FileInv
  <2>2. chain \in Seq(Cluster) /\ IsInjective(chain)
    BY <2>1, ReadAssumption
  <2>3. DOMAIN chain = 1 .. Len(chain) /\ Len(chain) \in Nat
    BY <2>2, LenProperties
  <2>4. \A i \in 1 .. Len(chain) : chain[i] \in Cluster
    BY <2>2, ElementOfSeq
  <2>5. chain \in Seq(Cluster \cup {Hole})
    BY <2>2, <2>3, <2>4
  <2> QED
    BY <2>2, <2>3, <2>4, <2>5 DEF IsInjective
<1>2. CASE fs # "fat"
  <2>1. chain \in Seq(Cluster \cup {Hole})
    BY <1>2, ReadAssumption DEF FileInv
  <2> QED
    BY <1>2, <2>1, LenProperties, ElementOfSeq
<1> QED
  BY <1>1, <1>2

\* The links are clusters, and then the end.
LEMMA LinkIn ==
  ASSUME FileInv, fs = "fat", NEW i \in Nat
  PROVE  /\ Link(i) \in Cluster \cup {EOC}
         /\ Link(i) \in Cluster <=> i < Len(chain)
BY ChainFacts, Constants DEF Link

\* fat.c:31-84.  The file allocation table leads from a link to the next.
LEMMA FatOfLink ==
  ASSUME FileInv, fs = "fat", NEW i \in Nat, i < Len(chain)
  PROVE  Fat(Link(i)) = Link(i + 1)
<1>1. Link(i) = chain[i + 1] /\ i + 1 \in 1 .. Len(chain) /\ Len(chain) \in Nat
  BY ChainFacts DEF Link
<1>2. CASE i + 1 < Len(chain)
  <2>1. i + 1 \in 1 .. Len(chain) - 1
    BY <1>1, <1>2
  <2>2. \A j \in 1 .. Len(chain) - 1 : chain[j] = chain[i + 1] => j = i + 1
    BY <1>1, ChainFacts
  <2>3. (CHOOSE j \in 1 .. Len(chain) - 1 : chain[j] = chain[i + 1]) = i + 1
    BY <2>1, <2>2
  <2>4. Fat(chain[i + 1]) = chain[1 + CHOOSE j \in 1 .. Len(chain) - 1 : chain[j] = chain[i + 1]]
    BY <2>1 DEF Fat
  <2>5. Fat(chain[i + 1]) = chain[1 + (i + 1)]
    BY <2>3, <2>4
  <2>6. Link(i + 1) = chain[(i + 1) + 1] /\ 1 + (i + 1) = (i + 1) + 1
    BY <1>2 DEF Link
  <2> QED
    BY <1>1, <2>5, <2>6
<1>3. CASE i + 1 >= Len(chain)
  <2>1. ~ \E j \in 1 .. Len(chain) - 1 : chain[j] = chain[i + 1]
    BY <1>1, <1>3, ChainFacts
  <2> QED
    BY <1>1, <1>3, <2>1 DEF Fat, Link
<1> QED
  BY <1>1, <1>2, <1>3

\* What Follow computes: any function that satisfies its equations.
LEMMA FollowIs ==
  ASSUME NEW c, NEW k \in Nat, NEW g \in [0 .. k -> Int], g[0] = c,
         \A j \in 1 .. k : g[j] = IF g[j - 1] \in Cluster THEN Fat(g[j - 1]) ELSE EOC
  PROVE  Follow(c, k) = g[k]
<1> DEFINE Eqn(f) == f = [j \in 0 .. k |-> IF j = 0 THEN c
                          ELSE IF f[j - 1] \in Cluster THEN Fat(f[j - 1]) ELSE EOC]
<1>1. Eqn(g)
  <2>1. ASSUME NEW j \in 0 .. k
        PROVE  g[j] = IF j = 0 THEN c ELSE IF g[j - 1] \in Cluster THEN Fat(g[j - 1]) ELSE EOC
    <3>1. CASE j = 0
      BY <3>1
    <3>2. CASE j # 0
      <4>1. j \in 1 .. k
        BY <3>2
      <4> QED
        BY <3>2, <4>1
    <3> QED
      BY <3>1, <3>2
  <2>2. [j \in 0 .. k |-> g[j]]
          = [j \in 0 .. k |-> IF j = 0 THEN c
               ELSE IF g[j - 1] \in Cluster THEN Fat(g[j - 1]) ELSE EOC]
    BY <2>1
  <2>3. g = [j \in 0 .. k |-> g[j]]
    OBVIOUS
  <2> QED
    BY <2>2, <2>3, Zenon
<1>2. Follow(c, k) = (CHOOSE f : Eqn(f))[k]
  BY DEF Follow
<1>3. PICK f : Eqn(f) /\ f = CHOOSE h : Eqn(h)
  BY <1>1
<1>4. \A j \in 0 .. k : f[j] = IF j = 0 THEN c
                          ELSE IF f[j - 1] \in Cluster THEN Fat(f[j - 1]) ELSE EOC
  BY <1>3
<1>5. ASSUME NEW S, S = {j \in 0 .. k : f[j] # g[j]}, S # {} PROVE FALSE
  <2>0. S \subseteq Nat /\ S # {}
    BY <1>5
  <2>1. PICK n \in S : \A j \in S : n <= j
    BY <2>0, LeastMember
  <2>2. n # 0
    BY <2>1, <1>4, <1>5
  <2>3. n \in 1 .. k /\ n - 1 \in 0 .. k /\ n - 1 \notin S
    BY <2>1, <2>2, <1>5
  <2>4. f[n - 1] = g[n - 1]
    BY <2>3, <1>5
  <2>5. f[n] = g[n]
    <3>1. f[n] = IF f[n - 1] \in Cluster THEN Fat(f[n - 1]) ELSE EOC
      BY <2>2, <2>3, <1>4
    <3>2. g[n] = IF g[n - 1] \in Cluster THEN Fat(g[n - 1]) ELSE EOC
      BY <2>3
    <3> QED
      BY <3>1, <3>2, <2>4
  <2> QED
    BY <2>1, <2>5, <1>5
<1>6. f[k] = g[k]
  <2>1. {j \in 0 .. k : f[j] # g[j]} = {}
    BY <1>5
  <2> QED
    BY <2>1
<1> QED
  BY <1>2, <1>3, <1>6

\* fat.c:111-121.  From one link, k steps lead to the link k further on.
LEMMA FollowLinks ==
  ASSUME FileInv, fs = "fat", NEW p \in Nat, NEW k \in Nat
  PROVE  Follow(Link(p), k) = Link(p + k)
<1> DEFINE g == [j \in 0 .. k |-> Link(p + j)]
<1>1. \A j \in 0 .. k : g[j] = Link(p + j)
  OBVIOUS
<1>2. ASSUME NEW j \in 1 .. k
      PROVE  g[j] = IF g[j - 1] \in Cluster THEN Fat(g[j - 1]) ELSE EOC
  <2>1. g[j - 1] = Link(p + (j - 1)) /\ p + (j - 1) \in Nat /\ g[j] = Link(p + j)
    BY <1>1
  <2>2. CASE p + (j - 1) < Len(chain)
    <3>1. Fat(Link(p + (j - 1))) = Link(p + (j - 1) + 1)
      BY <2>1, <2>2, FatOfLink
    <3>2. p + (j - 1) + 1 = p + j
      OBVIOUS
    <3> QED
      BY <2>1, <2>2, <3>1, <3>2, LinkIn
  <2>3. CASE p + (j - 1) >= Len(chain)
    <3>1. Link(p + j) = EOC
      BY <2>3, ChainFacts DEF Link
    <3>2. Link(p + (j - 1)) \notin Cluster
      BY <2>1, <2>3, LinkIn, ChainFacts
    <3> QED
      BY <2>1, <3>1, <3>2
  <2> QED
    BY <2>1, <2>2, <2>3, ChainFacts
<1>3. g[0] = Link(p) /\ g \in [0 .. k -> Int] /\ g[k] = Link(p + k)
  BY LinkIn, Constants
<1>4. \A j \in 1 .. k : g[j] = IF g[j - 1] \in Cluster THEN Fat(g[j - 1]) ELSE EOC
  BY <1>2
<1> HIDE DEF g
<1>5. PICK h : h = g
  OBVIOUS
<1>6. /\ h \in [0 .. k -> Int] /\ h[0] = Link(p) /\ h[k] = Link(p + k)
      /\ \A j \in 1 .. k : h[j] = IF h[j - 1] \in Cluster THEN Fat(h[j - 1]) ELSE EOC
  BY <1>3, <1>4, <1>5
<1>7. PICK c : c = Link(p)
  OBVIOUS
<1>8. Follow(c, k) = h[k]
  BY <1>6, <1>7, FollowIs
<1> QED
  BY <1>6, <1>7, <1>8

\* fat.c:99-101.  A cluster before the last one, according to the size.
LEMMA TotalFacts ==
  ASSUME NEW n \in 0 .. Word - 1, NEW m \in Nat,
         m < ((n + ClusterBytes - 1) % Word) \div ClusterBytes
  PROVE  ClusterBytes * m < n
<1> DEFINE x == n + ClusterBytes - 1
           a == x % Word
           t == a \div ClusterBytes
<1>1. x \in Nat /\ a \in Nat /\ a <= x
  <2>1. x \in Nat
    BY Constants
  <2>2. x = Word * (x \div Word) + a /\ a \in 0 .. Word - 1 /\ x \div Word \in Int
    BY <2>1, Constants, DivFacts
  <2>3. x \div Word >= 0
    BY <2>1, Constants
  <2>4. Word * (x \div Word) >= 0
    BY <2>2, <2>3, Constants, MulNat
  <2> QED
    BY <2>1, <2>2, <2>4, Constants
<1>2. t \in Int /\ a = ClusterBytes * t + (a % ClusterBytes) /\ a % ClusterBytes \in Nat
  BY <1>1, Constants, DivFacts
<1>3. ClusterBytes * (m + 1) <= ClusterBytes * t
  <2>1. m < t
    OBVIOUS
  <2>2. m + 1 \in Int /\ m + 1 <= t
    BY <2>1, <1>2
  <2> HIDE DEF t
  <2> QED
    BY <2>2, <1>2, Constants, MulLe
<1>4. ClusterBytes * (m + 1) = ClusterBytes * m + ClusterBytes
  BY Constants
<1>5. ClusterBytes * t \in Int /\ ClusterBytes * m \in Int
  BY <1>2, Constants
<1> HIDE DEF a, t
<1>6. ClusterBytes * m + ClusterBytes <= a
  BY <1>1, <1>2, <1>3, <1>4, <1>5, Constants
<1> QED
  BY <1>1, <1>5, <1>6, Constants

\* The other way round, unless the sum overflows: then there are no clusters.
LEMMA TotalConverse ==
  ASSUME NEW n \in 0 .. Word - 1, NEW j \in Nat, ClusterBytes * j < n,
         ((n + ClusterBytes - 1) % Word) \div ClusterBytes > 0
  PROVE  j < ((n + ClusterBytes - 1) % Word) \div ClusterBytes
<1>1. PICK x \in Nat : x = n + ClusterBytes - 1
  BY Constants
<1>2. PICK a \in 0 .. Word - 1, k \in Int : a = x % Word /\ x = Word * k + a /\ k = x \div Word
  BY Constants, DivFacts
<1>3. PICK t \in Int, s \in 0 .. ClusterBytes - 1 :
        t = a \div ClusterBytes /\ a = ClusterBytes * t + s
  BY <1>2, Constants, DivFacts
<1>4. t > 0
  BY <1>1, <1>2, <1>3
<1>5. PICK y \in Int, z \in Int : y = ClusterBytes * t /\ z = ClusterBytes * j
  BY Constants
<1>6. a >= ClusterBytes
  <2>1. ClusterBytes * 1 <= ClusterBytes * t
    BY <1>4, Constants, MulLe
  <2> QED
    BY <2>1, <1>3, <1>5, Constants
<1>7. k < 1
  <2> SUFFICES ASSUME k >= 1 PROVE FALSE
    OBVIOUS
  <2>1. Word * 1 <= Word * k
    BY Constants, MulLe
  <2>2. PICK v \in Int : v = Word * k
    BY Constants
  <2> QED
    BY <2>1, <2>2, <1>1, <1>2, <1>6, Constants
<1>8. k = 0
  <2>1. k >= 0
    BY <1>2, Constants
  <2> QED
    BY <2>1, <1>7
<1>9. a = x
  BY <1>2, <1>8, Constants
<1>10. ClusterBytes * (j + 1) = z + ClusterBytes /\ ClusterBytes * (t + 1) = y + ClusterBytes
  BY <1>5, Constants
<1>11. z + ClusterBytes < y + ClusterBytes
  BY <1>1, <1>3, <1>5, <1>9, Constants
<1>12. j + 1 < t + 1
  BY <1>10, <1>11, Constants, MulCancel
<1> QED
  BY <1>1, <1>2, <1>3, <1>12

\* The number of clusters.
LEMMA TotalNat ==
  ASSUME size \in 0 .. Word - 1
  PROVE  TotalClusters \in Nat
<1> DEFINE a == (size + ClusterBytes - 1) % Word
<1>1. a \in Nat
  BY Constants
<1> HIDE DEF a
<1>2. a \div ClusterBytes \in Nat
  BY <1>1, Constants
<1> QED
  BY <1>2 DEF a, TotalClusters

\* A loop that stops at the first number that has a property, or at a bound.
LEMMA FirstStop ==
  ASSUME NEW n \in Nat, n > 0, NEW Stop
  PROVE  \E r \in 1 .. n : (\A k \in 1 .. r - 1 : k \notin Stop) /\ (r < n => r \in Stop)
<1> DEFINE S == {r \in 1 .. n : r = n \/ r \in Stop}
<1>1. S \subseteq Nat /\ S # {}
  OBVIOUS
<1>2. PICK r \in S : \A k \in S : r <= k
  BY <1>1, LeastMember
<1>3. r \in 1 .. n /\ (r < n => r \in Stop)
  BY <1>2
<1>4. \A k \in 1 .. r - 1 : k \notin Stop
  BY <1>2
<1> QED
  BY <1>3, <1>4

\* fat.c:125-134.  The run found is a run of the chain, and it ends before
\* the last cluster only where the next link is another one.
LEMMA RunFacts ==
  ASSUME FileInv, fs = "fat", size \in 0 .. Word - 1,
         NEW m \in Nat, m < TotalClusters, m < Len(chain)
  PROVE  LET c == Link(m)
             r == RunLength(c, m)
         IN /\ r \in 1 .. TotalClusters - m
            /\ \A j \in 0 .. r - 1 : m + j < Len(chain) /\ Link(m + j) = c + j
<1> DEFINE c == Link(m)
           n == TotalClusters - m
           r == RunLength(c, m)
<1>1. c \in Cluster /\ c \in Nat /\ n \in Nat /\ n > 0
  BY TotalNat, LinkIn, Constants
<1>2. /\ r \in 1 .. n
      /\ \A k \in 1 .. r - 1 : Fat(c + k - 1) = c + k
  <2>1. PICK z \in 1 .. n :
             /\ \A k \in 1 .. z - 1 : k \notin {j \in Nat : Fat(c + j - 1) # c + j}
             /\ z < n => z \in {j \in Nat : Fat(c + j - 1) # c + j}
    <3> HIDE DEF n
    <3> QED
      BY <1>1, FirstStop
  <2>2. /\ \A k \in 1 .. z - 1 : Fat(c + k - 1) = c + k
        /\ z < n => Fat(c + z - 1) # c + z
    BY <2>1, <1>1
  <2>3. r = CHOOSE y \in 1 .. n : /\ \A k \in 1 .. y - 1 : Fat(c + k - 1) = c + k
                                  /\ y < n => Fat(c + y - 1) # c + y
    BY DEF RunLength
  <2> HIDE DEF c, n, r
  <2> QED
    BY <2>2, <2>3
<1>3. ASSUME NEW S, S = {j \in 0 .. r - 1 : ~ (m + j < Len(chain) /\ Link(m + j) = c + j)},
             S # {}
      PROVE  FALSE
  <2>0. S \subseteq Nat
    BY <1>3
  <2>1. PICK j \in S : \A k \in S : j <= k
    BY <1>3, <2>0, LeastMember
  <2>2. j \in 0 .. r - 1 /\ j \in Nat /\ j # 0
    BY <2>1, <1>1, <1>3
  <2>3. j - 1 \in 0 .. r - 1 /\ j - 1 \notin S /\ j \in 1 .. r - 1
    BY <2>1, <2>2, <1>2
  <2>4. m + (j - 1) < Len(chain) /\ Link(m + (j - 1)) = c + (j - 1) /\ m + (j - 1) \in Nat
    BY <2>2, <2>3, <1>3
  <2>5. Fat(Link(m + (j - 1))) = Link(m + (j - 1) + 1)
    BY <2>4, FatOfLink
  <2>6. m + (j - 1) + 1 = m + j /\ c + (j - 1) = c + j - 1
    BY <2>2, <1>1
  <2>7. Link(m + j) = c + j
    BY <2>3, <2>4, <2>5, <2>6, <1>2
  <2>8. c + (j - 1) \in Cluster
    BY <2>4, LinkIn
  <2>9. c + j # EOC
    BY <2>8, <2>2, <1>1, Constants
  <2>10. m + j < Len(chain)
    BY <2>7, <2>9, <2>2 DEF Link
  <2> QED
    BY <2>1, <2>7, <2>10, <1>3
<1>4. {j \in 0 .. r - 1 : ~ (m + j < Len(chain) /\ Link(m + j) = c + j)} = {}
  BY <1>3
<1>5. \A j \in 0 .. r - 1 : m + j < Len(chain) /\ Link(m + j) = c + j
  BY <1>4
<1> QED
  BY <1>2, <1>5

\* Where the clusters after a cluster start.
LEMMA StartAdd ==
  ASSUME NEW c \in Nat, NEW j \in Nat
  PROVE  ClusterStart(c + j) = ClusterStart(c) + ClusterSecs * j
<1>1. c + j - 2 = (c - 2) + j /\ c - 2 \in Int
  OBVIOUS
<1>2. ((c - 2) + j) * ClusterSecs = (c - 2) * ClusterSecs + j * ClusterSecs
  BY <1>1, Constants, MulAdd
<1>3. j * ClusterSecs = ClusterSecs * j
  BY Constants, MulComm
<1>4. (c - 2) * ClusterSecs \in Int /\ ClusterSecs * j \in Int
  BY <1>1, Constants
<1> QED
  BY <1>1, <1>2, <1>3, <1>4, Constants DEF ClusterStart

\* The n blocks from number m of the file on follow each other on the disk.
RunOf(m, n) ==
  /\ n \in Nat /\ n > 0
  /\ \A j \in 0 .. n - 1 : m + j < Len(chain) /\ chain[m + 1 + j] = Follows(m, j)

\* Blocks that follow each other make a true extent, from any sector o of the
\* first block on.
LEMMA RunTrue ==
  ASSUME FileInv, NEW m \in Nat, NEW n, RunOf(m, n), NEW o \in 0 .. ClusterSecs - 1
  PROVE  \A k \in 0 .. n * ClusterSecs - o - 1 :
           Phys(ClusterSecs * m + o + k)
             = next_psector(IF chain[m + 1] = Hole THEN EXTENT_ZERO
                            ELSE ClusterStart(chain[m + 1]) + o, k)
<1>a. /\ n \in Nat /\ n > 0
      /\ \A j \in 0 .. n - 1 : m + j < Len(chain) /\ chain[m + 1 + j] = Follows(m, j)
  BY DEF RunOf
<1> TAKE k \in 0 .. n * ClusterSecs - o - 1
<1>b. n * ClusterSecs \in Nat /\ n * ClusterSecs = ClusterSecs * n /\ o \in Nat
  BY <1>a, Constants, MulNat, MulComm
<1>0. k \in Nat /\ k < ClusterSecs * n - o /\ ClusterSecs * n \in Nat
  <2> DEFINE x == ClusterSecs * n
  <2>1. x \in Nat /\ k \in 0 .. x - o - 1
    BY <1>b
  <2> HIDE DEF x
  <2>2. k \in Nat /\ k < x - o
    BY <1>b, <2>1
  <2> QED
    BY <2>1, <2>2 DEF x
<1> DEFINE j == (o + k) \div ClusterSecs
           s == (o + k) % ClusterSecs
           c == chain[m + 1]
<1>c. o + k \in Nat
  BY <1>0, <1>b
<1>1. j \in Int /\ s \in 0 .. ClusterSecs - 1 /\ o + k = ClusterSecs * j + s
  BY <1>c, Constants, DivFacts
<1>2. j \in Nat
  BY <1>c, Constants
<1> HIDE DEF j, s
<1>3. j < n
  <2>1. ClusterSecs * j < ClusterSecs * n
    BY <1>0, <1>b, <1>c, <1>1, <1>2, Constants, MulNat
  <2> QED
    BY <2>1, <1>a, <1>2, Constants, MulCancel
<1>4. m + j < Len(chain) /\ chain[m + 1 + j] = Follows(m, j)
  BY <1>a, <1>2, <1>3
<1>5. c \in Cluster \cup {Hole} /\ Len(chain) \in Nat
  <2>1. m + 0 < Len(chain)
    BY <1>a
  <2>2. m + 1 \in 1 .. Len(chain)
    BY <2>1, ChainFacts
  <2> QED
    BY <2>2, ChainFacts
<1>6. ClusterSecs * m + o + k = ClusterSecs * (m + j) + s
  BY <1>0, <1>b, <1>c, <1>1, <1>2, Constants, MulNat
<1>7. /\ (ClusterSecs * m + o + k) \div ClusterSecs = m + j
      /\ (ClusterSecs * m + o + k) % ClusterSecs = s
  <2>1. m + j \in Int /\ ClusterSecs * m + o + k \in Int
    BY <1>0, <1>b, <1>2, Constants, MulNat
  <2> QED
    BY <2>1, <1>1, <1>6, Constants, DivUnique
<1>8. Phys(ClusterSecs * m + o + k)
        = IF chain[m + j + 1] = Hole THEN EXTENT_ZERO ELSE ClusterStart(chain[m + j + 1]) + s
  BY <1>2, <1>4, <1>5, <1>7 DEF Phys
<1>9. m + j + 1 = m + 1 + j
  BY <1>2
<1>10. CASE c = Hole
  BY <1>4, <1>8, <1>9, <1>10 DEF Follows, next_psector
<1>11. CASE c # Hole
  <2>1. c \in Cluster /\ c \in Nat /\ c >= 2
    BY <1>5, <1>11, Constants
  <2>2. chain[m + j + 1] = c + j /\ c + j # Hole
    BY <1>2, <1>4, <1>9, <1>11, <2>1, Constants, SMTT(30) DEF Follows
  <2>3. ClusterStart(c) \in Nat
    BY <2>1, StartNat
  <2>4. ClusterStart(c + j) = ClusterStart(c) + ClusterSecs * j
    BY <2>1, <1>2, StartAdd
  <2>5. ClusterSecs * j \in Nat
    BY <1>2, Constants, MulNat
  <2>6. ClusterStart(c + j) + s = ClusterStart(c) + o + k
    <3> DEFINE x == ClusterStart(c)
               y == ClusterStart(c + j)
               z == ClusterSecs * j
    <3>1. x \in Nat /\ y = x + z /\ z \in Nat /\ o + k = z + s /\ s \in Int
      BY <2>3, <2>4, <2>5, <1>1, Constants
    <3> HIDE DEF x, y, z
    <3>2. y + s = x + o + k
      BY <3>1, <1>0, <1>b
    <3> QED
      BY <3>2 DEF x, y
  <2>7. ClusterStart(c) + o # EXTENT_ZERO
    BY <2>3, <1>b, Constants
  <2> QED
    BY <1>8, <1>11, <2>2, <2>6, <2>7 DEF next_psector
<1> QED
  BY <1>10, <1>11

-----------------------------------------------------------------------------
(* The drivers' next_extent. *)

\* What next_extent promises about the sectors from l on: a true extent, or
\* failure; then the size may have been cut.
Promise(l, r) ==
  /\ r.size \in 0 .. Word - 1 /\ r.len \in Nat /\ r.pstart \in Nat \cup {EXTENT_ZERO}
  /\ r.pvt \in [offset : Nat, here : Nat] /\ r.err \in BOOLEAN
  /\ r.size <= size
  /\ r.size # size => fs = "fat" /\ Len(chain) * ClusterBytes < size
  /\ ~ r.err => \A k \in 0 .. r.len - 1 : Phys(l + k) = next_psector(r.pstart, k)
  /\ fs = "fat" => (l + r.len) % ClusterSecs = 0 /\ PlaceRight(r.pvt, r.size)

\* fat.c:103-109.  The walk starts at a link of the chain.
LEMMA WalkStarts ==
  ASSUME IInv, HasClusters, fs = "fat", NEW m \in Nat, m < TotalClusters
  PROVE  \E p \in 0 .. m : /\ p <= Len(chain)
                           /\ WalkFrom(m).l = p /\ WalkFrom(m).c = Link(p)
<1> DEFINE q == pvt.offset \div ClusterSecs
<1>1. FileInv /\ Len(chain) \in Nat /\ pvt \in [offset : Nat, here : Nat]
  BY ChainFacts DEF IInv, TypeOK
<1>2. q \in Nat
  BY <1>1, Constants
<1>3. CASE Remembered(m)
  <2>1. q <= m /\ pvt.here >= DataArea
    BY <1>3 DEF Remembered
  <2>2. q < TotalClusters
    BY <2>1, <1>2, TotalNat DEF IInv, TypeOK
  <2>3. q <= Len(chain) /\ pvt.here = ClusterStart(Link(q))
    <3>1. ClusterBytes * q < size
      <4>1. PICK z \in Nat : z = q
        BY <1>2
      <4>2. ClusterBytes * z < size
        BY <4>1, <2>2, TotalFacts DEF IInv, TypeOK, TotalClusters
      <4> QED
        BY <4>1, <4>2
    <3> QED
      BY <3>1 DEF IInv, PlaceInv, PlaceRight
  <2>4. Link(q) \in Cluster \cup {EOC}
    BY <1>1, <1>2, LinkIn
  <2>5. PICK c : c = Link(q)
    OBVIOUS
  <2>6. ((pvt.here - DataArea) \div ClusterSecs) + 2 = Link(q)
    BY <2>3, <2>4, <2>5, StartNat
  <2>7. WalkFrom(m).l = q /\ WalkFrom(m).c = Link(q)
    BY <1>3, <2>6 DEF WalkFrom
  <2> QED
    BY <2>1, <2>3, <2>7, <1>2
<1>4. CASE ~ Remembered(m)
  <2>1. start = chain[1] /\ Len(chain) > 0
    BY <1>1, ChainFacts, EmptySeq DEF HasClusters, FileInv
  <2>2. start = Link(0)
    BY <2>1 DEF Link
  <2>3. WalkFrom(m).l = 0 /\ WalkFrom(m).c = Link(0)
    BY <1>4, <2>2 DEF WalkFrom
  <2> QED
    BY <2>3, <1>1
<1> QED
  BY <1>3, <1>4

\* fat.c:111-115.  The size is cut only where the chain ends too early, and
\* then the place remembered is still right.
LEMMA CutFacts ==
  ASSUME IInv, fs = "fat", NEW m \in Nat, m < TotalClusters, m >= Len(chain)
  PROVE  LET n == Len(chain) * ClusterSecs
         IN /\ n \in 0 .. Word - 1 /\ n <= size
            /\ Len(chain) * ClusterBytes < size /\ PlaceRight(pvt, n)
<1> DEFINE n == Len(chain) * ClusterSecs
           q == pvt.offset \div ClusterSecs
<1>1. /\ FileInv /\ Len(chain) \in Nat /\ pvt \in [offset : Nat, here : Nat]
      /\ size \in 0 .. Word - 1
  BY ChainFacts DEF IInv, TypeOK
<1>2. ClusterBytes * m < size /\ ClusterBytes * m \in Nat
  BY <1>1, TotalFacts, Constants, MulNat DEF TotalClusters
<1>3. ClusterBytes * Len(chain) <= ClusterBytes * m
  BY <1>1, Constants, MulLe
<1>4. Len(chain) * ClusterSecs <= Len(chain) * ClusterBytes
  BY <1>1, Constants, MulLe
<1>5. Len(chain) * ClusterBytes = ClusterBytes * Len(chain)
  BY <1>1, Constants, MulComm
<1>6. n \in Nat /\ ClusterBytes * Len(chain) \in Nat
  BY <1>1, Constants, MulNat
<1>7. n \in 0 .. Word - 1 /\ n <= size /\ Len(chain) * ClusterBytes < size
  BY <1>1, <1>2, <1>3, <1>4, <1>5, <1>6, Constants
<1>8. ASSUME ClusterBytes * q < n PROVE ClusterBytes * q < size
  <2>1. q \in Nat
    BY <1>1, Constants
  <2> HIDE DEF n, q
  <2>2. ClusterBytes * q \in Nat
    BY <2>1, Constants, MulNat
  <2> QED
    BY <2>2, <1>1, <1>7, <1>8
<1>9. PlaceRight(pvt, n)
  BY <1>8 DEF IInv, PlaceInv, PlaceRight
<1> QED
  BY <1>7, <1>9

\* fat.c:122-138.  The extent that is found, and the place after it.
LEMMA RunPromise ==
  ASSUME IInv, fs = "fat", NEW m \in Nat, m < TotalClusters, m < Len(chain)
  PROVE  LET r == RunLength(Link(m), m)
         IN Promise(ClusterSecs * m,
              [err |-> FALSE, size |-> size, pstart |-> ClusterStart(Link(m)),
               len |-> r * ClusterSecs, pvt |-> PlaceAfter(Link(m), r, m)])
<1> DEFINE r == RunLength(Link(m), m)
           t == TotalClusters
           v == PlaceAfter(Link(m), r, m)
<1>1. /\ FileInv /\ Len(chain) \in Nat /\ size \in 0 .. Word - 1 /\ t \in Nat
  BY ChainFacts, TotalNat DEF IInv, TypeOK
<1>2. /\ r \in 1 .. t - m /\ r \in Nat /\ m + r <= t /\ r > 0
      /\ \A j \in 0 .. r - 1 : m + j < Len(chain) /\ Link(m + j) = Link(m) + j
  BY <1>1, RunFacts
<1>3. Link(m) \in Cluster /\ Link(m) \in Nat /\ Link(m) = chain[m + 1] /\ Link(m) # Hole
  BY <1>1, LinkIn, Constants DEF Link
<1>4. ClusterStart(Link(m)) \in Nat
  <2>1. PICK c : c = Link(m)
    OBVIOUS
  <2> QED
    BY <2>1, <1>3, StartNat
<1> HIDE DEF r, t
<1>5. r * ClusterSecs \in Nat /\ (m + r) * ClusterSecs \in Nat /\ ClusterSecs * m \in Nat
  BY <1>2, Constants, MulNat
<1>6. /\ ((m + r) * ClusterSecs) % ClusterSecs = 0
      /\ ((m + r) * ClusterSecs) \div ClusterSecs = m + r
  <2>1. m + r \in Nat
    BY <1>2
  <2> QED
    BY <2>1, Constants, MulDiv
<1>7. ClusterSecs * m + r * ClusterSecs = (m + r) * ClusterSecs
  <2>1. m * ClusterSecs = ClusterSecs * m
    BY Constants, MulComm
  <2> QED
    BY <2>1, <1>2, Constants, MulAdd
<1>8. \A k \in 0 .. r * ClusterSecs - 1 :
        Phys(ClusterSecs * m + k) = next_psector(ClusterStart(Link(m)), k)
  <2>1. ASSUME NEW j \in 0 .. r - 1
        PROVE  m + j < Len(chain) /\ chain[m + 1 + j] = Follows(m, j)
    <3>1. m + j < Len(chain) /\ Link(m + j) = Link(m) + j
      BY <1>2
    <3>2. Link(m + j) = chain[m + j + 1] /\ m + j + 1 = m + 1 + j
      BY <3>1, <1>2 DEF Link
    <3> QED
      BY <3>1, <3>2, <1>3 DEF Follows
  <2>2. RunOf(m, r)
    BY <2>1, <1>2 DEF RunOf
  <2>3. PICK o \in 0 .. ClusterSecs - 1 : o = 0
    BY Constants
  <2>4. \A k \in 0 .. r * ClusterSecs - o - 1 :
          Phys(ClusterSecs * m + o + k)
             = next_psector(IF chain[m + 1] = Hole THEN EXTENT_ZERO
                            ELSE ClusterStart(chain[m + 1]) + o, k)
    BY <2>2, <1>1, RunTrue
  <2>5. \A k \in 0 .. r * ClusterSecs - 1 : ClusterSecs * m + o + k = ClusterSecs * m + k
    BY <2>3, <1>5
  <2>6. ClusterStart(chain[m + 1]) + o = ClusterStart(Link(m))
    BY <2>3, <1>3, <1>4
  <2>7. r * ClusterSecs - o - 1 = r * ClusterSecs - 1
    BY <2>3, <1>5
  <2> QED
    BY <2>4, <2>5, <2>6, <2>7, <1>3
<1>9. v.offset = (m + r) * ClusterSecs /\ v \in [offset : Nat, here : Nat]
  <2> DEFINE x == IF m + r < t THEN Fat(Link(m) + r - 1)
                  ELSE IF r = 1 THEN 0 ELSE Link(m) + r - 1
  <2>1. v = [offset |-> (m + r) * ClusterSecs, here |-> (((x - 2) * ClusterSecs) % Word) + DataArea]
    BY DEF PlaceAfter, t
  <2>2. x \in Int
    <3>1. ASSUME m + r < t PROVE x \in Int
      <4>1. Fat(Link(m) + r - 1) \in Int
        <5>1. m + (r - 1) < Len(chain) /\ Link(m + (r - 1)) = Link(m) + (r - 1)
          BY <1>2
        <5>2. Link(m) + (r - 1) = Link(m) + r - 1 /\ m + (r - 1) \in Nat
          BY <1>2, <1>3
        <5>3. Fat(Link(m + (r - 1))) = Link(m + (r - 1) + 1)
          BY <5>1, <5>2, <1>1, FatOfLink
        <5> QED
          BY <5>1, <5>2, <5>3, <1>1, LinkIn, Constants
      <4> QED
        BY <3>1, <4>1
    <3> QED
      BY <3>1, <1>2, <1>3
  <2>3. (x - 2) * ClusterSecs \in Int
    <3> HIDE DEF x
    <3> QED
      BY <2>2, Constants
  <2>4. ((x - 2) * ClusterSecs) % Word \in Nat
    <3> HIDE DEF x
    <3> QED
      BY <2>3, Constants, DivFacts
  <2> HIDE DEF x, v
  <2> QED
    BY <2>1, <2>4, <1>5, Constants
<1>10. PlaceRight(v, size)
  <2>1. v.offset % ClusterSecs = 0 /\ v.offset \div ClusterSecs = m + r
    BY <1>6, <1>9
  <2>2. ASSUME ClusterBytes * (m + r) < size
        PROVE  m + r <= Len(chain) /\ v.here = ClusterStart(Link(m + r))
    <3>1. m + r < t
      <4>1. m + r \in Nat /\ t > 0
        BY <1>1, <1>2
      <4> QED
        BY <4>1, <2>2, <1>1, TotalConverse DEF TotalClusters, t
    <3>2. m + (r - 1) < Len(chain) /\ Link(m + (r - 1)) = Link(m) + (r - 1)
      BY <1>2
    <3>3. Link(m) + (r - 1) = Link(m) + r - 1 /\ m + (r - 1) \in Nat /\ m + (r - 1) + 1 = m + r
      BY <1>2, <1>3
    <3>4. Fat(Link(m + (r - 1))) = Link(m + (r - 1) + 1)
      BY <3>2, <3>3, <1>1, FatOfLink
    <3>5. Fat(Link(m) + r - 1) = Link(m + r)
      BY <3>2, <3>3, <3>4
    <3>6. v.here = (((Link(m + r) - 2) * ClusterSecs) % Word) + DataArea
      BY <3>1, <3>5 DEF PlaceAfter, t
    <3>7. PICK c : c = Link(m + r)
      OBVIOUS
    <3>8. c \in Cluster \cup {EOC}
      BY <3>7, <1>1, <1>2, LinkIn
    <3>9. v.here = ClusterStart(c)
      BY <3>6, <3>7, <3>8, StartNat
    <3> QED
      BY <3>2, <3>7, <3>9, <1>1, <1>2
  <2> QED
    BY <2>1, <2>2 DEF PlaceRight
<1> HIDE DEF v
<1> QED
  BY <1>1, <1>4, <1>5, <1>6, <1>7, <1>8, <1>9, <1>10 DEF Promise, r, v

\* fat.c:86-144.  fat_next_extent keeps the promise.
LEMMA FatPromise ==
  ASSUME IInv, HasClusters, fs = "fat", NEW l \in Nat, l % ClusterSecs = 0
  PROVE  Promise(l, FatNextExtent(l))
<1> DEFINE m == l \div ClusterSecs
           w == WalkFrom(m)
           bad == {k \in 0 .. m - w.l : Follow(w.c, k) \notin Cluster}
           same == [err |-> TRUE, size |-> size, pvt |-> pvt, pstart |-> nxt.pstart, len |-> 0]
<1>1. /\ FileInv /\ Len(chain) \in Nat /\ size \in 0 .. Word - 1 /\ nxt \in Extent
      /\ pvt \in [offset : Nat, here : Nat] /\ PlaceRight(pvt, size)
  BY ChainFacts DEF IInv, TypeOK, PlaceInv
<1>2. m \in Nat /\ l = ClusterSecs * m
  BY Constants, DivFacts
<1>3. TotalClusters \in Nat
  BY <1>1, TotalNat
<1>4. CASE m >= TotalClusters
  <2>1. FatNextExtent(l) = same
    BY <1>4 DEF FatNextExtent
  <2>2. Promise(l, same)
    BY <1>1, Constants DEF Promise, Extent
  <2> QED
    BY <2>1, <2>2
<1>5. CASE m < TotalClusters
  <2>1. PICK p \in 0 .. m : p <= Len(chain) /\ w.l = p /\ w.c = Link(p)
    <3> HIDE DEF m
    <3> QED
      BY <1>2, <1>5, WalkStarts
  <2>2. p \in Nat /\ p <= m
    BY <2>1, <1>2
  <2> HIDE DEF m, w
  <2>3. \A k \in 0 .. m - p : Follow(w.c, k) = Link(p + k)
    BY <1>1, <1>2, <2>1, <2>2, FollowLinks
  <2>4. bad = {k \in 0 .. m - p : p + k >= Len(chain)}
    <3>1. \A k \in 0 .. m - p : Follow(w.c, k) \notin Cluster <=> p + k >= Len(chain)
      BY <2>2, <2>3, <1>1, <1>2, LinkIn
    <3> QED
      BY <2>1, <3>1
  <2>5. CASE m < Len(chain)
    <3>1. bad = {}
      BY <2>4, <2>5, <2>2, <1>1, <1>2
    <3>2. Follow(w.c, m - w.l) = Link(m)
      <4>1. m - p \in 0 .. m - p /\ p + (m - p) = m
        BY <2>2, <1>2
      <4> QED
        BY <2>1, <2>3, <4>1
    <3>3. FatNextExtent(l) = [err |-> FALSE, size |-> size, pstart |-> ClusterStart(Link(m)),
               len |-> RunLength(Link(m), m) * ClusterSecs,
               pvt |-> PlaceAfter(Link(m), RunLength(Link(m), m), m)]
      <4>1. ~ (m >= TotalClusters)
        BY <1>2, <1>3, <1>5
      <4> HIDE DEF bad
      <4> QED
        BY <3>1, <3>2, <4>1 DEF FatNextExtent, bad, m, w
    <3> QED
      BY <3>3, <2>5, <1>2, <1>5, RunPromise
  <2>6. CASE m >= Len(chain)
    <3>1. /\ Len(chain) - p \in bad /\ Len(chain) - p \in Int
          /\ \A j \in bad : Len(chain) - p <= j /\ j \in Int
      <4> HIDE DEF bad
      <4>1. Len(chain) - p \in 0 .. m - p /\ p + (Len(chain) - p) >= Len(chain)
        BY <2>1, <2>2, <2>6, <1>1, <1>2
      <4>2. ASSUME NEW j \in bad PROVE Len(chain) - p <= j /\ j \in Int
        BY <2>2, <2>4, <1>1, <1>2
      <4> QED
        BY <4>1, <4>2, <2>4
    <3>2. (CHOOSE k \in bad : \A j \in bad : k <= j) = Len(chain) - p
      <4> HIDE DEF bad
      <4>1. \A k \in bad : (\A j \in bad : k <= j) => k = Len(chain) - p
        BY <3>1
      <4>2. \E k \in bad : \A j \in bad : k <= j
        BY <3>1
      <4> QED
        BY <4>1, <4>2
    <3>3. w.l + (Len(chain) - p) = Len(chain)
      BY <2>1, <2>2, <1>1
    <3>4. FatNextExtent(l) = [err |-> TRUE, pvt |-> pvt, pstart |-> nxt.pstart, len |-> 0,
                              size |-> Len(chain) * ClusterSecs]
      <4>1. ~ (m >= TotalClusters) /\ bad # {}
        BY <1>2, <1>3, <1>5, <3>1
      <4>2. (w.l + CHOOSE k \in bad : \A j \in bad : k <= j) = Len(chain)
        BY <3>2, <3>3
      <4> QED
        BY <4>1, <4>2 DEF FatNextExtent, m, w
    <3>5. LET n == Len(chain) * ClusterSecs
          IN /\ n \in 0 .. Word - 1 /\ n <= size
             /\ Len(chain) * ClusterBytes < size /\ PlaceRight(pvt, n)
      BY <1>2, <1>5, <2>6, CutFacts
    <3> QED
      BY <3>4, <3>5, <1>1, Constants DEF Promise, Extent
  <2> QED
    BY <2>5, <2>6, <1>1, <1>2
<1> QED
  BY <1>2, <1>3, <1>4, <1>5

\* bmap.c:194-228.  So does ext2_next_extent.
LEMMA Ext2Promise ==
  ASSUME IInv, fs = "ext2", NEW l \in Nat, NEW r \in Ext2NextExtents(l)
  PROVE  Promise(l, r)
<1>1. /\ FileInv /\ Len(chain) \in Nat /\ size \in 0 .. Word - 1
      /\ pvt \in [offset : Nat, here : Nat]
  BY ChainFacts DEF IInv, TypeOK
<1>2. PICK m \in Nat, o \in 0 .. ClusterSecs - 1 :
        m = l \div ClusterSecs /\ o = l % ClusterSecs /\ l = ClusterSecs * m + o
  BY Constants, DivFacts
<1> DEFINE c == chain[m + 1]
<1>3. PICK n \in Estimates(m) :
        r = [err |-> FALSE, size |-> size, pvt |-> pvt,
             pstart |-> IF c = Hole THEN EXTENT_ZERO ELSE ClusterStart(c) + o,
             len |-> n * ClusterSecs - o]
  BY <1>2 DEF Ext2NextExtents
<1>4. n \in 1 .. Len(chain) - m /\ \A j \in 1 .. n - 1 : chain[m + 1 + j] = Follows(m, j)
  BY <1>3 DEF Estimates
<1>5. n \in Nat /\ n > 0 /\ m + n <= Len(chain)
  BY <1>1, <1>2, <1>4
<1>6. c \in Cluster \cup {Hole}
  <2>1. m + 1 \in 1 .. Len(chain)
    BY <1>1, <1>2, <1>5
  <2> QED
    BY <2>1, <1>1, ChainFacts
<1>7. \A j \in 0 .. n - 1 : m + j < Len(chain) /\ chain[m + 1 + j] = Follows(m, j)
  <2> SUFFICES ASSUME NEW j \in 0 .. n - 1
               PROVE  m + j < Len(chain) /\ chain[m + 1 + j] = Follows(m, j)
    OBVIOUS
  <2>1. m + j < Len(chain)
    BY <1>1, <1>2, <1>5, SMTT(30)
  <2>2. CASE j = 0
    <3>1. m + 1 + j = m + 1 /\ chain[m + 1] = Follows(m, 0)
      BY <1>2, <1>6, <2>2, Constants DEF Follows
    <3> QED
      BY <2>1, <2>2, <3>1
  <2>3. CASE j # 0
    BY <1>4, <1>5, <2>1, <2>3
  <2> QED
    BY <2>2, <2>3
<1>8. n * ClusterSecs - o \in Nat
  <2>1. ClusterSecs * 1 <= ClusterSecs * n
    BY <1>5, Constants, MulLe
  <2>2. n * ClusterSecs = ClusterSecs * n /\ n * ClusterSecs \in Nat
    BY <1>5, Constants, MulComm, MulNat
  <2> QED
    BY <2>1, <2>2, <1>2, Constants
<1>9. (IF c = Hole THEN EXTENT_ZERO ELSE ClusterStart(c) + o) \in Nat \cup {EXTENT_ZERO}
  <2>1. PICK d : d = c
    OBVIOUS
  <2>2. ASSUME d # Hole PROVE ClusterStart(d) \in Nat
    BY <2>1, <2>2, <1>6, StartNat
  <2> QED
    BY <2>1, <2>2, <1>2
<1>10. \A k \in 0 .. r.len - 1 : Phys(l + k) = next_psector(r.pstart, k)
  <2>1. RunOf(m, n)
    BY <1>5, <1>7 DEF RunOf
  <2>2. \A k \in 0 .. n * ClusterSecs - o - 1 :
          Phys(ClusterSecs * m + o + k)
             = next_psector(IF chain[m + 1] = Hole THEN EXTENT_ZERO
                            ELSE ClusterStart(chain[m + 1]) + o, k)
    BY <2>1, <1>1, RunTrue
  <2> QED
    BY <2>2, <1>2, <1>3
<1> QED
  BY <1>1, <1>3, <1>8, <1>9, <1>10 DEF Promise

-----------------------------------------------------------------------------
(* The steps. *)

\* What a step has to do so that the invariant holds again.
LEMMA StepKeeps ==
  ASSUME IInv, UNCHANGED <<fs, chain, entrysize, start>>, TypeOK', PositionInv',
         got' \in Seq(Nat \cup {EXTENT_ZERO}), \A i \in 1 .. Len(got') : got'[i] = Phys(i - 1),
         size' <= size, size' # size => fs = "fat" /\ Len(chain) * ClusterBytes < size,
         True(this'), True(nxt'), Aligned(this'), Aligned(nxt'),
         fs = "fat" => PlaceRight(pvt', size')
  PROVE  IInv'
<1>1. FileInv'
  BY DEF IInv, FileInv, Complete
<1>2. SizeInv'
  <2>1. /\ size \in Int /\ size' \in Int /\ entrysize \in Int
        /\ Len(chain) * ClusterBytes \in Int
    BY ReadAssumption, ChainFacts, Constants, MulNat DEF IInv, TypeOK, FileInv
  <2> QED
    BY <2>1 DEF IInv, SizeInv
<1>3. ExtentInv'
  BY DEF ExtentInv, True, Aligned, Phys, next_psector, ClusterStart
<1>4. PlaceInv'
  BY DEF PlaceInv, PlaceRight, Link, ClusterStart
<1>5. ContentInOrder'
  BY DEF ContentInOrder, Phys
<1> QED
  BY <1>1, <1>2, <1>3, <1>4, <1>5 DEF IInv

\* A step that changes neither what has been read nor what is known of the
\* file.
LEMMA QuietKeeps ==
  ASSUME IInv, UNCHANGED <<fs, chain, entrysize, start, size, this, nxt, pvt, got>>,
         TypeOK', PositionInv'
  PROVE  IInv'
<1>1. /\ size \in Int /\ \A i \in 1 .. Len(got) : got[i] = Phys(i - 1)
      /\ got \in Seq(Nat \cup {EXTENT_ZERO})
  BY DEF IInv, TypeOK, ContentInOrder, FileInv
<1>2. True(this) /\ True(nxt) /\ Aligned(this) /\ Aligned(nxt)
  BY DEF IInv, ExtentInv
<1>3. fs = "fat" => PlaceRight(pvt, size)
  BY DEF IInv, PlaceInv
<1>4. /\ size' = size /\ pvt' = pvt /\ got' = got
  OBVIOUS
<1>5. True(this') /\ True(nxt') /\ Aligned(this') /\ Aligned(nxt')
  BY <1>2
<1>6. \A i \in 1 .. Len(got') : got'[i] = Phys(i - 1)
  BY <1>1
<1> QED
  BY <1>1, <1>3, <1>4, <1>5, <1>6, StepKeeps

\* The steps that only go on.
LEMMA GoesOn ==
  ASSUME IInv, KnowNext \/ Enough \/ Discontiguous \/ Dead \/ Return
  PROVE  IInv'
<1>1. UNCHANGED <<fs, chain, entrysize, start, size, this, nxt, pvt, offset, sectors, left,
                  bytes, more, got>>
  BY DEF KnowNext, Enough, Discontiguous, Dead, Return
<1>2. TypeOK'
  BY <1>1 DEF IInv, TypeOK, KnowNext, Enough, Discontiguous, Dead, Return
<1>3. PositionInv'
  <2>1. PositionInv
    BY DEF IInv
  <2>2. CASE KnowNext
    BY <1>1, <2>1, <2>2 DEF PositionInv, Running, KnowNext, NextIsStale
  <2>3. CASE Enough \/ Discontiguous \/ Dead
    BY <1>1, <2>1, <2>3 DEF PositionInv, Running, Enough, Discontiguous, Dead
  <2>4. CASE Return
    BY <1>1, <2>1, <2>4 DEF PositionInv, Running, Return
  <2> QED
    BY <2>2, <2>3, <2>4
<1> QED
  BY <1>1, <1>2, <1>3, QuietKeeps

\* The numbers of a state.
LEMMA Numbers ==
  ASSUME IInv
  PROVE  /\ entrysize \in 0 .. Word - 1 /\ entrysize \in Nat /\ size \in Nat /\ offset \in Nat
         /\ Len(got) \in Nat /\ SectorSize * Len(got) \in Nat
         /\ bytes \in Nat /\ left \in Nat /\ sectors \in Nat
         /\ this \in Extent /\ nxt \in Extent
         /\ \A e \in {this, nxt} : /\ e.len \in Nat /\ e.lstart \in Nat
                                   /\ e.pstart \in Nat \cup {EXTENT_ZERO}
<1>1. entrysize \in 0 .. Word - 1
  BY ReadAssumption DEF IInv, FileInv
<1>2. Len(got) \in Nat
  BY LenProperties DEF IInv, FileInv
<1>3. SectorSize * Len(got) \in Nat
  BY <1>2, Constants, MulNat
<1> QED
  BY <1>1, <1>2, <1>3, Constants DEF IInv, TypeOK, Extent

\* Nothing to read.
LEMMA NothingKeeps ==
  ASSUME IInv, NEW k \in Nat, GetfssecNothing(k)
  PROVE  IInv'
<1>1. UNCHANGED <<fs, chain, entrysize, start, size, this, nxt, pvt, offset, sectors, left, got>>
  BY DEF GetfssecNothing
<1>2. TypeOK'
  BY <1>1 DEF IInv, TypeOK, GetfssecNothing
<1>3. PositionInv'
  BY <1>1, Numbers DEF IInv, PositionInv, Running, GetfssecNothing
<1> QED
  BY <1>1, <1>2, <1>3, QuietKeeps

\* getfssec.c:60-66.  Going on a sectors and then b more.
LEMMA NextTwice ==
  ASSUME NEW q \in Nat \cup {EXTENT_ZERO}, NEW a \in Nat, NEW b \in Nat
  PROVE  /\ next_psector(next_psector(q, a), b) = next_psector(q, a + b)
         /\ next_psector(q, a) \in Nat \cup {EXTENT_ZERO} /\ next_psector(q, 0) = q
BY Constants DEF next_psector

\* getfssec.c:121-126.  An extent that is cut at its start stays true, and ends
\* where it ended.
LEMMA FromKeeps ==
  ASSUME NEW e \in Extent, True(e), Aligned(e), NEW l \in Nat, Contains(e, l)
  PROVE  From(e, l) \in Extent /\ True(From(e, l)) /\ Aligned(From(e, l))
<1> DEFINE d == l - e.lstart
           f == From(e, l)
<1>1. /\ e.lstart \in Nat /\ e.len \in Nat /\ e.pstart \in Nat \cup {EXTENT_ZERO}
      /\ e.lstart <= l /\ l < e.lstart + e.len
  BY DEF Extent, Contains
<1>2. d \in Nat /\ d < e.len /\ l = e.lstart + d
  BY <1>1
<1> HIDE DEF d
<1>3. f = [pstart |-> next_psector(e.pstart, d), lstart |-> l, len |-> e.len - d]
  BY DEF From, d
<1>4. next_psector(e.pstart, d) \in Nat \cup {EXTENT_ZERO}
  BY <1>1, <1>2, NextTwice
<1>5. f \in Extent
  BY <1>1, <1>2, <1>3, <1>4 DEF Extent
<1>6. Aligned(f)
  <2>1. f.lstart + f.len = e.lstart + e.len
    BY <1>1, <1>2, <1>3
  <2> QED
    BY <2>1 DEF Aligned
<1>7. True(f)
  <2> SUFFICES ASSUME NEW k \in 0 .. e.len - d - 1
               PROVE  Phys(l + k) = next_psector(next_psector(e.pstart, d), k)
    BY <1>3 DEF True
  <2>1. d + k \in 0 .. e.len - 1 /\ e.lstart + (d + k) = l + k /\ k \in Nat
    BY <1>1, <1>2
  <2>2. Phys(e.lstart + (d + k)) = next_psector(e.pstart, d + k)
    BY <2>1 DEF True
  <2>3. next_psector(next_psector(e.pstart, d), k) = next_psector(e.pstart, d + k)
    <3>1. PICK q \in Nat \cup {EXTENT_ZERO} : q = e.pstart
      BY <1>1
    <3>2. next_psector(next_psector(q, d), k) = next_psector(q, d + k)
      BY <2>1, <1>2, NextTwice, ZenonT(30)
    <3> QED
      BY <3>1, <3>2
  <2> QED
    BY <2>1, <2>2, <2>3
<1> QED
  BY <1>5, <1>6, <1>7

\* getfssec.c:95-127.  The call begins.
LEMMA GetfssecKeeps ==
  ASSUME IInv, NEW k \in Nat, Getfssec(k)
  PROVE  IInv'
<1>1. /\ UNCHANGED <<fs, chain, entrysize, start, size, nxt, pvt, offset, more, got>>
      /\ pc = "idle" /\ pc' = "extent" /\ bytes' = 0 /\ left' = BytesLeft
      /\ sectors' = IF k > SectorsLeft THEN SectorsLeft ELSE k
  BY DEF Getfssec
<1>2. BytesLeft \in 0 .. Word - 1 /\ SectorsLeft \in Nat
  <2>1. BytesLeft \in 0 .. Word - 1
    <3>1. PICK x \in Int : x = size - offset
      BY Numbers
    <3>2. x % Word \in 0 .. Word - 1
      BY Constants, DivFacts
    <3> QED
      BY <3>1, <3>2 DEF BytesLeft
  <2>2. (BytesLeft + SectorSize - 1) % Word \in Nat
    BY <2>1, Constants
  <2>3. PICK x \in Nat : x = (BytesLeft + SectorSize - 1) % Word
    BY <2>2
  <2>4. x \div SectorSize \in Nat
    BY Constants
  <2> QED
    BY <2>1, <2>3, <2>4 DEF SectorsLeft
<1>3. PICK l \in Nat : l = SectorOf(offset) /\ l = Len(got) /\ l = this.lstart
  <2>1. offset = SectorSize * Len(got) /\ this.lstart = Len(got)
    BY <1>1 DEF IInv, PositionInv
  <2>2. Len(got) * SectorSize = SectorSize * Len(got)
    BY Numbers, Constants, MulComm
  <2>3. (Len(got) * SectorSize) \div SectorSize = Len(got)
    <3>1. PICK x \in Nat : x = Len(got)
      BY Numbers
    <3>2. (x * SectorSize) \div SectorSize = x
      BY Constants, MulDiv
    <3> QED
      BY <3>1, <3>2
  <2> QED
    BY <2>1, <2>2, <2>3, Numbers DEF SectorOf
<1>4. this' = IF Contains(this, l) THEN From(this, l)
              ELSE IF Contains(nxt, l) THEN From(nxt, l)
              ELSE [nxt EXCEPT !.lstart = l, !.len = 0]
  BY <1>3 DEF Getfssec
<1>5. /\ True(this) /\ True(nxt) /\ Aligned(this) /\ Aligned(nxt)
      /\ this \in Extent /\ nxt \in Extent
  BY Numbers DEF IInv, ExtentInv
<1>6. this' \in Extent /\ True(this') /\ Aligned(this') /\ this'.lstart = l
  <2>1. CASE Contains(this, l)
    <3>1. PICK e \in Extent : e = this
      BY <1>5
    <3>2. From(e, l) \in Extent /\ True(From(e, l)) /\ Aligned(From(e, l))
      BY <3>1, <2>1, <1>5, FromKeeps
    <3> QED
      BY <3>1, <3>2, <2>1, <1>4 DEF From
  <2>2. CASE ~ Contains(this, l) /\ Contains(nxt, l)
    <3>1. PICK e \in Extent : e = nxt
      BY <1>5
    <3>2. From(e, l) \in Extent /\ True(From(e, l)) /\ Aligned(From(e, l))
      BY <3>1, <2>2, <1>5, FromKeeps
    <3> QED
      BY <3>1, <3>2, <2>2, <1>4 DEF From
  <2>3. CASE ~ Contains(this, l) /\ ~ Contains(nxt, l)
    <3>1. this' = [nxt EXCEPT !.lstart = l, !.len = 0]
      BY <2>3, <1>4
    <3>2. this' \in Extent /\ this'.lstart = l /\ this'.len = 0
      BY <3>1, <1>5 DEF Extent
    <3>3. this.len = 0
      BY <2>3, <1>3, Numbers DEF Contains
    <3>4. this'.lstart + this'.len = this.lstart + this.len
      BY <3>2, <3>3, <1>3
    <3>5. Aligned(this')
      BY <3>4, <1>5 DEF Aligned
    <3>6. True(this')
      BY <3>2 DEF True
    <3> QED
      BY <3>2, <3>5, <3>6
  <2> QED
    BY <2>1, <2>2, <2>3
<1>7. TypeOK'
  <2>1. sectors' \in Nat
    BY <1>1, <1>2
  <2> QED
    BY <2>1, <1>1, <1>2, <1>6 DEF IInv, TypeOK
<1>8. PositionInv'
  <2>1. size = entrysize => left' = entrysize - offset
    <3> SUFFICES ASSUME size = entrysize PROVE BytesLeft = entrysize - offset
      BY <1>1
    <3>1. entrysize - offset \in 0 .. Word - 1
      <4>1. offset <= entrysize
        BY DEF IInv, PositionInv
      <4> QED
        BY <4>1, Numbers, Constants, SMTT(30)
    <3> QED
      BY <3>1, Constants DEF BytesLeft
  <2>2. offset + bytes' = SectorSize * Len(got)
    BY <1>1, Numbers DEF IInv, PositionInv
  <2> QED
    BY <2>1, <2>2, <1>1, <1>3, <1>6 DEF IInv, PositionInv, Running
<1>9. /\ size' <= size /\ size' = size /\ got' \in Seq(Nat \cup {EXTENT_ZERO})
      /\ \A i \in 1 .. Len(got') : got'[i] = Phys(i - 1)
  BY <1>1, Numbers DEF IInv, FileInv, ContentInOrder
<1>10. fs = "fat" => PlaceRight(pvt', size')
  BY <1>1 DEF IInv, PlaceInv
<1>11. True(nxt') /\ Aligned(nxt')
  BY <1>1, <1>5
<1> QED
  BY <1>1, <1>6, <1>7, <1>8, <1>9, <1>10, <1>11, StepKeeps

\* getfssec.c:74-86, 139-142.  The next extent is looked up.
LEMMA LookAheadKeeps ==
  ASSUME IInv, HasClusters, LookAhead
  PROVE  IInv'
<1>1. /\ UNCHANGED <<fs, chain, entrysize, start, this, offset, sectors, left, bytes, more, got>>
      /\ pc = "extent" /\ pc' = "join"
  BY DEF LookAhead
<1>2. PICK l \in Nat : l = this.lstart + this.len
  BY Numbers, SMTT(30)
<1>3. PICK r \in NextExtents(l) :
        /\ size' = r.size /\ pvt' = r.pvt
        /\ nxt' = [pstart |-> r.pstart, len |-> IF r.err THEN 0 ELSE r.len, lstart |-> l]
  BY <1>2 DEF LookAhead
<1>4. True(this) /\ Aligned(this)
  BY DEF IInv, ExtentInv
<1>5. Promise(l, r)
  <2>1. CASE fs = "fat"
    <3>1. l % ClusterSecs = 0
      BY <2>1, <1>2, <1>4 DEF Aligned
    <3>2. r = FatNextExtent(l)
      BY <2>1, <1>3 DEF NextExtents
    <3> QED
      BY <3>1, <3>2, <2>1, FatPromise
  <2>2. CASE fs = "ext2"
    <3>1. r \in Ext2NextExtents(l)
      BY <2>2, <1>3 DEF NextExtents
    <3> QED
      BY <3>1, <2>2, Ext2Promise
  <2> QED
    BY <2>1, <2>2 DEF IInv, FileInv
<1>6. nxt' \in Extent /\ True(nxt') /\ Aligned(nxt')
  <2>1. CASE r.err
    <3>1. nxt' = [pstart |-> r.pstart, len |-> 0, lstart |-> l]
      BY <2>1, <1>3
    <3>2. nxt'.lstart + nxt'.len = l
      BY <3>1
    <3> QED
      BY <3>1, <3>2, <1>2, <1>4, <1>5 DEF Promise, Extent, True, Aligned
  <2>2. CASE ~ r.err
    <3>1. nxt' = [pstart |-> r.pstart, len |-> r.len, lstart |-> l]
      BY <2>2, <1>3
    <3> QED
      BY <3>1, <2>2, <1>5 DEF Promise, Extent, True, Aligned
  <2> QED
    BY <2>1, <2>2
<1>7. TypeOK'
  BY <1>1, <1>3, <1>5, <1>6 DEF IInv, TypeOK, Promise
<1>8. PositionInv'
  <2>1. size' = entrysize => size = entrysize
    BY <1>3, <1>5, Numbers DEF Promise, IInv, SizeInv
  <2>2. nxt'.lstart = this.lstart + this.len
    BY <1>2, <1>3
  <2> QED
    BY <2>1, <2>2, <1>1 DEF IInv, PositionInv, Running
<1>9. /\ got' \in Seq(Nat \cup {EXTENT_ZERO}) /\ size' <= size
      /\ size' # size => fs = "fat" /\ Len(chain) * ClusterBytes < size
      /\ \A i \in 1 .. Len(got') : got'[i] = Phys(i - 1)
  BY <1>1, <1>3, <1>5 DEF IInv, FileInv, ContentInOrder, Promise
<1>10. fs = "fat" => PlaceRight(pvt', size')
  BY <1>3, <1>5 DEF Promise
<1>11. True(this') /\ Aligned(this')
  BY <1>1, <1>4
<1> QED
  BY <1>1, <1>6, <1>7, <1>8, <1>9, <1>10, <1>11, StepKeeps

\* getfssec.c:144-150.  The extent looked up is the first one of this call.
LEMMA TakeNextKeeps ==
  ASSUME IInv, TakeNext
  PROVE  IInv'
<1>1. /\ UNCHANGED <<fs, chain, entrysize, start, size, nxt, pvt, offset, left, bytes, more, got>>
      /\ pc = "join" /\ this.len = 0 /\ this' = nxt
      /\ pc' \in {"io", "extent"} /\ sectors' \in {0, sectors}
  BY DEF TakeNext
<1>2. TypeOK'
  BY <1>1 DEF IInv, TypeOK
<1>3. nxt.lstart = Len(got)
  BY <1>1, Numbers DEF IInv, PositionInv
<1>4. PositionInv'
  BY <1>1, <1>3 DEF IInv, PositionInv, Running
<1>5. True(this') /\ True(nxt') /\ Aligned(this') /\ Aligned(nxt')
  BY <1>1 DEF IInv, ExtentInv
<1>6. /\ size' <= size /\ size' = size /\ got' \in Seq(Nat \cup {EXTENT_ZERO})
      /\ \A i \in 1 .. Len(got') : got'[i] = Phys(i - 1)
  BY <1>1, Numbers DEF IInv, FileInv, ContentInOrder
<1>7. fs = "fat" => PlaceRight(pvt', size')
  BY <1>1 DEF IInv, PlaceInv
<1> QED
  BY <1>1, <1>2, <1>4, <1>5, <1>6, <1>7, StepKeeps

\* getfssec.c:151-154.  Two true extents of which the second continues the
\* first make one.
LEMMA CoalesceKeeps ==
  ASSUME IInv, Coalesce
  PROVE  IInv'
<1>1. /\ UNCHANGED <<fs, chain, entrysize, start, size, nxt, pvt, offset, sectors, left, bytes,
                     more, got>>
      /\ pc = "join" /\ pc' = "extent" /\ this' = [this EXCEPT !.len = @ + nxt.len]
      /\ nxt.pstart = next_psector(this.pstart, this.len)
  BY DEF Coalesce, Contiguous
<1>2. PICK e \in Extent, f \in Extent : e = this /\ f = nxt
  BY Numbers
<1>3. /\ e.len \in Nat /\ e.lstart \in Nat /\ e.pstart \in Nat \cup {EXTENT_ZERO}
      /\ f.len \in Nat /\ f.lstart \in Nat
      /\ f.lstart = e.lstart + e.len /\ f.pstart = next_psector(e.pstart, e.len)
  BY <1>1, <1>2 DEF Extent, IInv, PositionInv
<1>4. this' = [pstart |-> e.pstart, lstart |-> e.lstart, len |-> e.len + f.len]
  BY <1>1, <1>2 DEF Extent
<1>5. True(e) /\ True(f) /\ Aligned(f) /\ True(nxt') /\ Aligned(nxt')
  BY <1>1, <1>2 DEF IInv, ExtentInv
<1>6. this' \in Extent
  BY <1>3, <1>4 DEF Extent
<1>7. True(this')
  <2>1. ASSUME NEW k \in 0 .. e.len + f.len - 1, k < e.len
        PROVE  Phys(e.lstart + k) = next_psector(e.pstart, k)
    <3>1. k \in 0 .. e.len - 1
      BY <2>1, <1>3
    <3> QED
      BY <3>1, <1>5 DEF True
  <2>2. ASSUME NEW k \in 0 .. e.len + f.len - 1, k >= e.len
        PROVE  Phys(e.lstart + k) = next_psector(e.pstart, k)
    <3>1. PICK j \in Nat : j = k - e.len
      BY <2>2, <1>3
    <3>2. j \in 0 .. f.len - 1 /\ e.lstart + k = f.lstart + j /\ e.len + j = k
      BY <3>1, <1>3
    <3>3. Phys(f.lstart + j) = next_psector(f.pstart, j)
      BY <3>2, <1>5 DEF True
    <3>4. PICK q \in Nat \cup {EXTENT_ZERO}, a \in Nat : q = e.pstart /\ a = e.len
      BY <1>3
    <3>5. next_psector(next_psector(q, a), j) = next_psector(q, a + j)
      BY NextTwice
    <3> QED
      BY <3>2, <3>3, <3>4, <3>5, <1>3
  <2>3. \A k \in 0 .. e.len + f.len - 1 : Phys(e.lstart + k) = next_psector(e.pstart, k)
    BY <2>1, <2>2, <1>3
  <2>4. PICK t : t = [pstart |-> e.pstart, lstart |-> e.lstart, len |-> e.len + f.len]
    OBVIOUS
  <2>5. t.pstart = e.pstart /\ t.lstart = e.lstart /\ t.len = e.len + f.len
    BY <2>4
  <2>6. True(t)
    BY <2>3, <2>5, <1>3 DEF True
  <2> QED
    BY <2>4, <2>6, <1>4
<1>8. Aligned(this')
  <2>1. this'.lstart + this'.len = f.lstart + f.len
    BY <1>3, <1>4
  <2> QED
    BY <2>1, <1>5 DEF Aligned
<1>9. TypeOK'
  BY <1>1, <1>6 DEF IInv, TypeOK
<1>10. PositionInv'
  BY <1>1, <1>2, <1>4 DEF IInv, PositionInv, Running
<1>11. /\ size' <= size /\ size' = size /\ got' \in Seq(Nat \cup {EXTENT_ZERO})
       /\ \A i \in 1 .. Len(got') : got'[i] = Phys(i - 1)
  BY <1>1, Numbers DEF IInv, FileInv, ContentInOrder
<1>12. fs = "fat" => PlaceRight(pvt', size')
  BY <1>1 DEF IInv, PlaceInv
<1> QED
  BY <1>1, <1>5, <1>7, <1>8, <1>9, <1>10, <1>11, <1>12, StepKeeps

\* getfssec.c:166-184.  One transfer.
LEMMA ReadChunkKeeps ==
  ASSUME IInv, ReadChunk
  PROVE  IInv'
<1>1. /\ UNCHANGED <<fs, chain, entrysize, start, size, nxt, pvt, offset, left, more>>
      /\ pc = "io" /\ pc' \in {"end", "extent"}
  BY DEF ReadChunk
<1>2. PICK e \in Extent : e = this
  BY Numbers
<1>3. /\ e.len \in Nat /\ e.lstart \in Nat /\ e.pstart \in Nat \cup {EXTENT_ZERO}
      /\ True(e) /\ Aligned(e) /\ e.lstart = Len(got)
  BY <1>1, <1>2 DEF Extent, IInv, PositionInv, ExtentInv
<1>4. PICK n \in Nat :
        /\ n > 0 /\ n <= sectors /\ n <= e.len
        /\ got' = got \o [i \in 1 .. n |-> next_psector(e.pstart, i - 1)]
        /\ this' = [pstart |-> next_psector(e.pstart, n), lstart |-> e.lstart + n,
                    len |-> e.len - n]
        /\ sectors' = sectors - n /\ bytes' = bytes + n * SectorSize
  <2>1. LET n == IF sectors < this.len THEN sectors ELSE this.len
        IN n \in Nat /\ n <= sectors /\ n <= this.len
    BY Numbers, SMTT(30)
  <2> QED
    BY <2>1, <1>2 DEF ReadChunk
<1> DEFINE piece == [i \in 1 .. n |-> next_psector(e.pstart, i - 1)]
<1>5. piece \in Seq(Nat \cup {EXTENT_ZERO}) /\ Len(piece) = n
  <2>1. \A i \in 1 .. n : next_psector(e.pstart, i - 1) \in Nat \cup {EXTENT_ZERO}
    BY <1>3, Constants DEF next_psector
  <2> QED
    BY <2>1, SeqDef, LenProperties
<1>5a. Len(got) \in Nat
  BY Numbers
<1>6. /\ got' \in Seq(Nat \cup {EXTENT_ZERO}) /\ Len(got') = Len(got) + n
      /\ \A i \in 1 .. Len(got) + n :
           got'[i] = IF i <= Len(got) THEN got[i] ELSE piece[i - Len(got)]
  <2>1. got \in Seq(Nat \cup {EXTENT_ZERO}) /\ got' = got \o piece
    BY <1>4 DEF IInv, FileInv
  <2> HIDE DEF piece
  <2> QED
    BY <2>1, <1>5, ConcatProperties
<1>7. \A i \in 1 .. Len(got') : got'[i] = Phys(i - 1)
  <2> SUFFICES ASSUME NEW i \in 1 .. Len(got) + n PROVE got'[i] = Phys(i - 1)
    BY <1>6
  <2>1. CASE i <= Len(got)
    <3>1. i \in 1 .. Len(got)
      BY <2>1, Numbers
    <3> QED
      BY <3>1, <2>1, <1>6 DEF IInv, ContentInOrder
  <2>2. CASE i > Len(got)
    <3>0. PICK g \in Nat : g = Len(got)
      BY <1>5a
    <3>0a. i \in 1 .. g + n /\ i > g /\ e.lstart = g
      BY <3>0, <2>2, <1>3
    <3>1. PICK j \in Nat : j = i - g - 1 /\ i - g \in 1 .. n /\ i - g - 1 = j /\ g + j = i - 1
      BY <3>0a
    <3>2. j \in 0 .. e.len - 1
      BY <3>0a, <3>1, <1>3, <1>4
    <3>3. piece[i - g] = next_psector(e.pstart, j)
      BY <3>1
    <3>4. Phys(e.lstart + j) = next_psector(e.pstart, j)
      BY <3>2, <1>3 DEF True
    <3>5. got'[i] = piece[i - g]
      <4> HIDE DEF piece
      <4>1. ~ (i <= g)
        BY <3>0a
      <4> QED
        BY <3>0, <3>0a, <4>1, <1>6
    <3> QED
      BY <3>0a, <3>1, <3>3, <3>4, <3>5
  <2> QED
    BY <2>1, <2>2, <1>5a
<1>8. this' \in Extent
  <2>1. next_psector(e.pstart, n) \in Nat \cup {EXTENT_ZERO}
    BY <1>3, Constants DEF next_psector
  <2> QED
    BY <2>1, <1>3, <1>4 DEF Extent
<1>9. True(this')
  <2> SUFFICES ASSUME NEW k \in 0 .. e.len - n - 1
               PROVE  Phys(e.lstart + n + k) = next_psector(next_psector(e.pstart, n), k)
    BY <1>4 DEF True
  <2>1. k \in Nat /\ n + k \in 0 .. e.len - 1 /\ e.lstart + n + k = e.lstart + (n + k)
    BY <1>3, <1>4
  <2>2. Phys(e.lstart + (n + k)) = next_psector(e.pstart, n + k)
    BY <2>1, <1>3 DEF True
  <2>3. PICK q \in Nat \cup {EXTENT_ZERO} : q = e.pstart
    BY <1>3
  <2>4. next_psector(next_psector(q, n), k) = next_psector(q, n + k)
    BY <2>1, NextTwice
  <2> QED
    BY <2>1, <2>2, <2>3, <2>4
<1>10. Aligned(this')
  <2>1. this'.lstart + this'.len = e.lstart + e.len
    BY <1>3, <1>4
  <2> QED
    BY <2>1, <1>3 DEF Aligned
<1>11. bytes' \in Nat /\ offset + bytes' = SectorSize * Len(got')
  <2>1. PICK g \in Nat : g = Len(got) /\ Len(got') = g + n
    BY <1>5a, <1>6
  <2>2. SectorSize * (g + n) = SectorSize * g + SectorSize * n
    BY Constants
  <2>3. offset + bytes = SectorSize * g /\ offset \in Nat /\ bytes \in Nat
    <3>1. offset + bytes = SectorSize * Len(got)
      BY <1>1 DEF IInv, PositionInv, Running
    <3> QED
      BY <3>1, <2>1, Numbers
  <2>4. PICK x \in Nat, y \in Nat : x = SectorSize * g /\ y = SectorSize * n
    BY Constants, MulNat
  <2>5. n * SectorSize = SectorSize * n
    BY Constants, MulComm
  <2>6. bytes' = bytes + y
    BY <1>4, <2>4, <2>5
  <2>7. SectorSize * Len(got') = x + y
    BY <2>1, <2>2, <2>4
  <2> QED
    <3>1. offset + bytes = x
      BY <2>3, <2>4
    <3>2. bytes + y \in Nat /\ offset + (bytes + y) = x + y
      BY <3>1, <2>3, <2>4
    <3> QED
      BY <3>2, <2>6, <2>7
<1>12. TypeOK'
  <2>1. sectors' \in Nat
    <3>1. sectors' = sectors - n /\ n <= sectors
      BY <1>4
    <3> QED
      BY <3>1, Numbers, SMTT(30)
  <2> QED
    BY <2>1, <1>1, <1>8, <1>11 DEF IInv, TypeOK
<1>13. PositionInv'
  <2>1. this'.lstart = Len(got')
    BY <1>3, <1>4, <1>6
  <2> QED
    BY <2>1, <1>1, <1>11 DEF IInv, PositionInv, Running
<1>14. size' <= size /\ size' = size /\ True(nxt') /\ Aligned(nxt')
  BY <1>1, Numbers DEF IInv, ExtentInv
<1>15. fs = "fat" => PlaceRight(pvt', size')
  BY <1>1 DEF IInv, PlaceInv
<1> QED
  BY <1>1, <1>6, <1>7, <1>9, <1>10, <1>12, <1>13, <1>14, <1>15, StepKeeps

\* What has been read lies in the clusters of the chain.
LEMMA ReadIsInChain ==
  ASSUME IInv
  PROVE  SectorSize * Len(got) <= Len(chain) * ClusterBytes
<1>1. PICK g \in Nat, c \in Nat : g = Len(got) /\ c = Len(chain)
  BY Numbers, ChainFacts DEF IInv
<1>2. CASE g = 0
  <2>1. c * ClusterBytes \in Nat /\ SectorSize * g = 0
    BY <1>2, Constants, MulNat
  <2> QED
    BY <1>1, <2>1
<1>3. CASE g > 0
  <2>1. got[g] \in Nat \cup {EXTENT_ZERO} /\ got[g] = Phys(g - 1)
    <3>1. g \in 1 .. Len(got)
      BY <1>1, <1>3
    <3> QED
      BY <3>1, ElementOfSeq DEF IInv, FileInv, ContentInOrder
  <2>2. Phys(g - 1) # NoSector
    BY <2>1, Constants DEF NoSector
  <2>3. PICK q \in Int, s \in 0 .. ClusterSecs - 1 :
          q = (g - 1) \div ClusterSecs /\ g - 1 = ClusterSecs * q + s
    BY <1>3, Constants, DivFacts
  <2>4. q < c
    BY <2>2, <2>3, <1>1 DEF Phys
  <2>5. ClusterSecs * (q + 1) <= ClusterSecs * c
    BY <2>3, <2>4, Constants, MulLe
  <2>6. ClusterSecs * (q + 1) = ClusterSecs * q + ClusterSecs
    BY <2>3, Constants
  <2>7. PICK x \in Int, y \in Int : x = ClusterSecs * q /\ y = ClusterSecs * c
    BY <2>3, Constants
  <2>8. g <= y
    BY <2>3, <2>5, <2>6, <2>7, Constants
  <2>9. SectorSize * g <= SectorSize * y
    BY <2>8, <2>7, Constants, MulLe
  <2>10. SectorSize * (ClusterSecs * c) = c * (ClusterSecs * SectorSize)
    BY Constants
  <2> QED
    BY <2>7, <2>9, <2>10, <1>1 DEF ClusterBytes
<1> QED
  BY <1>2, <1>3

\* getfssec.c:187-193.  The call ends.
LEMMA EndKeeps ==
  ASSUME IInv, End
  PROVE  IInv'
<1>1. /\ UNCHANGED <<fs, chain, entrysize, start, size, this, nxt, pvt, sectors, left, got>>
      /\ pc = "end" /\ pc' = "ret"
  BY DEF End
<1>2. PICK n \in Nat : n = IF bytes < left THEN bytes ELSE left
  BY Numbers
<1>2a. n <= bytes /\ n <= left /\ (n = bytes \/ n = left)
  BY <1>2, Numbers, SMTT(30)
<1>2b. bytes' = n /\ offset' = offset + n /\ more' = (n < left)
  BY <1>2, Zenon DEF End
<1>2c. (more' <=> n < left) /\ more' \in BOOLEAN
  <2>1. (n < left) \in BOOLEAN
    OBVIOUS
  <2> QED
    BY <1>2b, <2>1, Zenon
<1>3. offset + bytes = SectorSize * Len(got) /\ (size = entrysize => left = entrysize - offset)
  BY <1>1 DEF IInv, PositionInv, Running
<1>4. offset' <= entrysize
  <2>1. CASE size = entrysize
    BY <2>1, <1>2a, <1>2b, <1>3, Numbers
  <2>2. CASE size # entrysize
    <3>1. Len(chain) * ClusterBytes < entrysize /\ Len(chain) * ClusterBytes \in Nat
      BY <2>2, ChainFacts, Constants, MulNat DEF IInv, SizeInv
    <3>2. offset + bytes <= Len(chain) * ClusterBytes
      BY <1>3, ReadIsInChain
    <3> QED
      BY <3>1, <3>2, <1>2a, <1>2b, Numbers, SMTT(30)
  <2> QED
    BY <2>1, <2>2
<1>5. offset' \in 0 .. Word - 1 /\ bytes' \in Nat /\ more' \in BOOLEAN
  <2>1. offset' \in Nat /\ offset' <= entrysize /\ entrysize \in 0 .. Word - 1
    BY <1>2b, <1>4, Numbers, SMTT(30)
  <2> QED
    BY <2>1, <1>2b, <1>2c, Constants
<1>6. TypeOK'
  BY <1>1, <1>5 DEF IInv, TypeOK
<1>7. PositionInv'
  <2>1. more' => offset' = SectorSize * Len(got)
    BY <1>2a, <1>2b, <1>2c, <1>3, Numbers, SMTT(30)
  <2>2. size = entrysize => (more' <=> offset' < entrysize)
    <3>1. size = entrysize => (n < left <=> offset + n < entrysize)
      BY <1>3, Numbers, SMTT(30)
    <3>2. offset' = offset + n
      BY <1>2b
    <3> QED
      BY <3>1, <3>2, <1>2c, Zenon
  <2> QED
    BY <2>1, <2>2, <1>1, <1>4 DEF IInv, PositionInv, Running
<1> QED
  BY <1>1, <1>6, <1>7, QuietKeeps

\* The place before anything has been read is right.
LEMMA FirstPlace ==
  ASSUME FileInv, HasClusters
  PROVE  LET v == [offset |-> 0, here |-> FirstSector]
         IN v \in [offset : Nat, here : Nat] /\ (fs = "fat" => \A n : PlaceRight(v, n))
<1>1. CASE fs = "fat"
  <2>1. Len(chain) > 0 /\ Len(chain) \in Nat /\ chain # <<>>
    BY <1>1, ChainFacts, EmptySeq DEF HasClusters
  <2>2. PICK c \in Cluster : c = chain[1]
    BY <1>1, <2>1, ChainFacts
  <2>3. FirstSector = ClusterStart(c) /\ Link(0) = c
    BY <1>1, <2>1, <2>2 DEF FirstSector, Link
  <2>4. ClusterStart(c) \in Nat
    BY StartNat
  <2>5. 0 % ClusterSecs = 0 /\ 0 \div ClusterSecs = 0
    BY Constants
  <2> QED
    BY <2>1, <2>3, <2>4, <2>5 DEF PlaceRight
<1>2. CASE fs # "fat"
  <2>1. FirstSector = 0
    BY <1>2 DEF FirstSector, FileInv
  <2> QED
    BY <1>2, <2>1
<1> QED
  BY <1>1, <1>2

\* fat.c:545-563.  An inode that has been filled in.
LEMMA InitHolds ==
  ASSUME Init, HasClusters
  PROVE  IInv
<1>1. FileInv
  BY EmptySeq DEF Init, FileInv, StartClusters, HasClusters
<1>2. entrysize \in 0 .. Word - 1 /\ size = entrysize
  BY <1>1, ReadAssumption DEF FileInv, Init, InodeSize, HasClusters
<1>3. pvt \in [offset : Nat, here : Nat] /\ (fs = "fat" => PlaceRight(pvt, size))
  BY <1>1, FirstPlace DEF Init
<1>4. TypeOK
  BY <1>2, <1>3, Constants DEF Init, TypeOK, NoExtent, Extent
<1>5. ExtentInv
  <2>1. 0 % ClusterSecs = 0
    BY Constants
  <2> QED
    BY <2>1 DEF Init, ExtentInv, True, Aligned, NoExtent
<1>6. PositionInv
  <2>1. Len(got) = 0 /\ SectorSize * 0 = 0
    BY Constants, EmptySeq DEF Init
  <2> QED
    BY <2>1, <1>2 DEF Init, PositionInv, Running, NoExtent
<1>7. ContentInOrder
  BY EmptySeq DEF Init, ContentInOrder
<1> QED
  BY <1>1, <1>2, <1>3, <1>4, <1>5, <1>6, <1>7 DEF IInv, SizeInv, PlaceInv

\* The file is opened again.
LEMMA FindEntryKeeps ==
  ASSUME IInv, HasClusters, FindEntry
  PROVE  IInv'
<1>0. /\ UNCHANGED <<fs, chain, entrysize>> /\ pc' = "idle" /\ offset' = 0
      /\ this' = NoExtent /\ nxt' = NoExtent /\ got' = <<>> /\ size' = InodeSize
      /\ pvt' = [offset |-> 0, here |-> FirstSector] /\ start' \in StartClusters
      /\ sectors' = 0 /\ left' = 0 /\ bytes' = 0 /\ more' = TRUE
  BY DEF FindEntry
<1>1. FileInv'
  <2>1. fs = "fat" => start' = chain[1]
    BY <1>0 DEF StartClusters, HasClusters
  <2>2. FileInv /\ got' \in Seq(Nat \cup {EXTENT_ZERO})
    BY <1>0, EmptySeq DEF IInv
  <2> QED
    BY <1>0, <2>1, <2>2 DEF FileInv, Complete
<1>2. entrysize \in 0 .. Word - 1 /\ size' = entrysize
  BY <1>0, Numbers DEF InodeSize, HasClusters
<1>3. pvt' \in [offset : Nat, here : Nat] /\ (fs = "fat" => PlaceRight(pvt', size'))
  BY <1>0, FirstPlace DEF IInv
<1>4. TypeOK'
  BY <1>0, <1>2, <1>3, Constants DEF TypeOK, NoExtent, Extent
<1>5. ExtentInv'
  <2>1. 0 % ClusterSecs = 0
    BY Constants
  <2> QED
    BY <1>0, <2>1 DEF ExtentInv, True, Aligned, NoExtent
<1>6. PositionInv'
  <2>1. Len(got') = 0 /\ SectorSize * 0 = 0
    BY <1>0, Constants, EmptySeq
  <2> QED
    BY <1>0, <2>1, <1>2 DEF PositionInv, Running, NoExtent
<1>7. ContentInOrder'
  BY <1>0, EmptySeq DEF ContentInOrder
<1>8. PlaceInv'
  BY <1>0, <1>3 DEF PlaceInv, PlaceRight, Link, ClusterStart
<1> QED
  BY <1>0, <1>1, <1>2, <1>4, <1>5, <1>6, <1>7, <1>8 DEF IInv, SizeInv

\* Whatever is done with the file, the invariant holds again.
LEMMA InsideKeeps ==
  ASSUME IInv, HasClusters, Inside
  PROVE  IInv'
BY LookAheadKeeps, GoesOn, TakeNextKeeps, CoalesceKeeps, ReadChunkKeeps, EndKeeps DEF Inside

\* Every step of the system keeps the invariant.
LEMMA NextKeeps ==
  ASSUME IInv, HasClusters, [Next]_vars
  PROVE  IInv'
<1>1. ASSUME NEW k \in 0 .. MaxSectors, Getfssec(k) \/ GetfssecNothing(k)
      PROVE  IInv'
  <2>1. k \in Nat
    BY ReadAssumption
  <2> QED
    BY <1>1, <2>1, GetfssecKeeps, NothingKeeps
<1>2. CASE Step
  BY <1>2, InsideKeeps, GoesOn DEF Step
<1>3. CASE FindEntry
  BY <1>3, FindEntryKeeps
<1>4. CASE UNCHANGED vars
  <2>1. TypeOK'
    BY <1>4 DEF IInv, TypeOK, vars
  <2>2. PositionInv'
    BY <1>4 DEF IInv, PositionInv, Running, vars
  <2> QED
    BY <1>4, <2>1, <2>2, QuietKeeps DEF vars
<1> QED
  BY <1>1, <1>2, <1>3, <1>4 DEF Next

\* The file system and the chain never change.
LEMMA FileStays ==
  ASSUME [Next]_vars
  PROVE  UNCHANGED <<fs, chain>>
BY DEF Next, Step, Inside, vars, Getfssec, GetfssecNothing, LookAhead, KnowNext, Enough, TakeNext,
       Coalesce, Discontiguous, ReadChunk, Dead, End, Return, FindEntry

\* The invariant holds for every file that has clusters.
LEMMA InvariantHolds == Spec => [](HasClusters => IInv)
<1>1. Init => (HasClusters => IInv)
  BY InitHolds
<1>2. (HasClusters => IInv) /\ [Next]_vars => (HasClusters => IInv)'
  <2> SUFFICES ASSUME HasClusters => IInv, [Next]_vars, HasClusters' PROVE IInv'
    OBVIOUS
  <2>1. HasClusters
    BY FileStays DEF HasClusters
  <2> QED
    BY <2>1, NextKeeps
<1> QED
  BY <1>1, <1>2, PTL DEF Spec

-----------------------------------------------------------------------------
(* The theorems.  All are about files that have a cluster, or are on ext2. *)

\* The variables have their types; offsets and sizes stay in 32 bits without
\* wrapping.
THEOREM FileTypeCorrect == Spec => [](HasClusters => TypeOK)
<1>1. (HasClusters => IInv) => (HasClusters => TypeOK)
  BY DEF IInv
<1> QED
  BY <1>1, InvariantHolds, PTL

\* getfssec.c:134-185.  However the reads are cut up, and wherever the clusters
\* lie, the buffers get the sectors of the file, each once and in order; also
\* if the chain is shorter than the size says.
THEOREM ContentArrives == Spec => [](HasClusters => ContentInOrder)
<1>1. (HasClusters => IInv) => (HasClusters => ContentInOrder)
  BY DEF IInv
<1> QED
  BY <1>1, InvariantHolds, PTL

\* getfssec.c:109-127, 138-158.  Extents are true as looked up, coalesced and cut.
THEOREM ExtentsAlwaysTrue == Spec => [](HasClusters => ExtentsTrue)
<1>1. (HasClusters => IInv) => (HasClusters => ExtentsTrue)
  BY DEF IInv, ExtentInv, True, ExtentsTrue
<1> QED
  BY <1>1, InvariantHolds, PTL

\* A complete chain has room for the file.
LEMMA CompleteCovers ==
  ASSUME NEW n \in Nat
  PROVE  CeilDiv(n, ClusterBytes) \in Int /\ n <= ClusterBytes * CeilDiv(n, ClusterBytes)
<1>1. PICK x \in Int : x = n + ClusterBytes - 1
  BY Constants
<1>2. PICK q \in Int, s \in 0 .. ClusterBytes - 1 :
        q = x \div ClusterBytes /\ x = ClusterBytes * q + s
  BY Constants, DivFacts
<1>3. CeilDiv(n, ClusterBytes) = q
  BY <1>1, <1>2 DEF CeilDiv
<1>4. PICK y \in Int : y = ClusterBytes * q
  BY <1>2, Constants
<1>5. n <= y
  BY <1>1, <1>2, <1>4, Constants
<1> QED
  BY <1>3, <1>4, <1>5

\* A chain that is as long as the size says is never cut.
LEMMA CompleteIsWhole ==
  ASSUME IInv, Complete
  PROVE  size = entrysize /\ entrysize <= ClusterBytes * Len(chain)
<1>1. PICK n \in Nat : n = entrysize
  BY Numbers
<1>2. n <= ClusterBytes * CeilDiv(n, ClusterBytes)
  BY CompleteCovers
<1>3. entrysize <= ClusterBytes * Len(chain)
  BY <1>1, <1>2 DEF Complete
<1>4. ClusterBytes * Len(chain) = Len(chain) * ClusterBytes /\ ClusterBytes * Len(chain) \in Nat
  BY ChainFacts, Constants, MulComm, MulNat DEF IInv
<1>5. ASSUME size # entrysize PROVE FALSE
  <2>1. Len(chain) * ClusterBytes < entrysize
    BY <1>5 DEF IInv, SizeInv
  <2> QED
    BY <2>1, <1>1, <1>3, <1>4
<1> QED
  BY <1>3, <1>5

\* getfssec.c:187-191.  The end of the file is reported exactly when the last
\* byte has been delivered.
THEOREM EndIsReported == Spec => [](HasClusters => EndReportedAtEnd)
<1>1. IInv => EndReportedAtEnd
  <2> SUFFICES ASSUME IInv, Complete, pc = "ret", bytes > 0
               PROVE  more <=> offset < entrysize
    BY DEF EndReportedAtEnd
  <2>1. size = entrysize
    BY CompleteIsWhole
  <2> QED
    BY <2>1 DEF IInv, PositionInv
<1>2. (HasClusters => IInv) => (HasClusters => EndReportedAtEnd)
  BY <1>1
<1> QED
  BY <1>2, InvariantHolds, PTL

\* fat.c:103-108, 136-138.  The place remembered in the chain is right whenever
\* it is inside the file, so that going on from there is going on in the file.
THEOREM PlaceIsRight == Spec => [](HasClusters => PlaceTrue)
<1>1. IInv => PlaceTrue
  <2> SUFFICES ASSUME IInv, fs = "fat", Complete, pvt.offset * SectorSize < size
               PROVE  pvt.here = Phys(pvt.offset)
    BY DEF PlaceTrue
  <2>1. /\ PlaceRight(pvt, size) /\ FileInv /\ pvt.offset \in Nat
        /\ size = entrysize /\ Len(chain) \in Nat
    BY CompleteIsWhole, ChainFacts DEF IInv, PlaceInv, TypeOK
  <2>2. PICK p \in Int : p = pvt.offset \div ClusterSecs /\ pvt.offset = ClusterSecs * p
    <3>1. PICK x \in Nat : x = pvt.offset
      BY <2>1
    <3>2. /\ x \div ClusterSecs \in Int /\ x % ClusterSecs \in Int
          /\ x = ClusterSecs * (x \div ClusterSecs) + (x % ClusterSecs)
      BY Constants, DivFacts
    <3>3. x % ClusterSecs = 0
      BY <3>1, <2>1 DEF PlaceRight
    <3>4. x = ClusterSecs * (x \div ClusterSecs)
      BY <3>2, <3>3, Constants
    <3> QED
      BY <3>1, <3>2, <3>4
  <2>3. p \in Nat
    BY <2>1, <2>2, Constants
  <2>4. (ClusterSecs * p) * SectorSize = (ClusterSecs * SectorSize) * p
    BY <2>3, Constants
  <2>5. ClusterBytes * p < size
    BY <2>2, <2>4 DEF ClusterBytes
  <2>6. p <= Len(chain) /\ pvt.here = ClusterStart(Link(p))
    BY <2>1, <2>2, <2>5 DEF PlaceRight
  <2>7. p < Len(chain)
    <3> SUFFICES ASSUME p = Len(chain) PROVE FALSE
      BY <2>1, <2>3, <2>6
    <3>1. entrysize <= ClusterBytes * Len(chain)
      BY CompleteIsWhole
    <3>2. ClusterBytes * p \in Nat
      BY <2>3, Constants, MulNat
    <3> QED
      BY <2>1, <2>5, <3>1, <3>2, Numbers
  <2>8. Phys(pvt.offset) = ClusterStart(chain[p + 1])
    <3>1. chain[p + 1] \in Cluster /\ chain[p + 1] # Hole
      BY <2>1, <2>3, <2>7, ChainFacts, Constants
    <3>2. pvt.offset % ClusterSecs = 0
      BY <2>1 DEF PlaceRight
    <3>3. PICK c \in Cluster : c = chain[p + 1]
      BY <3>1
    <3>4. ClusterStart(c) \in Nat
      BY StartNat
    <3>5. ClusterStart(chain[p + 1]) + 0 = ClusterStart(chain[p + 1])
      BY <3>3, <3>4
    <3>6. Phys(pvt.offset) = ClusterStart(chain[p + 1]) + (pvt.offset % ClusterSecs)
      BY <3>1, <2>1, <2>2, <2>3, <2>7 DEF Phys
    <3> QED
      BY <3>2, <3>5, <3>6
  <2> QED
    BY <2>6, <2>7, <2>8 DEF Link
<1>2. (HasClusters => IInv) => (HasClusters => PlaceTrue)
  BY <1>1
<1> QED
  BY <1>2, InvariantHolds, PTL

-----------------------------------------------------------------------------
(* Reading implements FileSpec. *)

\* Rounding up to sectors: enough of them, and none that is not needed for a
\* whole number of sectors that is no less.
LEMMA CeilSectors ==
  ASSUME NEW c \in Nat
  PROVE  /\ CeilDiv(c, SectorSize) \in Nat /\ c <= SectorSize * CeilDiv(c, SectorSize)
         /\ \A p \in Nat : c <= SectorSize * p => CeilDiv(c, SectorSize) <= p
         /\ CeilDiv(c, SectorSize) = 0 => c = 0
<1>1. PICK x \in Nat : x = c + SectorSize - 1
  BY Constants
<1>2. PICK q \in Int, s \in 0 .. SectorSize - 1 :
        q = x \div SectorSize /\ x = SectorSize * q + s
  BY Constants, DivFacts
<1>3. CeilDiv(c, SectorSize) = q
  BY <1>1, <1>2 DEF CeilDiv
<1>4. PICK y \in Int : y = SectorSize * q
  BY <1>2, Constants
<1>5. c <= y /\ y < c + SectorSize
  BY <1>1, <1>2, <1>4, Constants
<1>6. q >= 0
  <2> SUFFICES ASSUME q <= -1 PROVE FALSE
    BY <1>2
  <2>1. SectorSize * q <= SectorSize * (-1)
    BY <1>2, Constants, MulLe
  <2> QED
    BY <2>1, <1>4, <1>5, Constants
<1>7. ASSUME NEW p \in Nat, c <= SectorSize * p PROVE q <= p
  <2> SUFFICES ASSUME q >= p + 1 PROVE FALSE
    BY <1>2
  <2>1. SectorSize * (p + 1) <= SectorSize * q
    BY <1>2, Constants, MulLe
  <2>2. SectorSize * (p + 1) = SectorSize * p + SectorSize
    BY Constants
  <2>3. PICK z \in Int : z = SectorSize * p
    BY Constants
  <2>4. c <= z
    BY <2>3, <1>7
  <2>5. z + SectorSize <= y
    BY <2>1, <2>2, <2>3, <1>4
  <2>6. SectorSize \in Nat
    BY Constants
  <2> QED
    BY <2>4, <2>5, <2>6, <1>5
<1>8. ASSUME q = 0 PROVE c = 0
  <2>1. y = 0
    BY <1>8, <1>4, Constants
  <2> QED
    BY <2>1, <1>5
<1>9. CeilDiv(c, SectorSize) \in Nat /\ c <= SectorSize * CeilDiv(c, SectorSize)
  BY <1>3, <1>4, <1>5, <1>6
<1>10. \A p \in Nat : c <= SectorSize * p => CeilDiv(c, SectorSize) <= p
  BY <1>3, <1>7
<1> QED
  BY <1>3, <1>8, <1>9, <1>10

\* The number of sectors of the file: the sectors that begin before its end.
LEMMA SectorsOfFile ==
  ASSUME NEW n \in Nat, NEW j \in Nat
  PROVE  j < CeilDiv(n, SectorSize) <=> SectorSize * j < n
<1>1. PICK f \in Nat : /\ f = CeilDiv(n, SectorSize) /\ n <= SectorSize * f
                       /\ n <= SectorSize * j => f <= j
  BY CeilSectors
<1>2. PICK x \in Nat, y \in Nat : x = SectorSize * f /\ y = SectorSize * j
  BY Constants, MulNat
<1>3. ASSUME f <= j PROVE x <= y
  BY <1>2, <1>3, Constants, MulLe
<1> QED
  BY <1>1, <1>2, <1>3

\* What is owed can be found: there is never more of it than the file has left,
\* and only a call under way owes anything.
OwedInv ==
  /\ pc \notin {"extent", "join", "io"} => sectors = 0
  /\ Len(got) + sectors <= FileSectors
  /\ pc = "join" => nxt.len > 0

\* A sound file has its first cluster, is never cut, and its size can be
\* rounded up.
LEMMA SoundFacts ==
  ASSUME IInv, Sound
  PROVE  /\ HasClusters /\ size = entrysize /\ entrysize <= ClusterBytes * Len(chain)
         /\ FileSectors \in Nat /\ entrysize + ClusterBytes <= Word /\ SectorSize <= ClusterBytes
         /\ \A j \in Nat : j < FileSectors <=> SectorSize * j < entrysize
<1>1. HasClusters /\ Complete /\ entrysize + ClusterBytes <= Word
  BY DEF Sound, HasClusters
<1>2. size = entrysize /\ entrysize <= ClusterBytes * Len(chain)
  BY <1>1, CompleteIsWhole
<1>3. PICK n \in Nat : n = entrysize
  BY Numbers
<1>4. FileSectors = CeilDiv(n, SectorSize)
  BY <1>3 DEF FileSectors
<1>5. FileSectors \in Nat
  BY <1>4, CeilSectors
<1>6. \A j \in Nat : j < FileSectors <=> SectorSize * j < entrysize
  BY <1>3, <1>4, SectorsOfFile
<1>7. SectorSize <= ClusterBytes
  <2>1. SectorSize * 1 <= SectorSize * ClusterSecs
    BY Constants, MulLe
  <2>2. SectorSize * ClusterSecs = ClusterSecs * SectorSize
    BY Constants, MulComm
  <2> QED
    BY <2>1, <2>2, Constants DEF ClusterBytes
<1> QED
  BY <1>1, <1>2, <1>5, <1>6, <1>7

\* getfssec.c:95-101.  Between two calls, the sectors that are left.
LEMMA SectorsLeftOf ==
  ASSUME IInv, Sound, pc = "idle"
  PROVE  SectorsLeft = FileSectors - Len(got)
<1>1. PICK n \in Nat, g \in Nat, o \in Nat : n = entrysize /\ g = Len(got) /\ o = offset
  BY Numbers
<1>2. o = SectorSize * g /\ o <= n /\ n < Word /\ n + SectorSize <= Word
  <2>1. offset = SectorSize * Len(got) /\ offset <= entrysize
    BY DEF IInv, PositionInv
  <2>2. entrysize \in 0 .. Word - 1 /\ entrysize + ClusterBytes <= Word /\ SectorSize <= ClusterBytes
    BY Numbers, SoundFacts
  <2>3. n + SectorSize <= Word
    BY <2>2, <1>1, Constants
  <2>4. o = SectorSize * g /\ o <= n
    BY <2>1, <1>1
  <2>5. n < Word
    BY <2>2, <1>1, Constants
  <2> QED
    BY <2>3, <2>4, <2>5
<1>3. BytesLeft = n - o
  <2>1. n - o \in 0 .. Word - 1
    BY <1>2, Constants
  <2>2. size = entrysize
    BY SoundFacts
  <2>3. (n - o) % Word = n - o
    BY <2>1, Constants
  <2> QED
    BY <2>2, <2>3, <1>1 DEF BytesLeft
<1>4. PICK x \in Int, z \in Int : x = n + SectorSize - 1 /\ z = (n - o) + SectorSize - 1
  BY Constants
<1>5. z % Word = z
  <2>1. z \in 0 .. Word - 1
    BY <1>2, <1>4, Constants
  <2> QED
    BY <2>1, Constants
<1>6. SectorsLeft = z \div SectorSize
  BY <1>3, <1>4, <1>5 DEF SectorsLeft
<1>7. PICK q \in Int, s \in 0 .. SectorSize - 1 :
        q = x \div SectorSize /\ x = SectorSize * q + s
  BY Constants, DivFacts
<1>8. FileSectors = q
  BY <1>1, <1>4, <1>7 DEF FileSectors, CeilDiv
<1>9. z = SectorSize * (q - g) + s
  <2>1. SectorSize * (q - g) = SectorSize * q - SectorSize * g
    BY <1>7, Constants
  <2>2. PICK a \in Int : a = SectorSize * q
    BY <1>7, Constants
  <2> QED
    BY <2>1, <2>2, <1>2, <1>4, <1>7, Constants
<1>10. z \div SectorSize = q - g
  <2>1. PICK d \in Int : d = q - g
    BY <1>7
  <2>2. z = SectorSize * d + s
    BY <2>1, <1>9
  <2>3. z \div SectorSize = d
    BY <2>2, Constants, DivUnique
  <2> QED
    BY <2>1, <2>3
<1> QED
  BY <1>1, <1>6, <1>8, <1>10

\* The cluster of a sector that begins before the end of the file.
LEMMA ClusterInFile ==
  ASSUME IInv, Sound, NEW l \in Nat, l < FileSectors
  PROVE  \E m \in Nat : /\ m = l \div ClusterSecs
                        /\ ClusterBytes * m < entrysize /\ m < Len(chain)
<1>1. PICK n \in Nat, c \in Nat : n = entrysize /\ c = Len(chain)
  BY Numbers, ChainFacts DEF IInv
<1>2. SectorSize * l < n /\ n <= ClusterBytes * c
  BY <1>1, SoundFacts
<1>3. PICK m \in Nat, o \in 0 .. ClusterSecs - 1 :
        m = l \div ClusterSecs /\ l = ClusterSecs * m + o
  BY Constants, DivFacts
<1>4. ClusterBytes * m < n
  <2>1. PICK x \in Nat : x = ClusterSecs * m
    BY Constants, MulNat
  <2>2. SectorSize * x <= SectorSize * l
    <3>1. x <= l
      BY <2>1, <1>3, Constants
    <3> QED
      BY <3>1, Constants, MulLe
  <2>3. SectorSize * (ClusterSecs * m) = (ClusterSecs * SectorSize) * m
    BY Constants
  <2>4. PICK y \in Nat, z \in Nat : y = ClusterBytes * m /\ z = SectorSize * l
    BY Constants, MulNat
  <2>5. y <= z
    BY <2>1, <2>2, <2>3, <2>4 DEF ClusterBytes
  <2>6. z < n
    BY <1>2, <2>4
  <2> QED
    BY <2>4, <2>5, <2>6
<1>5. m < c
  <2>1. PICK y \in Nat, z \in Nat : y = ClusterBytes * m /\ z = ClusterBytes * c
    BY Constants, MulNat
  <2>2. y < z
    BY <2>1, <1>2, <1>4
  <2> QED
    BY <2>1, <2>2, Constants, MulCancel
<1> QED
  BY <1>1, <1>3, <1>4, <1>5

\* fat.c:98-101.  Such a cluster is one of those the size stands for.
LEMMA ClusterCounted ==
  ASSUME IInv, Sound, NEW m \in Nat, ClusterBytes * m < entrysize
  PROVE  m < TotalClusters
<1>1. PICK n \in 0 .. Word - 1 : n = size /\ n = entrysize /\ n + ClusterBytes <= Word
  BY SoundFacts, Numbers
<1>2. PICK x \in Nat : x = n + ClusterBytes - 1
  BY Constants
<1>3. x % Word = x
  <2>1. x \in 0 .. Word - 1
    BY <1>1, <1>2, Constants
  <2> QED
    BY <2>1, Constants
<1>4. PICK q \in Int, s \in 0 .. ClusterBytes - 1 :
        q = x \div ClusterBytes /\ x = ClusterBytes * q + s
  BY Constants, DivFacts
<1>5. TotalClusters = q
  BY <1>1, <1>2, <1>3, <1>4 DEF TotalClusters
<1>6. PICK y \in Nat, z \in Int : y = ClusterBytes * m /\ z = ClusterBytes * q
  BY Constants, MulNat
<1>7. ClusterBytes * (m + 1) = y + ClusterBytes /\ ClusterBytes * (q + 1) = z + ClusterBytes
  BY <1>6, Constants
<1>8. y + ClusterBytes < z + ClusterBytes
  BY <1>1, <1>2, <1>4, <1>6, Constants
<1>9. m + 1 < q + 1
  BY <1>7, <1>8, Constants, MulCancel
<1> QED
  BY <1>5, <1>9

\* fat.c:103-144.  Where the chain has a cluster for it, an extent is found.
LEMMA FatFinds ==
  ASSUME IInv, HasClusters, fs = "fat", NEW l \in Nat, NEW m \in Nat, m = l \div ClusterSecs,
         m < TotalClusters, m < Len(chain)
  PROVE  ~ FatNextExtent(l).err /\ FatNextExtent(l).len > 0
<1> DEFINE w == WalkFrom(m)
           bad == {k \in 0 .. m - w.l : Follow(w.c, k) \notin Cluster}
<1>1. FileInv /\ Len(chain) \in Nat /\ size \in 0 .. Word - 1 /\ TotalClusters \in Nat
  BY ChainFacts, TotalNat DEF IInv, TypeOK
<1>2. PICK p \in 0 .. m : p <= Len(chain) /\ w.l = p /\ w.c = Link(p)
  BY WalkStarts
<1>3. p \in Nat /\ p <= m
  BY <1>2
<1> HIDE DEF w
<1>4. \A k \in 0 .. m - p : Follow(w.c, k) = Link(p + k)
  BY <1>1, <1>2, <1>3, FollowLinks
<1>5. bad = {}
  <2>1. \A k \in 0 .. m - p : p + k < Len(chain) /\ p + k \in Nat
    BY <1>1, <1>3
  <2>2. \A k \in 0 .. m - p : Follow(w.c, k) \in Cluster
    BY <2>1, <1>1, <1>4, LinkIn
  <2> QED
    BY <2>2, <1>2
<1>6. Follow(w.c, m - w.l) = Link(m)
  <2>1. m - p \in 0 .. m - p /\ p + (m - p) = m
    BY <1>3
  <2> QED
    BY <2>1, <1>2, <1>4
<1>7. PICK r \in Nat : r = RunLength(Link(m), m) /\ r > 0
  BY <1>1, RunFacts
<1>8. ~ FatNextExtent(l).err /\ FatNextExtent(l).len = r * ClusterSecs
  <2>1. ~ (m >= TotalClusters)
    BY <1>1
  <2>2. FatNextExtent(l) = [err |-> FALSE, size |-> size, pstart |-> ClusterStart(Link(m)),
               len |-> RunLength(Link(m), m) * ClusterSecs,
               pvt |-> PlaceAfter(Link(m), RunLength(Link(m), m), m)]
    <3> HIDE DEF bad
    <3> QED
      BY <1>5, <1>6, <2>1 DEF FatNextExtent, bad, w
  <2> QED
    BY <2>2, <1>7
<1>9. r * ClusterSecs > 0
  <2>1. ClusterSecs * 1 <= ClusterSecs * r
    BY <1>7, Constants, MulLe
  <2>2. r * ClusterSecs = ClusterSecs * r
    BY Constants, MulComm
  <2> QED
    BY <2>1, <2>2, Constants
<1> QED
  BY <1>8, <1>9

\* bmap.c:194-228.  On ext2 no extent is empty.
LEMMA Ext2Finds ==
  ASSUME IInv, fs = "ext2", NEW l \in Nat, NEW r \in Ext2NextExtents(l)
  PROVE  ~ r.err /\ r.len > 0
<1>1. PICK m \in Nat, o \in 0 .. ClusterSecs - 1 : m = l \div ClusterSecs /\ o = l % ClusterSecs
  BY Constants, DivFacts
<1>2. PICK n \in Estimates(m) : ~ r.err /\ r.len = n * ClusterSecs - o
  BY <1>1 DEF Ext2NextExtents
<1>3. n \in Nat /\ n > 0
  BY <1>2, <1>1, ChainFacts DEF Estimates, IInv
<1>4. ClusterSecs * 1 <= ClusterSecs * n
  BY <1>3, Constants, MulLe
<1>5. n * ClusterSecs = ClusterSecs * n /\ n * ClusterSecs \in Nat
  BY <1>3, Constants, MulComm, MulNat
<1>6. n * ClusterSecs - o > 0
  BY <1>1, <1>4, <1>5, Constants
<1> QED
  BY <1>2, <1>6

\* What FileSpec sees of a sound file.
Seen(k, s) ==
  /\ k = "idle" => s = "open"
  /\ k = "ret" => s = "told"
  /\ k = "closed" => s = "closed"
  /\ k \in {"extent", "join", "io", "end"} => s = "busy"

\* CallState by cases, before and after a step.
LEMMA CallStateIs == Seen(pc, CallState) /\ Seen(pc', CallState')
BY DEF CallState, Seen

\* The file on the disk does not change, nor does what makes it sound.
LEMMA SoundStays ==
  ASSUME UNCHANGED <<fs, chain, entrysize>>
  PROVE  /\ Sound' <=> Sound
         /\ FileSectors' = FileSectors /\ Content' = Content
BY DEF Sound, Complete, FileSectors, Content, Phys, ClusterStart

\* A sector of the file as a number.
LEMMA PhysInt ==
  ASSUME FileInv, NEW i \in Nat
  PROVE  Phys(i) \in Int
<1>1. PICK m \in Nat, o \in 0 .. ClusterSecs - 1 : m = i \div ClusterSecs /\ o = i % ClusterSecs
  BY Constants, DivFacts
<1>2. CASE m >= Len(chain)
  BY <1>1, <1>2 DEF Phys, NoSector
<1>3. CASE ~ (m >= Len(chain))
  <2>1. PICK c \in Cluster \cup {Hole} : c = chain[m + 1]
    <3>1. m + 1 \in 1 .. Len(chain)
      BY <1>1, <1>3, ChainFacts
    <3> QED
      BY <3>1, ChainFacts
  <2>2. c # Hole => ClusterStart(c) + o \in Int
    <3>1. ASSUME c # Hole PROVE ClusterStart(c) \in Nat
      BY <3>1, <2>1, StartNat
    <3> QED
      BY <3>1, <1>1
  <2>3. Phys(i) = IF c = Hole THEN EXTENT_ZERO ELSE ClusterStart(c) + o
    BY <1>1, <1>3, <2>1 DEF Phys
  <2> QED
    BY <2>2, <2>3 DEF EXTENT_ZERO
<1> QED
  BY <1>2, <1>3

\* The content is a sequence of such numbers.
LEMMA ContentSeq ==
  ASSUME IInv, Sound
  PROVE  /\ Content \in Seq(Int) /\ Len(Content) = FileSectors
         /\ \A i \in 1 .. FileSectors : Content[i] = Phys(i - 1)
<1>1. PICK f \in Nat : f = FileSectors
  BY SoundFacts
<1>2. \A i \in 1 .. f : Phys(i - 1) \in Int
  <2> SUFFICES ASSUME NEW i \in 1 .. f PROVE Phys(i - 1) \in Int
    OBVIOUS
  <2>1. PICK j \in Nat : j = i - 1
    OBVIOUS
  <2> QED
    BY <2>1, PhysInt DEF IInv
<1>3. Content = [i \in 1 .. f |-> Phys(i - 1)]
  BY <1>1 DEF Content
<1>4. [i \in 1 .. f |-> Phys(i - 1)] \in Seq(Int) /\ Len([i \in 1 .. f |-> Phys(i - 1)]) = f
  BY <1>2
<1> QED
  BY <1>1, <1>3, <1>4

\* As long as what is read is in the file, it is the beginning of the content.
GotInv == Len(got) <= FileSectors => got = SubSeq(Content, 1, Len(got))

LEMMA GotIsPrefix == IInv /\ Sound => GotInv
<1> SUFFICES ASSUME IInv, Sound, Len(got) <= FileSectors
             PROVE  got = SubSeq(Content, 1, Len(got))
  BY DEF GotInv
<1>1. PICK c \in Seq(Int), f \in Nat : c = Content /\ f = FileSectors /\ Len(c) = f
  BY ContentSeq, SoundFacts
<1>2. PICK g \in Seq(Int) : g = got
  <2>1. got \in Seq(Int)
    BY Constants DEF IInv, FileInv, EXTENT_ZERO
  <2> QED
    BY <2>1
<1>3. PICK n \in Nat : n = Len(g) /\ n <= f
  BY <1>1, <1>2, Numbers
<1>4. PICK r \in Seq(Int) : /\ r = SubSeq(c, 1, n) /\ Len(r) = n
                            /\ \A i \in 1 .. n : r[i] = c[i]
  <2>1. SubSeq(c, 1, n) = [i \in 1 .. n |-> c[i]]
    BY <1>1, <1>3
  <2>2. \A i \in 1 .. n : c[i] \in Int
    BY <1>1, <1>3
  <2>3. [i \in 1 .. n |-> c[i]] \in Seq(Int) /\ Len([i \in 1 .. n |-> c[i]]) = n
    BY <2>2
  <2> QED
    BY <2>1, <2>3
<1>5. \A i \in 1 .. n : g[i] = Phys(i - 1)
  BY <1>2, <1>3 DEF IInv, ContentInOrder
<1>6. \A i \in 1 .. n : c[i] = Phys(i - 1)
  <2>1. \A i \in 1 .. f : c[i] = Phys(i - 1)
    BY <1>1, ContentSeq
  <2> QED
    BY <2>1, <1>3
<1>7. g = r
  BY <1>3, <1>4, <1>5, <1>6, SeqEqual
<1> QED
  BY <1>1, <1>2, <1>3, <1>4, <1>7

\* The same after a step.
LEMMA GotIsPrefixPrimed == IInv' /\ Sound' => GotInv'
BY GotIsPrefix, PTL

\* A step of FileSpec, or none.
Refines == FS!Next \/ UNCHANGED FS!vars

\* A step that FileSpec does not see.
LEMMA UnseenRefines ==
  ASSUME Sound, UNCHANGED <<fs, chain, entrysize, got, sectors, offset, more>>,
         pc' = pc \/ {pc, pc'} \subseteq {"extent", "join", "io", "end"}
  PROVE  Refines
<1>1. Sound' /\ Content' = Content
  BY SoundStays
<1>2. CallState' = CallState
  <2>1. CASE pc' = pc
    BY <2>1 DEF CallState
  <2>2. CASE {pc, pc'} \subseteq {"extent", "join", "io", "end"}
    <3>1. CallState = "busy" /\ CallState' = "busy"
      BY <2>2, CallStateIs DEF Seen
    <3> QED
      BY <3>1
  <2> QED
    BY <2>1, <2>2
<1>3. UNCHANGED FS!vars
  BY <1>1, <1>2 DEF FS!vars
<1> QED
  BY <1>3 DEF Refines

\* getfssec.c:95-127.  A call asks for sectors that the file has.
LEMMA GetfssecRefines ==
  ASSUME IInv, Sound, OwedInv, NEW k \in Nat, Getfssec(k)
  PROVE  OwedInv' /\ Refines
<1>1. /\ UNCHANGED <<fs, chain, entrysize, offset, more, got>>
      /\ pc = "idle" /\ pc' = "extent"
      /\ sectors' = IF k > SectorsLeft THEN SectorsLeft ELSE k
      /\ sectors' > 0
  BY DEF Getfssec
<1>2. PICK f \in Nat, g \in Nat : f = FileSectors /\ g = Len(got) /\ SectorsLeft = f - g
  BY <1>1, SoundFacts, Numbers, SectorsLeftOf
<1>3. g <= f
  <2>1. g + 0 <= f
    BY <1>1, <1>2 DEF OwedInv
  <2> QED
    BY <2>1, <1>2
<1>4. sectors' \in 1 .. f - g
  BY <1>1, <1>2, <1>3
<1>5. Sound' /\ Content' = Content /\ FileSectors' = f
  BY <1>1, <1>2, SoundStays
<1>6. OwedInv'
  <2>1. g + sectors' <= f
    BY <1>2, <1>4
  <2> QED
    BY <2>1, <1>1, <1>2, <1>5 DEF OwedInv
<1>7. CallState = "open" /\ CallState' = "busy"
  BY <1>1, CallStateIs DEF Seen
<1>8. sectors' \in 1 .. Len(Content) - Len(got)
  BY <1>2, <1>4, ContentSeq
<1>9. FS!Ask
  BY <1>1, <1>5, <1>7, <1>8 DEF FS!Ask
<1> QED
  BY <1>6, <1>9 DEF Refines, FS!Next

\* Nothing is asked for, or nothing is left.
LEMMA NothingRefines ==
  ASSUME IInv, Sound, OwedInv, NEW k \in Nat, GetfssecNothing(k)
  PROVE  OwedInv' /\ Refines
<1>1. /\ UNCHANGED <<fs, chain, entrysize, nxt, offset, sectors, got>>
      /\ pc = "idle" /\ pc' = "ret" /\ more' \in BOOLEAN
  BY DEF GetfssecNothing
<1>2. Sound' /\ Content' = Content /\ FileSectors' = FileSectors
  BY <1>1, SoundStays
<1>3. OwedInv'
  BY <1>1, <1>2 DEF OwedInv
<1>4. CallState = "open" /\ CallState' = "told"
  BY <1>1, CallStateIs DEF Seen
<1>5. FS!AskNothing
  BY <1>1, <1>2, <1>4 DEF FS!AskNothing
<1> QED
  BY <1>3, <1>5 DEF Refines, FS!Next

\* getfssec.c:138-142.  As long as sectors are owed, the search for the next
\* extent does not fail.
LEMMA LookAheadFinds ==
  ASSUME IInv, Sound, OwedInv, LookAhead
  PROVE  nxt'.len > 0
<1>1. pc = "extent" /\ sectors > this.len
  BY DEF LookAhead
<1>2. PICK l \in Nat, g \in Nat, f \in Nat :
        l = this.lstart + this.len /\ g = Len(got) /\ f = FileSectors
  BY Numbers, SoundFacts, SMTT(30)
<1>3. l < f
  <2>1. this.lstart = g /\ g + sectors <= f
    BY <1>1, <1>2 DEF IInv, PositionInv, OwedInv
  <2> QED
    BY <2>1, <1>1, <1>2, Numbers, SMTT(30)
<1>4. PICK m \in Nat : /\ m = l \div ClusterSecs
                       /\ ClusterBytes * m < entrysize /\ m < Len(chain)
  BY <1>2, <1>3, ClusterInFile
<1>5. PICK r \in NextExtents(l) : nxt'.len = IF r.err THEN 0 ELSE r.len
  BY <1>2 DEF LookAhead
<1>6. ~ r.err /\ r.len > 0
  <2>1. CASE fs = "fat"
    <3>1. r = FatNextExtent(l)
      BY <2>1, <1>5 DEF NextExtents
    <3>2. m < TotalClusters /\ HasClusters
      BY <1>4, ClusterCounted, SoundFacts
    <3>3. ~ FatNextExtent(l).err /\ FatNextExtent(l).len > 0
      BY <3>2, <2>1, <1>4, FatFinds
    <3> QED
      BY <3>1, <3>3
  <2>2. CASE fs = "ext2"
    <3>1. r \in Ext2NextExtents(l)
      BY <2>2, <1>5 DEF NextExtents
    <3> QED
      BY <3>1, <2>2, Ext2Finds
  <2> QED
    BY <2>1, <2>2 DEF IInv, FileInv
<1> QED
  BY <1>5, <1>6

\* getfssec.c:138-159.  The search for extents is not seen, and it never gives up.
LEMMA SearchRefines ==
  ASSUME IInv, Sound, OwedInv,
         \/ LookAhead \/ KnowNext \/ Enough \/ TakeNext \/ Coalesce \/ Discontiguous \/ Dead
  PROVE  OwedInv' /\ Refines
<1>1. UNCHANGED <<fs, chain, entrysize, got, offset, more>>
  BY DEF LookAhead, KnowNext, Enough, TakeNext, Coalesce, Discontiguous, Dead
<1>2. {pc, pc'} \subseteq {"extent", "join", "io", "end"}
  BY DEF LookAhead, KnowNext, Enough, TakeNext, Coalesce, Discontiguous, Dead
<1>3. sectors' = sectors
  <2>1. ASSUME TakeNext PROVE nxt.len # 0
    BY <2>1, Numbers DEF TakeNext, OwedInv
  <2> QED
    BY <2>1 DEF LookAhead, KnowNext, Enough, TakeNext, Coalesce, Discontiguous, Dead
<1>4. FileSectors' = FileSectors
  BY <1>1, SoundStays
<1>5. pc' = "join" => nxt'.len > 0
  <2>1. CASE LookAhead
    BY <2>1, LookAheadFinds
  <2>2. CASE KnowNext
    BY <2>2, Numbers DEF KnowNext, NextIsStale
  <2>3. CASE Enough \/ TakeNext \/ Coalesce \/ Discontiguous \/ Dead
    BY <2>3 DEF Enough, TakeNext, Coalesce, Discontiguous, Dead
  <2> QED
    BY <2>1, <2>2, <2>3
<1>6. pc' = "end" => sectors = 0
  <2>1. ASSUME TakeNext PROVE pc' # "end"
    BY <2>1 DEF TakeNext
  <2> QED
    BY <2>1 DEF LookAhead, KnowNext, Enough, Coalesce, Discontiguous, Dead
<1>7. OwedInv'
  BY <1>1, <1>2, <1>3, <1>4, <1>5, <1>6 DEF OwedInv
<1> QED
  BY <1>1, <1>2, <1>3, <1>7, UnseenRefines

\* getfssec.c:166-184.  A transfer gives the sectors of the file that come next.
LEMMA ReadChunkRefines ==
  ASSUME IInv, IInv', Sound, OwedInv, ReadChunk
  PROVE  OwedInv' /\ Refines
<1>1. /\ UNCHANGED <<fs, chain, entrysize, offset, more>>
      /\ pc = "io" /\ pc' \in {"end", "extent"}
  BY DEF ReadChunk
<1>2. PICK n \in Nat :
        /\ n > 0 /\ n <= sectors
        /\ got' = got \o [i \in 1 .. n |-> next_psector(this.pstart, i - 1)]
        /\ sectors' = sectors - n
        /\ pc' = IF sectors = n THEN "end" ELSE "extent"
  <2>1. LET n == IF sectors < this.len THEN sectors ELSE this.len
        IN n \in Nat /\ n <= sectors
    BY Numbers, SMTT(30)
  <2> QED
    BY <2>1 DEF ReadChunk
<1>3. Sound' /\ Content' = Content /\ FileSectors' = FileSectors
  BY <1>1, SoundStays
<1>4. PICK f \in Nat, g \in Nat, o \in Nat : f = FileSectors /\ g = Len(got) /\ o = sectors
  BY SoundFacts, Numbers
<1>5. Len(got') = g + n
  <2>1. PICK a \in Seq(Nat \cup {EXTENT_ZERO}) : a = got
    BY DEF IInv, FileInv
  <2>2. PICK b \in Seq(Nat \cup {EXTENT_ZERO}) :
          b = [i \in 1 .. n |-> next_psector(this.pstart, i - 1)] /\ Len(b) = n
    <3>1. PICK q \in Nat \cup {EXTENT_ZERO} : q = this.pstart
      BY Numbers
    <3>2. \A i \in 1 .. n : next_psector(q, i - 1) \in Nat \cup {EXTENT_ZERO}
      BY Constants DEF next_psector
    <3>3. PICK b : b = [i \in 1 .. n |-> next_psector(q, i - 1)]
      OBVIOUS
    <3>4. b \in Seq(Nat \cup {EXTENT_ZERO}) /\ Len(b) = n
      BY <3>2, <3>3
    <3> QED
      BY <3>1, <3>3, <3>4
  <2>3. Len(a \o b) = Len(a) + Len(b)
    BY ConcatProperties
  <2> QED
    BY <2>1, <2>2, <2>3, <1>2, <1>4
<1>6. g + o <= f /\ sectors' = o - n /\ n <= o
  BY <1>2, <1>4 DEF OwedInv
<1>7. Len(got') + sectors' <= FileSectors' /\ Len(got') <= FileSectors'
  BY <1>3, <1>4, <1>5, <1>6
<1>8. OwedInv'
  <2>1. pc' = "end" => sectors' = 0
    BY <1>2, <1>4, <1>6
  <2> QED
    BY <2>1, <1>1, <1>7 DEF OwedInv
<1>9. got' = SubSeq(Content, 1, Len(got) + n)
  <2>1. got' = SubSeq(Content', 1, Len(got'))
    BY <1>3, <1>7, GotIsPrefixPrimed DEF GotInv
  <2> QED
    BY <2>1, <1>3, <1>4, <1>5
<1>10. CallState = "busy" /\ CallState' = "busy"
  BY <1>1, CallStateIs DEF Seen
<1>11. n \in 1 .. sectors
  BY <1>2, <1>4
<1>12. FS!Transfer
  BY <1>1, <1>2, <1>3, <1>9, <1>10, <1>11 DEF FS!Transfer
<1> QED
  BY <1>8, <1>12 DEF Refines, FS!Next

\* getfssec.c:187-193.  The offset and the answer at the end of a call.
LEMMA EndRefines ==
  ASSUME IInv, Sound, OwedInv, End
  PROVE  OwedInv' /\ Refines
<1>1. /\ UNCHANGED <<fs, chain, entrysize, nxt, sectors, got>>
      /\ pc = "end" /\ pc' = "ret" /\ sectors = 0
  BY DEF End, OwedInv
<1>2. Sound' /\ Content' = Content /\ FileSectors' = FileSectors
  BY <1>1, SoundStays
<1>3. OwedInv'
  BY <1>1, <1>2 DEF OwedInv
<1>4. PICK o \in Nat, b \in Nat, l \in Nat, e \in Nat, s \in Nat :
        /\ o = offset /\ b = bytes /\ l = left /\ e = entrysize /\ s = SectorSize * Len(got)
        /\ o + b = s /\ l = e - o
  <2>1. offset + bytes = SectorSize * Len(got) /\ left = entrysize - offset
    BY <1>1, SoundFacts DEF IInv, PositionInv, Running
  <2> QED
    BY <2>1, Numbers
<1>5. PICK n \in Nat : n = (IF b < l THEN b ELSE l) /\ offset' = o + n /\ more' = (n < l)
  BY <1>4, Zenon DEF End
<1>6. offset' = IF s < e THEN s ELSE e
  BY <1>4, <1>5
<1>7. (n < l) <=> (o + n < e)
  BY <1>4
<1>8. more' = (offset' < entrysize)
  <2>1. CASE n < l
    <3>1. (n < l) = TRUE /\ (o + n < e) = TRUE
      BY <2>1, <1>7
    <3> QED
      BY <3>1, <1>4, <1>5, Zenon
  <2>2. CASE ~ (n < l)
    <3>1. (n < l) = FALSE /\ (o + n < e) = FALSE
      BY <2>2, <1>7
    <3> QED
      BY <3>1, <1>4, <1>5, Zenon
  <2> QED
    BY <2>1, <2>2
<1>9. CallState = "busy" /\ CallState' = "told"
  BY <1>1, CallStateIs DEF Seen
<1>10. offset' = IF SectorSize * Len(got) < entrysize THEN SectorSize * Len(got) ELSE entrysize
  BY <1>4, <1>6
<1>11. FS!Answer
  BY <1>1, <1>2, <1>8, <1>9, <1>10 DEF FS!Answer
<1> QED
  BY <1>3, <1>11 DEF Refines, FS!Next

\* fs.c:118-131.  The caller takes the answer, and opens the file again.
LEMMA CallerRefines ==
  ASSUME IInv, Sound, OwedInv, Return \/ FindEntry
  PROVE  OwedInv' /\ Refines
<1>1. UNCHANGED <<fs, chain, entrysize>>
  BY DEF Return, FindEntry
<1>2. Sound' /\ Content' = Content /\ FileSectors' = FileSectors
  BY <1>1, SoundStays
<1>3. CASE Return
  <2>1. /\ UNCHANGED <<nxt, offset, sectors, more, got>>
        /\ pc = "ret" /\ pc' = IF more THEN "idle" ELSE "closed"
    BY <1>3 DEF Return
  <2>2. OwedInv'
    BY <1>2, <2>1 DEF OwedInv
  <2>3. CallState = "told" /\ CallState' = IF more THEN "open" ELSE "closed"
    BY <2>1, CallStateIs DEF Seen
  <2>4. FS!Done
    BY <1>1, <1>2, <2>1, <2>3 DEF FS!Done
  <2> QED
    BY <2>2, <2>4 DEF Refines, FS!Next
<1>4. CASE FindEntry
  <2>1. /\ pc = "closed" /\ pc' = "idle" /\ offset' = 0 /\ sectors' = 0 /\ more' = TRUE
        /\ got' = <<>>
    BY <1>4 DEF FindEntry
  <2>2. OwedInv'
    <3>1. Len(got') = 0
      BY <2>1, EmptySeq
    <3>2. FileSectors \in Nat
      BY SoundFacts
    <3> QED
      BY <3>1, <3>2, <2>1, <1>2 DEF OwedInv
  <2>3. CallState = "closed" /\ CallState' = "open"
    BY <2>1, CallStateIs DEF Seen
  <2>4. FS!Open
    BY <1>1, <1>2, <2>1, <2>3 DEF FS!Open
  <2> QED
    BY <2>2, <2>4 DEF Refines, FS!Next
<1> QED
  BY <1>3, <1>4

\* What can happen to a file.
FileMoves ==
  \/ \E k \in Nat : Getfssec(k) \/ GetfssecNothing(k)
  \/ Step \/ FindEntry \/ UNCHANGED vars

\* Every step is one of FileSpec, or is not seen.
LEMMA MoveRefines ==
  ASSUME Sound => IInv /\ OwedInv, Sound' => IInv', FileMoves
  PROVE  (Sound' => OwedInv') /\ [FS!Next]_(FS!vars)
<1>1. UNCHANGED <<fs, chain, entrysize>>
  BY DEF FileMoves, Step, Inside, vars, Getfssec, GetfssecNothing, LookAhead, KnowNext, Enough,
         TakeNext, Coalesce, Discontiguous, ReadChunk, Dead, End, Return, FindEntry
<1>2. Sound' <=> Sound
  BY <1>1, SoundStays
<1>3. CASE ~ Sound
  <2>1. ~ Sound'
    BY <1>2, <1>3
  <2>2. UNCHANGED FS!vars
    BY <1>3, <2>1 DEF FS!vars
  <2> QED
    BY <2>1, <2>2
<1>4. CASE Sound
  <2>1. IInv /\ IInv' /\ OwedInv
    BY <1>2, <1>4
  <2>2. OwedInv' /\ Refines
    <3>1. CASE UNCHANGED vars
      <4>1. /\ UNCHANGED <<fs, chain, entrysize, got, sectors, offset, more, nxt>> /\ pc' = pc
        BY <3>1 DEF vars
      <4>2. FileSectors' = FileSectors
        BY <1>1, SoundStays
      <4>3. OwedInv'
        BY <4>1, <4>2, <2>1 DEF OwedInv
      <4> QED
        BY <4>1, <4>3, <1>4, UnseenRefines
    <3>2. ASSUME NEW k \in Nat, Getfssec(k) \/ GetfssecNothing(k) PROVE OwedInv' /\ Refines
      BY <3>2, <2>1, <1>4, GetfssecRefines, NothingRefines
    <3>3. CASE Step \/ FindEntry
      BY <3>3, <2>1, <1>4, SearchRefines, ReadChunkRefines, EndRefines, CallerRefines
         DEF Step, Inside
    <3> QED
      BY <3>1, <3>2, <3>3 DEF FileMoves
  <2> QED
    BY <2>2 DEF Refines
<1> QED
  BY <1>3, <1>4

\* A file that has just been opened.
LEMMA OpenRefines ==
  ASSUME Init
  PROVE  (Sound => OwedInv) /\ FS!Init
<1>1. CASE ~ Sound
  <2>1. <<>> \in Seq(Int)
    OBVIOUS
  <2> QED
    BY <1>1, <2>1 DEF FS!Init
<1>2. CASE Sound
  <2>1. IInv
    BY <1>2, InitHolds DEF Sound, HasClusters
  <2>2. got = <<>> /\ sectors = 0 /\ offset = 0 /\ more = TRUE /\ pc = "idle"
    BY DEF Init
  <2>3. OwedInv
    <3>1. Len(got) = 0 /\ FileSectors \in Nat
      BY <1>2, <2>1, <2>2, EmptySeq, SoundFacts
    <3> QED
      BY <3>1, <2>2 DEF OwedInv
  <2>4. CallState = "open"
    BY <2>2 DEF CallState
  <2>5. Content \in Seq(Int) /\ entrysize \in Nat
    BY <1>2, <2>1, ContentSeq, Numbers
  <2>6. FS!Init
    BY <1>2, <2>2, <2>4, <2>5 DEF FS!Init
  <2> QED
    BY <2>3, <2>6
<1> QED
  BY <1>1, <1>2

\* getfssec.c:88-194, fat.c:86-144, bmap.c:194-228.  Reading implements FileSpec
\* on every volume: of a file whose clusters are all there, every call gets the
\* sectors that it asks for, the next ones of the file; the search for extents
\* never fails half-way, and the offset and the answer are right.
THEOREM FileReadImplementsFileSpec == Spec => ImplementsFileSpec
<1>1. Init => (Sound => OwedInv) /\ FS!Init
  BY OpenRefines
<1>2. (HasClusters => IInv) => (Sound => IInv)
  BY DEF Sound, HasClusters
<1>3. (Sound => IInv) /\ (Sound => IInv)' /\ (Sound => OwedInv) /\ [Next]_vars
        => (Sound => OwedInv)' /\ [FS!Next]_(FS!vars)
  <2> SUFFICES ASSUME Sound => IInv, Sound' => IInv', Sound => OwedInv, [Next]_vars
               PROVE  (Sound' => OwedInv') /\ [FS!Next]_(FS!vars)
    OBVIOUS
  <2>1. FileMoves
    <3>1. 0 .. MaxSectors \subseteq Nat
      BY ReadAssumption
    <3> QED
      BY <3>1 DEF Next, FileMoves
  <2> QED
    BY <2>1, MoveRefines
<1> QED
  BY <1>1, <1>2, <1>3, InvariantHolds, PTL DEF Spec, FS!Spec, ImplementsFileSpec

=============================================================================
