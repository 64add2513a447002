---------------------------- MODULE CacheProofs ----------------------------
(***************************************************************************)
(* The cache is an LRU cache, for every cache size, every block size and   *)
(* every sequence of requests.                                             *)
(***************************************************************************)
EXTENDS Cache, SequenceTheorems, TLAPS

(***************************************************************************)
(* An order of the descriptors 1 .. m by their last use, with the head at  *)
(* both ends, and a ring that follows it.                                  *)
(***************************************************************************)
Once(o, m) == \A i, j \in 0 .. m : o[i] = o[j] => i = j
All(o, m) == \A e \in 1 .. m : \E i \in 1 .. m : o[i] = e

Order(o, m) ==
  /\ o \in [0 .. m + 1 -> 0 .. m] /\ o[0] = 0 /\ o[m + 1] = 0
  /\ Once(o, m) /\ All(o, m)

Follows(nx, pv, o, m) ==
  /\ nx \in [0 .. m -> 0 .. m] /\ pv \in [0 .. m -> 0 .. m]
  /\ \A i \in 0 .. m : nx[o[i]] = o[i + 1] /\ pv[o[i + 1]] = o[i]

\* The request history is the most recent part of the order.
Remembers(o) ==
  /\ recent \in Seq(Block \X Entry) /\ Len(recent) <= n
  /\ \A i \in 1 .. Len(recent) :
       /\ recent[i][2] = o[n - Len(recent) + i]
       /\ recent[i][1] = block[recent[i][2]]

LruOrder(o) == Order(o, n) /\ Follows(next, prev, o, n) /\ Remembers(o)

\* A driver is being set up; the number of descriptors is what cache_init
\* computes for its block size.
SizeInv ==
  phase # "boot" => /\ fs # "none" /\ shift \in Shifts
                    /\ n \in Nat \ {0} /\ n = CacheEntries(shift)

\* get_cache never returns the head's data pointer.
RetInv == ret.block # NoBlock => ret.entry # cache_head

\* While get_cache can be called, ring and history agree on an order of use.
LruInv == phase \in {"probe", "ready"} => \E o \in [0 .. n + 1 -> 0 .. n] : LruOrder(o)

IInv ==
  TypeOK /\ SizeInv /\ RetInv /\ RingInv /\ PointerStaysValid /\ DataMatchesBlock /\ LruInv

-----------------------------------------------------------------------------
(* Rings and orders. *)

\* The order after the k-th descriptor has been used.
Used(o, m, k) == [i \in 0 .. m + 1 |-> IF i < k \/ i = m + 1 THEN o[i]
                                       ELSE IF i < m THEN o[i + 1] ELSE o[k]]

\* The array order, that of a fresh cache.
ArrayOrder(m) == [i \in 0 .. m + 1 |-> IF i = m + 1 THEN 0 ELSE i]

\* A fresh cache is in array order.
LEMMA FreshOrder ==
  ASSUME NEW m \in Nat \ {0}
  PROVE  /\ Order(ArrayOrder(m), m)
         /\ Follows(FreshRing(m).nx, FreshRing(m).pv, ArrayOrder(m), m)
<1> DEFINE o == ArrayOrder(m)
<1>1. /\ o \in [0 .. m + 1 -> 0 .. m] /\ o[m + 1] = 0 /\ \A i \in 0 .. m : o[i] = i
  BY DEF ArrayOrder
<1> HIDE DEF o
<1>2. Once(o, m) /\ All(o, m) /\ o[0] = 0
  BY <1>1 DEF Once, All
<1>3. /\ FreshRing(m).nx \in [0 .. m -> 0 .. m] /\ FreshRing(m).pv \in [0 .. m -> 0 .. m]
  BY DEF FreshRing, cache_head
<1>4. ASSUME NEW i \in 0 .. m
      PROVE  FreshRing(m).nx[o[i]] = o[i + 1] /\ FreshRing(m).pv[o[i + 1]] = o[i]
  <2>1. CASE i = m
    BY <1>1, <2>1 DEF FreshRing, cache_head
  <2>2. CASE i # m
    BY <1>1, <2>2 DEF FreshRing, cache_head
  <2>3. QED
    BY <2>1, <2>2
<1>5. QED
  BY <1>1, <1>2, <1>3, <1>4 DEF Follows, Order, o

\* The positions of an order hold different nodes, the head is at the ends.
LEMMA OrderFacts ==
  ASSUME NEW m \in Nat, NEW o, Order(o, m)
  PROVE  /\ \A i \in 0 .. m + 1 : o[i] \in 0 .. m
         /\ \A i \in 1 .. m : o[i] \in 1 .. m
         /\ \A i, j \in 1 .. m + 1 : o[i] = o[j] => i = j
         /\ \A i, j \in 0 .. m : o[i] = o[j] => i = j
         /\ o[0] = 0 /\ o[m + 1] = 0
<1>1. o \in [0 .. m + 1 -> 0 .. m] /\ o[0] = 0 /\ o[m + 1] = 0
  BY DEF Order
<1>2. \A i, j \in 0 .. m : o[i] = o[j] => i = j
  BY DEF Order, Once
<1>3. \A i \in 0 .. m + 1 : o[i] \in 0 .. m
  BY <1>1
<1>4. ASSUME NEW i \in 1 .. m PROVE o[i] # 0 /\ o[i] \in 1 .. m
  <2>1. o[i] # o[0]
    BY <1>2
  <2>2. QED
    BY <1>1, <1>3, <2>1
<1>5. ASSUME NEW i \in 1 .. m + 1, NEW j \in 1 .. m + 1, o[i] = o[j] PROVE i = j
  <2>1. CASE i = m + 1 \/ j = m + 1
    BY <1>1, <1>4, <1>5, <2>1
  <2>2. CASE i # m + 1 /\ j # m + 1
    BY <1>2, <1>5, <2>2
  <2>3. QED
    BY <2>1, <2>2
<1>6. QED
  BY <1>1, <1>2, <1>3, <1>4, <1>5

\* Used gives an order again.
LEMMA UsedOrder ==
  ASSUME NEW m \in Nat, NEW o, Order(o, m), NEW k \in 1 .. m
  PROVE  Order(Used(o, m, k), m)
<1> DEFINE u == Used(o, m, k)
<1>1. \A i \in 0 .. m + 1 : u[i] = IF i < k \/ i = m + 1 THEN o[i] ELSE IF i < m THEN o[i + 1] ELSE o[k]
  BY DEF Used
<1>2. u \in [0 .. m + 1 -> 0 .. m]
  BY OrderFacts DEF Used
<1> HIDE DEF u
<1>3. u[0] = 0 /\ u[m + 1] = 0
  BY <1>1, OrderFacts
<1>4. ASSUME NEW i \in 0 .. m, NEW j \in 0 .. m, u[i] = u[j] PROVE i = j
  <2> DEFINE at(x) == IF x < k THEN x ELSE IF x < m THEN x + 1 ELSE k
  <2>1. at(i) \in 0 .. m /\ at(j) \in 0 .. m /\ u[i] = o[at(i)] /\ u[j] = o[at(j)]
    BY <1>1
  <2>2. \A a, b \in 0 .. m : o[a] = o[b] => a = b
    BY OrderFacts
  <2> HIDE DEF at
  <2>3. at(i) = at(j)
    BY <1>4, <2>1, <2>2
  <2>4. QED
    BY <2>3 DEF at
<1>5. ASSUME NEW e \in 1 .. m PROVE \E i \in 1 .. m : u[i] = e
  <2>1. PICK i \in 1 .. m : o[i] = e
    BY DEF Order, All
  <2>2. CASE i < k
    BY <1>1, <2>1, <2>2
  <2>3. CASE i = k
    <3>1. m \in 1 .. m /\ u[m] = e
      BY <1>1, <2>1, <2>3
    <3>2. QED
      BY <3>1
  <2>4. CASE i > k
    <3>1. i - 1 \in 1 .. m /\ u[i - 1] = e
      BY <1>1, <2>1, <2>4
    <3>2. QED
      BY <3>1
  <2>5. QED
    BY <2>2, <2>3, <2>4
<1>6. QED
  BY <1>2, <1>3, <1>4, <1>5 DEF Order, Once, All, u

\* Moving a descriptor to the end of the ring is using it.
LEMMA MovedFollows ==
  ASSUME NEW m \in Nat, NEW o, Order(o, m), NEW r, Follows(r.nx, r.pv, o, m), NEW k \in 1 .. m
  PROVE  Follows(MovedToEnd(r, o[k]).nx, MovedToEnd(r, o[k]).pv, Used(o, m, k), m)
<1> DEFINE N == r.nx
           P == r.pv
           e == o[k]
           p == o[k - 1]
           q == o[k + 1]
           u == Used(o, m, k)
           last == IF q = 0 THEN p ELSE P[0]
           nx1 == [N EXCEPT ![p] = q]
           pv1 == [P EXCEPT ![q] = p]
           nx2 == [nx1 EXCEPT ![last] = e, ![e] = 0]
           pv2 == [pv1 EXCEPT ![e] = last, ![0] = e]
<1>1. /\ e \in 1 .. m /\ p \in 0 .. m /\ q \in 0 .. m /\ N[e] = q /\ P[e] = p
      /\ N \in [0 .. m -> 0 .. m] /\ P \in [0 .. m -> 0 .. m]
      /\ P[0] = o[m]
  <2>1. k - 1 \in 0 .. m /\ k \in 0 .. m /\ k - 1 + 1 = k /\ m \in 0 .. m /\ k - 1 \in 0 .. m + 1
        /\ k + 1 \in 0 .. m + 1
    OBVIOUS
  <2>2. e \in 1 .. m /\ p \in 0 .. m /\ q \in 0 .. m /\ o[m + 1] = 0
    BY <2>1, OrderFacts
  <2>3. \A i \in 0 .. m : N[o[i]] = o[i + 1] /\ P[o[i + 1]] = o[i]
    BY DEF Follows
  <2>4. N[e] = q
    BY <2>1, <2>3
  <2>5. P[e] = p
    <3>1. P[o[k - 1 + 1]] = o[k - 1]
      BY <2>1, <2>3
    <3>2. QED
      BY <2>1, <3>1
  <2>6. P[0] = o[m]
    BY <2>1, <2>2, <2>3
  <2>7. QED
    BY <2>2, <2>4, <2>5, <2>6 DEF Follows
<1>2. MovedToEnd(r, e).nx = nx2 /\ MovedToEnd(r, e).pv = pv2
  <2>1. Unlinked(r, e).nx = nx1 /\ Unlinked(r, e).pv = pv1
    BY <1>1 DEF Unlinked
  <2>2. Unlinked(r, e).pv[cache_head] = last
    <3> HIDE DEF p, q, e, N, P
    <3>1. 0 \in 0 .. m
      OBVIOUS
    <3>2. pv1[0] = last
      BY <1>1, <3>1
    <3>3. QED
      BY <2>1, <3>2 DEF cache_head
  <2>3. QED
    BY <2>1, <2>2 DEF MovedToEnd, cache_head
<1>3. q = 0 <=> k = m
  <2>1. \A i, j \in 1 .. m + 1 : o[i] = o[j] => i = j
    BY OrderFacts
  <2>2. o[m + 1] = 0 /\ k + 1 \in 1 .. m + 1 /\ m + 1 \in 1 .. m + 1
    BY OrderFacts
  <2>3. QED
    BY <2>1, <2>2
<1>4. Order(u, m)
  BY UsedOrder
<1>5. \A i \in 0 .. m + 1 : u[i] = IF i < k \/ i = m + 1 THEN o[i] ELSE IF i < m THEN o[i + 1] ELSE e
  BY DEF Used
<1>6. last = u[m - 1] /\ u[m] = e /\ u[m + 1] = 0 /\ last \in 0 .. m /\ last # e
  <2>1. u[m] = e /\ u[m + 1] = 0
    BY <1>4, <1>5, OrderFacts
  <2>2. last = u[m - 1]
    <3>1. CASE k = m
      BY <1>3, <1>5, <3>1
    <3>2. CASE k # m
      BY <1>1, <1>3, <1>5, <3>2
    <3>3. QED
      BY <3>1, <3>2
  <2>3. \A i, j \in 0 .. m : u[i] = u[j] => i = j
    BY <1>4, OrderFacts
  <2>4. m - 1 \in 0 .. m /\ m \in 0 .. m /\ m - 1 # m
    OBVIOUS
  <2>5. last # e
    BY <2>1, <2>2, <2>3, <2>4
  <2>6. last \in 0 .. m
    <3>1. o[m] \in 0 .. m
      BY <2>4, OrderFacts
    <3>2. QED
      BY <1>1, <3>1
  <2>7. QED
    BY <2>1, <2>2, <2>5, <2>6
<1>7. /\ \A i, j \in 0 .. m : o[i] = o[j] => i = j
      /\ \A i, j \in 1 .. m + 1 : o[i] = o[j] => i = j
      /\ \A i \in 0 .. m : N[o[i]] = o[i + 1] /\ P[o[i + 1]] = o[i]
      /\ \A i, j \in 0 .. m : u[i] = u[j] => i = j
      /\ \A i \in 0 .. m + 1 : u[i] \in 0 .. m
      /\ \A i \in 1 .. m : u[i] \in 1 .. m
  BY <1>4, OrderFacts DEF Follows
<1>8. p # e /\ q # e
  <2>1. k - 1 \in 0 .. m /\ k \in 0 .. m /\ k + 1 \in 1 .. m + 1 /\ k \in 1 .. m + 1
    OBVIOUS
  <2>2. QED
    BY <1>7, <2>1
<1> HIDE DEF last, e, p, q, u, N, P
<1>9. /\ nx2 \in [0 .. m -> 0 .. m] /\ pv2 \in [0 .. m -> 0 .. m]
      /\ \A x \in 0 .. m :
           /\ nx2[x] = IF x = e THEN 0 ELSE IF x = last THEN e ELSE IF x = p THEN q ELSE N[x]
           /\ pv2[x] = IF x = 0 THEN e ELSE IF x = e THEN last ELSE IF x = q THEN p ELSE P[x]
  <2>1. nx1 \in [0 .. m -> 0 .. m] /\ pv1 \in [0 .. m -> 0 .. m] /\ 0 \in 0 .. m /\ e \in 0 .. m
    <3>1. nx1 \in [0 .. m -> 0 .. m]
      BY <1>1
    <3>2. pv1 \in [0 .. m -> 0 .. m]
      BY <1>1
    <3>3. 0 \in 0 .. m /\ e \in 0 .. m
      BY <1>1
    <3>4. QED
      BY <3>1, <3>2, <3>3
  <2>2. nx2 \in [0 .. m -> 0 .. m] /\ pv2 \in [0 .. m -> 0 .. m]
    BY <1>6, <2>1
  <2>3. \A x \in 0 .. m : nx2[x] = IF x = e THEN 0 ELSE IF x = last THEN e ELSE IF x = p THEN q ELSE N[x]
    BY <1>1, <1>6
  <2>4. \A x \in 0 .. m : pv2[x] = IF x = 0 THEN e ELSE IF x = e THEN last ELSE IF x = q THEN p ELSE P[x]
    BY <1>1, <1>6
  <2>5. QED
    BY <2>2, <2>3, <2>4
<1> HIDE DEF nx2, pv2
<1>10. ASSUME NEW i \in 0 .. m PROVE nx2[u[i]] = u[i + 1] /\ pv2[u[i + 1]] = u[i]
  <2>0. /\ nx2[e] = 0 /\ nx2[last] = e /\ pv2[0] = e /\ pv2[e] = last
    <3>1. e \in 0 .. m /\ last \in 0 .. m /\ 0 \in 0 .. m /\ e # 0 /\ last # e
      <4>1. e \in 1 .. m
        BY <1>1
      <4>2. last \in 0 .. m /\ last # e
        BY <1>6
      <4>3. QED
        BY <4>1, <4>2
    <3>2. nx2[e] = 0 /\ nx2[last] = e
      BY <1>9, <3>1
    <3>3. pv2[0] = e
      BY <1>9, <3>1
    <3>4. pv2[e] = last
      BY <1>9, <3>1
    <3>5. QED
      BY <3>2, <3>3, <3>4
  <2>1. CASE i = m
    <3>1. u[i] = e /\ u[i + 1] = 0
      BY <1>6, <2>1
    <3>2. QED
      BY <2>0, <3>1
  <2>2. CASE i = m - 1
    <3>1. i + 1 = m
      BY <2>2
    <3>2. u[i] = last /\ u[i + 1] = e
      BY <1>6, <2>2, <3>1
    <3>3. QED
      BY <2>0, <3>2
  <2>3. CASE i < m - 1
    <3>1. u[i] # last /\ u[i] # e /\ u[i + 1] # e /\ u[i + 1] # 0 /\ u[i] \in 0 .. m /\ u[i + 1] \in 0 .. m
      <4>1. m - 1 \in 0 .. m /\ m \in 0 .. m /\ i + 1 \in 1 .. m - 1 /\ i # m - 1
        BY <2>3
      <4>2. u[i] # last /\ u[i] # e
        BY <1>6, <1>7, <4>1, <2>3
      <4>3. i + 1 \in 0 .. m /\ i + 1 # m
        BY <4>1
      <4>4. u[i + 1] # e
        BY <1>6, <1>7, <4>1, <4>3
      <4>5. u[i + 1] # 0 /\ u[i] \in 0 .. m /\ u[i + 1] \in 0 .. m
        BY <1>7, <4>1, <4>3
      <4>6. QED
        BY <4>2, <4>4, <4>5
    <3>2. /\ nx2[u[i]] = IF u[i] = p THEN q ELSE N[u[i]]
          /\ pv2[u[i + 1]] = IF u[i + 1] = q THEN p ELSE P[u[i + 1]]
      BY <1>9, <3>1
    <3>3. CASE i < k - 1
      <4>1. u[i] = o[i] /\ u[i + 1] = o[i + 1] /\ i # k - 1 /\ k - 1 \in 0 .. m /\ k + 1 \in 1 .. m + 1
            /\ i + 1 \in 1 .. m
        BY <1>5, <3>3
      <4>2. o[i] # p
        BY <1>7, <4>1 DEF p
      <4>3. o[i + 1] # q
        BY <1>7, <4>1, <3>3 DEF q
      <4>4. QED
        BY <3>2, <4>1, <4>2, <4>3, <1>7
    <3>4. CASE i = k - 1
      <4>1. u[i] = p /\ u[i + 1] = q
        BY <1>5, <2>3, <3>4 DEF p, q
      <4>2. QED
        BY <3>2, <4>1
    <3>5. CASE i >= k
      <4>1. u[i] = o[i + 1] /\ u[i + 1] = o[i + 2] /\ k - 1 \in 0 .. m /\ i + 1 \in 0 .. m /\ i + 1 # k - 1
            /\ i + 2 \in 1 .. m /\ k + 1 \in 1 .. m + 1 /\ i + 2 # k + 1
        BY <1>5, <2>3, <3>5
      <4>2. o[i + 1] # p
        BY <1>7, <4>1 DEF p
      <4>3. o[i + 2] # q
        BY <1>7, <4>1 DEF q
      <4>4. N[o[i + 1]] = o[i + 2] /\ P[o[i + 2]] = o[i + 1]
        BY <1>7, <4>1
      <4>5. QED
        BY <3>2, <4>1, <4>2, <4>3, <4>4
    <3>6. QED
      BY <3>3, <3>4, <3>5
  <2>4. QED
    BY <2>1, <2>2, <2>3
<1>11. QED
  BY <1>2, <1>9, <1>10 DEF Follows, e, u

\* Both links stay among the nodes and are inverse to each other.
RingOk(nx, pv, m) ==
  \A i \in 0 .. m : nx[i] \in 0 .. m /\ pv[i] \in 0 .. m /\ pv[nx[i]] = i /\ nx[pv[i]] = i

\* A ring that follows an order is one.
LEMMA FollowsRing ==
  ASSUME NEW m \in Nat, NEW o, Order(o, m), NEW nx, NEW pv, Follows(nx, pv, o, m)
  PROVE  RingOk(nx, pv, m)
<1> SUFFICES ASSUME NEW i \in 0 .. m
             PROVE  nx[i] \in 0 .. m /\ pv[i] \in 0 .. m /\ pv[nx[i]] = i /\ nx[pv[i]] = i
  BY DEF RingOk
<1>1. \A j \in 0 .. m : nx[o[j]] = o[j + 1] /\ pv[o[j + 1]] = o[j]
  BY DEF Follows
<1>2. nx[i] \in 0 .. m /\ pv[i] \in 0 .. m
  BY DEF Follows
<1>3. \E j \in 0 .. m : o[j] = i
  <2>1. CASE i = 0
    <3>1. o[0] = 0 /\ 0 \in 0 .. m
      BY OrderFacts
    <3>2. QED
      BY <2>1, <3>1
  <2>2. CASE i # 0
    BY <2>2 DEF Order, All
  <2>3. QED
    BY <2>1, <2>2
<1>4. \E j \in 0 .. m : o[j + 1] = i
  <2>1. CASE i = 0
    <3>1. o[m + 1] = 0 /\ m \in 0 .. m
      BY OrderFacts
    <3>2. QED
      BY <2>1, <3>1
  <2>2. CASE i # 0
    <3>1. PICK j \in 1 .. m : o[j] = i
      BY <2>2 DEF Order, All
    <3>2. j - 1 \in 0 .. m /\ j - 1 + 1 = j
      OBVIOUS
    <3>3. o[j - 1 + 1] = i
      BY <3>1, <3>2
    <3>4. QED
      BY <3>2, <3>3
  <2>3. QED
    BY <2>1, <2>2
<1>5. pv[nx[i]] = i
  BY <1>1, <1>3
<1>6. nx[pv[i]] = i
  BY <1>1, <1>4
<1>7. QED
  BY <1>2, <1>5, <1>6

\* The same for the nodes other than e, which is out of the ring.
RingWithout(nx, pv, m, e) ==
  /\ nx \in [0 .. m -> 0 .. m \cup {NULL}] /\ pv \in [0 .. m -> 0 .. m \cup {NULL}]
  /\ nx[e] = NULL
  /\ \A i \in (0 .. m) \ {e} :
       /\ nx[i] \in (0 .. m) \ {e} /\ pv[i] \in (0 .. m) \ {e}
       /\ pv[nx[i]] = i /\ nx[pv[i]] = i

\* cache_lock_block takes one descriptor out of a ring; the others stay one.
LEMMA LockRing ==
  ASSUME NEW m \in Nat, NEW r, r.nx \in [0 .. m -> 0 .. m], r.pv \in [0 .. m -> 0 .. m],
         RingOk(r.nx, r.pv, m), NEW e \in 1 .. m
  PROVE  RingWithout(LockBlock(r, e).nx, LockBlock(r, e).pv, m, e)
<1> DEFINE N == r.nx
           P == r.pv
           p == P[e]
           q == N[e]
           nx == LockBlock(r, e).nx
           pv == LockBlock(r, e).pv
<1>1. nx = [[N EXCEPT ![p] = q] EXCEPT ![e] = NULL] /\ pv = [[P EXCEPT ![q] = p] EXCEPT ![e] = NULL]
  BY DEF LockBlock, Unlinked
<1>2. /\ N \in [0 .. m -> 0 .. m] /\ P \in [0 .. m -> 0 .. m] /\ p \in 0 .. m /\ q \in 0 .. m /\ e \in 0 .. m
      /\ P[q] = e /\ N[p] = e
      /\ \A i \in 0 .. m : N[i] \in 0 .. m /\ P[i] \in 0 .. m /\ P[N[i]] = i /\ N[P[i]] = i
  <2>1. \A i \in 0 .. m : N[i] \in 0 .. m /\ P[i] \in 0 .. m /\ P[N[i]] = i /\ N[P[i]] = i
    BY DEF RingOk
  <2>2. e \in 0 .. m
    OBVIOUS
  <2>3. QED
    BY <2>1, <2>2
<1>3. p = e <=> q = e
  BY <1>2
<1> HIDE DEF N, P, p, q, nx, pv
<1>4. /\ nx \in [0 .. m -> 0 .. m \cup {NULL}] /\ pv \in [0 .. m -> 0 .. m \cup {NULL}]
      /\ nx[e] = NULL
  BY <1>1, <1>2
<1>5. \A i \in (0 .. m) \ {e} : /\ nx[i] = IF i = p THEN q ELSE N[i]
                              /\ pv[i] = IF i = q THEN p ELSE P[i]
  BY <1>1, <1>2
<1>6. ASSUME NEW i \in (0 .. m) \ {e}
      PROVE  /\ nx[i] \in (0 .. m) \ {e} /\ pv[i] \in (0 .. m) \ {e}
             /\ pv[nx[i]] = i /\ nx[pv[i]] = i
  <2>1. nx[i] \in (0 .. m) \ {e} /\ pv[nx[i]] = i
    <3>1. CASE i = p
      BY <1>2, <1>3, <1>5, <3>1
    <3>2. CASE i # p
      <4>1. N[i] # e
        BY <1>2, <3>2 DEF p
      <4>2. N[i] # q
        BY <1>2, <3>2 DEF q
      <4>3. nx[i] = N[i] /\ N[i] \in (0 .. m) \ {e}
        BY <1>2, <1>5, <3>2, <4>1
      <4>4. pv[N[i]] = P[N[i]]
        BY <1>5, <4>2, <4>3
      <4>5. QED
        BY <1>2, <4>3, <4>4
    <3>3. QED
      BY <3>1, <3>2
  <2>2. pv[i] \in (0 .. m) \ {e} /\ nx[pv[i]] = i
    <3>1. CASE i = q
      BY <1>2, <1>3, <1>5, <3>1
    <3>2. CASE i # q
      <4>1. P[i] # e
        BY <1>2, <3>2 DEF q
      <4>2. P[i] # p
        BY <1>2, <3>2 DEF p
      <4>3. pv[i] = P[i] /\ P[i] \in (0 .. m) \ {e}
        BY <1>2, <1>5, <3>2, <4>1
      <4>4. nx[P[i]] = N[P[i]]
        BY <1>5, <4>2, <4>3
      <4>5. QED
        BY <1>2, <4>3, <4>4
    <3>3. QED
      BY <3>1, <3>2
  <2>3. QED
    BY <2>1, <2>2
<1>7. QED
  BY <1>4, <1>6 DEF RingWithout, nx, pv

-----------------------------------------------------------------------------
(* Mounting. *)

\* A usable cache has at least one descriptor.
LEMMA EntriesPositive ==
  ASSUME NEW k \in Shifts
  PROVE  CacheEntries(k) \in Nat \ {0}
<1>1. cache_block_size(k) \in Nat
  BY CacheAssumption DEF cache_block_size
<1>2. ASSUME NEW c \in Nat, NEW d \in Nat \ {0}, NEW s \in Nat, ~ (c < s + 2 * d)
      PROVE  (c - d) \div (s + d) \in Nat \ {0}
  <2>1. s + d \in Nat \ {0} /\ c - d >= s + d /\ c - d \in Nat
    BY <1>2
  <2>2. ASSUME NEW a \in Nat, NEW b \in Nat \ {0}, a >= b PROVE a \div b \in Nat \ {0}
    BY <2>2
  <2>3. QED
    BY <2>1, <2>2
<1>3. QED
  BY <1>1, <1>2, CacheAssumption DEF CacheEntries, Unusable

\* The invariant before anything is mounted.
LEMMA InitInv == Init => IInv
<1> SUFFICES ASSUME Init PROVE IInv
  OBVIOUS
<1>1. TypeOK
  BY DEF Init, TypeOK
<1>2. SizeInv /\ RetInv /\ RingInv /\ PointerStaysValid /\ DataMatchesBlock /\ LruInv
  BY DEF Init, SizeInv, RetInv, RingInv, PointerStaysValid, DataMatchesBlock, LruInv, Mounted, Result
<1>3. QED
  BY <1>1, <1>2 DEF IInv

\* cache_init makes the invariant true, whatever was there before.
LEMMA FreshInv ==
  ASSUME NEW k \in Shifts, CacheInit(k), shift' = k, RetInv',
         data' \in [1 .. CacheEntries(k) -> Block \cup {Junk, Zero}],
         phase' \in {"probe", "mounting", "ready"}, fs' \in {"plain", "ext2", "btrfs"}
  PROVE  IInv'
<1> DEFINE m == CacheEntries(k)
           o == ArrayOrder(m)
<1>1. /\ m \in Nat \ {0} /\ n' = m /\ block' = [i \in 0 .. m |-> NoBlock] /\ recent' = <<>>
      /\ next' = FreshRing(m).nx /\ prev' = FreshRing(m).pv /\ k \in Nat
  BY EntriesPositive, CacheAssumption DEF CacheInit
<1> HIDE DEF m
<1>2. Order(o, m) /\ Follows(next', prev', o, m)
  BY <1>1, FreshOrder
<1>3. RingOk(next', prev', m)
  BY <1>1, <1>2, FollowsRing
<1>4. next' \in [0 .. m -> 0 .. m] /\ prev' \in [0 .. m -> 0 .. m]
  BY <1>2 DEF Follows
<1>5. TypeOK'
  <2>1. block' \in [0 .. m -> Block \cup {NoBlock}]
    BY <1>1
  <2>2. QED
    BY <1>1, <1>4, <2>1 DEF TypeOK, Node, Entry, m
<1>6. SizeInv'
  BY <1>1 DEF SizeInv, m
<1>7. RingInv'
  <2>1. Node' = 0 .. m /\ Entry' = 1 .. m
    BY <1>1 DEF Node, Entry
  <2>2. \A e \in 1 .. m : next'[e] # NULL
    <3>1. m \in Nat /\ \A e \in 1 .. m : e \in 0 .. m
      BY <1>1
    <3>2. \A e \in 0 .. m : e # NULL
      BY <3>1 DEF NULL
    <3>3. QED
      BY <1>4, <3>1, <3>2
  <2>3. Locked' = {}
    BY <2>1, <2>2 DEF Locked
  <2>4. \A e \in Entry' : block'[e] = NoBlock
    BY <1>1, <2>1
  <2>5. QED
    BY <1>3, <2>1, <2>3, <2>4 DEF RingInv, RetInv, RingOk
<1>8. PointerStaysValid'
  <2>1. Len(recent') = 0
    BY <1>1
  <2>2. QED
    BY <2>1 DEF PointerStaysValid
<1>9. DataMatchesBlock'
  <2>1. \A e \in Entry' : block'[e] \notin Block
    BY <1>1, CacheAssumption DEF NoBlock, Entry
  <2>2. QED
    BY <2>1 DEF DataMatchesBlock
<1>10. LruInv'
  <2>1. Len(recent') = 0 /\ recent' \in Seq(Block \X Entry')
    BY <1>1
  <2>2. Remembers(o)'
    BY <1>1, <2>1 DEF Remembers
  <2>3. o \in [0 .. n' + 1 -> 0 .. n'] /\ LruOrder(o)'
    BY <1>1, <1>2, <2>2 DEF LruOrder, Order
  <2>4. QED
    BY <2>3 DEF LruInv
<1>11. QED
  BY <1>5, <1>6, <1>7, <1>8, <1>9, <1>10 DEF IInv

\* ext2_fs_init: the ring without the locked descriptor is a ring.
LEMMA Ext2Inv == ASSUME IInv, NEW k \in Shifts, Ext2FsInit(k) PROVE IInv'
<1> DEFINE m == CacheEntries(k)
           o == ArrayOrder(m)
           e == FreshRing(m).nx[cache_head]
           r == MovedToEnd(FreshRing(m), e)
<1>1. /\ m \in Nat \ {0} /\ n' = m /\ next' = LockBlock(r, e).nx /\ prev' = LockBlock(r, e).pv
      /\ block' = [i \in 0 .. m |-> NoBlock] /\ data' = [Areas(k) EXCEPT ![e] = Zero]
      /\ recent' = <<>> /\ fs' = "ext2" /\ shift' = k /\ phase' = "mounting" /\ ret' = ret
      /\ k \in Nat
  BY EntriesPositive, CacheAssumption DEF Ext2FsInit
<1>2. Areas(k) = [i \in 1 .. m |-> Junk]
  BY DEF Areas
<1> HIDE DEF m
<1>3. e = o[1] /\ e = 1 /\ 1 \in 1 .. m
  BY <1>1 DEF FreshRing, cache_head, ArrayOrder
<1>4. Order(Used(o, m, 1), m) /\ Follows(r.nx, r.pv, Used(o, m, 1), m)
  <2>1. Order(o, m) /\ Follows(FreshRing(m).nx, FreshRing(m).pv, o, m)
    BY <1>1, FreshOrder
  <2> HIDE DEF o
  <2>2. QED
    BY <1>1, <1>3, <2>1, UsedOrder, MovedFollows
<1>5. r.nx \in [0 .. m -> 0 .. m] /\ r.pv \in [0 .. m -> 0 .. m] /\ RingOk(r.nx, r.pv, m)
  BY <1>1, <1>4, FollowsRing DEF Follows
<1> HIDE DEF r, e
<1>6. /\ next' \in [0 .. m -> 0 .. m \cup {NULL}] /\ prev' \in [0 .. m -> 0 .. m \cup {NULL}]
      /\ next'[e] = NULL
      /\ \A i \in (0 .. m) \ {e} :
           /\ next'[i] \in (0 .. m) \ {e} /\ prev'[i] \in (0 .. m) \ {e}
           /\ prev'[next'[i]] = i /\ next'[prev'[i]] = i
  <2>1. m \in Nat /\ e \in 1 .. m /\ next' = LockBlock(r, e).nx /\ prev' = LockBlock(r, e).pv
    BY <1>1, <1>3
  <2>2. RingWithout(next', prev', m, e)
    BY <1>5, <2>1, LockRing
  <2>3. QED
    BY <2>2 DEF RingWithout
<1>7. TypeOK'
  <2>1. data' \in [1 .. m -> Block \cup {Junk, Zero}] /\ block' \in [0 .. m -> Block \cup {NoBlock}]
    BY <1>1, <1>2
  <2>2. QED
    BY <1>1, <1>6, <2>1 DEF TypeOK, Node, Entry
<1>8. SizeInv' /\ RetInv' /\ LruInv'
  <2>1. SizeInv'
    BY <1>1 DEF SizeInv, m
  <2>2. RetInv'
    BY <1>1 DEF RetInv, IInv
  <2>3. LruInv'
    BY <1>1 DEF LruInv
  <2>4. QED
    BY <2>1, <2>2, <2>3
<1>9. RingInv'
  <2>1. Node' = 0 .. m /\ Entry' = 1 .. m
    BY <1>1 DEF Node, Entry
  <2>2. Locked' = {e}
    BY <1>3, <1>6, <2>1 DEF Locked, NULL
  <2>3. \A f \in Entry' : block'[f] = NoBlock
    BY <1>1, <2>1
  <2>4. QED
    BY <1>6, <1>8, <2>1, <2>2, <2>3 DEF RingInv, RetInv
<1>10. PointerStaysValid'
  <2>1. Len(recent') = 0
    BY <1>1
  <2>2. QED
    BY <2>1 DEF PointerStaysValid
<1>11. DataMatchesBlock'
  <2>1. \A f \in Entry' : block'[f] \notin Block
    BY <1>1, CacheAssumption DEF NoBlock, Entry
  <2>2. QED
    BY <2>1 DEF DataMatchesBlock
<1>12. QED
  BY <1>7, <1>8, <1>9, <1>10, <1>11 DEF IInv

\* The other drivers, and fs_init itself, which calls cache_init once more.
LEMMA MountInv ==
  ASSUME IInv, (\E k \in Shifts : PlainFsInit(k) \/ BtrfsFsInit(k)) \/ FsInit
  PROVE  IInv'
<1>1. CASE \E k \in Shifts : PlainFsInit(k) \/ BtrfsFsInit(k)
  <2>1. PICK k \in Shifts : PlainFsInit(k) \/ BtrfsFsInit(k)
    BY <1>1
  <2>2. /\ CacheInit(k) /\ shift' = k /\ data' = Areas(k) /\ ret' = ret
        /\ phase' \in {"probe", "mounting", "ready"} /\ fs' \in {"plain", "ext2", "btrfs"}
    BY <2>1 DEF PlainFsInit, BtrfsFsInit
  <2>3. data' \in [1 .. CacheEntries(k) -> Block \cup {Junk, Zero}] /\ RetInv'
    BY <2>2 DEF Areas, IInv, RetInv
  <2>4. QED
    BY <2>2, <2>3, FreshInv
<1>2. CASE FsInit
  <2>1. /\ CacheInit(shift) /\ phase = "mounting" /\ phase' = "ready"
        /\ UNCHANGED <<fs, shift, data, ret>>
    BY <1>2 DEF FsInit
  <2>2. shift \in Shifts /\ n = CacheEntries(shift) /\ fs \in {"plain", "ext2", "btrfs"}
    BY <2>1 DEF IInv, SizeInv, TypeOK
  <2>3. data' \in [1 .. CacheEntries(shift) -> Block \cup {Junk, Zero}] /\ RetInv'
    BY <2>1, <2>2 DEF IInv, RetInv, TypeOK, Entry
  <2>4. QED
    BY <2>1, <2>2, <2>3, FreshInv
<1>3. QED
  BY <1>1, <1>2

\* A probe that ends, and steps that change nothing.
LEMMA QuietInv ==
  ASSUME IInv, ProbeGood \/ ProbeBad \/ Hang \/ UNCHANGED vars
  PROVE  IInv'
<1>1. UNCHANGED <<fs, shift, n, next, prev, block, data, ret, failed, recent>>
  BY DEF ProbeGood, ProbeBad, Hang, vars
<1>2. phase' = phase \/ (phase = "probe" /\ phase' \in {"mounting", "halted"})
  BY DEF ProbeGood, ProbeBad, Hang, vars
<1>3. TypeOK'
  BY <1>1, <1>2 DEF IInv, TypeOK, Node, Entry
<1>4. SizeInv' /\ RetInv'
  BY <1>1, <1>2 DEF IInv, SizeInv, RetInv, CacheEntries
<1>5. RingInv' /\ PointerStaysValid' /\ DataMatchesBlock'
  BY <1>1, <1>2 DEF IInv, RingInv, PointerStaysValid, DataMatchesBlock, Mounted, Node, Entry, Locked
<1>6. LruInv'
  <2>1. CASE phase' = phase
    BY <1>1, <2>1 DEF IInv, LruInv, LruOrder, Remembers, Entry
  <2>2. CASE phase' # phase
    BY <1>2, <2>2 DEF LruInv
  <2>3. QED
    BY <2>1, <2>2
<1>7. QED
  BY <1>3, <1>4, <1>5, <1>6 DEF IInv

-----------------------------------------------------------------------------
(* get_cache. *)

\* The descriptor that get_cache takes: the one that holds the block, of which
\* there is only one, or else the least recently used one.
LEMMA ChosenAt ==
  ASSUME IInv, phase \in {"probe", "ready"}, NEW o, LruOrder(o), NEW b \in Block
  PROVE  \E k \in 1 .. n : /\ Chosen(b) = o[k]
                           /\ Holding(b) # {} => block[o[k]] = b
                           /\ Holding(b) = {} => k = 1
<1>1. n \in Nat \ {0} /\ Order(o, n) /\ Follows(next, prev, o, n)
  BY DEF IInv, SizeInv, LruOrder
<1>2. CASE Holding(b) = {}
  <2>1. o[0] = 0 /\ next[o[0]] = o[1]
    BY <1>1, OrderFacts DEF Follows
  <2>2. Chosen(b) = o[1] /\ 1 \in 1 .. n
    BY <1>1, <1>2, <2>1 DEF Chosen, cache_head
  <2>3. QED
    BY <1>2, <2>2
<1>3. CASE Holding(b) # {}
  <2>1. PICK e \in Entry : block[e] = b
    BY <1>3 DEF Holding
  <2>2. b # NoBlock
    BY CacheAssumption DEF NoBlock
  <2>3. \A f \in Holding(b) : f = e
    BY <2>1, <2>2 DEF Holding, IInv, RingInv, Mounted
  <2>4. e \in Holding(b) /\ e \in Nat
    BY <1>1, <2>1 DEF Holding, Entry
  <2>5. \A f \in Holding(b) : e <= f
    BY <2>3, <2>4
  <2>6. Chosen(b) = e
    <3>1. (CHOOSE x \in Holding(b) : \A f \in Holding(b) : x <= f) \in Holding(b)
      BY <2>4, <2>5
    <3>2. QED
      BY <1>3, <2>3, <3>1 DEF Chosen
  <2>7. \E k \in 1 .. n : o[k] = e
    BY <1>1, <2>1 DEF Order, All, Entry
  <2>8. QED
    BY <1>3, <2>1, <2>6, <2>7
<1>4. QED
  BY <1>2, <1>3

\* Which earlier request the history leaves out: that of the descriptor taken,
\* or none when the descriptor is none of those remembered.
LEMMA LeftOutAt ==
  ASSUME IInv, phase \in {"probe", "ready"}, NEW o, LruOrder(o), NEW b \in Block,
         NEW k \in 1 .. n,
         Holding(b) # {} => block[o[k]] = b,
         Holding(b) = {} => k = 1
  PROVE  /\ Len(recent) \in 0 .. n
         /\ \/ /\ LeftOut(b) \in 1 .. Len(recent) /\ Kept(b) = Len(recent)
               /\ k = n - Len(recent) + LeftOut(b)
            \/ /\ LeftOut(b) = Len(recent) + 1 /\ Kept(b) = Len(recent) + 1 /\ Len(recent) < n
               /\ k <= n - Len(recent)
<1> DEFINE L == Len(recent)
<1>1. /\ n \in Nat \ {0} /\ Order(o, n) /\ L \in 0 .. n
      /\ \A i \in 1 .. L : recent[i][2] = o[n - L + i] /\ recent[i][1] = block[recent[i][2]]
  BY DEF IInv, SizeInv, LruOrder, Remembers
<1>2. \A i \in 1 .. n : o[i] \in Entry
  BY <1>1, OrderFacts DEF Entry
<1>3. \A i, j \in 1 .. n : block[o[i]] = b /\ block[o[j]] = b => i = j
  <2>1. b # NoBlock
    BY CacheAssumption DEF NoBlock
  <2>2. \A i, j \in 1 .. n : o[i] = o[j] => i = j
    BY <1>1, OrderFacts
  <2>3. QED
    BY <1>2, <2>1, <2>2 DEF IInv, RingInv, Mounted
<1> HIDE DEF L
<1>4. CASE Asked(b) # {}
  <2> DEFINE c == LeftOut(b)
  <2>1. c \in Asked(b)
    BY <1>4 DEF LeftOut
  <2> HIDE DEF c
  <2>2. c \in 1 .. L /\ recent[c][1] = b
    BY <2>1 DEF Asked, L
  <2>3. n - L + c \in 1 .. n /\ block[o[n - L + c]] = b
    BY <1>1, <2>2
  <2>4. Holding(b) # {}
    BY <1>2, <2>3 DEF Holding
  <2>5. k = n - L + c
    BY <1>3, <2>3, <2>4
  <2>6. Kept(b) = L
    BY <1>1, <2>2 DEF Kept, L, c
  <2>7. QED
    BY <1>1, <2>2, <2>5, <2>6 DEF c, L
<1>5. CASE Asked(b) = {} /\ L = n
  <2>1. LeftOut(b) = 1
    BY <1>5 DEF LeftOut, L
  <2>2. Kept(b) = L
    BY <1>1, <1>5, <2>1 DEF Kept, L
  <2>3. Holding(b) = {}
    <3>1. SUFFICES ASSUME NEW e \in Entry, block[e] = b PROVE FALSE
      BY DEF Holding
    <3>2. PICK i \in 1 .. n : o[i] = e
      BY <1>1 DEF Order, All, Entry
    <3>3. n - L + i = i /\ i \in 1 .. L
      BY <1>1, <1>5
    <3>4. recent[i][1] = b
      BY <1>1, <3>1, <3>2, <3>3
    <3>5. QED
      BY <1>5, <3>3, <3>4 DEF Asked, L
  <2>4. QED
    BY <1>1, <1>5, <2>1, <2>2, <2>3 DEF L
<1>6. CASE Asked(b) = {} /\ L # n
  <2>1. LeftOut(b) = L + 1
    BY <1>6 DEF LeftOut, L
  <2>2. Kept(b) = L + 1
    BY <1>1, <1>6, <2>1 DEF Kept, L
  <2>3. k <= n - L
    <3>1. CASE Holding(b) = {}
      BY <1>1, <1>6, <3>1
    <3>2. CASE Holding(b) # {}
      <4>1. SUFFICES ASSUME k > n - L PROVE FALSE
        BY <1>1
      <4>2. k - (n - L) \in 1 .. L /\ n - L + (k - (n - L)) = k
        BY <1>1, <4>1
      <4>3. recent[k - (n - L)][1] = b
        BY <1>1, <3>2, <4>2
      <4>4. QED
        BY <1>6, <4>2, <4>3 DEF Asked, L
    <3>3. QED
      BY <3>1, <3>2
  <2>4. QED
    BY <1>1, <1>6, <2>1, <2>2, <2>3 DEF L
<1>7. QED
  BY <1>4, <1>5, <1>6

\* The history stays the most recent part of the order of use.
LEMMA HistoryInv ==
  ASSUME IInv, phase \in {"probe", "ready"}, NEW o, LruOrder(o), NEW b \in Block,
         NEW k \in 1 .. n,
         Holding(b) # {} => block[o[k]] = b,
         Holding(b) = {} => k = 1,
         n' = n, recent' = Remember(b, o[k]), block'[o[k]] = b,
         \A f \in Entry \ {o[k]} : block'[f] = block[f]
  PROVE  Remembers(Used(o, n, k))'
<1> DEFINE L == Len(recent)
           c == LeftOut(b)
           K == Kept(b)
           e == o[k]
           u == Used(o, n, k)
<1>1. /\ n \in Nat \ {0} /\ Order(o, n) /\ recent \in Seq(Block \X Entry)
      /\ \A i \in 1 .. L : recent[i][2] = o[n - L + i] /\ recent[i][1] = block[recent[i][2]]
  BY DEF IInv, SizeInv, LruOrder, Remembers
<1>2. L \in 0 .. n /\ \/ c \in 1 .. L /\ K = L /\ k = n - L + c
                      \/ c = L + 1 /\ K = L + 1 /\ L < n /\ k <= n - L
  BY LeftOutAt
<1>3. /\ \A i \in 1 .. n : o[i] \in Entry
      /\ \A i, j \in 1 .. n : o[i] = o[j] => i = j
  BY <1>1, OrderFacts DEF Entry
<1>4. \A i \in 1 .. n : u[i] = IF i < k THEN o[i] ELSE IF i < n THEN o[i + 1] ELSE e
  BY <1>1 DEF Used
<1>5. recent' = [i \in 1 .. K |-> IF i = K THEN <<b, e>> ELSE IF i < c THEN recent[i] ELSE recent[i + 1]]
  BY DEF Remember
<1>6. \A i \in 1 .. L : recent[i] \in Block \X Entry
  BY <1>1, ElementOfSeq
<1>7. e \in Entry /\ K \in 0 .. n /\ K >= 1
  BY <1>1, <1>2, <1>3
<1> HIDE DEF L, c, K, e, u
<1>8. recent' \in Seq(Block \X Entry') /\ Len(recent') = K
  <2>1. Entry' = Entry
    BY DEF Entry
  <2>2. \A i \in 1 .. K : i # K => (i < c => i \in 1 .. L) /\ (~ (i < c) => i + 1 \in 1 .. L)
    BY <1>2
  <2>3. recent' \in [1 .. K -> Block \X Entry]
    BY <1>5, <1>6, <1>7, <2>2
  <2>4. recent' \in Seq(Block \X Entry)
    BY <1>1, <1>7, <2>3, SeqDef
  <2>5. DOMAIN recent' = 1 .. K /\ DOMAIN recent' = 1 .. Len(recent') /\ Len(recent') \in Nat
    BY <2>3, <2>4, LenProperties
  <2>6. QED
    BY <1>7, <1>1, <2>1, <2>4, <2>5
<1>9. ASSUME NEW i \in 1 .. K
      PROVE  recent'[i][2] = u[n - K + i] /\ recent'[i][1] = block'[recent'[i][2]]
  <2>1. CASE i = K
    <3>1. recent'[i] = <<b, e>>
      BY <1>5, <2>1
    <3>2. u[n - K + i] = e
      BY <1>1, <1>4, <1>7, <2>1
    <3>3. QED
      BY <3>1, <3>2 DEF e
  <2>2. CASE i # K
    <3>1. \E j \in 1 .. L : recent'[i] = recent[j] /\ u[n - K + i] = o[n - L + j] /\ n - L + j # k
      <4>1. CASE c \in 1 .. L /\ K = L /\ k = n - L + c /\ i < c
        <5>1. i \in 1 .. L /\ recent'[i] = recent[i] /\ n - L + i # k
          BY <1>1, <1>2, <1>5, <2>2, <4>1
        <5>2. u[n - K + i] = o[n - L + i]
          BY <1>1, <1>2, <1>4, <2>2, <4>1
        <5>3. QED
          BY <5>1, <5>2
      <4>2. CASE c \in 1 .. L /\ K = L /\ k = n - L + c /\ ~ (i < c)
        <5>1. i + 1 \in 1 .. L /\ recent'[i] = recent[i + 1] /\ n - L + (i + 1) # k
          BY <1>1, <1>2, <1>5, <2>2, <4>2
        <5>2. u[n - K + i] = o[n - L + (i + 1)]
          <6>1. n - K + i \in 1 .. n /\ ~ (n - K + i < k) /\ n - K + i < n
                /\ n - K + i + 1 = n - L + (i + 1)
            BY <1>1, <1>2, <2>2, <4>2
          <6>2. QED
            BY <1>4, <6>1
        <5>3. QED
          BY <5>1, <5>2
      <4>3. CASE c = L + 1 /\ K = L + 1 /\ L < n /\ k <= n - L
        <5>1. i \in 1 .. L /\ recent'[i] = recent[i] /\ n - L + i # k
          BY <1>1, <1>2, <1>5, <2>2, <4>3
        <5>2. u[n - K + i] = o[n - L + i]
          <6>1. n - K + i \in 1 .. n /\ ~ (n - K + i < k) /\ n - K + i < n /\ n - K + i + 1 = n - L + i
            BY <1>1, <1>2, <2>2, <4>3
          <6>2. QED
            BY <1>4, <6>1
        <5>3. QED
          BY <5>1, <5>2
      <4>4. QED
        BY <1>2, <4>1, <4>2, <4>3
    <3>2. PICK j \in 1 .. L : recent'[i] = recent[j] /\ u[n - K + i] = o[n - L + j] /\ n - L + j # k
      BY <3>1
    <3>3. n - L + j \in 1 .. n
      BY <1>1, <1>2
    <3>4. recent[j][2] \in Entry \ {o[k]}
      BY <1>1, <1>3, <3>2, <3>3
    <3>5. QED
      BY <1>1, <3>2, <3>4
  <2>3. QED
    BY <2>1, <2>2
<1>10. QED
  BY <1>7, <1>8, <1>9 DEF Remembers, u

\* get_cache, whether it finds the block, reads it, or fails to.
LEMMA GetCacheInv ==
  ASSUME IInv, phase \in {"probe", "ready"}, NEW b \in Block, NEW ok \in BOOLEAN, GetCache(b, ok)
  PROVE  IInv'
<1>1. PICK o \in [0 .. n + 1 -> 0 .. n] : LruOrder(o)
  BY DEF IInv, LruInv
<1>2. PICK k \in 1 .. n : /\ Chosen(b) = o[k]
                          /\ Holding(b) # {} => block[o[k]] = b
                          /\ Holding(b) = {} => k = 1
  BY <1>1, ChosenAt
<1> DEFINE e == o[k]
<1>0. PICK u : u = Used(o, n, k)
  OBVIOUS
<1>3. /\ n \in Nat \ {0} /\ Order(o, n) /\ Follows(next, prev, o, n)
      /\ block \in [Node -> Block \cup {NoBlock}] /\ data \in [Entry -> Block \cup {Junk, Zero}]
  BY <1>1 DEF IInv, SizeInv, LruOrder, TypeOK
<1>4. e \in Entry /\ e \in Node
  <2>1. n \in Nat /\ \A i \in 1 .. n : o[i] \in 1 .. n
    BY <1>3, OrderFacts
  <2>2. e \in 1 .. n
    BY <2>1
  <2>3. QED
    BY <2>1, <2>2 DEF Entry, Node
<1>5. /\ next' = Touched(e).nx /\ prev' = Touched(e).pv
      /\ Hit(b, e) \/ Load(b, e, ok)
      /\ recent' = Remember(b, e)
      /\ UNCHANGED <<phase, fs, shift, n>>
  BY <1>2 DEF GetCache
<1>6. Touched(e) = MovedToEnd(ring, e)
  <2>1. next[e] # NULL
    BY <1>3, <1>4 DEF Follows, Node, NULL
  <2>2. QED
    BY <2>1 DEF Touched
<1>7. Order(u, n) /\ Follows(next', prev', u, n)
  <2>1. Follows(ring.nx, ring.pv, o, n)
    BY <1>3 DEF ring
  <2>2. QED
    BY <1>0, <1>3, <1>5, <1>6, <2>1, UsedOrder, MovedFollows
<1>8. RingOk(next', prev', n) /\ next' \in [0 .. n -> 0 .. n] /\ prev' \in [0 .. n -> 0 .. n]
  BY <1>3, <1>7, FollowsRing DEF Follows
<1>9. /\ block' = [block EXCEPT ![e] = b]
      /\ ret'.entry = e
      /\ \/ data' = data /\ failed' = failed /\ block[e] = b
         \/ data' = [data EXCEPT ![e] = b] /\ failed' = failed \ {b}
         \/ \E d \in {data[e], Junk} : data' = [data EXCEPT ![e] = d] /\ failed' = failed \cup {b}
  <2>1. CASE Hit(b, e)
    BY <1>3, <1>4, <2>1 DEF Hit, Result
  <2>2. CASE Load(b, e, ok)
    <3> HIDE DEF e
    <3>1. PICK d \in (IF ok THEN {b} ELSE {data[e], Junk}) :
            /\ block' = [block EXCEPT ![e] = b] /\ data' = [data EXCEPT ![e] = d]
            /\ failed' = IF ok THEN failed \ {b} ELSE failed \cup {b}
            /\ ret' = Result(b, e, d, ok)
      BY <2>2 DEF Load
    <3>2. ret'.entry = e
      BY <3>1 DEF Result
    <3>3. CASE ok
      BY <3>1, <3>2, <3>3
    <3>4. CASE ~ ok
      BY <3>1, <3>2, <3>4
    <3>5. QED
      BY <3>3, <3>4
  <2>3. QED
    BY <1>5, <2>1, <2>2
<1> HIDE DEF e
<1>10. /\ block' \in [Node -> Block \cup {NoBlock}] /\ data' \in [Entry -> Block \cup {Junk, Zero}]
       /\ block'[e] = b /\ \A f \in Entry \ {e} : block'[f] = block[f]
       /\ \A f \in Entry \ {e} : data'[f] = data[f]
  <2>1. data' \in [Entry -> Block \cup {Junk, Zero}] /\ \A f \in Entry \ {e} : data'[f] = data[f]
    BY <1>3, <1>4, <1>9
  <2>2. \A f \in Entry : f \in Node
    BY <1>3 DEF Entry, Node
  <2>3. QED
    BY <1>3, <1>4, <1>9, <2>1, <2>2
<1>11. TypeOK'
  BY <1>5, <1>8, <1>10 DEF IInv, TypeOK, Node, Entry
<1>12. SizeInv' /\ RetInv'
  <2>1. SizeInv'
    BY <1>5 DEF IInv, SizeInv, CacheEntries
  <2>2. e # 0
    BY <1>3, <1>4 DEF Entry
  <2>3. QED
    BY <1>9, <2>1, <2>2 DEF RetInv, cache_head
<1>13. \A f \in Entry \ {e} : block[f] # b
  <2>1. CASE Holding(b) = {}
    BY <2>1 DEF Holding
  <2>2. CASE Holding(b) # {}
    <3>1. block[e] = b /\ b # NoBlock
      BY <1>2, <2>2, CacheAssumption DEF e, NoBlock
    <3>2. QED
      BY <1>4, <3>1 DEF IInv, RingInv, Mounted
  <2>3. QED
    BY <2>1, <2>2
<1>14. RingInv'
  <2>1. Locked' = {} /\ Node' = 0 .. n /\ Entry' = Entry
    <3>1. Node' = 0 .. n /\ Entry' = 1 .. n /\ Entry = 1 .. n
      BY <1>5 DEF Node, Entry
    <3>2. \A f \in 1 .. n : next'[f] # NULL
      <4>1. n \in Nat /\ \A f \in 0 .. n : next'[f] \in 0 .. n
        BY <1>3, <1>8
      <4>2. QED
        BY <4>1, SMTT(30) DEF NULL
    <3>3. QED
      BY <3>1, <3>2 DEF Locked
  <2>2. ASSUME NEW x \in Entry, NEW y \in Entry, block'[x] = block'[y]
        PROVE  x = y \/ block'[x] = NoBlock
    <3>1. CASE x = e \/ y = e
      BY <1>10, <1>13, <2>2, <3>1
    <3>2. CASE x # e /\ y # e
      BY <1>10, <2>2, <3>2 DEF IInv, RingInv, Mounted
    <3>3. QED
      BY <3>1, <3>2
  <2>3. QED
    BY <1>8, <1>12, <2>1, <2>2 DEF RingInv, RetInv, RingOk
<1>15. Remembers(u)'
  <2>1. Remembers(Used(o, n, k))'
    BY <1>1, <1>2, <1>5, <1>10, HistoryInv DEF e
  <2>2. QED
    BY <1>0, <1>5, <2>1
<1>16. PointerStaysValid'
  BY <1>15 DEF PointerStaysValid, Remembers
<1>17. DataMatchesBlock'
  <2>1. SUFFICES ASSUME NEW f \in Entry, block'[f] \in Block \ failed' PROVE data'[f] = block'[f]
    BY <1>5 DEF DataMatchesBlock, Entry
  <2>2. CASE f = e
    <3>1. b \in Block \ failed'
      BY <1>10, <2>1, <2>2
    <3>2. CASE data' = data /\ failed' = failed /\ block[e] = b
      BY <1>4, <1>10, <2>2, <3>1, <3>2 DEF IInv, DataMatchesBlock, Mounted
    <3>3. CASE data' = [data EXCEPT ![e] = b]
      BY <1>3, <1>4, <1>10, <2>2, <3>3
    <3>4. QED
      BY <1>9, <3>1, <3>2, <3>3
  <2>3. CASE f # e
    <3>1. block'[f] = block[f] /\ data'[f] = data[f] /\ block[f] # b
      BY <1>10, <1>13, <2>3
    <3>2. block[f] \in Block \ failed
      BY <1>9, <2>1, <3>1
    <3>3. QED
      BY <3>1, <3>2 DEF IInv, DataMatchesBlock, Mounted
  <2>4. QED
    BY <2>2, <2>3
<1>18. LruInv'
  <2>1. u \in [0 .. n + 1 -> 0 .. n] /\ LruOrder(u)'
    BY <1>5, <1>7, <1>15 DEF LruOrder, Order
  <2>2. QED
    BY <1>5, <2>1 DEF LruInv
<1>19. QED
  BY <1>11, <1>12, <1>14, <1>16, <1>17, <1>18 DEF IInv

\* Every step preserves the invariant.
LEMMA NextInv == ASSUME IInv, [Next]_vars PROVE IInv'
<1>1. ASSUME NEW k \in Shifts, PlainFsInit(k) \/ Ext2FsInit(k) \/ BtrfsFsInit(k) PROVE IInv'
  BY <1>1, MountInv, Ext2Inv
<1>2. ASSUME NEW b \in Block, NEW ok \in BOOLEAN, ProbeRead(b, ok) \/ Read(b, ok) PROVE IInv'
  BY <1>2, GetCacheInv DEF ProbeRead, Read
<1>3. CASE ProbeGood \/ ProbeBad \/ Hang \/ UNCHANGED vars
  BY <1>3, QuietInv
<1>4. CASE FsInit
  BY <1>4, MountInv
<1>5. QED
  BY <1>1, <1>2, <1>3, <1>4 DEF Next

-----------------------------------------------------------------------------
(* The theorems. *)

\* The inductive invariant holds in every reachable state.
LEMMA InvAlways == Spec => []IInv
<1>1. Init => IInv
  BY InitInv
<1>2. IInv /\ [Next]_vars => IInv'
  BY NextInv
<1>3. QED
  BY <1>1, <1>2, PTL DEF Spec

\* Links, block numbers and data areas stay in their ranges, also when fs_init
\* sets the cache up again over data areas that are in use.
THEOREM CacheTypeCorrect == Spec => []TypeOK
<1>1. IInv => TypeOK
  BY DEF IInv
<1>2. QED
  BY <1>1, InvAlways, PTL

\* cache.c:82-104: the head and the unlocked descriptors are always one doubly
\* linked ring, and no block is cached twice.
THEOREM RingAlwaysLinked == Spec => []RingInv
<1>1. IInv => RingInv
  BY DEF IInv
<1>2. QED
  BY <1>1, InvAlways, PTL

\* cache.c:94-103: a pointer that get_cache returned stays good until as many
\* other blocks as there are descriptors have been asked for, for every size
\* of the cache: the ring is in the order of the requests.
THEOREM PointersStayValid == Spec => []PointerStaysValid
<1>1. IInv => PointerStaysValid
  BY DEF IInv
<1>2. QED
  BY <1>1, InvAlways, PTL

\* cache.c:119-122: the data of a descriptor belongs to its block, unless the
\* last read of that block failed.
THEOREM DataBelongsToBlock == Spec => []DataMatchesBlock
<1>1. IInv => DataMatchesBlock
  BY DEF IInv
<1>2. QED
  BY <1>1, InvAlways, PTL

=============================================================================
